--------------------------- MODULE AudioJobProofs ---------------------------
(***************************************************************************)
(* Proofs about AudioJob, for any sets of jobs and workers and any batch   *)
(* size: one worker at most is ever on a job, the reconcile takes no job   *)
(* from its worker, and the job implements the lifecycle of module         *)
(* JobLifecycle.                                                           *)
(*                                                                         *)
(* OneGenerator is not inductive. That a claim cannot meet another worker  *)
(* rests on the row: a job some worker is on has left PENDING for good,    *)
(* and a job in PENDING has not been attempted.  SentInv adds what         *)
(* PendingIsResolved rests on.                                             *)
(***************************************************************************)
EXTENDS AudioJob, TLAPS

\* The row exists exactly when the handler that files the job has begun.
FiledInv == \A j \in Jobs : enqueuer[j] = "ready" <=> status[j] = "ABSENT"

\* A job that nobody claimed was not attempted, and none twice.
AttemptInv ==
  \A j \in Jobs :
    /\ status[j] \in {"ABSENT", "PENDING"} => attempts[j] = 0
    /\ attempts[j] <= 1

\* A worker that is busy is on a job that has left PENDING, alone.
WorkerInv ==
  /\ \A w \in Workers :
       /\ worker[w].pc # "idle" => worker[w].job \in Jobs
       /\ worker[w].job # None => status[worker[w].job] \in {"PROCESSING", "COMPLETED", "FAILED"}
  /\ \A v, w \in Workers : worker[v].job = worker[w].job /\ worker[v].job # None => v = w

IInv == TypeOK /\ FiledInv /\ AttemptInv /\ WorkerInv

-----------------------------------------------------------------------------
\* A conditional update moves the status of one job, if it moves any.
LEMMA UpdateStatusEffect ==
  ASSUME TypeOK, NEW j \in Jobs, NEW from, NEW to \in Status, UpdateStatus(j, from, to)
  PROVE  /\ status' \in [Jobs -> Status]
         /\ \A i \in Jobs : i # j => status'[i] = status[i]
         /\ status[j] \in from => status'[j] = to /\ status' = [status EXCEPT ![j] = to]
         /\ status[j] \notin from => status' = status
  BY DEF UpdateStatus, TypeOK

\* The initial states satisfy the invariant.
LEMMA InitIInv == Init => IInv
<1> SUFFICES ASSUME Init PROVE IInv
  OBVIOUS
<1> USE DEF Init
<1>1. TypeOK
  BY DEF TypeOK, Status, EnqueuerPC, Worker, Waiting
<1>2. FiledInv /\ AttemptInv /\ WorkerInv
  BY DEF FiledInv, AttemptInv, WorkerInv, Waiting
<1>3. QED
  BY <1>1, <1>2 DEF IInv

\* A move of one job out of a status in which workers may be on it leaves the
\* invariant alone, provided the move is to FAILED or COMPLETED.
LEMMA EndPreserves ==
  ASSUME IInv, NEW j \in Jobs, NEW from \in SUBSET {"PENDING", "PROCESSING"},
         NEW to \in Terminal, UpdateStatus(j, from, to), UNCHANGED <<attempts, enqueuer>>
  PROVE  /\ status' \in [Jobs -> Status]
         /\ FiledInv' /\ AttemptInv'
         /\ \A i \in Jobs : status[i] \in {"PROCESSING", "COMPLETED", "FAILED"}
                              => status'[i] \in {"PROCESSING", "COMPLETED", "FAILED"}
<1>1. to \in Status
  BY DEF Terminal, Status
<1>2. /\ status' \in [Jobs -> Status]
      /\ \A i \in Jobs : i # j => status'[i] = status[i]
      /\ status[j] \in from => status'[j] = to
      /\ status[j] \notin from => status' = status
  BY <1>1, UpdateStatusEffect DEF IInv
<1>3. FiledInv'
  BY <1>2 DEF IInv, FiledInv, Terminal
<1>4. AttemptInv'
  BY <1>2 DEF IInv, AttemptInv, TypeOK, Terminal
<1>5. QED
  BY <1>2, <1>3, <1>4 DEF Terminal

\* Every step preserves the invariant.
LEMMA NextIInv == IInv /\ [Next]_vars => IInv'
<1> SUFFICES ASSUME IInv, [Next]_vars PROVE IInv'
  OBVIOUS
<1>1. ASSUME NEW j \in Jobs, create_audio_job(j) PROVE IInv'
  <2> USE <1>1 DEF create_audio_job
  <2>1. status[j] = "ABSENT"
    BY DEF IInv, FiledInv
  <2>2. TypeOK'
    BY DEF IInv, TypeOK, Status, EnqueuerPC
  <2>3. FiledInv' /\ AttemptInv'
    BY <2>1 DEF IInv, TypeOK, FiledInv, AttemptInv
  <2>4. WorkerInv'
    BY <2>1 DEF IInv, TypeOK, WorkerInv, Worker
  <2>5. QED
    BY <2>2, <2>3, <2>4 DEF IInv
<1>2. ASSUME NEW j \in Jobs,
             SendSucceeds(j) \/ SendRaises(j) \/ update_audio_job_sqs_message_id(j)
               \/ EnqueuerDies(j)
      PROVE IInv'
  <2>1. /\ UNCHANGED <<status, attempts, expired, listed, worker>>
        /\ recorded' \subseteq Jobs /\ sent' \subseteq Jobs
        /\ enqueuer[j] # "ready"
        /\ \E pc \in EnqueuerPC \ {"ready"} : enqueuer' = [enqueuer EXCEPT ![j] = pc]
    BY <1>2 DEF SendSucceeds, SendRaises, update_audio_job_sqs_message_id, EnqueuerDies,
                row, IInv, TypeOK, EnqueuerPC
  <2>2. TypeOK'
    BY <2>1 DEF IInv, TypeOK
  <2>3. FiledInv'
    BY <2>1 DEF IInv, TypeOK, FiledInv
  <2>4. AttemptInv' /\ WorkerInv'
    BY <2>1 DEF IInv, AttemptInv, WorkerInv
  <2>5. QED
    BY <2>2, <2>3, <2>4 DEF IInv
<1>3. ASSUME NEW j \in Jobs, FailUnsent(j) PROVE IInv'
  <2> USE <1>3 DEF FailUnsent
  <2>1. UpdateStatus(j, {"PENDING", "PROCESSING"}, "FAILED")
    BY DEF mark_audio_job_failed
  <2>2. /\ status' \in [Jobs -> Status]
        /\ \A i \in Jobs : status[i] = "ABSENT" <=> status'[i] = "ABSENT"
        /\ \A i \in Jobs : status'[i] = "PENDING" => status[i] = "PENDING"
        /\ \A i \in Jobs : status[i] \in {"PROCESSING", "COMPLETED", "FAILED"}
                             => status'[i] \in {"PROCESSING", "COMPLETED", "FAILED"}
    BY <2>1 DEF UpdateStatus, IInv, TypeOK, Status
  <2>3. TypeOK'
    BY <2>2 DEF IInv, TypeOK, EnqueuerPC
  <2>4. FiledInv' /\ AttemptInv'
    BY <2>2 DEF IInv, TypeOK, FiledInv, AttemptInv
  <2>5. WorkerInv'
    BY <2>2 DEF IInv, TypeOK, WorkerInv, Worker
  <2>6. QED
    BY <2>3, <2>4, <2>5 DEF IInv
<1>4. ASSUME NEW j \in Jobs, ReconcileFail(j) PROVE IInv'
  <2> USE <1>4 DEF ReconcileFail
  <2>1. UpdateStatus(j, {"PENDING"}, "FAILED")
    BY DEF mark_audio_job_failed
  <2>2. /\ status' \in [Jobs -> Status] /\ FiledInv' /\ AttemptInv'
        /\ \A i \in Jobs : status[i] \in {"PROCESSING", "COMPLETED", "FAILED"}
                             => status'[i] \in {"PROCESSING", "COMPLETED", "FAILED"}
    BY <2>1, EndPreserves DEF Terminal
  <2>3. TypeOK'
    BY <2>2 DEF IInv, TypeOK
  <2>4. WorkerInv'
    BY <2>2 DEF IInv, TypeOK, WorkerInv, Worker
  <2>5. QED
    BY <2>2, <2>3, <2>4 DEF IInv
<1>5. ASSUME NEW j \in Jobs, GraceEnds(j) PROVE IInv'
  BY <1>5 DEF GraceEnds, row, IInv, TypeOK, FiledInv, AttemptInv, WorkerInv
<1>6. CASE list_undispatched_pending_audio_jobs \/ ReconcileDies
  <2>1. UNCHANGED <<status, attempts, recorded, expired, enqueuer, sent, worker>>
        /\ listed' \subseteq Jobs
    BY <1>6 DEF list_undispatched_pending_audio_jobs, ReconcileDies, row, Undispatched,
                IInv, TypeOK
  <2>2. QED
    BY <2>1 DEF IInv, TypeOK, FiledInv, AttemptInv, WorkerInv
<1>7. ASSUME NEW w \in Workers, NEW j \in Jobs, Claim(w, j) PROVE IInv'
  <2> USE <1>7, AudioJobAssumption DEF Claim, mark_audio_job_processing
  <2>1. TypeOK'
    BY DEF IInv, TypeOK, Status, Worker, AttemptInv
  <2>2. FiledInv' /\ AttemptInv'
    BY DEF IInv, TypeOK, FiledInv, AttemptInv
  <2>3. \A v \in Workers : worker[v].job # j
    BY DEF IInv, WorkerInv
  <2>4. WorkerInv'
    BY <2>3 DEF IInv, TypeOK, WorkerInv, Worker
  <2>5. QED
    BY <2>1, <2>2, <2>4 DEF IInv
<1>8. ASSUME NEW w \in Workers, ClaimAnswered(w) \/ WorkerDies(w) PROVE IInv'
  <2>1. /\ UNCHANGED <<status, attempts, recorded, expired, enqueuer, sent, listed>>
        /\ worker[w].pc # "idle"
        /\ \/ worker' = [worker EXCEPT ![w] = Waiting]
           \/ worker' = [worker EXCEPT ![w] = [worker[w] EXCEPT !.pc = "generating"]]
    BY <1>8 DEF ClaimAnswered, WorkerDies, row, IInv, TypeOK
  <2>2. TypeOK'
    BY <2>1 DEF IInv, TypeOK, Worker, Waiting
  <2>3. WorkerInv'
    BY <2>1 DEF IInv, TypeOK, WorkerInv, Worker, Waiting
  <2>4. QED
    BY <2>1, <2>2, <2>3 DEF IInv, FiledInv, AttemptInv
<1>9. ASSUME NEW w \in Workers, WorkerReports(w) PROVE IInv'
  <2> USE <1>9 DEF WorkerReports
  <2>1. worker[w].job \in Jobs
    BY DEF IInv, WorkerInv
  <2>2. \E to \in Terminal : UpdateStatus(worker[w].job, {"PROCESSING"}, to)
    BY DEF mark_audio_job_completed, mark_audio_job_failed, Terminal
  <2>3. /\ status' \in [Jobs -> Status] /\ FiledInv' /\ AttemptInv'
        /\ \A i \in Jobs : status[i] \in {"PROCESSING", "COMPLETED", "FAILED"}
                             => status'[i] \in {"PROCESSING", "COMPLETED", "FAILED"}
    BY <2>1, <2>2, EndPreserves
  <2>4. TypeOK'
    BY <2>3 DEF IInv, TypeOK, Worker, Waiting
  <2>5. WorkerInv'
    BY <2>3 DEF IInv, TypeOK, WorkerInv, Worker, Waiting
  <2>6. QED
    BY <2>3, <2>4, <2>5 DEF IInv
<1>10. CASE UNCHANGED vars
  BY <1>10 DEF vars, IInv, TypeOK, FiledInv, AttemptInv, WorkerInv
<1>11. QED
  BY <1>1, <1>2, <1>3, <1>4, <1>5, <1>6, <1>7, <1>8, <1>9, <1>10 DEF Next, Enqueue

\* Every reachable state satisfies the invariant.
THEOREM Invariance == Spec => []IInv
<1>1. Init => IInv
  BY InitIInv
<1>2. IInv /\ [Next]_vars => IInv'
  BY NextIInv
<1>3. QED
  BY <1>1, <1>2, PTL DEF Spec

\* Every variable always has its type.
THEOREM TypeCorrect == Spec => []TypeOK
<1>1. IInv => TypeOK
  BY DEF IInv
<1>2. QED
  BY <1>1, Invariance, PTL

\* Duplicate deliveries of a message never put two workers on one job, nor
\* count a second attempt (mark_audio_job_processing).
THEOREM OneWorkerPerJob == Spec => []OneGenerator
<1>1. IInv => OneGenerator
  BY DEF IInv, OneGenerator, WorkerInv, AttemptInv
<1>2. QED
  BY <1>1, Invariance, PTL

-----------------------------------------------------------------------------
\* Every step of the job is a step of its lifecycle, or none.
LEMMA StepRefines == IInv /\ [Next]_vars => [Lifecycle!Next]_(Lifecycle!vars)
<1> SUFFICES ASSUME IInv, [Next]_vars PROVE [Lifecycle!Next]_(Lifecycle!vars)
  OBVIOUS
<1> USE DEF Lifecycle!Next, Lifecycle!vars, Lifecycle!Create, Lifecycle!Take,
            Lifecycle!Complete, Lifecycle!Fail, Lifecycle!Move
<1>1. ASSUME NEW j \in Jobs, create_audio_job(j) PROVE Lifecycle!Next
  BY <1>1 DEF create_audio_job, IInv, FiledInv
<1>2. ASSUME NEW j \in Jobs,
             SendSucceeds(j) \/ SendRaises(j) \/ update_audio_job_sqs_message_id(j)
               \/ EnqueuerDies(j) \/ GraceEnds(j)
      PROVE UNCHANGED <<status, attempts>>
  BY <1>2 DEF SendSucceeds, SendRaises, update_audio_job_sqs_message_id, EnqueuerDies,
              GraceEnds, row
<1>3. ASSUME NEW j \in Jobs, NEW from \in SUBSET {"PENDING", "PROCESSING"},
             UpdateStatus(j, from, "FAILED"), UNCHANGED attempts
      PROVE  Lifecycle!Next \/ UNCHANGED <<status, attempts>>
  BY <1>3 DEF UpdateStatus
<1>4. ASSUME NEW j \in Jobs, UpdateStatus(j, {"PROCESSING"}, "COMPLETED"), UNCHANGED attempts
      PROVE  Lifecycle!Next \/ UNCHANGED <<status, attempts>>
  BY <1>4 DEF UpdateStatus
<1>5. ASSUME NEW j \in Jobs, FailUnsent(j) \/ ReconcileFail(j)
      PROVE  Lifecycle!Next \/ UNCHANGED <<status, attempts>>
  BY <1>3, <1>5 DEF FailUnsent, ReconcileFail, mark_audio_job_failed
<1>6. CASE list_undispatched_pending_audio_jobs \/ ReconcileDies
  BY <1>6 DEF list_undispatched_pending_audio_jobs, ReconcileDies, row
<1>7. ASSUME NEW w \in Workers, NEW j \in Jobs, Claim(w, j) PROVE Lifecycle!Next
  BY <1>7 DEF Claim, mark_audio_job_processing
<1>8. ASSUME NEW w \in Workers, ClaimAnswered(w) \/ WorkerDies(w)
      PROVE  UNCHANGED <<status, attempts>>
  BY <1>8 DEF ClaimAnswered, WorkerDies, row
<1>9. ASSUME NEW w \in Workers, WorkerReports(w)
      PROVE  Lifecycle!Next \/ UNCHANGED <<status, attempts>>
  <2>1. worker[w].job \in Jobs
    BY <1>9 DEF WorkerReports, IInv, WorkerInv
  <2>2. QED
    BY <1>3, <1>4, <1>9, <2>1 DEF WorkerReports, mark_audio_job_completed, mark_audio_job_failed
<1>10. CASE UNCHANGED vars
  BY <1>10 DEF vars
<1>11. QED
  BY <1>1, <1>2, <1>5, <1>6, <1>7, <1>8, <1>9, <1>10 DEF Next, Enqueue

\* The audio job, with its crashes, lost and repeated messages, implements the
\* lifecycle a poller of the job relies on.
THEOREM Refinement == Spec => ImplementsLifecycle
<1>1. Init => Lifecycle!Init
  BY DEF Init, Lifecycle!Init
<1>2. IInv /\ [Next]_vars => [Lifecycle!Next]_(Lifecycle!vars)
  BY StepRefines
<1>3. QED
  BY <1>1, <1>2, Invariance, PTL DEF Spec, ImplementsLifecycle, Lifecycle!Spec

-----------------------------------------------------------------------------
\* However long ago the reconcile listed a job, dropping it from the list leaves
\* a worker that has claimed it since on the job: only ReconcileFail and the end
\* of the process drop it, and the status is looked at again.
THEOREM WorkersAreSpared == Spec => ReconcileSparesWorkers
<1> DEFINE Spares == \A j \in Jobs :
                       (j \in listed /\ j \notin listed' /\ status[j] = "PROCESSING")
                         => status'[j] = "PROCESSING"
<1>1. IInv /\ [Next]_vars => [Spares]_<<listed>>
  <2> SUFFICES ASSUME IInv, Next, listed' # listed, NEW j \in Jobs,
                      j \in listed, j \notin listed', status[j] = "PROCESSING"
               PROVE  status'[j] = "PROCESSING"
    BY DEF vars
  <2>1. \/ list_undispatched_pending_audio_jobs \/ ReconcileDies
        \/ \E i \in Jobs : ReconcileFail(i)
    BY DEF Next, Enqueue, create_audio_job, SendSucceeds, SendRaises,
           update_audio_job_sqs_message_id, FailUnsent, EnqueuerDies, GraceEnds,
           Claim, ClaimAnswered, WorkerReports, WorkerDies
  <2>2. CASE list_undispatched_pending_audio_jobs \/ ReconcileDies
    BY <2>2 DEF list_undispatched_pending_audio_jobs, ReconcileDies, row
  <2>3. ASSUME NEW i \in Jobs, ReconcileFail(i) PROVE status'[j] = "PROCESSING"
    BY <2>3 DEF ReconcileFail, mark_audio_job_failed, UpdateStatus, IInv, TypeOK
  <2> QED BY <2>1, <2>2, <2>3
<1> QED BY <1>1, Invariance, PTL DEF Spec, ReconcileSparesWorkers

-----------------------------------------------------------------------------
\* What PendingIsResolved rests on: an id is recorded after the message is sent.
SentInv ==
  /\ \A j \in Jobs : enqueuer[j] = "record" => j \in sent
  /\ recorded \subseteq sent

\* A filed job that has neither been claimed nor failed is in reach of somebody: its
\* message is in the queue, or it has no message id and the reconcile will list it
\* once its grace period is over, wherever its handler died.
THEOREM PendingIsInReach ==
  Spec => [](\A j \in Jobs : status[j] = "PENDING" =>
               \/ j \in sent
               \/ j \in Undispatched \/ (j \notin recorded /\ j \notin expired))
<1>1. Init => SentInv
  BY DEF Init, SentInv
<1>2. IInv /\ SentInv /\ [Next]_vars => SentInv'
  <2> SUFFICES ASSUME IInv, SentInv, [Next]_vars PROVE SentInv'
    OBVIOUS
  <2>0. enqueuer \in [Jobs -> EnqueuerPC]
    BY DEF IInv, TypeOK
  <2>1. ASSUME NEW j \in Jobs, create_audio_job(j) \/ Enqueue(j) PROVE SentInv'
    BY <2>0, <2>1 DEF SentInv, create_audio_job, Enqueue, SendSucceeds, SendRaises,
         update_audio_job_sqs_message_id, FailUnsent, EnqueuerDies, row
  <2>2. \/ UNCHANGED <<enqueuer, recorded, sent>>
        \/ \E j \in Jobs : create_audio_job(j) \/ Enqueue(j)
    BY DEF Next, GraceEnds, ReconcileFail, list_undispatched_pending_audio_jobs,
           ReconcileDies, ClaimAnswered, WorkerReports, WorkerDies, Claim, row, vars
  <2>3. CASE UNCHANGED <<enqueuer, recorded, sent>>
    BY <2>3 DEF SentInv
  <2> QED BY <2>1, <2>2, <2>3
<1>3. SentInv => \A j \in Jobs : status[j] = "PENDING" =>
                   \/ j \in sent
                   \/ j \in Undispatched \/ (j \notin recorded /\ j \notin expired)
  BY DEF SentInv, Undispatched
<1> QED BY <1>1, <1>2, <1>3, Invariance, PTL DEF Spec
=============================================================================
