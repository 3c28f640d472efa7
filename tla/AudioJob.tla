------------------------------ MODULE AudioJob ------------------------------
(***************************************************************************)
(* An audio generation job from the request that files it to its end.      *)
(*                                                                         *)
(* The enqueuing handler commits the job row, sends a message to SQS and   *)
(* records the message id, each in a step of its own that the process may  *)
(* not live to take.  A scheduled reconcile fails the jobs that never got  *)
(* an id.  Workers outside this repository receive the message, as often   *)
(* as SQS delivers it, and report over the internal PATCH endpoint.        *)
(***************************************************************************)
EXTENDS Naturals, FiniteSets

CONSTANTS Jobs,
          Workers,    \* consumers of the queue; they run outside the server
          BatchSize,  \* AUDIO_JOB_DISPATCH_RECONCILE_BATCH_SIZE, at least 1
          None

ASSUME AudioJobAssumption == BatchSize \in Nat \ {0} /\ None \notin Jobs

VARIABLES
  status,     \* audio_jobs.status, or "ABSENT" while the row is not there
  attempts,   \* audio_jobs.attempt_count
  recorded,   \* jobs whose sqs_message_id is set
  expired,    \* jobs older than the grace period of the reconcile
  enqueuer,   \* where the handler that files the job stands
  sent,       \* jobs whose message reached SQS
  listed,     \* jobs a reconcile run has listed and not come to yet
  worker      \* the job each worker is on

row == <<status, attempts, recorded>>
vars == <<status, attempts, recorded, expired, enqueuer, sent, listed, worker>>

Status == {"ABSENT", "PENDING", "PROCESSING", "COMPLETED", "FAILED"}
Terminal == {"COMPLETED", "FAILED"}
EnqueuerPC == {"ready", "send", "record", "fail", "done"}
\* A worker claims, reads the answer to its claim, and generates.
Worker == [pc : {"idle", "claimed", "generating"}, job : Jobs \cup {None}]
Waiting == [pc |-> "idle", job |-> None]

Init ==
  /\ status = [j \in Jobs |-> "ABSENT"]
  /\ attempts = [j \in Jobs |-> 0]
  /\ recorded = {} /\ expired = {} /\ sent = {} /\ listed = {}
  /\ enqueuer = [j \in Jobs |-> "ready"]
  /\ worker = [w \in Workers |-> Waiting]

-----------------------------------------------------------------------------
(* The conditional updates of audio_job_repository: one UPDATE ... WHERE    *)
(* status IN from, which does nothing when another call was first.          *)

UpdateStatus(j, from, to) ==
  status' = IF status[j] \in from THEN [status EXCEPT ![j] = to] ELSE status

\* Mutant: the claim does not look at the status.
mark_audio_job_processing_anyStatus(j) ==
  /\ status[j] # "ABSENT"
  /\ status' = [status EXCEPT ![j] = "PROCESSING"]
  /\ attempts' = [attempts EXCEPT ![j] = @ + 1]

mark_audio_job_processing(j) ==
  /\ status[j] = "PENDING"
  /\ status' = [status EXCEPT ![j] = "PROCESSING"]
  /\ attempts' = [attempts EXCEPT ![j] = @ + 1]

\* Mutant: a job that has ended may be completed.
mark_audio_job_completed_anyStatus(j) == UpdateStatus(j, Status, "COMPLETED")

\* Mutant: the status written is none that a poller knows.
mark_audio_job_completed_unknown(j) == UpdateStatus(j, {"PROCESSING"}, "SUCCEEDED")

mark_audio_job_completed(j) == UpdateStatus(j, {"PROCESSING"}, "COMPLETED")

mark_audio_job_failed(j, expected) == UpdateStatus(j, expected, "FAILED")

-----------------------------------------------------------------------------
(* enqueue_plan_audio_job *)

create_audio_job(j) ==
  /\ enqueuer[j] = "ready"
  /\ status' = [status EXCEPT ![j] = "PENDING"]
  /\ enqueuer' = [enqueuer EXCEPT ![j] = "send"]
  /\ UNCHANGED <<attempts, recorded, expired, sent, listed, worker>>

SendSucceeds(j) ==
  /\ enqueuer[j] = "send"
  /\ sent' = sent \cup {j}
  /\ enqueuer' = [enqueuer EXCEPT ![j] = "record"]
  /\ UNCHANGED <<row, expired, listed, worker>>

\* The queue is not configured or the call fails; a call that timed out may
\* have delivered the message all the same.
SendRaises(j) ==
  /\ enqueuer[j] = "send"
  /\ sent' \in {sent, sent \cup {j}}
  /\ enqueuer' = [enqueuer EXCEPT ![j] = "fail"]
  /\ UNCHANGED <<row, expired, listed, worker>>

update_audio_job_sqs_message_id(j) ==
  /\ enqueuer[j] = "record"
  /\ recorded' = recorded \cup {j}
  /\ enqueuer' = [enqueuer EXCEPT ![j] = "done"]
  /\ UNCHANGED <<status, attempts, expired, sent, listed, worker>>

FailUnsent(j) ==
  /\ enqueuer[j] = "fail"
  /\ mark_audio_job_failed(j, {"PENDING", "PROCESSING"})
  /\ enqueuer' = [enqueuer EXCEPT ![j] = "done"]
  /\ UNCHANGED <<attempts, recorded, expired, sent, listed, worker>>

\* The process dies, or the database refuses the transaction that follows.
EnqueuerDies(j) ==
  /\ enqueuer[j] \in {"send", "record", "fail"}
  /\ enqueuer' = [enqueuer EXCEPT ![j] = "done"]
  /\ UNCHANGED <<row, expired, sent, listed, worker>>

-----------------------------------------------------------------------------
(* reconcile_undispatched_audio_jobs, in the scheduler of any process       *)

GraceEnds(j) ==
  /\ status[j] # "ABSENT" /\ j \notin expired
  /\ expired' = expired \cup {j}
  /\ UNCHANGED <<row, enqueuer, sent, listed, worker>>

\* Mutant: the test for a missing id is turned round.
Undispatched_recordedOnly ==
  {j \in Jobs : status[j] = "PENDING" /\ j \in recorded /\ j \in expired}

Undispatched ==
  {j \in Jobs : status[j] = "PENDING" /\ j \notin recorded /\ j \in expired}

\* The oldest BatchSize of them; which are the oldest is left open.
list_undispatched_pending_audio_jobs ==
  /\ \E batch \in SUBSET (Undispatched \ listed) :
       /\ batch # {} /\ Cardinality(batch) <= BatchSize
       /\ listed' = listed \cup batch
  /\ UNCHANGED <<row, expired, enqueuer, sent, worker>>

\* Mutant: every job that has not ended is failed.
ReconcileFail_processingToo(j) ==
  /\ j \in listed
  /\ mark_audio_job_failed(j, {"PENDING", "PROCESSING"})
  /\ listed' = listed \ {j}
  /\ UNCHANGED <<attempts, recorded, expired, enqueuer, sent, worker>>

ReconcileFail(j) ==
  /\ j \in listed
  /\ mark_audio_job_failed(j, {"PENDING"})
  /\ listed' = listed \ {j}
  /\ UNCHANGED <<attempts, recorded, expired, enqueuer, sent, worker>>

\* The process that listed them goes down.
ReconcileDies ==
  /\ listed # {}
  /\ listed' = {}
  /\ UNCHANGED <<row, expired, enqueuer, sent, worker>>

-----------------------------------------------------------------------------
(* Workers, and the PATCH endpoint they call.  A claim that is refused      *)
(* (409, or the echo of a terminal status) changes nothing.                 *)

Claim(w, j) ==
  /\ worker[w].pc = "idle" /\ j \in sent
  /\ mark_audio_job_processing(j)
  /\ worker' = [worker EXCEPT ![w] = [pc |-> "claimed", job |-> j]]
  /\ UNCHANGED <<recorded, expired, enqueuer, sent, listed>>

\* The answer is read after the claim is committed, and may be FAILED by then.
ClaimAnswered(w) ==
  /\ worker[w].pc = "claimed"
  /\ worker' = [worker EXCEPT ![w] = IF status[worker[w].job] \in Terminal THEN Waiting
                                     ELSE [@ EXCEPT !.pc = "generating"]]
  /\ UNCHANGED <<row, expired, enqueuer, sent, listed>>

WorkerReports(w) ==
  /\ worker[w].pc = "generating"
  /\ \/ mark_audio_job_completed(worker[w].job)
     \/ mark_audio_job_failed(worker[w].job, {"PROCESSING"})
  /\ worker' = [worker EXCEPT ![w] = Waiting]
  /\ UNCHANGED <<attempts, recorded, expired, enqueuer, sent, listed>>

\* A worker that dies, or loses the answer to its claim, drops the job.
WorkerDies(w) ==
  /\ worker[w].pc # "idle"
  /\ worker' = [worker EXCEPT ![w] = Waiting]
  /\ UNCHANGED <<row, expired, enqueuer, sent, listed>>

-----------------------------------------------------------------------------
Enqueue(j) ==
  \/ SendSucceeds(j) \/ SendRaises(j)
  \/ update_audio_job_sqs_message_id(j) \/ FailUnsent(j) \/ EnqueuerDies(j)

Next ==
  \/ \E j \in Jobs : create_audio_job(j) \/ Enqueue(j) \/ GraceEnds(j) \/ ReconcileFail(j)
  \/ list_undispatched_pending_audio_jobs \/ ReconcileDies
  \/ \E w \in Workers : ClaimAnswered(w) \/ WorkerReports(w) \/ WorkerDies(w)
  \/ \E w \in Workers, j \in Jobs : Claim(w, j)

Spec == Init /\ [][Next]_vars

(* A handler goes on or dies; the scheduler runs its job on every interval  *)
(* (a run that lists a job and dies is repeated, hence the strong fairness  *)
(* of failing it); time passes; SQS keeps delivering to workers that answer *)
(* or die.  Nobody is obliged to file a job.                                *)
Fairness ==
  /\ \A j \in Jobs :
       /\ WF_vars(Enqueue(j)) /\ WF_vars(GraceEnds(j)) /\ SF_vars(ReconcileFail(j))
       /\ SF_vars(\E w \in Workers : Claim(w, j))
  /\ WF_vars(list_undispatched_pending_audio_jobs)
  /\ \A w \in Workers : WF_vars(ClaimAnswered(w) \/ WorkerReports(w) \/ WorkerDies(w))
FairSpec == Spec /\ Fairness

-----------------------------------------------------------------------------
(* Properties *)

\* Every variable has its type.
TypeOK ==
  /\ status \in [Jobs -> Status] /\ attempts \in [Jobs -> Nat]
  /\ recorded \subseteq Jobs /\ expired \subseteq Jobs
  /\ sent \subseteq Jobs /\ listed \subseteq Jobs
  /\ enqueuer \in [Jobs -> EnqueuerPC]
  /\ worker \in [Workers -> Worker]

\* The claim exists "so duplicate SQS deliveries cannot both increment
\* attempt_count or run generation": at most one worker is ever on a job.
OneGenerator ==
  /\ \A v, w \in Workers : worker[v].job = worker[w].job /\ worker[v].job # None => v = w
  /\ \A j \in Jobs : attempts[j] <= 1

\* The job does what its status promises.
Lifecycle == INSTANCE JobLifecycle WITH Jobs <- Jobs, status <- status, takes <- attempts
ImplementsLifecycle == Lifecycle!Spec

\* The reconcile never takes a job away from a worker that has claimed it.
ReconcileSparesWorkers ==
  [][\A j \in Jobs :
       (j \in listed /\ j \notin listed' /\ status[j] = "PROCESSING")
         => status'[j] = "PROCESSING"]_<<listed>>

\* A filed job is not forgotten: it is claimed or fails, wherever between the
\* commit and the recorded id its handler died.
PendingIsResolved == \A j \in Jobs : status[j] = "PENDING" ~> status[j] # "PENDING"

\* The reconcile fails "pending jobs that never recorded an SQS MessageId".
OnlyUnrecordedFailed ==
  [][\A j \in Jobs :
       (j \in listed /\ j \notin listed' /\ status[j] = "PENDING" /\ status'[j] = "FAILED")
         => j \notin recorded]_vars
=============================================================================
