------------------------- MODULE PlanProgressProofs -------------------------
(***************************************************************************)
(* DoneDaysAreDone, CompletedInFull and NothingLeftBehind for any plans,   *)
(* days, tasks and devices.                                                *)
(*                                                                         *)
(* None of them is inductive.  WholeInv carries the first two: a handler   *)
(* that is about to write still has what it read, because rows are only    *)
(* added until somebody undoes, and an undoing handler is alone or the     *)
(* state is torn.  AheadInv carries the third, and needs nothing of the    *)
(* first: a plan that is due has a handler that will still check it and    *)
(* will find it ripe, a plan that is owed has one that will still enrol    *)
(* the user, and no step of another handler takes either away.             *)
(***************************************************************************)
EXTENDS PlanProgress, TLAPS

\* The steps of sync_series_day_completion.
Syncing == {"sync", "syncTasks", "syncSubs", "syncDay"}
\* Handlers that have the plans of some days still to check.
Checking == Syncing \cup {"plan", "mark", "next", "enroll", "seriesDone"}

\* The parameters of a handler are there when it needs them.
HandlerInv(r) ==
  /\ r.pc = "subtask" => r.item \in SubTasks
  /\ r.pc \in {"subtasksDone", "bulk", "task", "delDay", "delSubs"} => r.item \in Tasks
  /\ r.pc \in {"mark", "next", "enroll", "direct"} => r.item \in Plans
  /\ r.pc = "series" => r.item \in Plans \cup {None}
  /\ r.pc \in {"day", "daySave", "plan", "mark", "next"} \cup Syncing => r.day \in Days
  /\ r.pc \in Syncing \ {"sync"} => r.sibling \in Days
  /\ r.pc \in {"bulk", "syncSubs"} => r.held \subseteq SubTasks
  /\ r.pc = "syncTasks" => r.held \subseteq Tasks

HandlersInv == \A s \in Sessions : HandlerInv(sess[s])
TInv == TypeOK /\ HandlersInv

-----------------------------------------------------------------------------
\* An idle session is well typed and has nothing left to do.
LEMMA IdleFact ==
  /\ Idle \in Session /\ HandlerInv(Idle)
  /\ Idle.pc = "idle" /\ Idle.checks = {} /\ Idle.ref = FALSE
  BY DEF Idle, Session, PCs, HandlerInv, Syncing

\* A session that takes up r leaves the others as they are.
LEMMA TurnTyped ==
  ASSUME TInv, NEW s \in Sessions, NEW r \in Session, HandlerInv(r), sess' = [sess EXCEPT ![s] = r]
  PROVE  /\ sess' \in [Sessions -> Session] /\ HandlersInv'
         /\ \A t \in Sessions : sess'[t] = IF t = s THEN r ELSE sess[t]
  BY DEF TInv, TypeOK, HandlersInv

\* Where NextCheck leads.
LEMMA NextCheckFact ==
  ASSUME TInv, NEW s \in Sessions, NextCheck(s)
  PROVE  \E r \in Session :
           /\ HandlerInv(r) /\ sess' = [sess EXCEPT ![s] = r] /\ UNCHANGED calls
           /\ ~r.ref
           /\ \/ sess[s].checks = {} /\ r = Idle
              \/ /\ r.pc = "plan" /\ r.day \in sess[s].checks
                 /\ r.checks = sess[s].checks \ {r.day}
<1>1. sess[s] \in Session
  BY DEF TInv, TypeOK
<1>2. CASE sess[s].checks = {}
  BY <1>2, IdleFact DEF NextCheck, Finish, Goto
<1>3. CASE sess[s].checks # {}
  <2>1. PICK d \in sess[s].checks :
          Goto(s, [Idle EXCEPT !.pc = "plan", !.day = d, !.checks = sess[s].checks \ {d}])
    BY <1>3 DEF NextCheck
  <2> DEFINE r == [Idle EXCEPT !.pc = "plan", !.day = d, !.checks = sess[s].checks \ {d}]
  <2>2. r \in Session /\ HandlerInv(r) /\ r.pc = "plan" /\ r.day = d
        /\ r.checks = sess[s].checks \ {d} /\ ~r.ref
    BY <1>1 DEF Idle, Session, PCs, HandlerInv, Syncing
  <2> QED BY <2>1, <2>2 DEF Goto
<1> QED BY <1>2, <1>3

\* A call comes in: it has found nobody undoing, or the state is torn.
LEMMA ArriveFact ==
  ASSUME TInv, NEW s \in Sessions, NEW r, Arrive(s, r)
  PROVE  /\ sess' = [sess EXCEPT ![s] = r] /\ sess[s].pc = "idle"
         /\ calls' \in Nat /\ torn' \in BOOLEAN
         /\ ~torn' => ~torn /\ \A t \in Sessions : ~Undoing(t)
         /\ UNCHANGED <<due, owed, crashed, aborted>>
<1>1. torn' \in BOOLEAN /\ (~torn' => ~torn /\ \A t \in Sessions : ~Undoing(t))
  BY Zenon DEF Arrive
<1> QED BY <1>1 DEF Arrive, Call, TInv, TypeOK

\* The same of a call that undoes something, which has found everybody idle.
LEMMA ArriveUndoFact ==
  ASSUME TInv, NEW s \in Sessions, NEW r, ArriveUndo(s, r)
  PROVE  /\ sess' = [sess EXCEPT ![s] = r] /\ sess[s].pc = "idle"
         /\ calls' \in Nat /\ torn' \in BOOLEAN
         /\ ~torn' => ~torn /\ \A t \in Sessions : sess[t].pc = "idle"
         /\ UNCHANGED <<crashed, aborted>>
<1>1. torn' \in BOOLEAN /\ (~torn' => ~torn /\ \A t \in Sessions : sess[t].pc = "idle")
  BY Zenon DEF ArriveUndo
<1> QED BY <1>1 DEF ArriveUndo, Call, TInv, TypeOK

\* The steps of ticking off, closing a day, closing a plan, enrolling and undoing
\* keep the types: one lemma each.
LEMMA TickOffTyped ==
  ASSUME TInv, NEW s \in Sessions, TickOff(s)
  PROVE  TInv'
<1> USE Structure DEF TInv
<1>0. sess[s] \in Session /\ HandlerInv(sess[s])
  BY DEF TypeOK, HandlersInv
<1>1. ASSUME NEW u \in SubTasks, CompleteSubTask(s, u)
      PROVE  TInv'
  <2> DEFINE r == [Idle EXCEPT !.pc = "subtask", !.item = u]
  <2>1. r \in Session /\ HandlerInv(r)
    BY DEF Idle, Session, PCs, HandlerInv, Syncing
  <2>2. Arrive(s, r)
    BY <1>1 DEF CompleteSubTask
  <2> HIDE DEF r
  <2> QED BY <1>1, <2>1, <2>2, ArriveFact, TurnTyped DEF CompleteSubTask, TypeOK, ladder
<1>2. ASSUME NEW t \in Tasks, CompleteTask(s, t)
      PROVE  TInv'
  <2> DEFINE r == [Idle EXCEPT !.pc = "bulk", !.item = t, !.held = SubTasksOf(t) \ doneSub]
  <2>1. r \in Session /\ HandlerInv(r)
    BY DEF Idle, Session, PCs, HandlerInv, Syncing, SubTasksOf
  <2>2. Arrive(s, r)
    BY <1>2 DEF CompleteTask
  <2> HIDE DEF r
  <2> QED BY <1>2, <2>1, <2>2, ArriveFact, TurnTyped DEF CompleteTask, TypeOK, ladder
<1>3. CASE SaveSubTask(s)
  <2> DEFINE q == [Idle EXCEPT !.pc = "subtasksDone", !.item = TaskOf[sess[s].item]]
  <2>1. sess[s].item \in SubTasks
    BY <1>0, <1>3 DEF HandlerInv, SaveSubTask
  <2>2. q \in Session /\ HandlerInv(q)
    BY <2>1 DEF Idle, Session, PCs, HandlerInv, Syncing
  <2>3. PICK r \in {Idle, q} : sess' = [sess EXCEPT ![s] = r]
    BY <1>3 DEF SaveSubTask, Finish, Goto
  <2>4. sess' \in [Sessions -> Session] /\ HandlersInv'
    BY <2>2, <2>3, TurnTyped, IdleFact
  <2> QED BY <1>3, <2>1, <2>4 DEF SaveSubTask, Finish, Goto, TypeOK, history
<1>4. CASE _check_all_subtasks_completed(s)
  <2> DEFINE q == [Idle EXCEPT !.pc = "task", !.item = sess[s].item]
             w == [Idle EXCEPT !.pc = "day", !.day = DayOf[sess[s].item]]
  <2>1. sess[s].item \in Tasks
    BY <1>0, <1>4 DEF HandlerInv, _check_all_subtasks_completed
  <2>2. q \in Session /\ HandlerInv(q) /\ w \in Session /\ HandlerInv(w)
    BY <2>1 DEF Idle, Session, PCs, HandlerInv, Syncing
  <2>3. PICK r \in {q, w} : sess' = [sess EXCEPT ![s] = r]
    BY <1>4 DEF _check_all_subtasks_completed, Goto
  <2>4. sess' \in [Sessions -> Session] /\ HandlersInv'
    BY <2>2, <2>3, TurnTyped
  <2> QED BY <1>4, <2>4 DEF _check_all_subtasks_completed, Goto, TypeOK, ladder, history
<1>5. CASE complete_all_subtasks_completions(s)
  <2> DEFINE q == [Idle EXCEPT !.pc = "task", !.item = sess[s].item]
  <2>1. sess[s].item \in Tasks /\ sess[s].held \subseteq SubTasks
    BY <1>0, <1>5 DEF HandlerInv, complete_all_subtasks_completions
  <2>2. q \in Session /\ HandlerInv(q)
    BY <2>1 DEF Idle, Session, PCs, HandlerInv, Syncing
  <2>3. PICK r \in {Idle, q} : sess' = [sess EXCEPT ![s] = r]
    BY <1>5 DEF complete_all_subtasks_completions, Finish, Goto
  <2>4. sess' \in [Sessions -> Session] /\ HandlersInv'
    BY <2>2, <2>3, TurnTyped, IdleFact
  <2> QED BY <1>5, <2>1, <2>4 DEF complete_all_subtasks_completions, Finish, Goto, TypeOK, history
<1>6. CASE save_user_task_completion(s)
  <2> DEFINE w == [Idle EXCEPT !.pc = "day", !.day = DayOf[sess[s].item]]
  <2>1. sess[s].item \in Tasks
    BY <1>0, <1>6 DEF HandlerInv, save_user_task_completion
  <2>2. w \in Session /\ HandlerInv(w)
    BY <2>1 DEF Idle, Session, PCs, HandlerInv, Syncing
  <2>3. PICK r \in {Idle, w} : sess' = [sess EXCEPT ![s] = r]
    BY <1>6 DEF save_user_task_completion, Finish, Goto
  <2>4. sess' \in [Sessions -> Session] /\ HandlersInv'
    BY <2>2, <2>3, TurnTyped, IdleFact
  <2> QED BY <1>6, <2>1, <2>4 DEF save_user_task_completion, Finish, Goto, TypeOK, history
<1> QED BY <1>1, <1>2, <1>3, <1>4, <1>5, <1>6 DEF TickOff

LEMMA CloseDayTyped ==
  ASSUME TInv, NEW s \in Sessions, CloseDay(s)
  PROVE  TInv'
<1> USE Structure DEF TInv
<1>0. sess[s] \in Session /\ HandlerInv(sess[s])
  BY DEF TypeOK, HandlersInv
<1>1. CASE check_day_completion(s)
  <2> DEFINE q == [Idle EXCEPT !.pc = "daySave", !.day = sess[s].day]
  <2>1. sess[s].day \in Days
    BY <1>0, <1>1 DEF HandlerInv, check_day_completion
  <2>2. q \in Session /\ HandlerInv(q)
    BY <2>1 DEF Idle, Session, PCs, HandlerInv, Syncing
  <2>3. PICK r \in {Idle, q} : sess' = [sess EXCEPT ![s] = r]
    BY <1>1 DEF check_day_completion, Finish, Goto
  <2>4. sess' \in [Sessions -> Session] /\ HandlersInv'
    BY <2>2, <2>3, TurnTyped, IdleFact
  <2> QED BY <1>1, <2>4 DEF check_day_completion, Finish, Goto, TypeOK, ladder, history
<1>2. CASE save_user_day_completion(s)
  <2> DEFINE d == sess[s].day
             q == [Idle EXCEPT !.pc = "sync", !.day = d, !.todo = SiblingDays(d),
                               !.checks = SiblingDays(d)]
  <2>1. d \in Days
    BY <1>0, <1>2 DEF HandlerInv, save_user_day_completion
  <2>2. q \in Session /\ HandlerInv(q)
    BY <2>1 DEF Idle, Session, PCs, HandlerInv, Syncing, SiblingDays
  <2>3. PICK r \in {Idle, q} : sess' = [sess EXCEPT ![s] = r]
    BY <1>2 DEF save_user_day_completion, Finish, Goto
  <2>4. sess' \in [Sessions -> Session] /\ HandlersInv'
    BY <2>2, <2>3, TurnTyped, IdleFact
  <2>5. due' \subseteq Plans
    BY <1>2, <2>1 DEF save_user_day_completion, DueBy, TypeOK
  <2> QED BY <1>2, <2>1, <2>4, <2>5 DEF save_user_day_completion, Finish, Goto, TypeOK
<1>3. CASE SyncNext(s)
  <2>0. sess[s].day \in Days /\ sess[s].pc = "sync"
    BY <1>0, <1>3 DEF HandlerInv, SyncNext, Syncing
  <2>1. CASE sess[s].todo = {}
    <3> DEFINE q == [sess[s] EXCEPT !.pc = "plan"]
    <3>1. q \in Session /\ HandlerInv(q)
      BY <1>0, <2>0 DEF Session, PCs, HandlerInv, Syncing
    <3>2. sess' = [sess EXCEPT ![s] = q]
      BY <1>3, <2>1 DEF SyncNext, Goto
    <3>3. sess' \in [Sessions -> Session] /\ HandlersInv'
      BY <3>1, <3>2, TurnTyped
    <3> QED BY <1>3, <2>1, <3>3 DEF SyncNext, Goto, TypeOK, ladder, history
  <2>2. CASE sess[s].todo # {}
    <3>1. PICK e \in sess[s].todo :
            Goto(s, [sess[s] EXCEPT !.pc = "syncTasks", !.sibling = e, !.todo = @ \ {e},
                                    !.held = TasksOf(e) \ doneTask])
      BY <1>3, <2>2 DEF SyncNext
    <3> DEFINE q == [sess[s] EXCEPT !.pc = "syncTasks", !.sibling = e, !.todo = @ \ {e},
                                    !.held = TasksOf(e) \ doneTask]
    <3>2. q \in Session /\ HandlerInv(q)
      BY <1>0, <2>0 DEF Session, PCs, HandlerInv, Syncing, TasksOf
    <3>3. sess' \in [Sessions -> Session] /\ HandlersInv'
      BY <3>1, <3>2, TurnTyped DEF Goto
    <3> QED BY <1>3, <3>1, <3>3 DEF SyncNext, Goto, TypeOK, ladder, history
  <2> QED BY <2>1, <2>2
<1>4. CASE SyncTasks(s)
  <2> DEFINE subs == {u \in SubTasks : DayOf[TaskOf[u]] = sess[s].sibling}
             q == [sess[s] EXCEPT !.pc = "syncSubs", !.held = subs \ doneSub]
  <2>1. sess[s].day \in Days /\ sess[s].sibling \in Days /\ sess[s].held \subseteq Tasks
    BY <1>0, <1>4 DEF HandlerInv, SyncTasks, Syncing
  <2>2. q \in Session /\ HandlerInv(q)
    BY <1>0, <2>1 DEF Session, PCs, HandlerInv, Syncing
  <2>3. /\ \E r \in {Idle, q} : sess' = [sess EXCEPT ![s] = r]
        /\ UNCHANGED calls
        /\ doneTask' \in {doneTask, doneTask \cup sess[s].held}
    BY <1>4 DEF SyncTasks, Abort, Finish, Goto
  <2>4. sess' \in [Sessions -> Session] /\ HandlersInv'
    BY <2>2, <2>3, TurnTyped, IdleFact
  <2>5. aborted' \in BOOLEAN
    BY <1>4 DEF SyncTasks, Abort, TypeOK
  <2> QED BY <1>4, <2>1, <2>3, <2>4, <2>5 DEF SyncTasks, TypeOK
<1>5. CASE SyncSubTasks(s)
  <2> DEFINE q == [sess[s] EXCEPT !.pc = "syncDay", !.held = {}]
  <2>1. sess[s].day \in Days /\ sess[s].sibling \in Days /\ sess[s].held \subseteq SubTasks
    BY <1>0, <1>5 DEF HandlerInv, SyncSubTasks, Syncing
  <2>2. q \in Session /\ HandlerInv(q)
    BY <1>0, <2>1 DEF Session, PCs, HandlerInv, Syncing
  <2>3. /\ \E r \in {Idle, q} : sess' = [sess EXCEPT ![s] = r]
        /\ UNCHANGED calls
        /\ doneSub' \in {doneSub, doneSub \cup sess[s].held}
    BY <1>5 DEF SyncSubTasks, Abort, Finish, Goto
  <2>4. sess' \in [Sessions -> Session] /\ HandlersInv'
    BY <2>2, <2>3, TurnTyped, IdleFact
  <2>5. aborted' \in BOOLEAN
    BY <1>5 DEF SyncSubTasks, Abort, TypeOK
  <2> QED BY <1>5, <2>1, <2>3, <2>4, <2>5 DEF SyncSubTasks, TypeOK
<1>6. CASE SyncDay(s)
  <2> DEFINE q == [sess[s] EXCEPT !.pc = "sync", !.sibling = None]
  <2>1. sess[s].day \in Days /\ sess[s].sibling \in Days
    BY <1>0, <1>6 DEF HandlerInv, SyncDay, Syncing
  <2>2. q \in Session /\ HandlerInv(q)
    BY <1>0, <2>1 DEF Session, PCs, HandlerInv, Syncing
  <2>3. sess' = [sess EXCEPT ![s] = q] /\ UNCHANGED calls
    BY <1>6 DEF SyncDay, Goto
  <2>4. sess' \in [Sessions -> Session] /\ HandlersInv'
    BY <2>2, <2>3, TurnTyped
  <2>5. due' \subseteq Plans
    BY <1>6, <2>1 DEF SyncDay, DueBy, TypeOK
  <2> QED BY <1>6, <2>1, <2>3, <2>4, <2>5 DEF SyncDay, TypeOK
<1> QED BY <1>1, <1>2, <1>3, <1>4, <1>5, <1>6 DEF CloseDay

LEMMA ClosePlanTyped ==
  ASSUME TInv, NEW s \in Sessions, ClosePlan(s)
  PROVE  TInv'
<1> USE Structure DEF TInv
<1>0. sess[s] \in Session /\ HandlerInv(sess[s])
  BY DEF TypeOK, HandlersInv
<1>n. ASSUME NextCheck(s)
      PROVE  sess' \in [Sessions -> Session] /\ HandlersInv' /\ UNCHANGED calls
  <2>1. PICK r \in Session : HandlerInv(r) /\ sess' = [sess EXCEPT ![s] = r] /\ UNCHANGED calls
    BY <1>n, NextCheckFact
  <2> QED BY <2>1, TurnTyped
<1>a. ASSUME Abort(s)
      PROVE  sess' \in [Sessions -> Session] /\ HandlersInv' /\ UNCHANGED calls /\ aborted' \in BOOLEAN
  BY <1>a, IdleFact, TurnTyped DEF Abort, Finish, Goto, TypeOK
<1>1. CASE check_plan_completion(s)
  <2> DEFINE q == [sess[s] EXCEPT !.pc = "mark", !.item = PlanOf[sess[s].day]]
  <2>1. sess[s].day \in Days
    BY <1>0, <1>1 DEF HandlerInv, check_plan_completion
  <2>2. q \in Session /\ HandlerInv(q)
    BY <1>0, <2>1 DEF Session, PCs, HandlerInv, Syncing
  <2>3. NextCheck(s) \/ Goto(s, q)
    BY <1>1 DEF check_plan_completion
  <2>4. sess' \in [Sessions -> Session] /\ HandlersInv' /\ UNCHANGED calls
    BY <2>2, <2>3, <1>n, TurnTyped DEF Goto
  <2> QED BY <1>1, <2>4 DEF check_plan_completion, TypeOK, ladder, history
<1>2. CASE MarkCompleted(s)
  <2> DEFINE p == sess[s].item
             q == [sess[s] EXCEPT !.pc = "next"]
  <2>1. p \in Plans /\ sess[s].day \in Days
    BY <1>0, <1>2 DEF HandlerInv, MarkCompleted
  <2>2. q \in Session /\ HandlerInv(q)
    BY <1>0, <2>1 DEF Session, PCs, HandlerInv, Syncing
  <2>3. CASE ~Enrolled(p)
    <3>1. Abort(s) /\ UNCHANGED <<ladder, progress, enrollment, due, owed, torn, crashed>>
      BY <1>2, <2>3 DEF MarkCompleted
    <3> QED BY <3>1, <1>a DEF TypeOK, ladder
  <2>4. CASE Enrolled(p)
    <3>1. /\ progress' = [progress EXCEPT ![p].completed = TRUE]
          /\ due' = due \ {p} /\ owed' \in {owed, owed \cup NextPlans(p)}
          /\ NextCheck(s) \/ Goto(s, q)
          /\ UNCHANGED <<ladder, enrollment, torn, crashed, aborted>>
      BY <1>2, <2>4 DEF MarkCompleted
    <3>2. progress' \in [Plans -> Row \cup {None}]
      BY <2>1, <2>4, <3>1 DEF TypeOK, Row, Enrolled
    <3>3. sess' \in [Sessions -> Session] /\ HandlersInv' /\ UNCHANGED calls
      BY <2>2, <3>1, <1>n, TurnTyped DEF Goto
    <3> QED BY <3>1, <3>2, <3>3 DEF TypeOK, ladder, NextPlans
  <2> QED BY <2>3, <2>4
<1>3. CASE ProgressSeries(s)
  <2>0. sess[s].pc = "next" /\ sess[s].day \in Days
    BY <1>0, <1>3 DEF HandlerInv, ProgressSeries
  <2>1. \/ NextCheck(s)
        \/ \E q \in Plans : Goto(s, [sess[s] EXCEPT !.pc = "enroll", !.item = q, !.ref = TRUE])
        \/ Goto(s, [sess[s] EXCEPT !.pc = "seriesDone"])
    BY <1>3 DEF ProgressSeries, NextPlans
  <2>2. /\ [sess[s] EXCEPT !.pc = "seriesDone"] \in Session
        /\ HandlerInv([sess[s] EXCEPT !.pc = "seriesDone"])
    BY <1>0, <2>0 DEF Session, PCs, HandlerInv, Syncing
  <2>3. ASSUME NEW q \in Plans
        PROVE  /\ [sess[s] EXCEPT !.pc = "enroll", !.item = q, !.ref = TRUE] \in Session
               /\ HandlerInv([sess[s] EXCEPT !.pc = "enroll", !.item = q, !.ref = TRUE])
    BY <1>0, <2>0 DEF Session, PCs, HandlerInv, Syncing
  <2>4. sess' \in [Sessions -> Session] /\ HandlersInv' /\ UNCHANGED calls
    BY <2>1, <2>2, <2>3, <1>n, TurnTyped DEF Goto
  <2> QED BY <1>3, <2>4 DEF ProgressSeries, TypeOK, ladder, history
<1>4. CASE auto_enroll_in_next_plan(s)
  <2>1. sess[s].item \in Plans
    BY <1>0, <1>4 DEF HandlerInv, auto_enroll_in_next_plan
  <2>2. /\ \/ Abort(s) /\ UNCHANGED <<progress, owed>>
           \/ /\ NextCheck(s) /\ UNCHANGED aborted
              /\ progress' = [progress EXCEPT ![sess[s].item] =
                                [source |-> "SERIES", completed |-> FALSE]]
              /\ owed' \subseteq owed
        /\ UNCHANGED <<ladder, enrollment, due, torn, crashed>>
    BY <1>4 DEF auto_enroll_in_next_plan
  <2>3. progress' \in [Plans -> Row \cup {None}]
    <3>1. [source |-> "SERIES", completed |-> FALSE] \in Row
      BY DEF Row
    <3> QED BY <2>1, <2>2, <3>1 DEF TypeOK
  <2> QED BY <2>2, <2>3, <1>n, <1>a DEF TypeOK, ladder
<1>5. CASE mark_series_enrollment_completed(s)
  <2>1. enrollment' \in Enrollment \cup {None}
    BY <1>5 DEF mark_series_enrollment_completed, TypeOK, Enrollment
  <2> QED BY <1>5, <2>1, <1>n DEF mark_series_enrollment_completed, TypeOK, ladder, history
<1> QED BY <1>1, <1>2, <1>3, <1>4, <1>5 DEF ClosePlan

LEMMA EnrollTyped ==
  ASSUME TInv, NEW s \in Sessions, Enroll(s)
  PROVE  TInv'
<1> USE Structure DEF TInv
<1>0. sess[s] \in Session /\ HandlerInv(sess[s])
  BY DEF TypeOK, HandlersInv
<1>1. ASSUME NEW p \in Plans, EnrollInPlan(s, p)
      PROVE  TInv'
  <2> DEFINE r == [Idle EXCEPT !.pc = "direct", !.item = p]
  <2>1. r \in Session /\ HandlerInv(r)
    BY DEF Idle, Session, PCs, HandlerInv, Syncing
  <2>2. Arrive(s, r)
    BY <1>1 DEF EnrollInPlan
  <2> HIDE DEF r
  <2> QED BY <1>1, <2>1, <2>2, ArriveFact, TurnTyped DEF EnrollInPlan, TypeOK, ladder
<1>2. ASSUME NEW auto \in BOOLEAN, NEW p \in Plans \cup {None}, EnrollInSeries(s, auto, p)
      PROVE  TInv'
  <2> DEFINE r == [Idle EXCEPT !.pc = "series", !.item = p, !.auto = auto]
  <2>1. r \in Session /\ HandlerInv(r)
    BY DEF Idle, Session, PCs, HandlerInv, Syncing
  <2>2. Arrive(s, r)
    BY <1>2 DEF EnrollInSeries
  <2> HIDE DEF r
  <2> QED BY <1>2, <2>1, <2>2, ArriveFact, TurnTyped DEF EnrollInSeries, TypeOK, ladder
<1>3. ASSUME NEW auto \in BOOLEAN, update_user_series_enrollment(s, auto)
      PROVE  TInv'
  <2>1. enrollment' \in Enrollment \cup {None} /\ owed' \subseteq Plans /\ calls' \in Nat
    BY <1>3 DEF update_user_series_enrollment, TypeOK, Enrollment, Call
  <2> QED BY <1>3, <2>1 DEF update_user_series_enrollment, TypeOK, ladder, HandlersInv
<1>4. CASE save_plan_progress(s)
  <2>1. sess[s].item \in Plans
    BY <1>0, <1>4 DEF HandlerInv, save_plan_progress
  <2>2. progress' \in [Plans -> Row \cup {None}]
    BY <1>4, <2>1 DEF save_plan_progress, TypeOK, Row
  <2>3. sess' \in [Sessions -> Session] /\ HandlersInv' /\ UNCHANGED calls
    BY <1>4, TurnTyped, IdleFact DEF save_plan_progress, Finish, Goto
  <2> QED BY <1>4, <2>2, <2>3 DEF save_plan_progress, TypeOK, ladder
<1>5. CASE save_user_series_enrollment(s)
  <2> DEFINE q == [Idle EXCEPT !.pc = "enroll", !.item = sess[s].item, !.ref = TRUE]
  <2>1. sess[s].item \in Plans \cup {None}
    BY <1>0, <1>5 DEF HandlerInv, save_user_series_enrollment
  <2>2. Finish(s) \/ (sess[s].item \in Plans /\ Goto(s, q))
    BY <1>5, <2>1 DEF save_user_series_enrollment
  <2>3. sess[s].item \in Plans => q \in Session /\ HandlerInv(q)
    BY DEF Idle, Session, PCs, HandlerInv, Syncing
  <2>4. sess' \in [Sessions -> Session] /\ HandlersInv' /\ UNCHANGED calls
    BY <2>2, <2>3, TurnTyped, IdleFact DEF Finish, Goto
  <2>5. enrollment' \in Enrollment \cup {None}
    <3>1. [auto |-> sess[s].auto, completed |-> FALSE] \in Enrollment
      BY <1>0 DEF Enrollment, Session
    <3> QED BY <1>5, <3>1 DEF save_user_series_enrollment, TypeOK
  <2> QED BY <1>5, <2>4, <2>5 DEF save_user_series_enrollment, TypeOK, ladder, history
<1> QED BY <1>1, <1>2, <1>3, <1>4, <1>5 DEF Enroll, FirstPlans

LEMMA UndoTyped ==
  ASSUME TInv, NEW s \in Sessions, Undo(s) \/ Crash(s)
  PROVE  TInv'
<1> USE Structure DEF TInv
<1>0. sess[s] \in Session /\ HandlerInv(sess[s])
  BY DEF TypeOK, HandlersInv
<1>1. ASSUME NEW t \in Tasks, DeleteTask(s, t)
      PROVE  TInv'
  <2> DEFINE r == [Idle EXCEPT !.pc = "delDay", !.item = t]
  <2>1. r \in Session /\ HandlerInv(r)
    BY DEF Idle, Session, PCs, HandlerInv, Syncing
  <2>2. ArriveUndo(s, r)
    BY <1>1 DEF DeleteTask
  <2> HIDE DEF r
  <2> QED BY <1>1, <2>1, <2>2, ArriveUndoFact, TurnTyped DEF DeleteTask, TypeOK
<1>2. ASSUME NEW p \in Plans, delete_user_plan_progress(s, p)
      PROVE  TInv'
  <2>1. ArriveUndo(s, Idle)
    BY <1>2 DEF delete_user_plan_progress
  <2>2. progress' \in [Plans -> Row \cup {None}]
    BY <1>2 DEF delete_user_plan_progress, TypeOK
  <2> QED BY <1>2, <2>1, <2>2, ArriveUndoFact, TurnTyped, IdleFact
          DEF delete_user_plan_progress, TypeOK
<1>3. CASE delete_user_day_completion(s)
  <2> DEFINE q == [sess[s] EXCEPT !.pc = "delSubs"]
  <2>1. sess[s].item \in Tasks
    BY <1>0, <1>3 DEF HandlerInv, delete_user_day_completion
  <2>2. q \in Session /\ HandlerInv(q)
    BY <1>0, <2>1 DEF Session, PCs, HandlerInv, Syncing
  <2>3. sess' \in [Sessions -> Session] /\ HandlersInv' /\ UNCHANGED calls
    BY <1>3, <2>2, TurnTyped DEF delete_user_day_completion, Goto
  <2> QED BY <1>3, <2>3 DEF delete_user_day_completion, TypeOK
<1>4. CASE delete_user_subtask_completion(s)
  <2>1. sess' \in [Sessions -> Session] /\ HandlersInv' /\ UNCHANGED calls
    BY <1>4, TurnTyped, IdleFact DEF delete_user_subtask_completion, Finish, Goto
  <2> QED BY <1>4, <2>1 DEF delete_user_subtask_completion, TypeOK, history
<1>5. CASE delete_user_series_enrollment(s)
  <2>1. ASSUME NEW t \in Sessions
        PROVE  /\ [sess[t] EXCEPT !.ref = FALSE] \in Session
               /\ HandlerInv([sess[t] EXCEPT !.ref = FALSE])
    <3>1. sess[t] \in Session /\ HandlerInv(sess[t])
      BY DEF TypeOK, HandlersInv
    <3> QED BY <3>1 DEF Session, HandlerInv
  <2>2. sess' = [t \in Sessions |-> [sess[t] EXCEPT !.ref = FALSE]]
    BY <1>5 DEF delete_user_series_enrollment
  <2>3. sess' \in [Sessions -> Session] /\ HandlersInv'
    BY <2>1, <2>2 DEF HandlersInv
  <2>4. torn' \in BOOLEAN
    BY <1>5, Zenon DEF delete_user_series_enrollment
  <2>5. progress' \in [Plans -> Row \cup {None}]
    BY <1>5 DEF delete_user_series_enrollment, TypeOK
  <2>6. calls' \in Nat
    BY <1>5 DEF delete_user_series_enrollment, Call, TypeOK
  <2> QED BY <1>5, <2>3, <2>4, <2>5, <2>6 DEF delete_user_series_enrollment, TypeOK, ladder
<1>6. CASE Crash(s)
  <2>1. sess' \in [Sessions -> Session] /\ HandlersInv' /\ UNCHANGED calls
    BY <1>6, TurnTyped, IdleFact DEF Crash, Finish, Goto
  <2>2. torn' \in BOOLEAN
    BY <1>6, Zenon DEF Crash
  <2> QED BY <1>6, <2>1, <2>2 DEF Crash, TypeOK, ladder
<1> QED BY <1>1, <1>2, <1>3, <1>4, <1>5, <1>6 DEF Undo

LEMMA InitTyped == Init => TInv
<1> SUFFICES ASSUME Init PROVE TInv OBVIOUS
<1>1. /\ sess \in [Sessions -> Session] /\ HandlersInv
      /\ progress \in [Plans -> Row \cup {None}] /\ calls \in Nat
  BY IdleFact DEF Init, HandlersInv
<1> QED BY <1>1 DEF Init, TInv, TypeOK

LEMMA StepTyped == TInv /\ [Next]_vars => TInv'
<1>1. TInv /\ UNCHANGED vars => TInv'
  BY DEF vars, ladder, history, TInv, TypeOK, HandlersInv
<1> QED BY <1>1, TickOffTyped, CloseDayTyped, ClosePlanTyped, EnrollTyped, UndoTyped DEF Next

\* Every variable keeps its type, whatever the devices do at the same time.
THEOREM TypeCorrect == Spec => []TypeOK
<1>1. TInv => TypeOK
  BY DEF TInv
<1> QED BY InitTyped, StepTyped, <1>1, PTL DEF Spec

-----------------------------------------------------------------------------
(* DoneDaysAreDone and CompletedInFull.  Handlers that tick off and complete *)
(* only add rows, so what one has read stays true until somebody undoes; an  *)
(* undoing one is alone as long as the state is not torn.                    *)

Done(d) == TasksOf(d) \subseteq doneTask

UndoAlone == \A s, t \in Sessions : Undoing(s) /\ sess[t].pc # "idle" => s = t

\* What the handler that carries r goes by still holds.
Relies(r) ==
  /\ r.pc = "daySave" => Done(r.day)
  /\ r.pc = "syncTasks" => TasksOf(r.sibling) \subseteq doneTask \cup r.held
  /\ r.pc \in {"syncSubs", "syncDay"} => Done(r.sibling)
  /\ r.pc = "mark" => AllDaysDone(r.item)
  /\ r.pc = "seriesDone" => is_series_completed_for_user

\* A day that counts as done is, or its task is just being taken back.
DaysInv ==
  \A d \in doneDay :
    Done(d) \/ \E s \in Sessions : sess[s].pc = "delDay" /\ d = DayOf[sess[s].item]

WholeInv == ~torn => UndoAlone /\ DaysInv /\ \A s \in Sessions : Relies(sess[s])

\* Rows are only added, and a day only with all its tasks.
Grows ==
  /\ doneTask \subseteq doneTask' /\ doneDay \subseteq doneDay'
  /\ \A d \in doneDay' : d \in doneDay \/ Done(d)'
  /\ is_series_completed_for_user => is_series_completed_for_user'

\* Rows that stay as they are grow.
LEMMA SameRowsGrow ==
  ASSUME UNCHANGED <<doneTask, doneDay, progress>> PROVE Grows
  BY DEF Grows, is_series_completed_for_user, Enrolled

\* A handler that undoes nothing takes a step: it may rely on what it has read, and
\* so may the others.
LEMMA AddingKeepsWhole ==
  ASSUME TInv, WholeInv, NEW s \in Sessions, NEW r, sess' = [sess EXCEPT ![s] = r],
         ~torn' => ~torn, ~torn' => Grows,
         ~torn' => ~Undoing(s), r.pc \notin {"delDay", "delSubs"},
         (~torn' /\ sess[s].pc = "idle") => \A t \in Sessions : ~Undoing(t),
         ~torn' => Relies(r)'
  PROVE  WholeInv'
<1> SUFFICES ASSUME ~torn' PROVE (UndoAlone /\ DaysInv /\ \A t \in Sessions : Relies(sess[t]))'
  BY DEF WholeInv
<1>1. \A t \in Sessions : sess'[t] = IF t = s THEN r ELSE sess[t]
  BY DEF TInv, TypeOK
<1>2. UndoAlone /\ DaysInv /\ \A t \in Sessions : Relies(sess[t])
  BY DEF WholeInv
<1>3. \A t \in Sessions : ~Undoing(t)
  BY <1>2 DEF UndoAlone
<1>4. UndoAlone'
  BY <1>1, <1>3 DEF UndoAlone, Undoing
<1>5. DaysInv'
  BY <1>2, <1>3 DEF DaysInv, Undoing, Grows, Done
<1>6. \A t \in Sessions : Relies(sess[t])'
  <2> SUFFICES ASSUME NEW t \in Sessions PROVE Relies(sess[t])'
    OBVIOUS
  <2>1. CASE t = s
    BY <2>1, <1>1 DEF Relies, Done, AllDaysDone
  <2>2. CASE t # s
    <3>1. sess'[t] = sess[t]
      BY <1>1, <2>2
    <3> QED BY <3>1, <1>2 DEF Grows, Relies, Done, AllDaysDone
  <2> QED BY <2>1, <2>2
<1> QED BY <1>4, <1>5, <1>6

\* What is ticked off stays whole: again one lemma for each group of steps.
LEMMA TickOffKeepsWhole ==
  ASSUME TInv, WholeInv, NEW s \in Sessions, TickOff(s)
  PROVE  WholeInv'
<1>1. ASSUME NEW u \in SubTasks, CompleteSubTask(s, u)
      PROVE  WholeInv'
  <2> DEFINE r == [Idle EXCEPT !.pc = "subtask", !.item = u]
  <2>1. Arrive(s, r) /\ Grows
    BY <1>1, SameRowsGrow DEF CompleteSubTask, ladder
  <2>2. r.pc = "subtask"
    BY DEF Idle
  <2> HIDE DEF r
  <2> QED BY <2>1, <2>2, ArriveFact, AddingKeepsWhole DEF Relies
<1>2. ASSUME NEW t \in Tasks, CompleteTask(s, t)
      PROVE  WholeInv'
  <2> DEFINE r == [Idle EXCEPT !.pc = "bulk", !.item = t, !.held = SubTasksOf(t) \ doneSub]
  <2>1. Arrive(s, r) /\ Grows
    BY <1>2, SameRowsGrow DEF CompleteTask, ladder
  <2>2. r.pc = "bulk"
    BY DEF Idle
  <2> HIDE DEF r
  <2> QED BY <2>1, <2>2, ArriveFact, AddingKeepsWhole DEF Relies
<1>3. CASE \/ SaveSubTask(s) \/ _check_all_subtasks_completed(s)
           \/ complete_all_subtasks_completions(s) \/ save_user_task_completion(s)
  <2>1. /\ UNCHANGED <<doneDay, progress, torn>> /\ doneTask \subseteq doneTask'
        /\ sess[s].pc \notin {"idle", "delDay", "delSubs"}
    BY <1>3 DEF SaveSubTask, _check_all_subtasks_completed, complete_all_subtasks_completions,
                save_user_task_completion, history, ladder
  <2>2. PICK r : sess' = [sess EXCEPT ![s] = r] /\ r.pc \in {"idle", "subtasksDone", "task", "day"}
    <3>1. \E r \in {Idle, [Idle EXCEPT !.pc = "subtasksDone", !.item = TaskOf[sess[s].item]],
                    [Idle EXCEPT !.pc = "task", !.item = sess[s].item],
                    [Idle EXCEPT !.pc = "day", !.day = DayOf[sess[s].item]]} :
             sess' = [sess EXCEPT ![s] = r]
      BY <1>3 DEF SaveSubTask, _check_all_subtasks_completed, complete_all_subtasks_completions,
                  save_user_task_completion, Finish, Goto
    <3>2. /\ Idle.pc = "idle"
          /\ [Idle EXCEPT !.pc = "subtasksDone", !.item = TaskOf[sess[s].item]].pc = "subtasksDone"
          /\ [Idle EXCEPT !.pc = "task", !.item = sess[s].item].pc = "task"
          /\ [Idle EXCEPT !.pc = "day", !.day = DayOf[sess[s].item]].pc = "day"
      BY DEF Idle
    <3> QED BY <3>1, <3>2
  <2>3. Grows
    BY <2>1 DEF Grows, is_series_completed_for_user, Enrolled
  <2> QED BY <2>1, <2>2, <2>3, AddingKeepsWhole DEF Relies, Undoing
<1> QED BY <1>1, <1>2, <1>3 DEF TickOff

LEMMA CloseDayKeepsWhole ==
  ASSUME TInv, WholeInv, NEW s \in Sessions, CloseDay(s)
  PROVE  WholeInv'
<1>0. sess[s] \in Session /\ (~torn => Relies(sess[s]))
  BY DEF TInv, TypeOK, WholeInv
<1>1. CASE check_day_completion(s)
  <2>1. PICK r : /\ sess' = [sess EXCEPT ![s] = r]
                 /\ r = Idle \/ (r.pc = "daySave" /\ Done(r.day))
    BY <1>1 DEF check_day_completion, Finish, Goto, Idle, Done
  <2>2. Grows /\ UNCHANGED <<doneTask, torn>> /\ sess[s].pc = "day"
    BY <1>1, SameRowsGrow DEF check_day_completion, ladder, history
  <2>3. Relies(r)'
    BY <2>1, <2>2, IdleFact DEF Relies, Done
  <2> QED BY <2>1, <2>2, <2>3, IdleFact, AddingKeepsWhole DEF Undoing
<1>2. CASE save_user_day_completion(s)
  <2> DEFINE q == [Idle EXCEPT !.pc = "sync", !.day = sess[s].day, !.todo = SiblingDays(sess[s].day),
                               !.checks = SiblingDays(sess[s].day)]
  <2>q. q.pc = "sync"
    BY DEF Idle
  <2>1. PICK r : /\ sess' = [sess EXCEPT ![s] = r]
                 /\ r = Idle \/ r.pc = "sync"
    <3>1. \E x \in {Idle, q} : sess' = [sess EXCEPT ![s] = x]
      BY <1>2 DEF save_user_day_completion, Finish, Goto
    <3> QED BY <2>q, <3>1
  <2>2. /\ UNCHANGED <<doneTask, progress, torn>> /\ sess[s].pc = "daySave"
        /\ doneDay' = doneDay \cup {sess[s].day}
    BY <1>2 DEF save_user_day_completion
  <2>3. ~torn' => Grows
    BY <1>0, <2>2 DEF Relies, Grows, Done, is_series_completed_for_user, Enrolled
  <2>4. r.pc \in {"idle", "sync"} /\ Relies(r)'
    BY <2>1, IdleFact DEF Relies
  <2> QED BY <2>1, <2>2, <2>3, <2>4, AddingKeepsWhole DEF Undoing, WholeInv
<1>3. CASE SyncNext(s)
  <2>1. PICK r : /\ sess' = [sess EXCEPT ![s] = r]
                 /\ \/ r.pc = "plan"
                    \/ r.pc = "syncTasks" /\ TasksOf(r.sibling) \subseteq doneTask \cup r.held
    <3>1. CASE sess[s].todo = {}
      <4>1. sess' = [sess EXCEPT ![s] = [sess[s] EXCEPT !.pc = "plan"]]
        BY <1>3, <3>1 DEF SyncNext, Goto
      <4>2. [sess[s] EXCEPT !.pc = "plan"].pc = "plan"
        BY <1>0 DEF Session
      <4> QED BY <4>1, <4>2
    <3>2. CASE sess[s].todo # {}
      <4>1. PICK e \in sess[s].todo :
              sess' = [sess EXCEPT ![s] =
                         [sess[s] EXCEPT !.pc = "syncTasks", !.sibling = e, !.todo = @ \ {e},
                                         !.held = TasksOf(e) \ doneTask]]
        BY <1>3, <3>2 DEF SyncNext, Goto
      <4> DEFINE r == [sess[s] EXCEPT !.pc = "syncTasks", !.sibling = e, !.todo = @ \ {e},
                                      !.held = TasksOf(e) \ doneTask]
      <4>2. r.pc = "syncTasks" /\ r.sibling = e /\ r.held = TasksOf(e) \ doneTask
        BY <1>0 DEF Session
      <4>3. TasksOf(r.sibling) \subseteq doneTask \cup r.held
        BY <4>2
      <4> QED BY <4>1, <4>2, <4>3
    <3> QED BY <3>1, <3>2
  <2>2. Grows /\ UNCHANGED <<doneTask, torn>> /\ sess[s].pc = "sync"
    BY <1>3, SameRowsGrow DEF SyncNext, ladder, history
  <2>3. Relies(r)'
    BY <2>1, <2>2 DEF Relies
  <2> QED BY <2>1, <2>2, <2>3, AddingKeepsWhole DEF Undoing
<1>4. CASE SyncTasks(s)
  <2> DEFINE e == sess[s].sibling
  <2>0. /\ UNCHANGED <<doneDay, progress, torn>> /\ sess[s].pc = "syncTasks"
        /\ doneTask \subseteq doneTask'
    BY <1>4 DEF SyncTasks
  <2>1. PICK r : /\ sess' = [sess EXCEPT ![s] = r]
                 /\ \/ r = Idle
                    \/ /\ r.pc = "syncSubs" /\ r.sibling = e
                       /\ doneTask' = doneTask \cup sess[s].held
    <3>1. CASE sess[s].held \cap doneTask # {}
      BY <1>4, <3>1 DEF SyncTasks, Abort, Finish, Goto
    <3>2. CASE sess[s].held \cap doneTask = {}
      <4> DEFINE r == [sess[s] EXCEPT !.pc = "syncSubs",
                          !.held = {u \in SubTasks : DayOf[TaskOf[u]] = e} \ doneSub]
      <4>1. sess' = [sess EXCEPT ![s] = r] /\ doneTask' = doneTask \cup sess[s].held
        BY <1>4, <3>2 DEF SyncTasks, Goto
      <4>2. r.pc = "syncSubs" /\ r.sibling = e
        BY <1>0 DEF Session
      <4> QED BY <4>1, <4>2
    <3> QED BY <3>1, <3>2
  <2>2. Grows
    BY <2>0 DEF Grows, is_series_completed_for_user, Enrolled
  <2>3. ~torn' => Relies(r)'
    BY <1>0, <2>0, <2>1, IdleFact DEF Relies, Done
  <2>4. r.pc \in {"idle", "syncSubs"}
    BY <2>1, IdleFact
  <2> QED BY <2>0, <2>1, <2>2, <2>3, <2>4, AddingKeepsWhole DEF Undoing
<1>5. CASE SyncSubTasks(s)
  <2>1. PICK r : /\ sess' = [sess EXCEPT ![s] = r]
                 /\ r = Idle \/ (r.pc = "syncDay" /\ r.sibling = sess[s].sibling)
    <3> DEFINE r == [sess[s] EXCEPT !.pc = "syncDay", !.held = {}]
    <3>1. \E q \in {Idle, r} : sess' = [sess EXCEPT ![s] = q]
      BY <1>5 DEF SyncSubTasks, Abort, Finish, Goto
    <3>2. r.pc = "syncDay" /\ r.sibling = sess[s].sibling
      BY <1>0 DEF Session
    <3> QED BY <3>1, <3>2
  <2>2. Grows /\ UNCHANGED <<doneTask, torn>> /\ sess[s].pc = "syncSubs"
    BY <1>5, SameRowsGrow DEF SyncSubTasks
  <2>3. ~torn' => Relies(r)'
    BY <1>0, <2>1, <2>2, IdleFact DEF Relies, Done
  <2>4. r.pc \in {"idle", "syncDay"}
    BY <2>1, IdleFact
  <2> QED BY <2>1, <2>2, <2>3, <2>4, AddingKeepsWhole DEF Undoing
<1>6. CASE SyncDay(s)
  <2>1. /\ UNCHANGED <<doneTask, progress, torn>> /\ sess[s].pc = "syncDay"
        /\ doneDay' = doneDay \cup {sess[s].sibling}
        /\ sess' = [sess EXCEPT ![s] = [sess[s] EXCEPT !.pc = "sync", !.sibling = None]]
    BY <1>6 DEF SyncDay, Goto
  <2>2. PICK r : sess' = [sess EXCEPT ![s] = r] /\ r.pc = "sync"
    <3>1. [sess[s] EXCEPT !.pc = "sync", !.sibling = None].pc = "sync"
      BY <1>0 DEF Session
    <3> QED BY <2>1, <3>1
  <2>3. ~torn' => Grows
    BY <1>0, <2>1 DEF Relies, Grows, Done, is_series_completed_for_user, Enrolled
  <2>4. Relies(r)'
    BY <2>2 DEF Relies
  <2> QED BY <2>1, <2>2, <2>3, <2>4, AddingKeepsWhole DEF Undoing
<1> QED BY <1>1, <1>2, <1>3, <1>4, <1>5, <1>6 DEF CloseDay

\* The row that is marked completed stays the row it was, and the others too.
LEMMA MarkedRow ==
  ASSUME TInv, NEW p \in Plans, Enrolled(p), progress' = [progress EXCEPT ![p].completed = TRUE]
  PROVE  \A q \in Plans :
           /\ Enrolled(q)' <=> Enrolled(q)
           /\ Enrolled(q) => /\ progress'[q].source = progress[q].source
                             /\ progress'[q].completed <=> (q = p \/ progress[q].completed)
<1>1. progress \in [Plans -> Row \cup {None}]
  BY DEF TInv, TypeOK
<1>2. progress[p] \in Row
  BY <1>1 DEF Enrolled
<1>3. /\ [progress[p] EXCEPT !.completed = TRUE] \in Row
      /\ [progress[p] EXCEPT !.completed = TRUE].source = progress[p].source
      /\ [progress[p] EXCEPT !.completed = TRUE].completed
  BY <1>2 DEF Row
<1>4. [progress[p] EXCEPT !.completed = TRUE] # None
  BY <1>3, NoneIsNoRow
<1>5. progress'[p] = [progress[p] EXCEPT !.completed = TRUE]
  BY <1>1
<1>6. \A q \in Plans : q # p => progress'[q] = progress[q]
  BY <1>1
<1> QED BY <1>3, <1>4, <1>5, <1>6 DEF Enrolled

\* MarkCompleted keeps a completed series so, and rows are inserted only where
\* there is none.
LEMMA ProgressGrows ==
  ASSUME TInv, UNCHANGED <<doneTask, doneDay>>, NEW p \in Plans,
         \/ UNCHANGED progress
         \/ Enrolled(p) /\ progress' = [progress EXCEPT ![p].completed = TRUE]
         \/ ~Enrolled(p)
  PROVE  Grows
<1>1. is_series_completed_for_user => is_series_completed_for_user'
  <2>1. CASE UNCHANGED progress
    BY <2>1 DEF is_series_completed_for_user, Enrolled
  <2>2. CASE Enrolled(p) /\ progress' = [progress EXCEPT ![p].completed = TRUE]
    BY <2>2, MarkedRow DEF is_series_completed_for_user
  <2>3. CASE ~Enrolled(p)
    BY <2>3 DEF is_series_completed_for_user
  <2> QED BY <2>1, <2>2, <2>3
<1> QED BY <1>1 DEF Grows

LEMMA ClosePlanKeepsWhole ==
  ASSUME TInv, WholeInv, NEW s \in Sessions, ClosePlan(s)
  PROVE  WholeInv'
<1>0. sess[s] \in Session /\ HandlerInv(sess[s]) /\ (~torn => Relies(sess[s]))
  BY DEF TInv, TypeOK, HandlersInv, WholeInv
<1>n. ASSUME NextCheck(s) \/ Abort(s)
      PROVE  \E r : sess' = [sess EXCEPT ![s] = r] /\ r.pc \in {"idle", "plan"}
  BY <1>n, NextCheckFact, IdleFact DEF Abort, Finish, Goto
<1>1. CASE check_plan_completion(s)
  <2> DEFINE q == [sess[s] EXCEPT !.pc = "mark", !.item = PlanOf[sess[s].day]]
  <2>1. Grows /\ UNCHANGED <<doneDay, torn>> /\ sess[s].pc = "plan"
    BY <1>1, SameRowsGrow DEF check_plan_completion, ladder, history
  <2>2. q.pc = "mark" /\ q.item = PlanOf[sess[s].day]
    BY <1>0 DEF Session
  <2>3. \/ NextCheck(s)
        \/ Goto(s, q) /\ AllDaysDone(PlanOf[sess[s].day])
    BY <1>1 DEF check_plan_completion
  <2> HIDE DEF q
  <2>4. PICK r : /\ sess' = [sess EXCEPT ![s] = r]
                 /\ r.pc \in {"idle", "plan"} \/ (r.pc = "mark" /\ AllDaysDone(r.item))
    BY <2>2, <2>3, <1>n DEF Goto
  <2>5. Relies(r)'
    BY <2>1, <2>4 DEF Relies, AllDaysDone
  <2> QED BY <2>1, <2>4, <2>5, AddingKeepsWhole DEF Undoing
<1>2. CASE MarkCompleted(s)
  <2> DEFINE q == [sess[s] EXCEPT !.pc = "next"]
  <2>1. UNCHANGED <<doneTask, doneDay, torn>> /\ sess[s].pc = "mark" /\ sess[s].item \in Plans
    BY <1>0, <1>2 DEF MarkCompleted, ladder, HandlerInv
  <2>2. q.pc = "next"
    BY <1>0 DEF Session
  <2>3. /\ NextCheck(s) \/ Abort(s) \/ Goto(s, q)
        /\ \/ UNCHANGED progress
           \/ Enrolled(sess[s].item) /\ progress' = [progress EXCEPT ![sess[s].item].completed = TRUE]
    BY <1>2 DEF MarkCompleted
  <2> HIDE DEF q
  <2>4. PICK r : sess' = [sess EXCEPT ![s] = r] /\ r.pc \in {"idle", "plan", "next"}
    BY <2>2, <2>3, <1>n DEF Goto
  <2>5. Grows
    BY <2>1, <2>3, ProgressGrows
  <2> QED BY <2>1, <2>4, <2>5, AddingKeepsWhole DEF Undoing, Relies
<1>3. CASE ProgressSeries(s)
  <2>1. Grows /\ UNCHANGED <<progress, torn>> /\ sess[s].pc = "next"
    BY <1>3, SameRowsGrow DEF ProgressSeries, ladder, history
  <2>2. \/ NextCheck(s)
        \/ \E q \in Plans : Goto(s, [sess[s] EXCEPT !.pc = "enroll", !.item = q, !.ref = TRUE])
        \/ Goto(s, [sess[s] EXCEPT !.pc = "seriesDone"]) /\ is_series_completed_for_user
    BY <1>3 DEF ProgressSeries, NextPlans
  <2>3. /\ [sess[s] EXCEPT !.pc = "seriesDone"].pc = "seriesDone"
        /\ \A q : [sess[s] EXCEPT !.pc = "enroll", !.item = q, !.ref = TRUE].pc = "enroll"
    BY <1>0 DEF Session
  <2>4. PICK r : /\ sess' = [sess EXCEPT ![s] = r]
                 /\ \/ r.pc \in {"idle", "plan", "enroll"}
                    \/ r.pc = "seriesDone" /\ is_series_completed_for_user
    BY <2>2, <2>3, <1>n DEF Goto
  <2>5. Relies(r)'
    BY <2>1, <2>4 DEF Relies, is_series_completed_for_user, Enrolled
  <2> QED BY <2>1, <2>4, <2>5, AddingKeepsWhole DEF Undoing
<1>4. CASE auto_enroll_in_next_plan(s)
  <2>1. /\ UNCHANGED <<doneTask, doneDay, torn>> /\ sess[s].pc = "enroll" /\ sess[s].item \in Plans
        /\ NextCheck(s) \/ Abort(s)
        /\ UNCHANGED progress \/ ~Enrolled(sess[s].item)
    BY <1>0, <1>4 DEF auto_enroll_in_next_plan, ladder, HandlerInv
  <2>2. PICK r : sess' = [sess EXCEPT ![s] = r] /\ r.pc \in {"idle", "plan"}
    BY <2>1, <1>n
  <2>3. Grows
    BY <2>1, ProgressGrows
  <2> QED BY <2>1, <2>2, <2>3, AddingKeepsWhole DEF Undoing, Relies
<1>5. CASE mark_series_enrollment_completed(s)
  <2>1. Grows /\ UNCHANGED torn /\ sess[s].pc = "seriesDone"
    BY <1>5, SameRowsGrow DEF mark_series_enrollment_completed, ladder, history
  <2>2. PICK r : sess' = [sess EXCEPT ![s] = r] /\ r.pc \in {"idle", "plan"}
    BY <1>5, <1>n DEF mark_series_enrollment_completed
  <2> QED BY <2>1, <2>2, AddingKeepsWhole DEF Undoing, Relies
<1> QED BY <1>1, <1>2, <1>3, <1>4, <1>5 DEF ClosePlan

LEMMA EnrollKeepsWhole ==
  ASSUME TInv, WholeInv, NEW s \in Sessions, Enroll(s)
  PROVE  WholeInv'
<1>0. sess[s] \in Session /\ HandlerInv(sess[s])
  BY DEF TInv, TypeOK, HandlersInv
<1>1. ASSUME NEW p \in Plans, EnrollInPlan(s, p)
      PROVE  WholeInv'
  <2> DEFINE r == [Idle EXCEPT !.pc = "direct", !.item = p]
  <2>1. Arrive(s, r) /\ Grows
    BY <1>1, SameRowsGrow DEF EnrollInPlan, ladder
  <2>2. r.pc = "direct"
    BY DEF Idle
  <2> HIDE DEF r
  <2> QED BY <2>1, <2>2, ArriveFact, AddingKeepsWhole DEF Relies
<1>2. ASSUME NEW auto \in BOOLEAN, NEW p, EnrollInSeries(s, auto, p)
      PROVE  WholeInv'
  <2> DEFINE r == [Idle EXCEPT !.pc = "series", !.item = p, !.auto = auto]
  <2>1. Arrive(s, r) /\ Grows
    BY <1>2, SameRowsGrow DEF EnrollInSeries, ladder
  <2>2. r.pc = "series"
    BY DEF Idle
  <2> HIDE DEF r
  <2> QED BY <2>1, <2>2, ArriveFact, AddingKeepsWhole DEF Relies
<1>3. ASSUME NEW auto \in BOOLEAN, update_user_series_enrollment(s, auto)
      PROVE  WholeInv'
  BY <1>3 DEF update_user_series_enrollment, ladder, WholeInv, UndoAlone, Undoing, DaysInv, Done,
              Relies, AllDaysDone, is_series_completed_for_user, Enrolled
<1>4. CASE save_plan_progress(s)
  <2>1. /\ sess' = [sess EXCEPT ![s] = Idle] /\ UNCHANGED <<doneTask, doneDay, torn>>
        /\ sess[s].pc = "direct" /\ sess[s].item \in Plans
        /\ UNCHANGED progress \/ ~Enrolled(sess[s].item)
    BY <1>0, <1>4 DEF save_plan_progress, Finish, Goto, ladder, HandlerInv
  <2>2. Grows
    BY <2>1, ProgressGrows
  <2> QED BY <2>1, <2>2, IdleFact, AddingKeepsWhole DEF Undoing, Relies
<1>5. CASE save_user_series_enrollment(s)
  <2>1. Grows /\ UNCHANGED torn /\ sess[s].pc = "series"
    BY <1>5, SameRowsGrow DEF save_user_series_enrollment, ladder, history
  <2>2. PICK r : sess' = [sess EXCEPT ![s] = r] /\ r.pc \in {"idle", "enroll"}
    <3> DEFINE q == [Idle EXCEPT !.pc = "enroll", !.item = sess[s].item, !.ref = TRUE]
    <3>1. \E x \in {Idle, q} : sess' = [sess EXCEPT ![s] = x]
      BY <1>5 DEF save_user_series_enrollment, Finish, Goto
    <3>2. q.pc = "enroll"
      BY DEF Idle
    <3> QED BY <3>1, <3>2, IdleFact
  <2> QED BY <2>1, <2>2, AddingKeepsWhole DEF Undoing, Relies
<1> QED BY <1>1, <1>2, <1>3, <1>4, <1>5 DEF Enroll

\* An undoing handler is alone, or the state is torn.
LEMMA UndoKeepsWhole ==
  ASSUME TInv, WholeInv, NEW s \in Sessions, Undo(s) \/ Crash(s)
  PROVE  WholeInv'
<1>0. sess[s] \in Session /\ HandlerInv(sess[s]) /\ sess \in [Sessions -> Session]
  BY DEF TInv, TypeOK, HandlersInv
<1>1. ASSUME NEW t \in Tasks, DeleteTask(s, t)
      PROVE  WholeInv'
  <2> DEFINE r == [Idle EXCEPT !.pc = "delDay", !.item = t]
  <2>1. ArriveUndo(s, r) /\ doneTask' = doneTask \ {t} /\ UNCHANGED <<doneDay, progress>>
    BY <1>1 DEF DeleteTask
  <2>2. r.pc = "delDay" /\ r.item = t
    BY DEF Idle
  <2> HIDE DEF r
  <2> SUFFICES ASSUME ~torn' PROVE (UndoAlone /\ DaysInv /\ \A u \in Sessions : Relies(sess[u]))'
    BY DEF WholeInv
  <2>3. ~torn /\ \A u \in Sessions : sess[u].pc = "idle"
    BY <2>1, ArriveUndoFact
  <2>4. \A u \in Sessions : sess'[u] = IF u = s THEN r ELSE sess[u]
    BY <2>1, <1>0, ArriveUndoFact
  <2>5. UndoAlone'
    BY <2>2, <2>3, <2>4 DEF UndoAlone, Undoing
  <2>6. DaysInv'
    BY <2>1, <2>2, <2>3, <2>4 DEF WholeInv, DaysInv, Done, TasksOf
  <2>7. \A u \in Sessions : Relies(sess[u])'
    BY <2>2, <2>3, <2>4 DEF Relies
  <2> QED BY <2>5, <2>6, <2>7
<1>2. ASSUME NEW p \in Plans, delete_user_plan_progress(s, p)
      PROVE  WholeInv'
  <2>1. /\ ArriveUndo(s, Idle) /\ doneDay' = doneDay \ DaysOf(p)
        /\ doneTask' = {t \in doneTask : PlanOf[DayOf[t]] # p}
    BY <1>2 DEF delete_user_plan_progress
  <2> SUFFICES ASSUME ~torn' PROVE (UndoAlone /\ DaysInv /\ \A u \in Sessions : Relies(sess[u]))'
    BY DEF WholeInv
  <2>2. ~torn /\ \A u \in Sessions : sess[u].pc = "idle"
    BY <2>1, ArriveUndoFact
  <2>3. \A u \in Sessions : sess'[u].pc = "idle"
    BY <2>1, <2>2, <1>0, ArriveUndoFact, IdleFact
  <2>4. DaysInv'
    BY <2>1, <2>2, Structure DEF WholeInv, DaysInv, Done, TasksOf, DaysOf, TInv, TypeOK
  <2> QED BY <2>3, <2>4 DEF UndoAlone, Undoing, Relies
<1>3. CASE delete_user_day_completion(s)
  <2> DEFINE q == [sess[s] EXCEPT !.pc = "delSubs"]
  <2>1. /\ sess[s].pc = "delDay" /\ doneDay' = doneDay \ {DayOf[sess[s].item]}
        /\ sess' = [sess EXCEPT ![s] = q] /\ UNCHANGED <<doneTask, torn>>
    BY <1>3 DEF delete_user_day_completion, Goto
  <2>2. q.pc = "delSubs"
    BY <1>0 DEF Session
  <2> HIDE DEF q
  <2> SUFFICES ASSUME ~torn' PROVE (UndoAlone /\ DaysInv /\ \A u \in Sessions : Relies(sess[u]))'
    BY DEF WholeInv
  <2>3. \A u \in Sessions : u # s => sess[u].pc = "idle"
    BY <2>1 DEF WholeInv, UndoAlone, Undoing
  <2>4. \A u \in Sessions : sess'[u] = IF u = s THEN q ELSE sess[u]
    BY <2>1, <1>0
  <2>5. UndoAlone' /\ \A u \in Sessions : Relies(sess[u])'
    BY <2>2, <2>3, <2>4 DEF UndoAlone, Undoing, Relies
  <2>6. DaysInv'
    BY <2>1, <2>3 DEF WholeInv, DaysInv, Done
  <2> QED BY <2>5, <2>6
<1>4. CASE delete_user_subtask_completion(s)
  <2>1. /\ sess[s].pc = "delSubs" /\ sess' = [sess EXCEPT ![s] = Idle]
        /\ UNCHANGED <<doneTask, doneDay, torn>>
    BY <1>4 DEF delete_user_subtask_completion, Finish, Goto, history
  <2> SUFFICES ASSUME ~torn' PROVE (UndoAlone /\ DaysInv /\ \A u \in Sessions : Relies(sess[u]))'
    BY DEF WholeInv
  <2>2. \A u \in Sessions : u # s => sess[u].pc = "idle"
    BY <2>1 DEF WholeInv, UndoAlone, Undoing
  <2>3. \A u \in Sessions : sess'[u].pc = "idle"
    BY <2>1, <2>2, <1>0, IdleFact
  <2>4. DaysInv'
    BY <2>1, <2>2 DEF WholeInv, DaysInv, Done
  <2> QED BY <2>3, <2>4 DEF UndoAlone, Undoing, Relies
<1>5. CASE delete_user_series_enrollment(s)
  <2>1. /\ sess' = [t \in Sessions |-> [sess[t] EXCEPT !.ref = FALSE]]
        /\ UNCHANGED <<doneTask, doneDay>>
    BY <1>5 DEF delete_user_series_enrollment, ladder
  <2> SUFFICES ASSUME ~torn' PROVE (UndoAlone /\ DaysInv /\ \A u \in Sessions : Relies(sess[u]))'
    BY DEF WholeInv
  <2>2. ~torn /\ \A u \in Sessions : sess[u].pc = "idle"
    BY <1>5, Zenon DEF delete_user_series_enrollment
  <2>3. \A u \in Sessions : sess'[u].pc = "idle"
    BY <2>1, <2>2, <1>0 DEF Session
  <2>4. DaysInv'
    BY <2>1, <2>2 DEF WholeInv, DaysInv, Done
  <2> QED BY <2>3, <2>4 DEF UndoAlone, Undoing, Relies
<1>6. CASE Crash(s)
  <2>1. Grows /\ sess' = [sess EXCEPT ![s] = Idle] /\ sess[s].pc # "idle"
    BY <1>6, SameRowsGrow DEF Crash, Finish, Goto, ladder
  <2>2. ~torn' => ~torn /\ ~Undoing(s)
    BY <1>6, Zenon DEF Crash
  <2> QED BY <2>1, <2>2, IdleFact, AddingKeepsWhole DEF Relies
<1> QED BY <1>1, <1>2, <1>3, <1>4, <1>5, <1>6 DEF Undo

LEMMA InitWhole == Init => WholeInv
  BY IdleFact DEF Init, WholeInv, UndoAlone, Undoing, DaysInv, Relies

LEMMA StepKeepsWhole == TInv /\ WholeInv /\ [Next]_vars => WholeInv'
<1>1. WholeInv /\ UNCHANGED vars => WholeInv'
  BY DEF vars, ladder, history, WholeInv, UndoAlone, Undoing, DaysInv, Done, Relies, AllDaysDone,
         is_series_completed_for_user, Enrolled
<1> QED BY <1>1, TickOffKeepsWhole, CloseDayKeepsWhole, ClosePlanKeepsWhole, EnrollKeepsWhole,
           UndoKeepsWhole DEF Next

\* The inductive invariant of DoneDaysAreDone and CompletedInFull.
THEOREM WholeInvariance == Spec => [](TInv /\ WholeInv)
  BY InitTyped, InitWhole, StepTyped, StepKeepsWhole, PTL DEF Spec

\* Whatever overlaps and wherever handlers die, a day that counts as done has all
\* its tasks done, unless somebody is undoing or an undo was torn.
THEOREM DoneDaysHaveTheirTasks == Spec => []DoneDaysAreDone
<1>1. WholeInv => DoneDaysAreDone
  BY DEF WholeInv, DaysInv, Done, DoneDaysAreDone, Undoing
<1> QED BY WholeInvariance, <1>1, PTL

\* A plan is marked completed only with all its days done, and the series only
\* with all its plans completed, unless an undo was torn.
THEOREM CompletionsAreWhole == Spec => CompletedInFull
<1> DEFINE PlansFull ==
             \A p \in Plans : (progress'[p] # None /\ progress'[p].completed)
               => (Enrolled(p) /\ progress[p].completed) \/ DaysOf(p) \subseteq doneDay
           SeriesFull ==
             (enrollment # None /\ enrollment' # None)
               => (enrollment'.completed /\ ~enrollment.completed => is_series_completed_for_user)
<1>1. ASSUME TInv, WholeInv, ~torn', NEW s \in Sessions,
             TickOff(s) \/ CloseDay(s) \/ ClosePlan(s) \/ Enroll(s) \/ Undo(s) \/ Crash(s)
      PROVE  PlansFull /\ SeriesFull
  <2>0. /\ sess[s] \in Session /\ HandlerInv(sess[s])
        /\ progress \in [Plans -> Row \cup {None}] /\ enrollment \in Enrollment \cup {None}
    BY <1>1 DEF TInv, TypeOK, HandlersInv
  <2>1. CASE MarkCompleted(s)
    <3>1. /\ sess[s].pc = "mark" /\ sess[s].item \in Plans /\ UNCHANGED <<enrollment, torn>>
          /\ \/ UNCHANGED progress
             \/ progress' = [progress EXCEPT ![sess[s].item].completed = TRUE]
      BY <2>0, <2>1 DEF MarkCompleted, HandlerInv
    <3>2. DaysOf(sess[s].item) \subseteq doneDay
      BY <1>1, <3>1 DEF WholeInv, Relies, AllDaysDone
    <3> QED BY <2>0, <3>1, <3>2 DEF Enrolled
  <2>2. CASE mark_series_enrollment_completed(s)
    <3>1. sess[s].pc = "seriesDone" /\ UNCHANGED <<progress, torn>>
      BY <2>2 DEF mark_series_enrollment_completed, history
    <3>2. is_series_completed_for_user
      BY <1>1, <3>1 DEF WholeInv, Relies
    <3> QED BY <3>1, <3>2 DEF Enrolled
  <2>3. CASE \/ auto_enroll_in_next_plan(s) \/ save_plan_progress(s)
    <3>1. /\ UNCHANGED enrollment /\ sess[s].item \in Plans
          /\ \/ UNCHANGED progress
             \/ \E src : progress' = [progress EXCEPT ![sess[s].item] =
                                        [source |-> src, completed |-> FALSE]]
      BY <2>0, <2>3 DEF auto_enroll_in_next_plan, save_plan_progress, HandlerInv
    <3>2. ASSUME NEW src PROVE ~[source |-> src, completed |-> FALSE].completed
      OBVIOUS
    <3>3. ASSUME NEW p \in Plans PROVE progress'[p] = progress[p] \/ ~progress'[p].completed
      <4>1. CASE UNCHANGED progress
        BY <4>1
      <4>2. CASE ~UNCHANGED progress
        <5>1. PICK src : progress' = [progress EXCEPT ![sess[s].item] =
                                        [source |-> src, completed |-> FALSE]]
          BY <3>1, <4>2
        <5>2. progress'[p] = IF p = sess[s].item THEN [source |-> src, completed |-> FALSE]
                             ELSE progress[p]
          BY <2>0, <5>1
        <5> QED BY <5>2, <3>2
      <4> QED BY <4>1, <4>2
    <3> QED BY <3>1, <3>3 DEF Enrolled
  <2>4. CASE \/ \E auto \in BOOLEAN : update_user_series_enrollment(s, auto)
             \/ save_user_series_enrollment(s)
    <3>1. UNCHANGED progress
      BY <2>4 DEF update_user_series_enrollment, save_user_series_enrollment
    <3>2. SeriesFull
      BY <2>0, <2>4 DEF update_user_series_enrollment, save_user_series_enrollment, Enrollment
    <3> QED BY <3>1, <3>2 DEF Enrolled
  <2>5. CASE delete_user_series_enrollment(s) \/ \E p \in Plans : delete_user_plan_progress(s, p)
    BY <2>0, <2>5 DEF delete_user_series_enrollment, delete_user_plan_progress, Enrolled
  <2>6. CASE UNCHANGED <<progress, enrollment>>
    BY <2>6 DEF Enrolled
  <2>7. \/ MarkCompleted(s) \/ mark_series_enrollment_completed(s)
        \/ auto_enroll_in_next_plan(s) \/ save_plan_progress(s)
        \/ \E auto \in BOOLEAN : update_user_series_enrollment(s, auto)
        \/ save_user_series_enrollment(s)
        \/ delete_user_series_enrollment(s) \/ \E p \in Plans : delete_user_plan_progress(s, p)
        \/ UNCHANGED <<progress, enrollment>>
    BY <1>1
    DEF TickOff, CompleteSubTask, CompleteTask, SaveSubTask, _check_all_subtasks_completed,
        complete_all_subtasks_completions, save_user_task_completion,
        CloseDay, check_day_completion, save_user_day_completion, SyncNext, SyncTasks,
        SyncSubTasks, SyncDay, ClosePlan, check_plan_completion, ProgressSeries,
        Enroll, EnrollInPlan, EnrollInSeries, Undo, DeleteTask, delete_user_day_completion,
        delete_user_subtask_completion, Crash
  <2> QED BY <2>1, <2>2, <2>3, <2>4, <2>5, <2>6, <2>7
<1>2. TInv /\ WholeInv /\ [Next]_vars => [torn' \/ (PlansFull /\ SeriesFull)]_vars
  BY <1>1 DEF Next
<1> QED BY <1>2, WholeInvariance, PTL DEF Spec, CompletedInFull

-----------------------------------------------------------------------------
(* NothingLeftBehind.  A plan that is due is one some handler will still     *)
(* check, and will find in the state that makes it mark the plan; a plan     *)
(* that is owed is one some handler will still enrol the user in, and finds  *)
(* nothing that stops it.                                                    *)

\* Handler r will come to check plan p.
WillCheck(r, p) ==
  \/ r.pc \in Syncing \cup {"plan"} /\ PlanOf[r.day] = p
  \/ r.pc = "mark" /\ r.item = p
  \/ r.pc \in Checking /\ \E d \in r.checks : PlanOf[d] = p

\* Handler r is about to enrol the user in a plan of the slot of q.
WillEnroll(r, q) ==
  \/ r.pc = "next" /\ q \in NextPlans(r.item)
  \/ r.pc = "enroll" /\ r.ref /\ Slot[r.item] = Slot[q]

\* The synced days are among those to check, and an undoing handler has none; an
\* enrolment that handler r has read and that was not deleted under it is there.
SyncInv(r) ==
  /\ r.pc = "delDay" => r.checks = {} /\ ~r.ref
  /\ r.pc \in Syncing => r.todo \subseteq r.checks
  /\ r.pc \in Syncing \ {"sync"} => r.sibling \in r.checks
  /\ r.ref => enrollment # None
  /\ r.checks # {} => r.day # None

\* The row of plan p is the one a check marks completed.
Ripe(p) == AllDaysDone(p) /\ Enrolled(p) /\ ~progress[p].completed
\* No plan of the slot of q has been entered.
SlotFree(q) == \A r \in Plans : Slot[r] = Slot[q] => ~Enrolled(r)

DueInv == \A p \in due : Ripe(p) /\ \E s \in Sessions : WillCheck(sess[s], p)
OwedInv ==
  /\ owed # {} => enrollment # None /\ enrollment.auto
  /\ \A q \in owed : SlotFree(q) /\ \E s \in Sessions : WillEnroll(sess[s], q)
\* Rows that came with the series go with it.
SeriesInv == \A p \in Plans : (Enrolled(p) /\ progress[p].source = "SERIES") => enrollment # None
SyncsInv == \A s \in Sessions : SyncInv(sess[s])

AheadInv == SeriesInv /\ SyncsInv /\ (~crashed /\ ~aborted => DueInv /\ OwedInv)

\* What handler r had ahead of it, handler q has.
TakesOver(q, r) ==
  /\ \A p \in due : WillCheck(r, p) => WillCheck(q, p)
  /\ \A p \in owed : WillEnroll(r, p) => WillEnroll(q, p)

\* A session goes on with r, and what is due or owed after that is what it was, or
\* is up to r.
LEMMA StepAhead ==
  ASSUME TInv, AheadInv, NEW s \in Sessions, NEW r, sess' = [sess EXCEPT ![s] = r],
         SeriesInv', SyncInv(r)', enrollment # None => enrollment' # None,
         ~crashed' /\ ~aborted' =>
           /\ ~crashed /\ ~aborted
           /\ \A p \in due' : /\ Ripe(p)'
                              /\ WillCheck(r, p) \/ (p \in due /\ ~WillCheck(sess[s], p))
           /\ owed' # {} => enrollment' # None /\ enrollment'.auto
           /\ \A q \in owed' : /\ SlotFree(q)'
                               /\ WillEnroll(r, q) \/ (q \in owed /\ ~WillEnroll(sess[s], q))
  PROVE  AheadInv'
<1>1. \A t \in Sessions : sess'[t] = IF t = s THEN r ELSE sess[t]
  BY DEF TInv, TypeOK
<1>2. SyncsInv'
  <2> SUFFICES ASSUME NEW t \in Sessions PROVE SyncInv(sess[t])'
    BY DEF SyncsInv
  <2>1. CASE t = s
    BY <1>1, <2>1 DEF SyncInv
  <2>2. CASE t # s
    BY <1>1, <2>2 DEF AheadInv, SyncsInv, SyncInv
  <2> QED BY <2>1, <2>2
<1>3. ASSUME ~crashed', ~aborted' PROVE DueInv'
  <2> SUFFICES ASSUME NEW p \in due' PROVE Ripe(p)' /\ \E t \in Sessions : WillCheck(sess'[t], p)
    BY DEF DueInv, WillCheck
  <2>1. CASE WillCheck(r, p)
    BY <1>1, <1>3, <2>1
  <2>2. CASE p \in due /\ ~WillCheck(sess[s], p)
    BY <1>1, <1>3, <2>2 DEF AheadInv, DueInv
  <2> QED BY <1>3, <2>1, <2>2
<1>4. ASSUME ~crashed', ~aborted' PROVE OwedInv'
  <2>1. ASSUME NEW q \in owed' PROVE SlotFree(q)' /\ \E t \in Sessions : WillEnroll(sess'[t], q)
    <3>1. CASE WillEnroll(r, q)
      BY <1>1, <1>4, <3>1
    <3>2. CASE q \in owed /\ ~WillEnroll(sess[s], q)
      BY <1>1, <1>4, <3>2 DEF AheadInv, OwedInv
    <3> QED BY <1>4, <3>1, <3>2
  <2> QED BY <1>4, <2>1 DEF OwedInv, WillEnroll
<1> QED BY <1>2, <1>3, <1>4 DEF AheadInv

\* A step that only adds days and leaves the rest to the handler.
LEMMA CalmStep ==
  ASSUME TInv, AheadInv, NEW s \in Sessions, NEW r, sess' = [sess EXCEPT ![s] = r],
         UNCHANGED <<progress, enrollment, due, owed, crashed>>, doneDay \subseteq doneDay',
         SyncInv(r), ~crashed /\ ~aborted' => ~aborted /\ TakesOver(r, sess[s])
  PROVE  AheadInv'
<1>1. SeriesInv' /\ SyncInv(r)'
  BY DEF AheadInv, SeriesInv, SyncInv, Enrolled
<1>2. ASSUME ~crashed', ~aborted'
      PROVE  /\ ~crashed /\ ~aborted
             /\ \A p \in due' : /\ Ripe(p)'
                                /\ WillCheck(r, p) \/ (p \in due /\ ~WillCheck(sess[s], p))
             /\ owed' # {} => enrollment' # None /\ enrollment'.auto
             /\ \A q \in owed' : /\ SlotFree(q)'
                                 /\ WillEnroll(r, q) \/ (q \in owed /\ ~WillEnroll(sess[s], q))
  <2>1. ~crashed /\ ~aborted /\ TakesOver(r, sess[s]) /\ DueInv /\ OwedInv
    BY <1>2 DEF AheadInv
  <2>2. \A p \in due' : Ripe(p)'
    BY <2>1 DEF DueInv, Ripe, AllDaysDone, Enrolled
  <2>3. \A q \in owed' : SlotFree(q)'
    BY <2>1 DEF OwedInv, SlotFree, Enrolled
  <2> QED BY <2>1, <2>2, <2>3 DEF TakesOver, OwedInv
<1> QED BY <1>1, <1>2, StepAhead

\* A handler with nothing ahead of it leaves nothing behind.
LEMMA NothingAhead ==
  ASSUME NEW r, NEW q, r.pc \notin Checking
  PROVE  TakesOver(q, r)
  BY DEF TakesOver, WillCheck, WillEnroll, Checking

LEMMA IdleSync == SyncInv(Idle)
  BY DEF SyncInv, Idle, Syncing

\* Handler r has no plan to check and none to enter.
Light(r) == r.pc \notin Checking /\ ~r.ref /\ r.checks = {}

\* A step between two such stages of a handler.
LEMMA LightStep ==
  ASSUME TInv, AheadInv, NEW s \in Sessions, NEW r, sess' = [sess EXCEPT ![s] = r],
         UNCHANGED <<progress, enrollment, due, owed, crashed, aborted>>, doneDay \subseteq doneDay',
         Light(r), sess[s].pc \notin Checking
  PROVE  AheadInv'
<1>1. SyncInv(r)
  BY DEF Light, SyncInv, Checking
<1> QED BY <1>1, NothingAhead, CalmStep

LEMMA IdleLight == Light(Idle)
  BY DEF Light, Idle, Checking, Syncing

\* No step leaves anything behind: again one lemma for each group of steps.
LEMMA TickOffKeepsAhead ==
  ASSUME TInv, AheadInv, NEW s \in Sessions, TickOff(s)
  PROVE  AheadInv'
<1>1. ASSUME NEW u \in SubTasks, CompleteSubTask(s, u)
      PROVE  AheadInv'
  <2> DEFINE r == [Idle EXCEPT !.pc = "subtask", !.item = u]
  <2>1. Arrive(s, r) /\ UNCHANGED <<doneDay, progress, enrollment>>
    BY <1>1 DEF CompleteSubTask, ladder
  <2>2. Light(r)
    BY DEF Light, Idle, Checking, Syncing
  <2> HIDE DEF r
  <2> QED BY <2>1, <2>2, ArriveFact, LightStep DEF Checking, Syncing
<1>2. ASSUME NEW t \in Tasks, CompleteTask(s, t)
      PROVE  AheadInv'
  <2> DEFINE r == [Idle EXCEPT !.pc = "bulk", !.item = t, !.held = SubTasksOf(t) \ doneSub]
  <2>1. Arrive(s, r) /\ UNCHANGED <<doneDay, progress, enrollment>>
    BY <1>2 DEF CompleteTask, ladder
  <2>2. Light(r)
    BY DEF Light, Idle, Checking, Syncing
  <2> HIDE DEF r
  <2> QED BY <2>1, <2>2, ArriveFact, LightStep DEF Checking, Syncing
<1>3. CASE \/ SaveSubTask(s) \/ _check_all_subtasks_completed(s)
           \/ complete_all_subtasks_completions(s) \/ save_user_task_completion(s)
  <2> DEFINE a == [Idle EXCEPT !.pc = "subtasksDone", !.item = TaskOf[sess[s].item]]
             b == [Idle EXCEPT !.pc = "task", !.item = sess[s].item]
             c == [Idle EXCEPT !.pc = "day", !.day = DayOf[sess[s].item]]
  <2>1. /\ UNCHANGED <<doneDay, progress, enrollment, due, owed, crashed, aborted>>
        /\ sess[s].pc \in {"subtask", "subtasksDone", "bulk", "task"}
        /\ \E r \in {Idle, a, b, c} : sess' = [sess EXCEPT ![s] = r]
    BY <1>3 DEF SaveSubTask, _check_all_subtasks_completed, complete_all_subtasks_completions,
                save_user_task_completion, history, ladder, Finish, Goto
  <2>2. Light(a) /\ Light(b) /\ Light(c)
    BY DEF Light, Idle, Checking, Syncing
  <2> QED BY <2>1, <2>2, IdleLight, LightStep DEF Checking, Syncing
<1> QED BY <1>1, <1>2, <1>3 DEF TickOff

LEMMA CloseDayKeepsAhead ==
  ASSUME TInv, AheadInv, NEW s \in Sessions, CloseDay(s)
  PROVE  AheadInv'
<1>0. sess[s] \in Session /\ HandlerInv(sess[s]) /\ SyncInv(sess[s])
  BY DEF TInv, TypeOK, HandlersInv, AheadInv, SyncsInv
\* What a sync step leaves to the handler when it goes on with r.
<1>k. ASSUME NEW r, sess[s].pc \in Syncing, r.pc \in Syncing \cup {"plan"},
             r.day = sess[s].day, r.checks = sess[s].checks
      PROVE  TakesOver(r, sess[s])
  BY <1>k DEF TakesOver, WillCheck, WillEnroll, Checking, Syncing
\* What saving day d, of a handler that goes on with r, makes due.
<1>d. ASSUME NEW d \in Days, NEW r, sess' = [sess EXCEPT ![s] = r], SyncInv(r),
             doneDay' = doneDay \cup {d}, DueBy(d),
             d \in doneDay \/ WillCheck(r, PlanOf[d]), TakesOver(r, sess[s]),
             UNCHANGED <<progress, enrollment, owed, crashed, aborted>>
      PROVE  AheadInv'
  <2>1. SeriesInv' /\ SyncInv(r)'
    BY <1>d DEF AheadInv, SeriesInv, SyncInv, Enrolled
  <2>2. ASSUME ~crashed, ~aborted, NEW p \in due'
        PROVE  Ripe(p)' /\ (WillCheck(r, p) \/ (p \in due /\ ~WillCheck(sess[s], p)))
    <3>1. DueInv
      BY <2>2 DEF AheadInv
    <3>2. CASE p \in due
      BY <1>d, <3>1, <3>2 DEF DueInv, Ripe, AllDaysDone, Enrolled, TakesOver
    <3>3. CASE p \notin due
      BY <1>d, <2>2, <3>3 DEF DueBy, Ripe, AllDaysDone, Enrolled
    <3> QED BY <3>2, <3>3
  <2>3. ASSUME ~crashed, ~aborted, NEW q \in owed'
        PROVE  SlotFree(q)' /\ (WillEnroll(r, q) \/ (q \in owed /\ ~WillEnroll(sess[s], q)))
    BY <1>d, <2>3 DEF AheadInv, OwedInv, SlotFree, Enrolled, TakesOver
  <2>4. ASSUME ~crashed, ~aborted PROVE owed' # {} => enrollment' # None /\ enrollment'.auto
    BY <1>d, <2>4 DEF AheadInv, OwedInv
  <2> QED BY <1>d, <2>1, <2>2, <2>3, <2>4, StepAhead
<1>1. CASE check_day_completion(s)
  <2> DEFINE q == [Idle EXCEPT !.pc = "daySave", !.day = sess[s].day]
  <2>1. /\ UNCHANGED <<doneDay, progress, enrollment, due, owed, crashed, aborted>>
        /\ sess[s].pc = "day" /\ \E r \in {Idle, q} : sess' = [sess EXCEPT ![s] = r]
    BY <1>1 DEF check_day_completion, ladder, history, Finish, Goto
  <2>2. Light(q)
    BY DEF Light, Idle, Checking, Syncing
  <2> QED BY <2>1, <2>2, IdleLight, LightStep DEF Checking, Syncing
<1>2. CASE save_user_day_completion(s)
  <2> DEFINE d == sess[s].day
             q == [Idle EXCEPT !.pc = "sync", !.day = d, !.todo = SiblingDays(d),
                               !.checks = SiblingDays(d)]
  <2>1. d \in Days /\ sess[s].pc = "daySave"
    BY <1>0, <1>2 DEF save_user_day_completion, HandlerInv
  <2>2. q.pc = "sync" /\ q.day = d /\ q.todo = q.checks /\ ~q.ref
    BY DEF Idle
  <2>3. PICK r \in {Idle, q} : sess' = [sess EXCEPT ![s] = r] /\ (d \in doneDay \/ r = q)
    BY <1>2 DEF save_user_day_completion, Finish, Goto
  <2>4. SyncInv(q) /\ WillCheck(q, PlanOf[d])
    BY <2>1, <2>2, Structure DEF SyncInv, WillCheck, Syncing
  <2>5. /\ doneDay' = doneDay \cup {d} /\ DueBy(d)
        /\ UNCHANGED <<progress, enrollment, owed, crashed, aborted>>
    BY <1>2 DEF save_user_day_completion
  <2>6. TakesOver(r, sess[s])
    BY <2>1, NothingAhead DEF Checking, Syncing
  <2> HIDE DEF d, q
  <2> QED BY <1>d, <2>1, <2>3, <2>4, <2>5, <2>6, IdleLight, IdleSync
<1>3. CASE SyncNext(s)
  <2>1. /\ UNCHANGED <<doneDay, progress, enrollment, due, owed, crashed, aborted>>
        /\ sess[s].pc = "sync"
    BY <1>3 DEF SyncNext, ladder, history
  <2>2. PICK r : /\ sess' = [sess EXCEPT ![s] = r] /\ SyncInv(r)
                 /\ r.pc \in {"plan", "syncTasks"} /\ r.day = sess[s].day
                 /\ r.checks = sess[s].checks
    <3>1. CASE sess[s].todo = {}
      <4> DEFINE r == [sess[s] EXCEPT !.pc = "plan"]
      <4>1. sess' = [sess EXCEPT ![s] = r]
        BY <1>3, <3>1 DEF SyncNext, Goto
      <4>2. r.pc = "plan" /\ r.day = sess[s].day /\ r.checks = sess[s].checks /\ r.ref = sess[s].ref
        BY <1>0 DEF Session
      <4>3. SyncInv(r)
        BY <1>0, <4>2 DEF SyncInv, Syncing
      <4> QED BY <4>1, <4>2, <4>3
    <3>2. CASE sess[s].todo # {}
      <4>1. PICK e \in sess[s].todo :
              sess' = [sess EXCEPT ![s] =
                         [sess[s] EXCEPT !.pc = "syncTasks", !.sibling = e, !.todo = @ \ {e},
                                         !.held = TasksOf(e) \ doneTask]]
        BY <1>3, <3>2 DEF SyncNext, Goto
      <4> DEFINE r == [sess[s] EXCEPT !.pc = "syncTasks", !.sibling = e, !.todo = @ \ {e},
                                      !.held = TasksOf(e) \ doneTask]
      <4>2. /\ r.pc = "syncTasks" /\ r.sibling = e /\ r.todo = sess[s].todo \ {e}
            /\ r.day = sess[s].day /\ r.checks = sess[s].checks /\ r.ref = sess[s].ref
        BY <1>0 DEF Session
      <4>3. SyncInv(r)
        BY <1>0, <2>1, <4>2 DEF SyncInv, Syncing
      <4> QED BY <4>1, <4>2, <4>3
    <3> QED BY <3>1, <3>2
  <2>3. TakesOver(r, sess[s])
    BY <2>1, <2>2, <1>k DEF Syncing
  <2> QED BY <2>1, <2>2, <2>3, CalmStep
<1>4. CASE SyncTasks(s) \/ SyncSubTasks(s)
  <2>1. /\ UNCHANGED <<doneDay, progress, enrollment, due, owed, crashed>>
        /\ sess[s].pc \in {"syncTasks", "syncSubs"}
    BY <1>4 DEF SyncTasks, SyncSubTasks
  <2>2. sess[s].day # None
    BY <1>0, <2>1, Structure DEF HandlerInv, Syncing
  <2>3. CASE Abort(s)
    BY <2>1, <2>2, <2>3, IdleSync, CalmStep DEF Abort, Finish, Goto
  <2>4. CASE ~Abort(s)
    <3>0. PICK x \in {"syncSubs", "syncDay"} : \E y :
             /\ sess' = [sess EXCEPT ![s] = [sess[s] EXCEPT !.pc = x, !.held = y]]
             /\ UNCHANGED aborted
      BY <1>4, <2>4 DEF SyncTasks, SyncSubTasks, Goto
    <3>1. PICK y : /\ sess' = [sess EXCEPT ![s] = [sess[s] EXCEPT !.pc = x, !.held = y]]
                   /\ UNCHANGED aborted
      BY <3>0
    <3> DEFINE r == [sess[s] EXCEPT !.pc = x, !.held = y]
    <3>2. /\ r.pc = x /\ r.sibling = sess[s].sibling /\ r.todo = sess[s].todo
          /\ r.day = sess[s].day /\ r.checks = sess[s].checks /\ r.ref = sess[s].ref
          /\ sess' = [sess EXCEPT ![s] = r]
      BY <1>0, <3>1 DEF Session
    <3> HIDE DEF r
    <3>3. SyncInv(r)
      BY <1>0, <2>1, <3>2 DEF SyncInv, Syncing
    <3>4. TakesOver(r, sess[s])
      BY <2>1, <3>2, <1>k DEF Syncing
    <3> QED BY <2>1, <3>1, <3>2, <3>3, <3>4, CalmStep
  <2> QED BY <2>3, <2>4
<1>5. CASE SyncDay(s)
  <2>1. /\ sess[s].pc = "syncDay" /\ sess[s].sibling \in Days /\ sess[s].sibling \in sess[s].checks
    BY <1>0, <1>5 DEF SyncDay, HandlerInv, SyncInv, Syncing
  <2>2. PICK r : /\ sess' = [sess EXCEPT ![s] = r]
                 /\ r.pc = "sync" /\ r.todo = sess[s].todo
                 /\ r.day = sess[s].day /\ r.checks = sess[s].checks /\ r.ref = sess[s].ref
    <3> DEFINE r == [sess[s] EXCEPT !.pc = "sync", !.sibling = None]
    <3>1. /\ r.pc = "sync" /\ r.todo = sess[s].todo
          /\ r.day = sess[s].day /\ r.checks = sess[s].checks /\ r.ref = sess[s].ref
      BY <1>0 DEF Session
    <3>2. sess' = [sess EXCEPT ![s] = r]
      BY <1>5 DEF SyncDay, Goto
    <3> QED BY <3>1, <3>2
  <2>3. SyncInv(r) /\ WillCheck(r, PlanOf[sess[s].sibling])
    BY <1>0, <2>1, <2>2 DEF SyncInv, WillCheck, Checking, Syncing
  <2>4. TakesOver(r, sess[s])
    BY <2>1, <2>2, <1>k DEF Syncing
  <2>5. /\ doneDay' = doneDay \cup {sess[s].sibling} /\ DueBy(sess[s].sibling)
        /\ UNCHANGED <<progress, enrollment, owed, crashed, aborted>>
    BY <1>5 DEF SyncDay
  <2> QED BY <1>d, <2>1, <2>2, <2>3, <2>4, <2>5
<1> QED BY <1>1, <1>2, <1>3, <1>4, <1>5 DEF CloseDay

\* Where NextCheck leads, with what is left to check.
LEMMA NextCheckAhead ==
  ASSUME TInv, AheadInv, NEW s \in Sessions, NextCheck(s)
  PROVE  \E r : /\ sess' = [sess EXCEPT ![s] = r] /\ ~r.ref /\ SyncInv(r)
                /\ \A p : (\E d \in sess[s].checks : PlanOf[d] = p) => WillCheck(r, p)
<1>1. sess[s] \in Session
  BY DEF TInv, TypeOK
<1>2. PICK r \in Session :
        /\ sess' = [sess EXCEPT ![s] = r] /\ ~r.ref
        /\ \/ sess[s].checks = {} /\ r = Idle
           \/ /\ r.pc = "plan" /\ r.day \in sess[s].checks
              /\ r.checks = sess[s].checks \ {r.day}
  BY NextCheckFact
<1>3. CASE sess[s].checks = {} /\ r = Idle
  BY <1>2, <1>3, IdleSync
<1>4. CASE r.pc = "plan" /\ r.day \in sess[s].checks /\ r.checks = sess[s].checks \ {r.day}
  <2>1. SyncInv(r)
    BY <1>1, <1>2, <1>4, Structure DEF SyncInv, Syncing, Session
  <2>2. \A p : (\E d \in sess[s].checks : PlanOf[d] = p) => WillCheck(r, p)
    BY <1>4 DEF WillCheck, Checking
  <2> QED BY <1>2, <2>1, <2>2
<1> QED BY <1>2, <1>3, <1>4

\* The plans of one slot after p are all or none the next ones.
LEMMA NextSlot ==
  ASSUME NEW p \in Plans, NEW q \in NextPlans(p), NEW r \in Plans
  PROVE  r \in NextPlans(p) <=> Slot[r] = Slot[q]
  BY Structure DEF NextPlans

LEMMA ClosePlanKeepsAhead ==
  ASSUME TInv, AheadInv, NEW s \in Sessions, ClosePlan(s)
  PROVE  AheadInv'
<1>0. /\ sess[s] \in Session /\ HandlerInv(sess[s]) /\ SyncInv(sess[s])
      /\ progress \in [Plans -> Row \cup {None}] /\ enrollment \in Enrollment \cup {None}
      /\ due \subseteq Plans /\ owed \subseteq Plans
  BY DEF TInv, TypeOK, HandlersInv, AheadInv, SyncsInv
<1>n. ASSUME NextCheck(s)
      PROVE  \E r : /\ sess' = [sess EXCEPT ![s] = r] /\ SyncInv(r) /\ ~r.ref
                    /\ \A p : (\E d \in sess[s].checks : PlanOf[d] = p) => WillCheck(r, p)
  BY <1>n, NextCheckAhead
<1>1. CASE check_plan_completion(s)
  <2>0. /\ sess[s].pc = "plan" /\ sess[s].day \in Days
        /\ UNCHANGED <<doneDay, progress, enrollment, due, owed, crashed, aborted>>
    BY <1>0, <1>1 DEF check_plan_completion, HandlerInv, ladder, history
  <2> DEFINE p == PlanOf[sess[s].day]
             q == [sess[s] EXCEPT !.pc = "mark", !.item = p]
  <2>1. CASE Ripe(p)
    <3>1. sess' = [sess EXCEPT ![s] = q]
      BY <1>1, <2>1 DEF check_plan_completion, Ripe, Goto
    <3>2. /\ q.pc = "mark" /\ q.item = p /\ q.day = sess[s].day /\ q.checks = sess[s].checks
          /\ q.ref = sess[s].ref
      BY <1>0 DEF Session
    <3> HIDE DEF q
    <3>3. SyncInv(q)
      BY <1>0, <3>2 DEF SyncInv, Syncing
    <3>4. TakesOver(q, sess[s])
      BY <2>0, <3>2 DEF TakesOver, WillCheck, WillEnroll, Checking, Syncing
    <3> QED BY <2>0, <3>1, <3>3, <3>4, CalmStep
  <2>2. CASE ~Ripe(p)
    <3>1. PICK r : /\ sess' = [sess EXCEPT ![s] = r] /\ SyncInv(r)
                   /\ \A x : (\E d \in sess[s].checks : PlanOf[d] = x) => WillCheck(r, x)
      BY <1>1, <2>2, <1>n DEF check_plan_completion, Ripe
    <3>2. ASSUME ~crashed, ~aborted PROVE TakesOver(r, sess[s])
      <4>1. p \notin due
        BY <2>2, <3>2 DEF AheadInv, DueInv
      <4> QED BY <2>0, <3>1, <4>1 DEF TakesOver, WillCheck, WillEnroll, Checking, Syncing
    <3> QED BY <2>0, <3>1, <3>2, CalmStep
  <2> QED BY <2>1, <2>2
<1>2. CASE MarkCompleted(s)
  <2> DEFINE p == sess[s].item
             q == [sess[s] EXCEPT !.pc = "next"]
  <2>0. /\ sess[s].pc = "mark" /\ p \in Plans /\ sess[s].day # None
        /\ UNCHANGED <<doneDay, enrollment, crashed>>
    BY <1>0, <1>2, Structure DEF MarkCompleted, HandlerInv, ladder
  <2>1. CASE ~Enrolled(p)
    BY <1>2, <2>0, <2>1, IdleSync, CalmStep DEF MarkCompleted, Abort, Finish, Goto
  <2>2. CASE Enrolled(p)
    <3>1. /\ progress' = [progress EXCEPT ![p].completed = TRUE]
          /\ due' = due \ {p} /\ UNCHANGED aborted
          /\ \/ UNCHANGED owed
             \/ /\ progress[p].source = "SERIES" /\ enrollment.auto
                /\ \A x \in NextPlans(p) : ~Enrolled(x)
                /\ owed' = owed \cup NextPlans(p)
          /\ IF progress[p].source = "SERIES" THEN Goto(s, q) ELSE NextCheck(s)
      BY <1>2, <2>2 DEF MarkCompleted
    <3>2. \A x \in Plans : /\ Enrolled(x)' <=> Enrolled(x)
                           /\ Enrolled(x) => /\ progress'[x].source = progress[x].source
                                             /\ progress'[x].completed
                                                  <=> (x = p \/ progress[x].completed)
      BY <2>0, <2>2, <3>1, MarkedRow
    <3>3. q.pc = "next" /\ q.item = p /\ q.day = sess[s].day /\ q.checks = sess[s].checks
          /\ q.ref = sess[s].ref
      BY <1>0 DEF Session
    <3>4. PICK r : /\ sess' = [sess EXCEPT ![s] = r] /\ SyncInv(r)
                   /\ \A x : (\E d \in sess[s].checks : PlanOf[d] = x) => WillCheck(r, x)
                   /\ progress[p].source = "SERIES" => r.pc = "next" /\ r.item = p
      <4>1. CASE progress[p].source = "SERIES"
        <5>1. sess' = [sess EXCEPT ![s] = q]
          BY <3>1, <4>1 DEF Goto
        <5> HIDE DEF q
        <5>2. SyncInv(q) /\ \A x : (\E d \in sess[s].checks : PlanOf[d] = x) => WillCheck(q, x)
          BY <1>0, <3>3 DEF SyncInv, WillCheck, Checking, Syncing
        <5> QED BY <3>3, <5>1, <5>2
      <4>2. CASE progress[p].source # "SERIES"
        BY <3>1, <4>2, <1>n
      <4> QED BY <4>1, <4>2
    <3>5. SeriesInv' /\ SyncInv(r)'
      BY <2>0, <3>2, <3>4 DEF AheadInv, SeriesInv, SyncInv
    <3>6. ASSUME ~crashed, ~aborted, NEW x \in due'
          PROVE  Ripe(x)' /\ (WillCheck(r, x) \/ (x \in due /\ ~WillCheck(sess[s], x)))
      <4>1. x \in due /\ x # p /\ Ripe(x)
        BY <3>1, <3>6 DEF AheadInv, DueInv
      <4>2. Ripe(x)'
        BY <1>0, <2>0, <3>2, <4>1 DEF Ripe, AllDaysDone
      <4>3. WillCheck(sess[s], x) => WillCheck(r, x)
        BY <2>0, <3>4, <4>1 DEF WillCheck, Syncing
      <4> QED BY <4>1, <4>2, <4>3
    <3>7. ASSUME ~crashed, ~aborted
          PROVE  /\ owed' # {} => enrollment' # None /\ enrollment'.auto
                 /\ \A x \in owed' : /\ SlotFree(x)'
                                     /\ WillEnroll(r, x) \/ (x \in owed /\ ~WillEnroll(sess[s], x))
      <4>0. OwedInv
        BY <3>7 DEF AheadInv
      <4>1. owed' # {} => enrollment' # None /\ enrollment'.auto
        BY <2>0, <2>2, <3>1, <4>0 DEF AheadInv, SeriesInv, OwedInv
      <4>2. ASSUME NEW x \in owed
            PROVE  SlotFree(x)' /\ ~WillEnroll(sess[s], x)
        BY <2>0, <3>2, <4>0 DEF OwedInv, SlotFree, WillEnroll
      <4>3. ASSUME NEW x \in owed', x \notin owed
            PROVE  SlotFree(x)' /\ WillEnroll(r, x)
        <5>1. x \in NextPlans(p) /\ progress[p].source = "SERIES" /\ \A y \in NextPlans(p) : ~Enrolled(y)
          BY <3>1, <4>3
        <5>2. SlotFree(x)'
          BY <2>0, <3>2, <5>1, NextSlot DEF SlotFree
        <5> QED BY <3>4, <5>1, <5>2 DEF WillEnroll
      <4> QED BY <4>1, <4>2, <4>3
    <3> QED BY <2>0, <3>1, <3>4, <3>5, <3>6, <3>7, StepAhead
  <2> QED BY <2>1, <2>2
<1>3. CASE ProgressSeries(s)
  <2> DEFINE p == sess[s].item
  <2>0. /\ sess[s].pc = "next" /\ p \in Plans
        /\ UNCHANGED <<doneDay, progress, enrollment, due, owed, crashed, aborted>>
    BY <1>0, <1>3 DEF ProgressSeries, HandlerInv, ladder, history
  <2>n. ASSUME NextCheck(s), ~crashed /\ ~aborted => \A x \in owed : x \notin NextPlans(p)
        PROVE  AheadInv'
    <3>1. PICK r : /\ sess' = [sess EXCEPT ![s] = r] /\ SyncInv(r)
                   /\ \A x : (\E d \in sess[s].checks : PlanOf[d] = x) => WillCheck(r, x)
      BY <1>n, <2>n
    <3>2. ~crashed /\ ~aborted => TakesOver(r, sess[s])
      BY <2>0, <2>n, <3>1 DEF TakesOver, WillCheck, WillEnroll, Syncing
    <3> QED BY <2>0, <3>1, <3>2, CalmStep
  <2>1. CASE enrollment = None \/ ~enrollment.auto
    <3>1. ~crashed /\ ~aborted => owed = {}
      BY <2>1 DEF AheadInv, OwedInv
    <3> QED BY <1>3, <2>1, <2>n, <3>1 DEF ProgressSeries
  <2>2. CASE ~(enrollment = None \/ ~enrollment.auto) /\ NextPlans(p) # {}
    <3>1. PICK q \in NextPlans(p) :
            IF Enrolled(q) THEN NextCheck(s)
            ELSE Goto(s, [sess[s] EXCEPT !.pc = "enroll", !.item = q, !.ref = TRUE])
      BY <1>3, <2>2 DEF ProgressSeries
    <3>2. CASE Enrolled(q)
      <4>1. ASSUME ~crashed, ~aborted, NEW x \in owed PROVE x \notin NextPlans(p)
        <5>1. SlotFree(x) /\ x \in Plans /\ q \in Plans
          BY <1>0, <4>1 DEF AheadInv, OwedInv, NextPlans
        <5> QED BY <2>0, <3>2, <5>1, NextSlot DEF SlotFree
      <4> QED BY <2>n, <3>1, <3>2, <4>1
    <3>3. CASE ~Enrolled(q)
      <4> DEFINE r == [sess[s] EXCEPT !.pc = "enroll", !.item = q, !.ref = TRUE]
      <4>1. /\ r.pc = "enroll" /\ r.item = q /\ r.ref /\ r.day = sess[s].day
            /\ r.checks = sess[s].checks /\ sess' = [sess EXCEPT ![s] = r]
        BY <1>0, <3>1, <3>3 DEF Session, Goto
      <4> HIDE DEF r
      <4>2. SyncInv(r)
        BY <1>0, <2>2, <4>1 DEF SyncInv, Syncing
      <4>3. \A x \in owed : x \in NextPlans(p) => Slot[q] = Slot[x]
        BY <1>0, <2>0, NextSlot
      <4>4. TakesOver(r, sess[s])
        BY <2>0, <4>1, <4>3 DEF TakesOver, WillCheck, WillEnroll, Checking, Syncing
      <4> QED BY <2>0, <4>1, <4>2, <4>4, CalmStep
    <3> QED BY <3>2, <3>3
  <2>3. CASE ~(enrollment = None \/ ~enrollment.auto) /\ NextPlans(p) = {}
    <3>1. CASE is_series_completed_for_user
      <4> DEFINE r == [sess[s] EXCEPT !.pc = "seriesDone"]
      <4>0. sess' = [sess EXCEPT ![s] = r]
        BY <1>3, <2>3, <3>1 DEF ProgressSeries, Goto
      <4>1. /\ r.pc = "seriesDone" /\ r.day = sess[s].day /\ r.ref = sess[s].ref
            /\ r.checks = sess[s].checks
        BY <1>0 DEF Session
      <4> HIDE DEF r
      <4>2. SyncInv(r)
        BY <1>0, <4>1 DEF SyncInv, Syncing
      <4>3. TakesOver(r, sess[s])
        BY <2>0, <2>3, <4>1 DEF TakesOver, WillCheck, WillEnroll, Checking, Syncing
      <4> QED BY <2>0, <4>0, <4>2, <4>3, CalmStep
    <3>2. CASE ~is_series_completed_for_user
      BY <1>3, <2>3, <3>2, <2>n DEF ProgressSeries
    <3> QED BY <3>1, <3>2
  <2> QED BY <2>1, <2>2, <2>3
<1>4. CASE auto_enroll_in_next_plan(s)
  <2> DEFINE q == sess[s].item
  <2>0. /\ sess[s].pc = "enroll" /\ q \in Plans
        /\ UNCHANGED <<doneDay, enrollment, due, crashed>>
    BY <1>0, <1>4 DEF auto_enroll_in_next_plan, HandlerInv, ladder
  <2>1. CASE Enrolled(q) \/ ~sess[s].ref
    <3>1. Abort(s) /\ UNCHANGED <<progress, owed>>
      BY <1>4, <2>1 DEF auto_enroll_in_next_plan
    <3>2. ASSUME ~crashed, ~aborted' PROVE ~aborted /\ TakesOver(Idle, sess[s])
      <4>1. ~aborted /\ sess[s].day = None
        BY <3>1, <3>2 DEF Abort
      <4>2. sess[s].checks = {}
        BY <1>0, <4>1 DEF SyncInv
      <4>3. \A x \in owed : ~WillEnroll(sess[s], x)
        BY <2>0, <2>1, <3>2, <4>1 DEF AheadInv, OwedInv, SlotFree, WillEnroll
      <4> QED BY <2>0, <4>1, <4>2, <4>3 DEF TakesOver, WillCheck, Syncing
    <3> QED BY <2>0, <3>1, <3>2, IdleSync, CalmStep DEF Abort, Finish, Goto
  <2>2. CASE ~Enrolled(q) /\ sess[s].ref
    <3>1. /\ progress' = [progress EXCEPT ![q] = [source |-> "SERIES", completed |-> FALSE]]
          /\ owed' = owed \ {r \in Plans : Slot[r] = Slot[q]}
          /\ NextCheck(s) /\ UNCHANGED aborted
      BY <1>4, <2>2 DEF auto_enroll_in_next_plan
    <3>2. PICK r : /\ sess' = [sess EXCEPT ![s] = r] /\ SyncInv(r)
                   /\ \A x : (\E d \in sess[s].checks : PlanOf[d] = x) => WillCheck(r, x)
      BY <1>n, <3>1
    <3>3. SeriesInv' /\ SyncInv(r)'
      BY <1>0, <2>0, <2>2, <3>2 DEF SeriesInv, SyncInv
    <3>4. \A x \in Plans : x # q => progress'[x] = progress[x]
      BY <1>0, <3>1
    <3>5. ASSUME ~crashed, ~aborted, NEW x \in due'
          PROVE  Ripe(x)' /\ (WillCheck(r, x) \/ (x \in due /\ ~WillCheck(sess[s], x)))
      <4>1. x \in due /\ Ripe(x) /\ x # q
        BY <2>0, <2>2, <3>5 DEF AheadInv, DueInv, Ripe
      <4>2. Ripe(x)'
        BY <1>0, <2>0, <3>4, <4>1 DEF Ripe, AllDaysDone, Enrolled
      <4> QED BY <2>0, <3>2, <4>1, <4>2 DEF WillCheck, Syncing
    <3>6. ASSUME ~crashed, ~aborted
          PROVE  /\ owed' # {} => enrollment' # None /\ enrollment'.auto
                 /\ \A x \in owed' : /\ SlotFree(x)'
                                     /\ WillEnroll(r, x) \/ (x \in owed /\ ~WillEnroll(sess[s], x))
      <4>0. OwedInv
        BY <3>6 DEF AheadInv
      <4>1. ASSUME NEW x \in owed' PROVE x \in owed /\ SlotFree(x)' /\ ~WillEnroll(sess[s], x)
        BY <1>0, <2>0, <3>1, <3>4, <4>0 DEF OwedInv, SlotFree, WillEnroll, Enrolled
      <4> QED BY <2>0, <3>1, <4>0, <4>1 DEF OwedInv
    <3> QED BY <2>0, <3>1, <3>2, <3>3, <3>5, <3>6, StepAhead
  <2> QED BY <2>1, <2>2
<1>5. CASE mark_series_enrollment_completed(s)
  <2>0. /\ sess[s].pc = "seriesDone" /\ NextCheck(s)
        /\ UNCHANGED <<doneDay, progress, due, owed, crashed, aborted>>
    BY <1>5 DEF mark_series_enrollment_completed, ladder, history
  <2>1. enrollment' # None <=> enrollment # None
    <3>1. enrollment # None => [enrollment EXCEPT !.completed = TRUE] \in Enrollment
      BY <1>0 DEF Enrollment
    <3> QED BY <1>5, <3>1, NoneIsNoRow DEF mark_series_enrollment_completed
  <2>2. enrollment # None => enrollment'.auto = enrollment.auto
    BY <1>0, <1>5 DEF mark_series_enrollment_completed, Enrollment
  <2>3. PICK r : /\ sess' = [sess EXCEPT ![s] = r] /\ SyncInv(r)
                 /\ \A x : (\E d \in sess[s].checks : PlanOf[d] = x) => WillCheck(r, x)
    BY <1>n, <2>0
  <2>4. SeriesInv' /\ SyncInv(r)'
    BY <2>0, <2>1, <2>3 DEF AheadInv, SeriesInv, SyncInv, Enrolled
  <2>5. ASSUME ~crashed, ~aborted, NEW x \in due'
        PROVE  Ripe(x)' /\ (WillCheck(r, x) \/ (x \in due /\ ~WillCheck(sess[s], x)))
    BY <2>0, <2>3, <2>5 DEF AheadInv, DueInv, Ripe, AllDaysDone, Enrolled, WillCheck, Syncing
  <2>6. ASSUME ~crashed, ~aborted
        PROVE  /\ owed' # {} => enrollment' # None /\ enrollment'.auto
               /\ \A x \in owed' : /\ SlotFree(x)'
                                   /\ WillEnroll(r, x) \/ (x \in owed /\ ~WillEnroll(sess[s], x))
    BY <2>0, <2>1, <2>2, <2>6 DEF AheadInv, OwedInv, SlotFree, Enrolled, WillEnroll
  <2> QED BY <2>0, <2>1, <2>3, <2>4, <2>5, <2>6, StepAhead
<1> QED BY <1>1, <1>2, <1>3, <1>4, <1>5 DEF ClosePlan

LEMMA EnrollKeepsAhead ==
  ASSUME TInv, AheadInv, NEW s \in Sessions, Enroll(s)
  PROVE  AheadInv'
<1>0. /\ sess[s] \in Session /\ HandlerInv(sess[s]) /\ SyncInv(sess[s])
      /\ progress \in [Plans -> Row \cup {None}] /\ enrollment \in Enrollment \cup {None}
      /\ due \subseteq Plans /\ owed \subseteq Plans
  BY DEF TInv, TypeOK, HandlersInv, AheadInv, SyncsInv
<1>1. ASSUME NEW p \in Plans, EnrollInPlan(s, p)
      PROVE  AheadInv'
  <2> DEFINE r == [Idle EXCEPT !.pc = "direct", !.item = p]
  <2>1. Arrive(s, r) /\ UNCHANGED <<doneDay, progress, enrollment>>
    BY <1>1 DEF EnrollInPlan, ladder
  <2>2. Light(r)
    BY DEF Light, Idle, Checking, Syncing
  <2> HIDE DEF r
  <2> QED BY <2>1, <2>2, ArriveFact, LightStep DEF Checking, Syncing
<1>2. ASSUME NEW auto \in BOOLEAN, NEW p, EnrollInSeries(s, auto, p)
      PROVE  AheadInv'
  <2> DEFINE r == [Idle EXCEPT !.pc = "series", !.item = p, !.auto = auto]
  <2>1. Arrive(s, r) /\ UNCHANGED <<doneDay, progress, enrollment>>
    BY <1>2 DEF EnrollInSeries, ladder
  <2>2. Light(r)
    BY DEF Light, Idle, Checking, Syncing
  <2> HIDE DEF r
  <2> QED BY <2>1, <2>2, ArriveFact, LightStep DEF Checking, Syncing
<1>3. ASSUME NEW auto \in BOOLEAN, update_user_series_enrollment(s, auto)
      PROVE  AheadInv'
  <2>1. /\ UNCHANGED <<doneDay, progress, sess, due, crashed, aborted>> /\ enrollment # None
        /\ enrollment' = [enrollment EXCEPT !.auto = auto]
    BY <1>3 DEF update_user_series_enrollment, ladder
  <2>2. enrollment' # None /\ enrollment'.auto = auto
    <3>1. /\ [enrollment EXCEPT !.auto = auto] \in Enrollment
          /\ [enrollment EXCEPT !.auto = auto].auto = auto
      BY <1>0, <2>1 DEF Enrollment
    <3> QED BY <2>1, <3>1, NoneIsNoRow
  <2>3. SeriesInv' /\ SyncsInv'
    BY <2>1, <2>2 DEF AheadInv, SeriesInv, SyncsInv, SyncInv, Enrolled
  <2>4. (owed' = owed /\ enrollment'.auto) \/ owed' = {}
    <3>1. CASE update_user_series_enrollment(s, TRUE)
      <4>1. owed' = owed /\ enrollment' = [enrollment EXCEPT !.auto = TRUE]
        BY <3>1 DEF update_user_series_enrollment
      <4>2. enrollment'.auto
        BY <1>0, <2>1, <4>1 DEF Enrollment
      <4> QED BY <4>1, <4>2
    <3>2. CASE update_user_series_enrollment(s, FALSE)
      BY <3>2 DEF update_user_series_enrollment
    <3>3. auto = TRUE \/ auto = FALSE
      OBVIOUS
    <3> QED BY <1>3, <3>1, <3>2, <3>3
  <2>5. ASSUME ~crashed', ~aborted' PROVE DueInv' /\ OwedInv'
    <3>1. DueInv /\ OwedInv
      BY <2>1, <2>5 DEF AheadInv
    <3>2. DueInv'
      BY <2>1, <3>1 DEF DueInv, Ripe, AllDaysDone, Enrolled, WillCheck
    <3>3. OwedInv'
      BY <2>1, <2>2, <2>4, <3>1 DEF OwedInv, SlotFree, Enrolled, WillEnroll
    <3> QED BY <3>2, <3>3
  <2> QED BY <2>3, <2>5 DEF AheadInv
<1>4. CASE save_plan_progress(s)
  <2> DEFINE q == sess[s].item
  <2>0. /\ sess[s].pc = "direct" /\ q \in Plans
        /\ UNCHANGED <<doneDay, enrollment, due, crashed, aborted>>
        /\ owed' = owed \ {r \in Plans : Slot[r] = Slot[q]}
        /\ sess' = [sess EXCEPT ![s] = Idle]
    BY <1>0, <1>4 DEF save_plan_progress, HandlerInv, ladder, Finish, Goto
  <2>1. /\ \A x \in Plans : x # q \/ Enrolled(q) => progress'[x] = progress[x]
        /\ ~Enrolled(q) => progress'[q] = [source |-> "DIRECT", completed |-> FALSE]
    BY <1>0, <1>4, <2>0 DEF save_plan_progress
  <2>2. SeriesInv' /\ SyncInv(Idle)'
    <3>1. [source |-> "DIRECT", completed |-> FALSE].source = "DIRECT"
      OBVIOUS
    <3>2. SyncInv(Idle)'
      BY IdleSync, IdleLight DEF SyncInv, Light
    <3> QED BY <2>0, <2>1, <3>1, <3>2 DEF AheadInv, SeriesInv, Enrolled
  <2>3. ASSUME ~crashed, ~aborted, NEW x \in due'
        PROVE  Ripe(x)' /\ (WillCheck(Idle, x) \/ (x \in due /\ ~WillCheck(sess[s], x)))
    <3>1. x \in due /\ Ripe(x)
      BY <2>0, <2>3 DEF AheadInv, DueInv
    <3>2. progress'[x] = progress[x]
      BY <1>0, <2>1, <3>1 DEF Ripe
    <3> QED BY <2>0, <3>1, <3>2 DEF Ripe, AllDaysDone, Enrolled, WillCheck, Checking, Syncing
  <2>4. ASSUME ~crashed, ~aborted
        PROVE  /\ owed' # {} => enrollment' # None /\ enrollment'.auto
               /\ \A x \in owed' : /\ SlotFree(x)'
                                   /\ WillEnroll(Idle, x) \/ (x \in owed /\ ~WillEnroll(sess[s], x))
    <3>1. OwedInv
      BY <2>4 DEF AheadInv
    <3>2. ASSUME NEW x \in owed'
          PROVE  x \in owed /\ SlotFree(x)' /\ ~WillEnroll(sess[s], x)
      BY <1>0, <2>0, <2>1, <3>1 DEF OwedInv, SlotFree, WillEnroll, Enrolled
    <3> QED BY <2>0, <3>1, <3>2 DEF OwedInv
  <2> QED BY <2>0, <2>2, <2>3, <2>4, StepAhead
<1>5. CASE save_user_series_enrollment(s)
  <2>0. /\ sess[s].pc = "series" /\ UNCHANGED <<doneDay, progress, due, owed, crashed, aborted>>
    BY <1>5 DEF save_user_series_enrollment, ladder, history
  <2>1. CASE enrollment # None
    BY <1>5, <2>0, <2>1, IdleLight, LightStep
       DEF save_user_series_enrollment, Finish, Goto, Checking, Syncing
  <2>2. CASE enrollment = None
    <3> DEFINE q == [Idle EXCEPT !.pc = "enroll", !.item = sess[s].item, !.ref = TRUE]
    <3>1. /\ enrollment' = [auto |-> sess[s].auto, completed |-> FALSE]
          /\ \E r \in {Idle, q} : sess' = [sess EXCEPT ![s] = r]
      BY <1>5, <2>2 DEF save_user_series_enrollment, Finish, Goto
    <3>2. enrollment' # None
      <4>1. [auto |-> sess[s].auto, completed |-> FALSE] \in Enrollment
        BY <1>0 DEF Enrollment, Session
      <4> QED BY <3>1, <4>1, NoneIsNoRow
    <3>3. q.pc = "enroll" /\ q.checks = {}
      BY DEF Idle
    <3> HIDE DEF q
    <3>4. PICK r : sess' = [sess EXCEPT ![s] = r] /\ r.checks = {} /\ r.pc \in {"idle", "enroll"}
      BY <3>1, <3>3, IdleFact
    <3>5. SeriesInv' /\ SyncInv(r)'
      BY <3>2, <3>4 DEF SeriesInv, SyncInv, Syncing
    <3>6. ASSUME ~crashed, ~aborted, NEW x \in due'
          PROVE  Ripe(x)' /\ (WillCheck(r, x) \/ (x \in due /\ ~WillCheck(sess[s], x)))
      BY <2>0, <3>6 DEF AheadInv, DueInv, Ripe, AllDaysDone, Enrolled, WillCheck, Checking, Syncing
    <3>7. ASSUME ~crashed, ~aborted PROVE owed' = {}
      BY <2>0, <2>2, <3>7 DEF AheadInv, OwedInv
    <3> QED BY <2>0, <2>2, <3>4, <3>5, <3>6, <3>7, StepAhead
  <2> QED BY <2>1, <2>2
<1> QED BY <1>1, <1>2, <1>3, <1>4, <1>5 DEF Enroll

LEMMA UndoKeepsAhead ==
  ASSUME TInv, AheadInv, NEW s \in Sessions, Undo(s) \/ Crash(s)
  PROVE  AheadInv'
<1>0. /\ sess[s] \in Session /\ HandlerInv(sess[s]) /\ SyncInv(sess[s])
      /\ sess \in [Sessions -> Session]
      /\ progress \in [Plans -> Row \cup {None}] /\ enrollment \in Enrollment \cup {None}
  BY DEF TInv, TypeOK, HandlersInv, AheadInv, SyncsInv
\* A step that takes the days or the row of plan p back, and has nothing ahead of it.
<1>t. ASSUME NEW p \in Plans, NEW r, sess' = [sess EXCEPT ![s] = r], Light(r), sess[s].pc \notin Checking,
             \A x \in Plans : x # p => DaysOf(x) \cap doneDay \subseteq doneDay',
             \A x \in Plans : progress'[x] = progress[x] \/ (x = p /\ progress'[x] = None),
             due' = due \ {p}, UNCHANGED <<enrollment, owed, crashed, aborted>>
      PROVE  AheadInv'
  <2>1. SyncInv(r)'
    BY <1>t DEF Light, SyncInv, Checking
  <2>2. SeriesInv'
    BY <1>t DEF AheadInv, SeriesInv, Enrolled
  <2>3. ASSUME ~crashed, ~aborted, NEW x \in due'
        PROVE  Ripe(x)' /\ (WillCheck(r, x) \/ (x \in due /\ ~WillCheck(sess[s], x)))
    <3>1. x \in due /\ x # p /\ Ripe(x) /\ x \in Plans
      BY <1>t, <2>3 DEF AheadInv, DueInv, TInv, TypeOK
    <3>2. Ripe(x)'
      BY <1>t, <3>1 DEF Ripe, AllDaysDone, Enrolled
    <3> QED BY <1>t, <3>1, <3>2 DEF WillCheck, Checking, Syncing
  <2>4. ASSUME ~crashed, ~aborted
        PROVE  /\ owed' # {} => enrollment' # None /\ enrollment'.auto
               /\ \A x \in owed' : /\ SlotFree(x)'
                                   /\ WillEnroll(r, x) \/ (x \in owed /\ ~WillEnroll(sess[s], x))
    BY <1>t, <2>4 DEF AheadInv, OwedInv, SlotFree, Enrolled, WillEnroll, Checking
  <2> QED BY <1>t, <2>1, <2>2, <2>3, <2>4, StepAhead
<1>1. ASSUME NEW t \in Tasks, DeleteTask(s, t)
      PROVE  AheadInv'
  <2> DEFINE r == [Idle EXCEPT !.pc = "delDay", !.item = t]
  <2>1. ArriveUndo(s, r) /\ UNCHANGED <<doneDay, progress, enrollment, due, owed>>
    BY <1>1 DEF DeleteTask
  <2>2. Light(r)
    BY DEF Light, Idle, Checking, Syncing
  <2> HIDE DEF r
  <2> QED BY <2>1, <2>2, ArriveUndoFact, LightStep DEF Checking, Syncing
<1>2. ASSUME NEW p \in Plans, delete_user_plan_progress(s, p)
      PROVE  AheadInv'
  <2>1. /\ ArriveUndo(s, Idle) /\ doneDay' = doneDay \ DaysOf(p)
        /\ progress' = [progress EXCEPT ![p] = None]
        /\ due' = due \ {p} /\ UNCHANGED <<enrollment, owed>>
    BY <1>2 DEF delete_user_plan_progress
  <2>2. /\ sess' = [sess EXCEPT ![s] = Idle] /\ sess[s].pc \notin Checking
        /\ due' = due \ {p} /\ UNCHANGED <<enrollment, owed, crashed, aborted>>
    BY <2>1, ArriveUndoFact DEF Checking, Syncing
  <2>3. \A x \in Plans : x # p => DaysOf(x) \cap doneDay \subseteq doneDay'
    BY <2>1 DEF DaysOf
  <2>4. \A x \in Plans : progress'[x] = progress[x] \/ (x = p /\ progress'[x] = None)
    BY <1>0, <2>1
  <2>5. PICK r : sess' = [sess EXCEPT ![s] = r] /\ Light(r)
    BY <2>2, IdleLight
  <2> QED BY <1>t, <2>2, <2>3, <2>4, <2>5
<1>3. CASE delete_user_day_completion(s)
  <2>0. /\ sess[s].pc = "delDay" /\ sess[s].item \in Tasks
        /\ sess' = [sess EXCEPT ![s] = [sess[s] EXCEPT !.pc = "delSubs"]]
        /\ doneDay' = doneDay \ {DayOf[sess[s].item]}
        /\ due' = due \ {PlanOf[DayOf[sess[s].item]]}
        /\ UNCHANGED <<progress, enrollment, owed, crashed, aborted>>
    BY <1>0, <1>3 DEF delete_user_day_completion, HandlerInv, Goto
  <2>1. sess[s].ref = FALSE /\ sess[s].checks = {}
    BY <1>0, <2>0 DEF SyncInv, Session
  <2>2. PICK r : sess' = [sess EXCEPT ![s] = r] /\ Light(r)
    <3>1. /\ [sess[s] EXCEPT !.pc = "delSubs"].pc = "delSubs"
          /\ [sess[s] EXCEPT !.pc = "delSubs"].ref = sess[s].ref
          /\ [sess[s] EXCEPT !.pc = "delSubs"].checks = sess[s].checks
      BY <1>0 DEF Session
    <3> QED BY <2>0, <2>1, <3>1 DEF Light, Checking, Syncing
  <2>3. \A x \in Plans : x # PlanOf[DayOf[sess[s].item]] => DaysOf(x) \cap doneDay \subseteq doneDay'
    BY <2>0 DEF DaysOf
  <2> QED BY <1>t, <2>0, <2>2, <2>3, Structure DEF Checking, Syncing
<1>4. CASE delete_user_subtask_completion(s)
  <2>1. /\ sess[s].pc = "delSubs" /\ sess' = [sess EXCEPT ![s] = Idle]
        /\ UNCHANGED <<doneDay, progress, enrollment, due, owed, crashed, aborted>>
    BY <1>4 DEF delete_user_subtask_completion, Finish, Goto, history
  <2> QED BY <2>1, IdleLight, LightStep DEF Checking, Syncing
<1>5. CASE delete_user_series_enrollment(s)
  <2>1. /\ sess' = [t \in Sessions |-> [sess[t] EXCEPT !.ref = FALSE]]
        /\ UNCHANGED <<doneDay, crashed, aborted>> /\ owed' = {}
    BY <1>5 DEF delete_user_series_enrollment, ladder
  <2>2. ASSUME NEW t \in Sessions
        PROVE  /\ sess'[t].pc = sess[t].pc /\ sess'[t].item = sess[t].item
               /\ sess'[t].day = sess[t].day /\ sess'[t].sibling = sess[t].sibling
               /\ sess'[t].todo = sess[t].todo /\ sess'[t].checks = sess[t].checks
               /\ ~sess'[t].ref
    <3>1. sess[t] \in Session
      BY <1>0
    <3> QED BY <2>1, <3>1 DEF Session
  <2>3. ASSUME NEW x \in Plans
        PROVE  /\ (Enrolled(x) /\ progress[x].source = "SERIES") => progress'[x] = None /\ x \notin due'
               /\ ~(Enrolled(x) /\ progress[x].source = "SERIES") => progress'[x] = progress[x]
               /\ x \in due' => x \in due
    BY <1>5 DEF delete_user_series_enrollment
  <2>4. SeriesInv'
    BY <2>3 DEF SeriesInv, Enrolled
  <2>5. SyncsInv'
    BY <2>2 DEF AheadInv, SyncsInv, SyncInv
  <2>6. ASSUME ~crashed', ~aborted' PROVE DueInv'
    <3>1. SUFFICES ASSUME NEW x \in due'
                   PROVE  Ripe(x)' /\ \E t \in Sessions : WillCheck(sess'[t], x)
      BY DEF DueInv, WillCheck
    <3>2. x \in Plans /\ x \in due
      BY <1>5, <3>1 DEF delete_user_series_enrollment, TInv, TypeOK
    <3>3. Ripe(x) /\ \E t \in Sessions : WillCheck(sess[t], x)
      BY <2>1, <2>6, <3>2 DEF AheadInv, DueInv
    <3>4. Ripe(x)'
      BY <2>1, <2>3, <3>1, <3>2, <3>3 DEF Ripe, AllDaysDone, Enrolled
    <3>5. \A t \in Sessions : WillCheck(sess[t], x) => WillCheck(sess'[t], x)
      BY <2>2 DEF WillCheck
    <3> QED BY <3>3, <3>4, <3>5
  <2>7. OwedInv'
    BY <2>1 DEF OwedInv
  <2> QED BY <2>4, <2>5, <2>6, <2>7 DEF AheadInv
<1>6. CASE Crash(s)
  <2>1. /\ sess' = [sess EXCEPT ![s] = Idle] /\ crashed' = TRUE
        /\ UNCHANGED <<progress, enrollment>>
    BY <1>6 DEF Crash, Finish, Goto
  <2>2. SeriesInv' /\ SyncInv(Idle)'
    BY <2>1, IdleSync DEF AheadInv, SeriesInv, SyncInv, Enrolled
  <2> QED BY <2>1, <2>2, StepAhead
<1> QED BY <1>1, <1>2, <1>3, <1>4, <1>5, <1>6 DEF Undo

LEMMA InitAhead == Init => AheadInv
  BY IdleSync DEF Init, AheadInv, SeriesInv, SyncsInv, SyncInv, DueInv, OwedInv, Enrolled

LEMMA StepKeepsAhead == TInv /\ AheadInv /\ [Next]_vars => AheadInv'
<1>1. AheadInv /\ UNCHANGED vars => AheadInv'
  BY DEF vars, ladder, history, AheadInv, SeriesInv, SyncsInv, SyncInv, DueInv, OwedInv, Ripe,
         SlotFree, AllDaysDone, Enrolled, WillCheck, WillEnroll
<1> QED BY <1>1, TickOffKeepsAhead, CloseDayKeepsAhead, ClosePlanKeepsAhead, EnrollKeepsAhead,
           UndoKeepsAhead DEF Next

\* The inductive invariant of NothingLeftBehind.
THEOREM AheadInvariance == Spec => [](TInv /\ AheadInv)
  BY InitTyped, InitAhead, StepTyped, StepKeepsAhead, PTL DEF Spec

\* When all is quiet, no plan whose last day was done waits to be completed and no
\* plan waits to be entered, unless a handler died or was refused a write.
THEOREM NothingIsLeftBehind == Spec => []NothingLeftBehind
<1>1. AheadInv => NothingLeftBehind
  BY DEF AheadInv, DueInv, OwedInv, WillCheck, WillEnroll, Checking, Syncing, Quiet, NothingLeftBehind
<1> QED BY AheadInvariance, <1>1, PTL

=============================================================================
