---------------------------- MODULE PlanProgress ----------------------------
(***************************************************************************)
(* How one user gets through the plans of one series: subtasks, tasks and  *)
(* days are ticked off, each rung completes the one above it, a completed  *)
(* plan enrols the user in the next one, and a day done in one language is *)
(* done in the sibling plans of the other languages too.  The user holds   *)
(* several devices, and nothing is locked.                                 *)
(*                                                                         *)
(* Every table here is keyed by user, so one user stands for all.  A       *)
(* handler is split at every commit, and where it writes later what it had *)
(* read before a commit.  A unique index refuses a second row: the handler *)
(* ends with an error and does not do what it would have done next.        *)
(* current_plan_id of the enrolment is left out: nothing here reads it.    *)
(***************************************************************************)
EXTENDS Naturals

CONSTANTS Plans, Days, Tasks, SubTasks,
          PlanOf,   \* [Days -> Plans]
          DayOf,    \* [Tasks -> Days]
          TaskOf,   \* [SubTasks -> Tasks]
          Slot,     \* [Plans -> Nat], display_order; siblings share it
          Number,   \* [Days -> Nat], day_number
          Sessions, \* handlers that may be in flight at the same time
          MaxCalls, \* bound on the calls the user makes
          None

ASSUME Structure ==
  /\ PlanOf \in [Days -> Plans] /\ DayOf \in [Tasks -> Days]
  /\ TaskOf \in [SubTasks -> Tasks]
  /\ Slot \in [Plans -> Nat] /\ Number \in [Days -> Nat]
  /\ MaxCalls \in Nat
  /\ None \notin Plans \cup Days \cup Tasks \cup SubTasks

VARIABLES
  doneSub, doneTask, doneDay, \* rows of the three completion tables
  progress,   \* user_plan_progress: the row of each plan, or None
  enrollment, \* user_series_enrollment, or None
  sess,       \* the handler each session is running
  calls,      \* how many calls the user has made
  due,        \* history: plans whose last missing day was done while enrolled
  owed,       \* history: plans the user is to be enrolled in next
  torn,       \* history: an undoing handler overlapped another, or died
  crashed,    \* history: some handler died
  aborted     \* history: a write was refused with plans still to check

ladder == <<doneSub, doneTask, doneDay>>
history == <<due, owed, torn, crashed, aborted>>
vars == <<ladder, progress, enrollment, sess, calls, history>>

Row == [source : {"DIRECT", "SERIES"}, completed : BOOLEAN]
Enrollment == [auto : BOOLEAN, completed : BOOLEAN]
ASSUME NoneIsNoRow == None \notin Row \cup Enrollment

PCs == {"idle", "subtask", "subtasksDone", "bulk", "task", "day", "daySave", "sync",
        "syncTasks", "syncSubs", "syncDay", "plan", "mark", "next", "enroll",
        "seriesDone", "direct", "series", "delDay", "delSubs"}
\* held: the rows a handler has decided to insert; todo: sibling days to sync;
\* checks: days whose plans are to be checked; ref: the series enrolment the
\* handler has read still exists.
Session == [pc : PCs, item : SubTasks \cup Tasks \cup Plans \cup {None},
            day : Days \cup {None}, sibling : Days \cup {None},
            held : SUBSET (Tasks \cup SubTasks), todo : SUBSET Days, checks : SUBSET Days,
            auto : BOOLEAN, ref : BOOLEAN]

Idle == [pc |-> "idle", item |-> None, day |-> None, sibling |-> None, held |-> {},
         todo |-> {}, checks |-> {}, auto |-> FALSE, ref |-> FALSE]

Init ==
  /\ doneSub = {} /\ doneTask = {} /\ doneDay = {}
  /\ progress = [p \in Plans |-> None]
  /\ enrollment = None
  /\ sess = [s \in Sessions |-> Idle] /\ calls = 0
  /\ due = {} /\ owed = {} /\ torn = FALSE /\ crashed = FALSE /\ aborted = FALSE

DaysOf(p) == {d \in Days : PlanOf[d] = p}
TasksOf(d) == {t \in Tasks : DayOf[t] = d}
SubTasksOf(t) == {u \in SubTasks : TaskOf[u] = t}

\* get_sibling_plans_in_series_slot, get_plan_items_by_plan_ids_and_day_number
SiblingDays(d) ==
  {e \in Days : /\ PlanOf[e] # PlanOf[d] /\ Slot[PlanOf[e]] = Slot[PlanOf[d]]
                /\ Number[e] = Number[d]}

\* get_next_plan_in_series: any plan of the lowest later slot.
NextPlans(p) ==
  {q \in Plans : Slot[q] > Slot[p] /\ \A r \in Plans : Slot[r] > Slot[p] => Slot[q] <= Slot[r]}
FirstPlans == {p \in Plans : \A q \in Plans : Slot[p] <= Slot[q]}

Enrolled(p) == progress[p] # None
is_user_enrolled_in_plan(p) == Enrolled(p) \/ enrollment # None
is_series_completed_for_user == \A p \in Plans : Enrolled(p) /\ progress[p].completed

Undoing(s) == sess[s].pc \in {"delDay", "delSubs"}
Goto(s, r) == sess' = [sess EXCEPT ![s] = r] /\ UNCHANGED calls
Finish(s) == Goto(s, Idle)

\* A call comes in, and one that undoes something.
Call(s) ==
  /\ sess[s].pc = "idle"
  /\ calls < MaxCalls /\ calls' = calls + 1
Arrive(s, r) ==
  /\ Call(s)
  /\ sess' = [sess EXCEPT ![s] = r]
  /\ torn' = (torn \/ \E t \in Sessions : Undoing(t))
  /\ UNCHANGED <<due, owed, crashed, aborted>>
ArriveUndo(s, r) ==
  /\ Call(s)
  /\ sess' = [sess EXCEPT ![s] = r]
  /\ torn' = (torn \/ \E t \in Sessions : sess[t].pc # "idle")
  /\ UNCHANGED <<crashed, aborted>>

-----------------------------------------------------------------------------
(* Ticking off: complete_sub_task_service and complete_task_service *)

CompleteSubTask(s, u) ==
  /\ u \notin doneSub
  /\ Arrive(s, [Idle EXCEPT !.pc = "subtask", !.item = u])
  /\ UNCHANGED <<ladder, progress, enrollment>>

SaveSubTask(s) ==
  LET u == sess[s].item IN
  /\ sess[s].pc = "subtask"
  /\ doneSub' = doneSub \cup {u}
  /\ IF u \in doneSub THEN Finish(s)
     ELSE Goto(s, [Idle EXCEPT !.pc = "subtasksDone", !.item = TaskOf[u]])
  /\ UNCHANGED <<doneTask, doneDay, progress, enrollment, history>>

_check_all_subtasks_completed(s) ==
  LET t == sess[s].item IN
  /\ sess[s].pc = "subtasksDone"
  /\ IF SubTasksOf(t) \subseteq doneSub
     THEN Goto(s, [Idle EXCEPT !.pc = "task", !.item = t])
     ELSE Goto(s, [Idle EXCEPT !.pc = "day", !.day = DayOf[t]])
  /\ UNCHANGED <<ladder, progress, enrollment, history>>

CompleteTask(s, t) ==
  /\ Arrive(s, [Idle EXCEPT !.pc = "bulk", !.item = t, !.held = SubTasksOf(t) \ doneSub])
  /\ UNCHANGED <<ladder, progress, enrollment>>

\* All the rows or none: one that is there already fails the whole insert.
complete_all_subtasks_completions(s) ==
  /\ sess[s].pc = "bulk"
  /\ IF sess[s].held \cap doneSub # {} THEN Finish(s) /\ UNCHANGED doneSub
     ELSE /\ doneSub' = doneSub \cup sess[s].held
          /\ Goto(s, [Idle EXCEPT !.pc = "task", !.item = sess[s].item])
  /\ UNCHANGED <<doneTask, doneDay, progress, enrollment, history>>

save_user_task_completion(s) ==
  LET t == sess[s].item IN
  /\ sess[s].pc = "task"
  /\ doneTask' = doneTask \cup {t}
  /\ IF t \in doneTask THEN Finish(s)
     ELSE Goto(s, [Idle EXCEPT !.pc = "day", !.day = DayOf[t]])
  /\ UNCHANGED <<doneSub, doneDay, progress, enrollment, history>>

-----------------------------------------------------------------------------
(* check_day_completion and sync_series_day_completion *)

check_day_completion(s) ==
  /\ sess[s].pc = "day"
  /\ IF TasksOf(sess[s].day) \subseteq doneTask
     THEN Goto(s, [Idle EXCEPT !.pc = "daySave", !.day = sess[s].day])
     ELSE Finish(s)
  /\ UNCHANGED <<ladder, progress, enrollment, history>>

\* The plan of day d has its last missing day done in this step.
DueBy(d) ==
  LET p == PlanOf[d] IN
  due' = IF d \notin doneDay /\ DaysOf(p) \subseteq doneDay \cup {d}
            /\ Enrolled(p) /\ ~progress[p].completed
         THEN due \cup {p} ELSE due

save_user_day_completion(s) ==
  LET d == sess[s].day IN
  /\ sess[s].pc = "daySave"
  /\ doneDay' = doneDay \cup {d}
  /\ DueBy(d)
  /\ IF d \in doneDay THEN Finish(s)
     ELSE Goto(s, [Idle EXCEPT !.pc = "sync", !.day = d, !.todo = SiblingDays(d),
                              !.checks = SiblingDays(d)])
  /\ UNCHANGED <<doneSub, doneTask, progress, enrollment, owed, torn, crashed, aborted>>

\* _complete_all_tasks_for_day and save_user_day_completion_if_not_exists, for
\* one sibling day after another; then on to the plans.
SyncNext(s) ==
  /\ sess[s].pc = "sync"
  /\ IF sess[s].todo = {}
     THEN Goto(s, [sess[s] EXCEPT !.pc = "plan"])
     ELSE \E e \in sess[s].todo :
            Goto(s, [sess[s] EXCEPT !.pc = "syncTasks", !.sibling = e, !.todo = @ \ {e},
                                    !.held = TasksOf(e) \ doneTask])
  /\ UNCHANGED <<ladder, progress, enrollment, history>>

\* A write is refused: the handler ends with an error, its checks undone.
Abort(s) == Finish(s) /\ aborted' = (aborted \/ sess[s].day # None)

SyncTasks(s) ==
  LET e == sess[s].sibling
      subs == {u \in SubTasks : DayOf[TaskOf[u]] = e}
  IN
  /\ sess[s].pc = "syncTasks"
  /\ IF sess[s].held \cap doneTask # {} THEN Abort(s) /\ UNCHANGED doneTask
     ELSE /\ doneTask' = doneTask \cup sess[s].held
          /\ Goto(s, [sess[s] EXCEPT !.pc = "syncSubs", !.held = subs \ doneSub])
          /\ UNCHANGED aborted
  /\ UNCHANGED <<doneSub, doneDay, progress, enrollment, due, owed, torn, crashed>>

SyncSubTasks(s) ==
  /\ sess[s].pc = "syncSubs"
  /\ IF sess[s].held \cap doneSub # {} THEN Abort(s) /\ UNCHANGED doneSub
     ELSE /\ doneSub' = doneSub \cup sess[s].held
          /\ Goto(s, [sess[s] EXCEPT !.pc = "syncDay", !.held = {}])
          /\ UNCHANGED aborted
  /\ UNCHANGED <<doneTask, doneDay, progress, enrollment, due, owed, torn, crashed>>

SyncDay(s) ==
  LET e == sess[s].sibling IN
  /\ sess[s].pc = "syncDay"
  /\ doneDay' = doneDay \cup {e}
  /\ DueBy(e)
  /\ Goto(s, [sess[s] EXCEPT !.pc = "sync", !.sibling = None])
  /\ UNCHANGED <<doneSub, doneTask, progress, enrollment, owed, torn, crashed, aborted>>

-----------------------------------------------------------------------------
(* check_plan_completion, handle_plan_completion_and_series_progression *)

\* Mutant: the plans of the synced days are not checked.
NextCheck_ownOnly(s) == Finish(s)

\* On to the plan of the next synced day, or done.
NextCheck(s) ==
  IF sess[s].checks = {} THEN Finish(s)
  ELSE \E d \in sess[s].checks :
         Goto(s, [Idle EXCEPT !.pc = "plan", !.day = d, !.checks = sess[s].checks \ {d}])

\* Mutant: the day just done is taken for the last.
AllDaysDone_anyDay(p) == DaysOf(p) \cap doneDay # {}

AllDaysDone(p) == DaysOf(p) \subseteq doneDay

check_plan_completion(s) ==
  LET p == PlanOf[sess[s].day] IN
  /\ sess[s].pc = "plan"
  /\ IF AllDaysDone(p) /\ Enrolled(p) /\ ~progress[p].completed
     THEN Goto(s, [sess[s] EXCEPT !.pc = "mark", !.item = p])
     ELSE NextCheck(s)
  /\ UNCHANGED <<ladder, progress, enrollment, history>>

\* A row that was deleted since it was loaded: the UPDATE fails.
MarkCompleted(s) ==
  LET p == sess[s].item
      r == progress[p]
      series == r.source = "SERIES"
  IN
  /\ sess[s].pc = "mark"
  /\ IF ~Enrolled(p) THEN Abort(s) /\ UNCHANGED <<progress, due, owed>>
     ELSE /\ UNCHANGED aborted
          /\ progress' = [progress EXCEPT ![p].completed = TRUE]
          /\ due' = due \ {p}
          /\ owed' = IF ~r.completed /\ series /\ enrollment.auto
                        /\ \A q \in NextPlans(p) : ~Enrolled(q)
                     THEN owed \cup NextPlans(p) ELSE owed
          /\ IF series THEN Goto(s, [sess[s] EXCEPT !.pc = "next"]) ELSE NextCheck(s)
  /\ UNCHANGED <<ladder, enrollment, torn, crashed>>

\* ref: the enrolment that is read here is the one the later steps refer to.
ProgressSeries(s) ==
  LET p == sess[s].item IN
  /\ sess[s].pc = "next"
  /\ IF enrollment = None \/ ~enrollment.auto THEN NextCheck(s)
     ELSE IF NextPlans(p) # {}
     THEN \E q \in NextPlans(p) :
            IF Enrolled(q) THEN NextCheck(s)
            ELSE Goto(s, [sess[s] EXCEPT !.pc = "enroll", !.item = q, !.ref = TRUE])
     ELSE IF is_series_completed_for_user
     THEN Goto(s, [sess[s] EXCEPT !.pc = "seriesDone"])
     ELSE NextCheck(s)
  /\ UNCHANGED <<ladder, progress, enrollment, history>>

\* Refused by the unique index, or by the foreign key when the enrolment that
\* was read is gone.
auto_enroll_in_next_plan(s) ==
  LET q == sess[s].item IN
  /\ sess[s].pc = "enroll"
  /\ IF Enrolled(q) \/ ~sess[s].ref THEN Abort(s) /\ UNCHANGED <<progress, owed>>
     ELSE /\ UNCHANGED aborted
          /\ progress' = [progress EXCEPT ![q] = [source |-> "SERIES", completed |-> FALSE]]
          /\ owed' = owed \ {r \in Plans : Slot[r] = Slot[q]}
          /\ NextCheck(s)
  /\ UNCHANGED <<ladder, enrollment, due, torn, crashed>>

mark_series_enrollment_completed(s) ==
  /\ sess[s].pc = "seriesDone"
  /\ enrollment' = IF enrollment = None THEN None ELSE [enrollment EXCEPT !.completed = TRUE]
  /\ NextCheck(s)
  /\ UNCHANGED <<ladder, progress, history>>

-----------------------------------------------------------------------------
(* Enrolling *)

EnrollInPlan(s, p) ==
  /\ ~is_user_enrolled_in_plan(p)
  /\ Arrive(s, [Idle EXCEPT !.pc = "direct", !.item = p])
  /\ UNCHANGED <<ladder, progress, enrollment>>

save_plan_progress(s) ==
  LET p == sess[s].item IN
  /\ sess[s].pc = "direct"
  /\ progress' = IF Enrolled(p) THEN progress
                 ELSE [progress EXCEPT ![p] = [source |-> "DIRECT", completed |-> FALSE]]
  /\ owed' = owed \ {q \in Plans : Slot[q] = Slot[p]}
  /\ Finish(s)
  /\ UNCHANGED <<ladder, enrollment, due, torn, crashed, aborted>>

\* auto is auto_enroll_next; p the first plan for start_immediately, or None.
EnrollInSeries(s, auto, p) ==
  /\ enrollment = None
  /\ Arrive(s, [Idle EXCEPT !.pc = "series", !.item = p, !.auto = auto])
  /\ UNCHANGED <<ladder, progress, enrollment>>

save_user_series_enrollment(s) ==
  LET p == sess[s].item IN
  /\ sess[s].pc = "series"
  /\ IF enrollment # None THEN Finish(s) /\ UNCHANGED enrollment
     ELSE /\ enrollment' = [auto |-> sess[s].auto, completed |-> FALSE]
          /\ IF p = None \/ Enrolled(p) THEN Finish(s)
             ELSE Goto(s, [Idle EXCEPT !.pc = "enroll", !.item = p, !.ref = TRUE])
  /\ UNCHANGED <<ladder, progress, history>>

update_user_series_enrollment(s, auto) ==
  /\ enrollment # None /\ enrollment.auto # auto
  /\ enrollment' = [enrollment EXCEPT !.auto = auto]
  /\ owed' = IF auto THEN owed ELSE {}
  /\ Call(s)
  /\ UNCHANGED <<ladder, progress, sess, due, torn, crashed, aborted>>

-----------------------------------------------------------------------------
(* Undoing *)

\* delete_task_service: three commits.
DeleteTask(s, t) ==
  /\ t \in doneTask \/ SubTasksOf(t) \cap doneSub # {}
  /\ doneTask' = doneTask \ {t}
  /\ ArriveUndo(s, [Idle EXCEPT !.pc = "delDay", !.item = t])
  /\ UNCHANGED <<doneSub, doneDay, progress, enrollment, due, owed>>

\* Mutant: the day keeps its completion.
delete_user_day_completion_skipped(s) ==
  /\ sess[s].pc = "delDay"
  /\ Goto(s, [sess[s] EXCEPT !.pc = "delSubs"])
  /\ UNCHANGED <<ladder, progress, enrollment, history>>

delete_user_day_completion(s) ==
  LET d == DayOf[sess[s].item] IN
  /\ sess[s].pc = "delDay"
  /\ doneDay' = doneDay \ {d}
  /\ due' = due \ {PlanOf[d]}
  /\ Goto(s, [sess[s] EXCEPT !.pc = "delSubs"])
  /\ UNCHANGED <<doneSub, doneTask, progress, enrollment, owed, torn, crashed, aborted>>

delete_user_subtask_completion(s) ==
  /\ sess[s].pc = "delSubs"
  /\ doneSub' = doneSub \ SubTasksOf(sess[s].item)
  /\ Finish(s)
  /\ UNCHANGED <<doneTask, doneDay, progress, enrollment, history>>

\* unenroll_user_from_plan: everything of the plan in one commit.
delete_user_plan_progress(s, p) ==
  /\ Enrolled(p)
  /\ doneDay' = doneDay \ DaysOf(p)
  /\ doneTask' = {t \in doneTask : PlanOf[DayOf[t]] # p}
  /\ doneSub' = {u \in doneSub : PlanOf[DayOf[TaskOf[u]]] # p}
  /\ progress' = [progress EXCEPT ![p] = None]
  /\ due' = due \ {p} /\ owed' = owed
  /\ ArriveUndo(s, Idle)
  /\ UNCHANGED enrollment

\* unenroll_user_from_series: the foreign key takes the rows of the plans along,
\* and what was ticked off stays.
delete_user_series_enrollment(s) ==
  LET gone == {p \in Plans : Enrolled(p) /\ progress[p].source = "SERIES"} IN
  /\ Call(s) /\ enrollment # None
  /\ enrollment' = None
  /\ progress' = [p \in Plans |-> IF p \in gone THEN None ELSE progress[p]]
  /\ due' = due \ gone /\ owed' = {}
  /\ sess' = [t \in Sessions |-> [sess[t] EXCEPT !.ref = FALSE]]
  /\ torn' = (torn \/ \E t \in Sessions : sess[t].pc # "idle")
  /\ UNCHANGED <<ladder, crashed, aborted>>

Crash(s) ==
  /\ sess[s].pc # "idle"
  /\ Finish(s)
  /\ torn' = (torn \/ Undoing(s)) /\ crashed' = TRUE
  /\ UNCHANGED <<ladder, progress, enrollment, due, owed, aborted>>

-----------------------------------------------------------------------------
TickOff(s) ==
  \/ \E u \in SubTasks : CompleteSubTask(s, u)
  \/ \E t \in Tasks : CompleteTask(s, t)
  \/ SaveSubTask(s) \/ _check_all_subtasks_completed(s)
  \/ complete_all_subtasks_completions(s) \/ save_user_task_completion(s)
CloseDay(s) ==
  \/ check_day_completion(s) \/ save_user_day_completion(s)
  \/ SyncNext(s) \/ SyncTasks(s) \/ SyncSubTasks(s) \/ SyncDay(s)
ClosePlan(s) ==
  \/ check_plan_completion(s) \/ MarkCompleted(s) \/ ProgressSeries(s)
  \/ auto_enroll_in_next_plan(s) \/ mark_series_enrollment_completed(s)
Enroll(s) ==
  \/ \E p \in Plans : EnrollInPlan(s, p)
  \/ \E auto \in BOOLEAN, p \in FirstPlans \cup {None} : EnrollInSeries(s, auto, p)
  \/ \E auto \in BOOLEAN : update_user_series_enrollment(s, auto)
  \/ save_plan_progress(s) \/ save_user_series_enrollment(s)
Undo(s) ==
  \/ \E t \in Tasks : DeleteTask(s, t)
  \/ \E p \in Plans : delete_user_plan_progress(s, p)
  \/ delete_user_day_completion(s) \/ delete_user_subtask_completion(s)
  \/ delete_user_series_enrollment(s)

Next == \E s \in Sessions :
  TickOff(s) \/ CloseDay(s) \/ ClosePlan(s) \/ Enroll(s) \/ Undo(s) \/ Crash(s)

Spec == Init /\ [][Next]_vars

-----------------------------------------------------------------------------
Quiet == \A s \in Sessions : sess[s].pc = "idle"

\* Every variable has its type.
TypeOK ==
  /\ doneSub \subseteq SubTasks /\ doneTask \subseteq Tasks /\ doneDay \subseteq Days
  /\ progress \in [Plans -> Row \cup {None}]
  /\ enrollment \in Enrollment \cup {None}
  /\ sess \in [Sessions -> Session]
  /\ due \subseteq Plans /\ owed \subseteq Plans
  /\ calls \in Nat
  /\ torn \in BOOLEAN /\ crashed \in BOOLEAN /\ aborted \in BOOLEAN

\* A day that counts as done has all its tasks done, on however many devices and
\* wherever a handler died; only an undo that overlaps another handler, or dies
\* half way, tears the two apart.
DoneDaysAreDone ==
  ~torn /\ (\A s \in Sessions : ~Undoing(s))
    => \A d \in doneDay : TasksOf(d) \subseteq doneTask

\* A plan is marked completed only when all its days are done, and the series
\* only when all its plans are completed.
CompletedInFull ==
  [][torn' \/ /\ \A p \in Plans :
                   (progress'[p] # None /\ progress'[p].completed)
                     => (Enrolled(p) /\ progress[p].completed) \/ DaysOf(p) \subseteq doneDay
              /\ (enrollment # None /\ enrollment' # None)
                   => (enrollment'.completed /\ ~enrollment.completed
                         => is_series_completed_for_user)]_vars

\* A plan whose last day was done while the user was enrolled is completed, and
\* the plan after it has been entered, when all is quiet: whatever the devices do
\* to each other's rows, only a handler that died or was refused a write between
\* the day and the plan loses them.
NothingLeftBehind == Quiet /\ ~crashed /\ ~aborted => due = {} /\ owed = {}

\* "Check if plan is completed after a day completion and trigger series
\* progression if needed"
CompletedAfterLastDay == Quiet /\ ~crashed => due = {}
=============================================================================
