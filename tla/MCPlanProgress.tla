--------------------------- MODULE MCPlanProgress ---------------------------
(***************************************************************************)
(* Instance of PlanProgress for TLC: a plan of two days, its sibling in    *)
(* another language that has the first of them, and the plan after it.     *)
(***************************************************************************)
EXTENDS PlanProgress, TLC

CONSTANTS p1, q1, p2, d1, d2, e1, f1, ta, tb, tc, td, ua, ub

PlanOfDay == d1 :> p1 @@ d2 :> p1 @@ e1 :> q1 @@ f1 :> p2
NumberOfDay == d1 :> 1 @@ d2 :> 2 @@ e1 :> 1 @@ f1 :> 1
DayOfTask == ta :> d1 @@ tb :> d2 @@ tc :> e1 @@ td :> f1
TaskOfSubTask == ua :> tc @@ ub :> tc
SlotOfPlan == p1 :> 0 @@ q1 :> 0 @@ p2 :> 1

\* The user comes with some days ticked off, in every language, and is enrolled
\* in nothing, in the series and its first plan, or already in its second plan,
\* perhaps with the sibling of the first completed by an enrolment of its own.
FirstRow(done) == [source |-> "SERIES", completed |-> done]
Enrolments ==
  {[p \in Plans |-> None]}
  \cup (IF DaysOf(p1) \subseteq doneDay
        THEN {p1 :> FirstRow(TRUE) @@ q1 :> r @@ p2 :> FirstRow(FALSE) :
                r \in {None, [source |-> "DIRECT", completed |-> TRUE]}}
        ELSE {p1 :> FirstRow(FALSE) @@ q1 :> None @@ p2 :> None})
MCInit ==
  /\ doneDay \in SUBSET (Days \ {f1})
  /\ \A x \in doneDay : SiblingDays(x) \subseteq doneDay
  /\ doneTask = {x \in Tasks : DayOf[x] \in doneDay}
  /\ doneSub = {x \in SubTasks : TaskOf[x] \in doneTask}
  /\ progress \in Enrolments
  /\ enrollment = IF progress[p1] = None THEN None ELSE [auto |-> TRUE, completed |-> FALSE]
  /\ sess = [s \in Sessions |-> Idle] /\ calls = 0
  /\ due = {} /\ owed = {} /\ torn = FALSE /\ crashed = FALSE /\ aborted = FALSE
MCSpec == MCInit /\ [][Next]_vars

Symmetry == Permutations(Sessions) \cup Permutations(SubTasks)
=============================================================================
