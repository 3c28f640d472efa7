---------------------------- MODULE JobLifecycle ----------------------------
(***************************************************************************)
(* What the status of an audio job promises to whoever polls it: it is     *)
(* created PENDING, one worker at most ever takes it, a taken job ends     *)
(* COMPLETED or FAILED, and the end is final.                              *)
(***************************************************************************)
EXTENDS Naturals

CONSTANT Jobs

VARIABLES
  status,   \* audio_jobs.status, or "ABSENT"
  takes     \* audio_jobs.attempt_count

vars == <<status, takes>>

Init ==
  /\ status = [j \in Jobs |-> "ABSENT"]
  /\ takes = [j \in Jobs |-> 0]

Move(j, from, to) ==
  /\ status[j] = from
  /\ status' = [status EXCEPT ![j] = to]

Create(j) == Move(j, "ABSENT", "PENDING") /\ UNCHANGED takes
Take(j) ==
  /\ Move(j, "PENDING", "PROCESSING")
  /\ takes' = [takes EXCEPT ![j] = @ + 1]
Complete(j) == Move(j, "PROCESSING", "COMPLETED") /\ UNCHANGED takes
Fail(j) ==
  /\ Move(j, "PENDING", "FAILED") \/ Move(j, "PROCESSING", "FAILED")
  /\ UNCHANGED takes

Next == \E j \in Jobs : Create(j) \/ Take(j) \/ Complete(j) \/ Fail(j)

Spec == Init /\ [][Next]_vars
=============================================================================
