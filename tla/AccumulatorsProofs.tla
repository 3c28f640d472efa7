------------------------- MODULE AccumulatorsProofs -------------------------
(***************************************************************************)
(* HistoryCoversCount, SubmittedIsCounted and StatsAreFresh for any set of *)
(* sessions and any bounds.                                                *)
(*                                                                         *)
(* HistoryCoversCount is not inductive: an update that is about to commit  *)
(* relies on a count it read earlier, which other devices have since       *)
(* overwritten. What carries the proof is that the history only grows:     *)
(* the count that was read is still covered, whatever the accumulator      *)
(* holds now.                                                              *)
(*                                                                         *)
(* SubmittedIsCounted is not either: PartsInv says that a user has one     *)
(* live participation until two joins overlap, that what a submission has  *)
(* read was no more than the participation it will write holds, and that   *)
(* whoever finds its participation reset finds nothing counted in the new  *)
(* one.                                                                    *)
(*                                                                         *)
(* Nor is StatsAreFresh: FreshInv adds that what a computation has read is *)
(* still the total, unless it was overtaken, and that no total that passes *)
(* for fresh is cached when an update that adds to the history commits.    *)
(***************************************************************************)
EXTENDS Accumulators, FiniteSetTheorems, TLAPS

Fields == {"pc", "at", "value", "seen", "missing"}

\* The sessions hold records with the fields of a handler.
SessShape ==
  /\ sess = [s \in Sessions |-> sess[s]]
  /\ \A s \in Sessions : DOMAIN sess[s] = Fields

\* A handler that updates read a count that the history still covers.
SeenIsCovered ==
  \A s \in Sessions : sess[s].pc \in Updating =>
    /\ sess[s].at \in DOMAIN accs
    /\ sess[s].value \in Nat /\ sess[s].seen \in Nat
    /\ sess[s].seen <= accs[sess[s].at].total

AccsOK == accs \in Seq(Acc)
IInv == SessShape /\ AccsOK /\ SeenIsCovered /\ HistoryCoversCount

LEMMA AboveFact ==
  ASSUME NEW v \in Nat, NEW n \in Nat
  PROVE  Above(v, n) \in Nat /\ v <= n + Above(v, n)
  BY DEF Above

\* A session moves, and what it relies on is covered.
LEMMA SessionStep ==
  ASSUME IInv, NEW s \in Sessions, NEW r,
         DOMAIN r = Fields, sess' = [sess EXCEPT ![s] = r]
  PROVE  /\ SessShape'
         /\ \A t \in Sessions : sess'[t] = IF t = s THEN r ELSE sess[t]
<1>1. sess' = [t \in Sessions |-> IF t = s THEN r ELSE sess[t]]
  BY DEF IInv, SessShape
<1> QED BY <1>1 DEF IInv, SessShape

LEMMA StepCovered ==
  ASSUME IInv, NEW s \in Sessions, NEW r,
         DOMAIN r = Fields, sess' = [sess EXCEPT ![s] = r], accs' = accs,
         r.pc \in Updating =>
           /\ r.at \in DOMAIN accs /\ r.value \in Nat /\ r.seen \in Nat
           /\ r.seen <= accs[r.at].total
  PROVE  IInv'
<1>1. SeenIsCovered'
  BY SessionStep DEF IInv, SeenIsCovered
<1> QED BY <1>1, SessionStep DEF IInv, AccsOK, HistoryCoversCount

LEMMA StepElsewhere ==
  ASSUME IInv, NEW s \in Sessions, NEW r,
         DOMAIN r = Fields, sess' = [sess EXCEPT ![s] = r], accs' = accs,
         r.pc \notin Updating
  PROVE  IInv'
  BY StepCovered

LEMMA IdleFact ==
  /\ DOMAIN Idle = Fields
  /\ Idle.pc = "idle"
  /\ "idle" \notin Updating
  BY DEF Idle, Fields, Updating

LEMMA FinishStep == ASSUME IInv, NEW s \in Sessions, Finish(s), accs' = accs PROVE IInv'
  BY StepElsewhere, IdleFact DEF Finish, Goto

LEMMA GotoStep ==
  ASSUME IInv, NEW s \in Sessions, NEW pc, pc \notin Updating,
         Goto(s, [Idle EXCEPT !.pc = pc]), accs' = accs
  PROVE  IInv'
<1> DEFINE r == [Idle EXCEPT !.pc = pc]
<1>1. DOMAIN r = Fields /\ r.pc = pc
  BY IdleFact DEF Fields
<1>2. sess' = [sess EXCEPT ![s] = r]
  BY DEF Goto
<1> HIDE DEF r
<1> QED BY <1>1, <1>2, StepElsewhere

LEMMA JoinPreserves == ASSUME IInv, NEW s \in Sessions, Join(s) PROVE IInv'
<1>1. ASSUME JoinGroupAccumulator(s) PROVE IInv'
  <2> DEFINE r == [Idle EXCEPT !.pc = "joinGroup", !.missing = ~member]
  <2>1. DOMAIN r = Fields /\ r.pc = "joinGroup"
    BY IdleFact DEF Fields
  <2>2. sess' = [sess EXCEPT ![s] = r] /\ accs' = accs
    BY <1>1 DEF JoinGroupAccumulator, Arrive, Begin, own
  <2> HIDE DEF r
  <2> QED BY <2>1, <2>2, StepElsewhere DEF Updating
<1>2. ASSUME upsert_group_join(s) PROVE IInv'
  <2>1. Finish(s) \/ Goto(s, [Idle EXCEPT !.pc = "joinSeen"])
    BY <1>2 DEF upsert_group_join
  <2>2. accs' = accs
    BY <1>2 DEF upsert_group_join, own
  <2> QED BY <2>1, <2>2, GotoStep, FinishStep DEF Updating
<1>3. ASSUME JoinSeen(s) PROVE IInv'
  <2> DEFINE pc == IF joined THEN "part" ELSE "joinSave"
  <2>1. Goto(s, [Idle EXCEPT !.pc = pc]) /\ accs' = accs
    BY <1>3 DEF JoinSeen, own
  <2>2. pc \notin Updating
    BY DEF Updating
  <2> QED BY <2>1, <2>2, GotoStep
<1>4. ASSUME upsert_group_accumulator_join(s) PROVE IInv'
  <2>1. Finish(s) \/ Goto(s, [Idle EXCEPT !.pc = "part"])
    BY <1>4 DEF upsert_group_accumulator_join
  <2>2. accs' = accs
    BY <1>4 DEF upsert_group_accumulator_join, own
  <2> QED BY <2>1, <2>2, GotoStep, FinishStep DEF Updating
<1>5. ASSUME GetOrCreate(s) PROVE IInv'
  <2>1. Finish(s) \/ Goto(s, [Idle EXCEPT !.pc = "partSave"])
    BY <1>5 DEF GetOrCreate
  <2>2. accs' = accs
    BY <1>5 DEF GetOrCreate, own
  <2> QED BY <2>1, <2>2, GotoStep, FinishStep DEF Updating
<1>6. ASSUME create_user_group_accumulator(s) PROVE IInv'
  BY <1>6, FinishStep DEF create_user_group_accumulator, own
<1> QED BY <1>1, <1>2, <1>3, <1>4, <1>5, <1>6 DEF Join

LEMMA PartsPreserve == ASSUME IInv, NEW s \in Sessions, StartOver(s) \/ Submit(s) PROVE IInv'
<1>1. ASSUME Reset(s) PROVE IInv'
  <2> DEFINE r == [Idle EXCEPT !.pc = "reset", !.at = Active]
  <2>1. DOMAIN r = Fields /\ r.pc = "reset"
    BY IdleFact DEF Fields
  <2>2. sess' = [sess EXCEPT ![s] = r] /\ accs' = accs
    BY <1>1 DEF Reset, Arrive, Begin, own
  <2> HIDE DEF r
  <2> QED BY <2>1, <2>2, StepElsewhere DEF Updating
<1>2. ASSUME soft_delete_user_group_accumulator(s) PROVE IInv'
  <2>1. Goto(s, [Idle EXCEPT !.pc = "part"]) /\ accs' = accs
    BY <1>2 DEF soft_delete_user_group_accumulator, own
  <2> QED BY <2>1, GotoStep DEF Updating
<1>3. ASSUME NEW v \in 1..MaxCount, SubmitGroupCount(s, v) PROVE IInv'
  <2> DEFINE r == [Idle EXCEPT !.pc = "count", !.at = Active, !.value = v]
  <2>1. DOMAIN r = Fields /\ r.pc = "count"
    BY IdleFact DEF Fields
  <2>2. sess' = [sess EXCEPT ![s] = r] /\ accs' = accs
    BY <1>3 DEF SubmitGroupCount, Arrive, Begin, own
  <2> HIDE DEF r
  <2> QED BY <2>1, <2>2, StepElsewhere DEF Updating
<1>4. ASSUME ReadCount(s) PROVE IInv'
  <2> DEFINE r == [sess[s] EXCEPT !.pc = "add", !.seen = ActiveCount]
  <2>1. DOMAIN r = Fields /\ r.pc = "add"
    BY DEF IInv, SessShape, Fields
  <2>2. sess' = [sess EXCEPT ![s] = r] /\ accs' = accs
    BY <1>4 DEF ReadCount, Goto, own
  <2> HIDE DEF r
  <2> QED BY <2>1, <2>2, StepElsewhere DEF Updating
<1>5. ASSUME add_group_history_row(s) PROVE IInv'
  BY <1>5, FinishStep DEF add_group_history_row, own
<1> QED BY <1>1, <1>2, <1>3, <1>4, <1>5 DEF StartOver, Submit

LEMMA StatsPreserve == ASSUME IInv, NEW s \in Sessions, Stats(s) \/ Crash(s) PROVE IInv'
<1>1. ASSUME GetUserStats(s) PROVE IInv'
  <2> DEFINE r == [Idle EXCEPT !.pc = "stats"]
  <2>1. DOMAIN r = Fields /\ r.pc = "stats"
    BY IdleFact DEF Fields
  <2>2. sess' = [sess EXCEPT ![s] = r] /\ accs' = accs
    BY <1>1 DEF GetUserStats, Goto, own
  <2> HIDE DEF r
  <2> QED BY <2>1, <2>2, StepElsewhere DEF Updating
<1>2. ASSUME get_user_activity_totals(s) PROVE IInv'
  <2> DEFINE r == [sess[s] EXCEPT !.pc = "statsSave", !.seen = total_accumulated]
  <2>1. DOMAIN r = Fields /\ r.pc = "statsSave"
    BY DEF IInv, SessShape, Fields
  <2>2. sess' = [sess EXCEPT ![s] = r] /\ accs' = accs
    BY <1>2 DEF get_user_activity_totals, Goto, own
  <2> HIDE DEF r
  <2> QED BY <2>1, <2>2, StepElsewhere DEF Updating
<1>3. ASSUME set_user_stats_cache(s) PROVE IInv'
  BY <1>3, FinishStep DEF set_user_stats_cache
<1>4. ASSUME Crash(s) PROVE IInv'
  BY <1>4, FinishStep DEF Crash, own
<1> QED BY <1>1, <1>2, <1>3, <1>4 DEF Stats

LEMMA OwnPreserves == ASSUME IInv, NEW s \in Sessions, Own(s) PROVE IInv'
<1> USE DEF AccsOK, HistoryCoversCount
<1>1. ASSUME CreateAccumulator(s) PROVE IInv'
  <2> DEFINE r == [Idle EXCEPT !.pc = "create"]
  <2>1. DOMAIN r = Fields /\ r.pc = "create"
    BY IdleFact DEF Fields
  <2>2. sess' = [sess EXCEPT ![s] = r] /\ accs' = accs
    BY <1>1 DEF CreateAccumulator, Arrive, Begin, own
  <2> HIDE DEF r
  <2> QED BY <2>1, <2>2, StepElsewhere DEF Updating
<1>2. ASSUME _create_accumulator_from_preset(s) PROVE IInv'
  <2> DEFINE new == [live |-> TRUE, current |-> 0, total |-> 0]
  <2>1. accs' = Append(accs, new) /\ new \in Acc /\ accs \in Seq(Acc)
    BY <1>2 DEF _create_accumulator_from_preset, Acc, IInv
  <2>2. /\ accs' \in Seq(Acc)
        /\ DOMAIN accs \subseteq DOMAIN accs'
        /\ \A i \in DOMAIN accs : accs'[i] = accs[i]
        /\ \A i \in DOMAIN accs' : i \notin DOMAIN accs => accs'[i] = new
    BY <2>1
  <2>3. HistoryCoversCount'
    BY <2>1, <2>2 DEF IInv
  <2>4. sess' = [sess EXCEPT ![s] = Idle]
    BY <1>2 DEF _create_accumulator_from_preset, Finish, Goto
  <2>5. SessShape' /\ \A t \in Sessions : sess'[t] = IF t = s THEN Idle ELSE sess[t]
    BY <2>4, IdleFact, SessionStep
  <2>6. SeenIsCovered'
    BY <2>2, <2>5, IdleFact DEF IInv, SeenIsCovered
  <2> QED BY <2>2, <2>3, <2>5, <2>6 DEF IInv
<1>3. ASSUME NEW i \in DOMAIN accs, NEW v \in 0..MaxCount, UpdateAccumulator(s, i, v)
      PROVE  IInv'
  <2> DEFINE pc == IF v > accs[i].current THEN "invalidate" ELSE "update"
             r == [Idle EXCEPT !.pc = pc, !.at = i, !.value = v, !.seen = accs[i].current]
  <2>1. /\ DOMAIN r = Fields
        /\ r.pc = pc /\ r.at = i /\ r.value = v /\ r.seen = accs[i].current
    BY DEF Idle, Fields
  <2>2. sess' = [sess EXCEPT ![s] = r] /\ accs' = accs
    BY <1>3 DEF UpdateAccumulator, Begin, own
  <2>3. accs[i] \in Acc
    BY DEF IInv
  <2>4. i \in DOMAIN accs /\ v \in Nat /\ accs[i].current \in Nat
        /\ accs[i].current <= accs[i].total
    BY <2>3 DEF IInv, Acc
  <2> HIDE DEF r
  <2> QED BY <2>1, <2>2, <2>4, StepCovered
<1>4. ASSUME invalidate_user_stats_cache(s) PROVE IInv'
  <2> DEFINE r == [sess[s] EXCEPT !.pc = "update"]
  <2>1. /\ DOMAIN r = Fields
        /\ r.at = sess[s].at /\ r.value = sess[s].value /\ r.seen = sess[s].seen
    BY DEF IInv, SessShape, Fields
  <2>2. sess' = [sess EXCEPT ![s] = r] /\ accs' = accs /\ sess[s].pc \in Updating
    BY <1>4 DEF invalidate_user_stats_cache, Goto, Updating
  <2> HIDE DEF r
  <2> QED BY <2>1, <2>2, StepCovered DEF IInv, SeenIsCovered
<1>5. ASSUME update_accumulator(s) PROVE IInv'
  <2> DEFINE h == sess[s]
             i == h.at
             more == Above(h.value, h.seen)
             a == accs[i]
             count == IF h.value = h.seen THEN a.current ELSE h.value
             new == [a EXCEPT !.current = count, !.total = a.total + more]
  <2>1. /\ i \in DOMAIN accs /\ accs[i] \in Acc
        /\ h.value \in Nat /\ h.seen \in Nat /\ h.seen <= accs[i].total
        /\ accs[i].current <= accs[i].total
    BY <1>5 DEF update_accumulator, IInv, SeenIsCovered, Updating
  <2>2. more \in Nat /\ h.value <= h.seen + more
    BY <2>1, AboveFact
  <2> HIDE DEF more
  <2>3. /\ a.current \in Nat /\ a.total \in Nat
         /\ count \in Nat /\ count <= a.total + more
         /\ a.total + more \in Nat /\ a.total <= a.total + more
    BY <2>1, <2>2 DEF Acc
  <2> HIDE DEF count
  <2>4. new \in Acc /\ new.current = count /\ new.total = a.total + more
    BY <2>1, <2>3 DEF Acc
  <2> HIDE DEF a
  <2>5. new \in Acc /\ new.current <= new.total /\ a.total <= new.total
    BY <2>3, <2>4
  <2>6. accs' = [accs EXCEPT ![i] = new]
    BY <1>5 DEF update_accumulator, more, count, a
  <2> HIDE DEF new
  <2>7. /\ accs' \in Seq(Acc) /\ DOMAIN accs' = DOMAIN accs
        /\ \A j \in DOMAIN accs : accs'[j] = IF j = i THEN new ELSE accs[j]
    BY <2>1, <2>5, <2>6 DEF IInv
  <2>8. sess' = [sess EXCEPT ![s] = Idle]
    BY <1>5 DEF update_accumulator, Finish, Goto
  <2>9. SessShape' /\ \A t \in Sessions : sess'[t] = IF t = s THEN Idle ELSE sess[t]
    BY <2>8, IdleFact, SessionStep
  <2>10. HistoryCoversCount'
    BY <2>5, <2>7 DEF IInv
  <2>11. \A j \in DOMAIN accs : accs[j] \in Acc /\ accs'[j] \in Acc
    BY <2>7 DEF IInv
  <2>12. \A j \in DOMAIN accs : /\ accs[j].total \in Nat /\ accs'[j].total \in Nat
                               /\ accs[j].total <= accs'[j].total
    <3> SUFFICES ASSUME NEW j \in DOMAIN accs
                 PROVE  /\ accs[j].total \in Nat /\ accs'[j].total \in Nat
                        /\ accs[j].total <= accs'[j].total
      OBVIOUS
    <3>1. accs[j].total \in Nat /\ accs'[j].total \in Nat
      BY <2>11 DEF Acc
    <3>2. CASE j = i
      BY <2>5, <2>7, <3>1, <3>2 DEF a
    <3>3. CASE j # i
      BY <2>7, <3>1, <3>3
    <3> QED BY <3>1, <3>2, <3>3
  <2>13. SeenIsCovered'
    BY <2>7, <2>9, <2>12, IdleFact DEF IInv, SeenIsCovered
  <2> QED BY <2>7, <2>9, <2>10, <2>13 DEF IInv
<1> QED BY <1>1, <1>2, <1>3, <1>4, <1>5 DEF Own

LEMMA DeletePreserves == ASSUME IInv, NEW i \in DOMAIN accs, delete_accumulator(i) PROVE IInv'
<1> USE DEF AccsOK, HistoryCoversCount
<1> DEFINE new == [accs[i] EXCEPT !.live = FALSE]
<1>1. accs[i] \in Acc
  BY DEF IInv
<1>2. new \in Acc /\ new.current = accs[i].current /\ new.total = accs[i].total
  BY <1>1 DEF Acc
<1>3. accs' = [accs EXCEPT ![i] = new] /\ sess' = sess
  BY DEF delete_accumulator
<1> HIDE DEF new
<1>4. /\ accs' \in Seq(Acc) /\ DOMAIN accs' = DOMAIN accs
      /\ \A j \in DOMAIN accs : /\ accs'[j].current = accs[j].current
                                /\ accs'[j].total = accs[j].total
  BY <1>2, <1>3 DEF IInv
<1> QED BY <1>3, <1>4 DEF IInv, SessShape, SeenIsCovered

LEMMA IdleRest ==
  ASSUME IInv, leave_group \/ Authors \/ Expire \/ UNCHANGED vars PROVE IInv'
<1>1. accs' = accs /\ sess' = sess
  BY DEF leave_group, Authors, delete_group_accumulator, set_visibility, delete_preset,
         Expire, vars, own
<1> QED BY <1>1 DEF IInv, SessShape, AccsOK, SeenIsCovered, HistoryCoversCount

-----------------------------------------------------------------------------
LEMMA NextIInv == IInv /\ [Next]_vars => IInv'
  BY JoinPreserves, PartsPreserve, StatsPreserve, OwnPreserves, DeletePreserves, IdleRest
  DEF Next

\* Every reachable state satisfies the invariant.
THEOREM Invariance == Spec => []IInv
<1>1. Init => IInv
  BY IdleFact DEF Init, IInv, SessShape, AccsOK, SeenIsCovered, HistoryCoversCount
<1> QED BY <1>1, NextIInv, PTL DEF Spec

\* The history of an accumulator of the user's own covers the count it shows,
\* however many devices overwrite each other's counts: update_accumulator_service
\* takes the difference to a count that was once there.
THEOREM CountIsCovered == Spec => []HistoryCoversCount
<1>1. IInv => HistoryCoversCount
  BY DEF IInv
<1> QED BY <1>1, Invariance, PTL

-----------------------------------------------------------------------------
(* SubmittedIsCounted.  A submission looks the active participation up twice. *)
(* Unless that is torn, the second look-up finds the participation it writes   *)
(* to: at most one participation is live, and a dead one is not revived.  When *)
(* it finds another one, nothing has been counted there, as a submission that  *)
(* did would have overlapped with this one.                                    *)

\* Handlers that create participations do not overlap, so one is live at most,
\* and none is when the next is about to be inserted.
JoinInv ==
  /\ \A i, j \in LiveParts : i = j
  /\ \A s, t \in Sessions : sess[s].pc \in Joining /\ sess[t].pc \in Joining => s = t
  /\ \A s \in Sessions : /\ sess[s].pc = "partSave" => LiveParts = {}
                         /\ sess[s].pc = "reset" => sess[s].at \in DOMAIN parts

\* The participation p has reached the count n, and not passed it, but for the
\* exceptions that SubmittedIsCounted makes when there were such races.
Reaches(p, n, races) ==
  /\ n <= p.count \/ ("submitting" \in races /\ p.torn)
  /\ n = p.count \/ "submitting" \in races \/ p.torn

\* The count a submission has read is one that the participation it writes to has
\* reached. A participation that replaces one of which the count is about to be
\* read holds nothing yet, unless submissions overlap.
SubmitInv ==
  /\ "submitting" \notin raced =>
       \A s, t \in Sessions : sess[s].pc \in Submitting /\ sess[t].pc \in Submitting => s = t
  /\ \A s \in Sessions : LET h == sess[s] IN
       /\ h.pc \in Submitting => h.at \in DOMAIN parts /\ h.value \in Nat
       /\ h.pc = "add" => h.seen \in Nat /\ Reaches(parts[h.at], h.seen, raced)
       /\ h.pc = "count" /\ "submitting" \notin raced /\ ~parts[h.at].live =>
            \A i \in LiveParts : parts[i].count = 0

CountInv == \A i \in DOMAIN parts : Reaches(parts[i], parts[i].claimed, raced)

PartsInv == "joining" \notin raced => parts \in Seq(Part) /\ JoinInv /\ SubmitInv /\ CountInv

\* What the look-up of the active participation returns.
LEMMA ActiveFact ==
  ASSUME parts \in Seq(Part), \A i, j \in LiveParts : i = j
  PROVE  /\ Active = 0 => LiveParts = {}
         /\ Active # 0 => LiveParts = {Active} /\ Active \in DOMAIN parts
         /\ ActiveCount \in Nat
         /\ \A i \in LiveParts : ActiveCount = parts[i].count
<1>1. LiveParts \subseteq DOMAIN parts /\ DOMAIN parts = 1..Len(parts) /\ Len(parts) \in Nat
  BY DEF LiveParts
<1>2. CASE LiveParts = {}
  <2>1. Active = 0
    BY <1>2 DEF Active, Max
  <2> QED BY <1>2, <2>1 DEF ActiveCount
<1>3. CASE LiveParts # {}
  <2>1. PICK i \in LiveParts : LiveParts = {i}
    BY <1>3
  <2>2. i \in Nat /\ i > 0 /\ i \in DOMAIN parts
    BY <1>1
  <2>3. \A x \in {i, 0} : (\A y \in {i, 0} : x >= y) <=> x = i
    BY <2>2
  <2>4. Active = i
    BY <2>1, <2>2, <2>3 DEF Active, Max
  <2>5. parts[i] \in Part
    BY <2>2
  <2> QED BY <2>1, <2>2, <2>4, <2>5 DEF ActiveCount, Part
<1> QED BY <1>2, <1>3

\* A handler moves and leaves the participations alone.
LEMMA MovePreserves ==
  ASSUME IInv, PartsInv, NEW s \in Sessions, NEW r,
         DOMAIN r = Fields, sess' = [sess EXCEPT ![s] = r], parts' = parts,
         raced \subseteq raced',
         r.pc \in Joining => "joining" \in raced' \/ \A t \in Sessions \ {s} : sess[t].pc \notin Joining,
         r.pc \in Submitting =>
           "submitting" \in raced' \/ \A t \in Sessions \ {s} : sess[t].pc \notin Submitting,
         "joining" \notin raced =>
           /\ r.pc = "partSave" => LiveParts = {}
           /\ r.pc = "reset" => r.at \in DOMAIN parts
           /\ r.pc \in Submitting => /\ r.at \in DOMAIN parts /\ r.value \in Nat
                                    /\ r.pc # "add" /\ parts[r.at].live
  PROVE  PartsInv'
<1> SUFFICES ASSUME "joining" \notin raced'
             PROVE  parts' \in Seq(Part) /\ JoinInv' /\ SubmitInv' /\ CountInv'
  BY DEF PartsInv
<1>1. "joining" \notin raced /\ parts \in Seq(Part) /\ JoinInv /\ SubmitInv /\ CountInv
  BY DEF PartsInv
<1>2. \A t \in Sessions : sess'[t] = IF t = s THEN r ELSE sess[t]
  BY DEF IInv, SessShape
<1>3. LiveParts' = LiveParts
  BY DEF LiveParts
<1>5. JoinInv'
  BY <1>1, <1>2, <1>3 DEF JoinInv
<1>6. SubmitInv'
  <2>1. "submitting" \notin raced' =>
          \A u, t \in Sessions : sess'[u].pc \in Submitting /\ sess'[t].pc \in Submitting => u = t
    BY <1>1, <1>2 DEF SubmitInv
  <2>2. ASSUME NEW t \in Sessions
        PROVE  LET h == sess'[t] IN
               /\ h.pc \in Submitting => h.at \in DOMAIN parts' /\ h.value \in Nat
               /\ h.pc = "add" => h.seen \in Nat /\ Reaches(parts'[h.at], h.seen, raced')
               /\ h.pc = "count" /\ "submitting" \notin raced' /\ ~parts'[h.at].live =>
                    \A i \in LiveParts' : parts'[i].count = 0
    <3>1. CASE t = s
      BY <1>1, <1>2, <3>1 DEF Submitting
    <3>2. CASE t # s
      BY <1>1, <1>2, <1>3, <3>2 DEF SubmitInv, Reaches
    <3> QED BY <3>1, <3>2
  <2> QED BY <2>1, <2>2 DEF SubmitInv
<1> QED BY <1>1, <1>3, <1>5, <1>6 DEF CountInv, Reaches

\* A call comes in, and races with the handlers it has to.
LEMMA ArrivePreserves ==
  ASSUME IInv, PartsInv, NEW s \in Sessions, NEW r, DOMAIN r = Fields,
         NEW kind, NEW rivals, Arrive(s, r, kind, rivals), parts' = parts,
         r.pc \in Joining => kind = "joining" /\ rivals = Joining,
         r.pc \in Submitting => kind = "submitting" /\ rivals = Submitting /\ r.pc # "add",
         r.pc # "partSave",
         "joining" \notin raced =>
           /\ r.pc = "reset" => r.at \in DOMAIN parts
           /\ r.pc \in Submitting => /\ r.at \in DOMAIN parts /\ r.value \in Nat
                                    /\ parts[r.at].live
  PROVE  PartsInv'
<1>1. sess' = [sess EXCEPT ![s] = r] /\ raced' = IF Busy(rivals) THEN raced \cup {kind} ELSE raced
  BY DEF Arrive, Begin
<1>2. raced \subseteq raced'
  BY <1>1
<1>3. r.pc \in Joining => "joining" \in raced' \/ \A t \in Sessions \ {s} : sess[t].pc \notin Joining
  BY <1>1 DEF Busy
<1>4. r.pc \in Submitting =>
        "submitting" \in raced' \/ \A t \in Sessions \ {s} : sess[t].pc \notin Submitting
  BY <1>1 DEF Busy
<1>5. r.pc # "add"
  BY DEF Submitting
<1> QED BY <1>1, <1>2, <1>3, <1>4, <1>5, MovePreserves

\* A handler that neither joins nor submits moves.
LEMMA AsidePreserves ==
  ASSUME IInv, PartsInv, NEW s \in Sessions, NEW r, DOMAIN r = Fields,
         sess' = [sess EXCEPT ![s] = r], parts' = parts, raced \subseteq raced',
         r.pc \notin Joining \cup Submitting
  PROVE  PartsInv'
<1>1. /\ r.pc # "partSave" /\ r.pc # "reset" /\ r.pc # "add"
  BY DEF Joining, Submitting
<1> QED BY <1>1, MovePreserves

LEMMA IdleAside == Idle.pc \notin Joining \cup Submitting
  BY IdleFact DEF Joining, Submitting

LEMMA FinishAside ==
  ASSUME IInv, PartsInv, NEW s \in Sessions, Finish(s), parts' = parts PROVE PartsInv'
<1>1. sess' = [sess EXCEPT ![s] = Idle] /\ raced' = raced
  BY DEF Finish, Goto
<1> QED BY <1>1, IdleFact, IdleAside, AsidePreserves

\* A handler that joins goes on joining.
LEMMA JoinGoesOn ==
  ASSUME IInv, PartsInv, NEW s \in Sessions, NEW pc, pc \in Joining \ {"reset"},
         sess[s].pc \in Joining, Goto(s, [Idle EXCEPT !.pc = pc]), parts' = parts,
         pc = "partSave" => LiveParts = {} \/ "joining" \in raced
  PROVE  PartsInv'
<1> DEFINE r == [Idle EXCEPT !.pc = pc]
<1>1. DOMAIN r = Fields /\ r.pc = pc
  BY IdleFact DEF Fields
<1>2. sess' = [sess EXCEPT ![s] = r] /\ raced' = raced
  BY DEF Goto
<1> HIDE DEF r
<1>3. "joining" \in raced' \/ \A t \in Sessions \ {s} : sess[t].pc \notin Joining
  BY <1>2 DEF PartsInv, JoinInv
<1>4. r.pc \notin Submitting /\ r.pc # "reset" /\ r.pc # "add"
  BY <1>1 DEF Joining, Submitting
<1> QED BY <1>1, <1>2, <1>3, <1>4, MovePreserves

LEMMA JoinKeepsParts == ASSUME IInv, PartsInv, NEW s \in Sessions, Join(s) PROVE PartsInv'
<1>1. ASSUME JoinGroupAccumulator(s) PROVE PartsInv'
  <2> DEFINE r == [Idle EXCEPT !.pc = "joinGroup", !.missing = ~member]
  <2>1. DOMAIN r = Fields /\ r.pc = "joinGroup"
    BY IdleFact DEF Fields
  <2>2. Arrive(s, r, "joining", Joining) /\ parts' = parts
    BY <1>1 DEF JoinGroupAccumulator, group
  <2> HIDE DEF r
  <2>3. r.pc \notin Submitting /\ r.pc # "partSave" /\ r.pc # "reset"
    BY <2>1 DEF Submitting
  <2> QED BY <2>1, <2>2, <2>3, ArrivePreserves
<1>2. ASSUME upsert_group_join(s) PROVE PartsInv'
  <2>1. /\ Finish(s) \/ Goto(s, [Idle EXCEPT !.pc = "joinSeen"])
        /\ parts' = parts /\ sess[s].pc \in Joining
    BY <1>2 DEF upsert_group_join, Joining
  <2>2. "joinSeen" \in Joining \ {"reset"}
    BY DEF Joining
  <2> QED BY <2>1, <2>2, FinishAside, JoinGoesOn
<1>3. ASSUME JoinSeen(s) PROVE PartsInv'
  <2> DEFINE pc == IF joined THEN "part" ELSE "joinSave"
  <2>1. Goto(s, [Idle EXCEPT !.pc = pc]) /\ parts' = parts /\ sess[s].pc \in Joining
    BY <1>3 DEF JoinSeen, group, Joining
  <2>2. pc \in Joining \ {"reset"} /\ pc # "partSave"
    BY DEF Joining
  <2> QED BY <2>1, <2>2, JoinGoesOn
<1>4. ASSUME upsert_group_accumulator_join(s) PROVE PartsInv'
  <2>1. /\ Finish(s) \/ Goto(s, [Idle EXCEPT !.pc = "part"])
        /\ parts' = parts /\ sess[s].pc \in Joining
    BY <1>4 DEF upsert_group_accumulator_join, Joining
  <2>2. "part" \in Joining \ {"reset"}
    BY DEF Joining
  <2> QED BY <2>1, <2>2, FinishAside, JoinGoesOn
<1>5. ASSUME GetOrCreate(s) PROVE PartsInv'
  <2>1. /\ Finish(s) \/ (Active = 0 /\ Goto(s, [Idle EXCEPT !.pc = "partSave"]))
        /\ parts' = parts /\ sess[s].pc \in Joining
    BY <1>5 DEF GetOrCreate, group, Joining
  <2>2. "partSave" \in Joining \ {"reset"}
    BY DEF Joining
  <2>3. Active = 0 => LiveParts = {} \/ "joining" \in raced
    BY ActiveFact DEF PartsInv, JoinInv
  <2> QED BY <2>1, <2>2, <2>3, FinishAside, JoinGoesOn
<1>6. ASSUME create_user_group_accumulator(s) PROVE PartsInv'
  <2> DEFINE new == [live |-> TRUE, count |-> 0, claimed |-> 0, torn |-> FALSE]
  <2> SUFFICES ASSUME "joining" \notin raced'
               PROVE  parts' \in Seq(Part) /\ JoinInv' /\ SubmitInv' /\ CountInv'
    BY DEF PartsInv
  <2>1. /\ sess[s].pc = "partSave" /\ parts' = Append(parts, new)
        /\ sess' = [sess EXCEPT ![s] = Idle] /\ raced' = raced
    BY <1>6 DEF create_user_group_accumulator, Finish, Goto
  <2>2. "joining" \notin raced /\ parts \in Seq(Part) /\ JoinInv /\ SubmitInv /\ CountInv
    BY <2>1 DEF PartsInv
  <2>3. new \in Part /\ new.live /\ new.count = 0 /\ new.claimed = 0
    BY DEF Part
  <2> HIDE DEF new
  <2>4. /\ parts' \in Seq(Part) /\ DOMAIN parts \subseteq DOMAIN parts'
        /\ \A i \in DOMAIN parts : parts'[i] = parts[i]
        /\ \A i \in DOMAIN parts' : i \notin DOMAIN parts => i = Len(parts) + 1 /\ parts'[i] = new
    BY <2>1, <2>2, <2>3
  <2>5. LiveParts = {} /\ \A t \in Sessions \ {s} : sess[t].pc \notin Joining
    BY <2>1, <2>2 DEF JoinInv, Joining
  <2>6. \A t \in Sessions : sess'[t] = IF t = s THEN Idle ELSE sess[t]
    BY <2>1 DEF IInv, SessShape
  <2>7. \A i \in LiveParts' : i = Len(parts) + 1 /\ parts'[i] = new
    BY <2>4, <2>5 DEF LiveParts
  <2>8. \A t \in Sessions : sess'[t].pc \notin Joining
    BY <2>5, <2>6, IdleAside
  <2>9. JoinInv'
    BY <2>7, <2>8 DEF JoinInv, Joining
  <2>10. CountInv'
    BY <2>1, <2>2, <2>3, <2>4 DEF CountInv, Reaches
  <2>11. SubmitInv'
    BY <2>1, <2>2, <2>3, <2>4, <2>6, <2>7, IdleAside, IdleFact DEF SubmitInv, Submitting, Reaches
  <2> QED BY <2>4, <2>9, <2>10, <2>11
<1> QED BY <1>1, <1>2, <1>3, <1>4, <1>5, <1>6 DEF Join

LEMMA StartOverKeepsParts == ASSUME IInv, PartsInv, NEW s \in Sessions, StartOver(s) PROVE PartsInv'
<1>1. ASSUME Reset(s) PROVE PartsInv'
  <2> DEFINE r == [Idle EXCEPT !.pc = "reset", !.at = Active]
  <2>1. DOMAIN r = Fields /\ r.pc = "reset" /\ r.at = Active
    BY IdleFact DEF Fields, Idle
  <2>2. Arrive(s, r, "joining", Joining) /\ parts' = parts /\ Active # 0
    BY <1>1 DEF Reset, group
  <2> HIDE DEF r
  <2>3. r.pc \notin Submitting /\ r.pc # "partSave"
    BY <2>1 DEF Submitting
  <2>4. "joining" \notin raced => Active \in DOMAIN parts
    BY <2>2, ActiveFact DEF PartsInv, JoinInv
  <2> QED BY <2>1, <2>2, <2>3, <2>4, ArrivePreserves
<1>2. ASSUME soft_delete_user_group_accumulator(s) PROVE PartsInv'
  <2> DEFINE i == sess[s].at
             new == [parts[i] EXCEPT !.live = FALSE]
             r == [Idle EXCEPT !.pc = "part"]
  <2> SUFFICES ASSUME "joining" \notin raced'
               PROVE  parts' \in Seq(Part) /\ JoinInv' /\ SubmitInv' /\ CountInv'
    BY DEF PartsInv
  <2>1. /\ sess[s].pc = "reset" /\ parts' = [parts EXCEPT ![i] = new]
        /\ sess' = [sess EXCEPT ![s] = r] /\ raced' = raced
    BY <1>2 DEF soft_delete_user_group_accumulator, Goto
  <2>2. "joining" \notin raced /\ parts \in Seq(Part) /\ JoinInv /\ SubmitInv /\ CountInv
    BY <2>1 DEF PartsInv
  <2>3. i \in DOMAIN parts
    BY <2>1, <2>2 DEF JoinInv
  <2>4. parts[i] \in Part
    BY <2>2, <2>3
  <2>5. /\ new \in Part /\ ~new.live /\ new.torn = parts[i].torn
        /\ new.count = parts[i].count /\ new.claimed = parts[i].claimed
    BY <2>4 DEF Part
  <2>6. r.pc = "part"
    BY DEF Idle
  <2> HIDE DEF new, r
  <2>7. /\ parts' \in Seq(Part) /\ DOMAIN parts' = DOMAIN parts
        /\ \A j \in DOMAIN parts : parts'[j] = IF j = i THEN new ELSE parts[j]
    BY <2>1, <2>2, <2>3, <2>5
  <2>8. \A t \in Sessions : sess'[t] = IF t = s THEN r ELSE sess[t]
    BY <2>1 DEF IInv, SessShape
  <2>9. LiveParts' \subseteq LiveParts /\ \A j \in LiveParts' : parts'[j] = parts[j]
    BY <2>5, <2>7 DEF LiveParts
  <2>10. JoinInv'
    BY <2>1, <2>2, <2>6, <2>7, <2>8, <2>9 DEF JoinInv, Joining
  <2>11. CountInv'
    BY <2>1, <2>2, <2>5, <2>7 DEF CountInv, Reaches
  <2>12. i \in LiveParts => LiveParts' = {}
    BY <2>2, <2>5, <2>7 DEF JoinInv, LiveParts
  <2>13. ASSUME NEW t \in Sessions
         PROVE  LET h == sess'[t] IN
                /\ h.pc \in Submitting => h.at \in DOMAIN parts' /\ h.value \in Nat
                /\ h.pc = "add" => h.seen \in Nat /\ Reaches(parts'[h.at], h.seen, raced')
                /\ h.pc = "count" /\ "submitting" \notin raced' /\ ~parts'[h.at].live =>
                     \A j \in LiveParts' : parts'[j].count = 0
    <3>1. CASE t = s
      BY <2>6, <2>8, <3>1 DEF Submitting
    <3>2. CASE t # s
      <4>1. sess'[t] = sess[t]
        BY <2>8, <3>2
      <4>2. /\ sess[t].pc \in Submitting => sess[t].at \in DOMAIN parts /\ sess[t].value \in Nat
            /\ sess[t].pc = "add" => sess[t].seen \in Nat /\ Reaches(parts[sess[t].at], sess[t].seen, raced)
            /\ sess[t].pc = "count" /\ "submitting" \notin raced /\ ~parts[sess[t].at].live =>
                 \A j \in LiveParts : parts[j].count = 0
        BY <2>2 DEF SubmitInv
      <4>3. sess[t].pc = "add" => Reaches(parts'[sess[t].at], sess[t].seen, raced')
        BY <2>1, <2>5, <2>7, <4>1, <4>2 DEF Reaches, Submitting
      <4>4. CASE parts[sess[t].at].live
        BY <2>7, <2>9, <2>12, <4>1, <4>2, <4>3, <4>4 DEF LiveParts, Submitting
      <4>5. CASE ~parts[sess[t].at].live
        BY <2>1, <2>7, <2>9, <4>1, <4>2, <4>3, <4>5 DEF Submitting
      <4> QED BY <4>4, <4>5
    <3> QED BY <3>1, <3>2
  <2>14. SubmitInv'
    BY <2>1, <2>2, <2>6, <2>8, <2>13 DEF SubmitInv, Submitting
  <2> QED BY <2>7, <2>10, <2>11, <2>14
<1> QED BY <1>1, <1>2 DEF StartOver

LEMMA SubmitKeepsParts == ASSUME IInv, PartsInv, NEW s \in Sessions, Submit(s) PROVE PartsInv'
<1>1. ASSUME NEW v \in 1..MaxCount, SubmitGroupCount(s, v) PROVE PartsInv'
  <2> DEFINE r == [Idle EXCEPT !.pc = "count", !.at = Active, !.value = v]
  <2>1. DOMAIN r = Fields /\ r.pc = "count" /\ r.at = Active /\ r.value = v
    BY IdleFact DEF Fields, Idle
  <2>2. Arrive(s, r, "submitting", Submitting) /\ parts' = parts /\ Active # 0
    BY <1>1 DEF SubmitGroupCount, group
  <2> HIDE DEF r
  <2>3. r.pc \notin Joining /\ r.pc # "partSave" /\ r.pc # "reset" /\ r.pc # "add"
    BY <2>1 DEF Joining
  <2>4. "joining" \notin raced => Active \in DOMAIN parts /\ parts[Active].live
    BY <2>2, ActiveFact DEF PartsInv, JoinInv, LiveParts
  <2>5. v \in Nat
    BY CountsAreNatural
  <2> QED BY <2>1, <2>2, <2>3, <2>4, <2>5, ArrivePreserves
<1>2. ASSUME ReadCount(s) PROVE PartsInv'
  <2> DEFINE i == sess[s].at
             p == parts[i]
             new == [p EXCEPT !.torn = p.torn \/ Active # i]
             r == [sess[s] EXCEPT !.pc = "add", !.seen = ActiveCount]
  <2> SUFFICES ASSUME "joining" \notin raced'
               PROVE  parts' \in Seq(Part) /\ JoinInv' /\ SubmitInv' /\ CountInv'
    BY DEF PartsInv
  <2>1. /\ DOMAIN r = Fields /\ r.pc = "add" /\ r.seen = ActiveCount
        /\ r.at = i /\ r.value = sess[s].value
    BY DEF IInv, SessShape, Fields
  <2>2. /\ sess[s].pc = "count" /\ sess' = [sess EXCEPT ![s] = r] /\ raced' = raced
        /\ parts' = [parts EXCEPT ![i] = new]
    BY <1>2 DEF ReadCount, Goto
  <2>3. "joining" \notin raced /\ parts \in Seq(Part) /\ JoinInv /\ SubmitInv /\ CountInv
    BY <2>2 DEF PartsInv
  <2>4. i \in DOMAIN parts /\ sess[s].value \in Nat /\ p \in Part
    BY <2>2, <2>3 DEF SubmitInv, Submitting
  <2>5. /\ new \in Part /\ new.live = p.live /\ new.count = p.count /\ new.claimed = p.claimed
        /\ new.torn <=> (p.torn \/ Active # i)
    BY <2>4 DEF Part
  <2>6. p.count \in Nat
    BY <2>4 DEF Part
  <2> HIDE DEF new, r
  <2>7. /\ parts' \in Seq(Part) /\ DOMAIN parts' = DOMAIN parts
        /\ \A j \in DOMAIN parts : parts'[j] = IF j = i THEN new ELSE parts[j]
    BY <2>2, <2>3, <2>4, <2>5
  <2>8. /\ LiveParts' = LiveParts
        /\ \A j \in DOMAIN parts :
             /\ parts'[j].live = parts[j].live
             /\ parts'[j].count = parts[j].count /\ parts'[j].claimed = parts[j].claimed
             /\ parts[j].torn => parts'[j].torn
    BY <2>5, <2>7 DEF LiveParts
  <2>9. \A t \in Sessions : sess'[t] = IF t = s THEN r ELSE sess[t]
    BY <2>2 DEF IInv, SessShape
  <2>10. JoinInv'
    BY <2>1, <2>3, <2>7, <2>8, <2>9 DEF JoinInv, Joining
  <2>11. CountInv'
    BY <2>2, <2>3, <2>7, <2>8 DEF CountInv, Reaches
  <2>12. ActiveCount \in Nat /\ Reaches(new, ActiveCount, raced)
    <3>1. /\ Active = 0 => LiveParts = {}
          /\ Active # 0 => LiveParts = {Active} /\ Active \in DOMAIN parts
          /\ ActiveCount \in Nat
          /\ \A j \in LiveParts : ActiveCount = parts[j].count
      BY <2>3, ActiveFact DEF JoinInv
    <3>2. CASE p.live
      BY <2>4, <2>5, <2>6, <3>1, <3>2 DEF LiveParts, Reaches
    <3>3. CASE ~p.live
      <4>1. Active # i
        BY <2>3, <2>4, <3>1, <3>3 DEF LiveParts
      <4>2. "submitting" \notin raced => ActiveCount = 0
        <5>1. "submitting" \notin raced => \A j \in LiveParts : parts[j].count = 0
          BY <2>2, <2>3, <3>3 DEF SubmitInv
        <5>2. Active = 0 => ActiveCount = 0
          BY DEF ActiveCount
        <5> QED BY <3>1, <5>1, <5>2
      <4> QED BY <2>5, <2>6, <3>1, <4>1, <4>2 DEF Reaches
    <3> QED BY <3>2, <3>3
  <2>13. ASSUME NEW t \in Sessions
         PROVE  LET h == sess'[t] IN
                /\ h.pc \in Submitting => h.at \in DOMAIN parts' /\ h.value \in Nat
                /\ h.pc = "add" => h.seen \in Nat /\ Reaches(parts'[h.at], h.seen, raced')
                /\ h.pc = "count" /\ "submitting" \notin raced' /\ ~parts'[h.at].live =>
                     \A j \in LiveParts' : parts'[j].count = 0
    <3>1. CASE t = s
      <4>1. sess'[t] = r /\ parts'[r.at] = new
        BY <2>1, <2>4, <2>7, <2>9, <3>1
      <4> QED BY <2>1, <2>2, <2>4, <2>7, <2>12, <4>1
    <3>2. CASE t # s
      <4>1. sess'[t] = sess[t]
        BY <2>9, <3>2
      <4>2. /\ sess[t].pc \in Submitting => sess[t].at \in DOMAIN parts /\ sess[t].value \in Nat
            /\ sess[t].pc = "add" => sess[t].seen \in Nat /\ Reaches(parts[sess[t].at], sess[t].seen, raced)
            /\ sess[t].pc = "count" /\ "submitting" \notin raced /\ ~parts[sess[t].at].live =>
                 \A j \in LiveParts : parts[j].count = 0
        BY <2>3 DEF SubmitInv
      <4>3. sess[t].pc = "add" => Reaches(parts'[sess[t].at], sess[t].seen, raced')
        BY <2>2, <2>8, <4>1, <4>2 DEF Reaches, Submitting
      <4>4. \A j \in LiveParts : j \in DOMAIN parts
        BY DEF LiveParts
      <4> QED BY <2>2, <2>7, <2>8, <4>1, <4>2, <4>3, <4>4 DEF Submitting
    <3> QED BY <3>1, <3>2
  <2>14. SubmitInv'
    <3>1. \A t \in Sessions : sess'[t].pc \in Submitting => sess[t].pc \in Submitting
      BY <2>2, <2>9 DEF Submitting
    <3> QED BY <2>2, <2>3, <2>13, <3>1 DEF SubmitInv
  <2> QED BY <2>7, <2>10, <2>11, <2>14
<1>3. ASSUME add_group_history_row(s) PROVE PartsInv'
  <2> DEFINE h == sess[s]
             i == h.at
             old == parts[i]
             more == Above(h.value, h.seen)
             new == [old EXCEPT !.count = old.count + more,
                                !.claimed = Max({old.claimed, h.value})]
  <2> SUFFICES ASSUME "joining" \notin raced'
               PROVE  parts' \in Seq(Part) /\ JoinInv' /\ SubmitInv' /\ CountInv'
    BY DEF PartsInv
  <2>1. /\ h.pc = "add" /\ parts' = [parts EXCEPT ![i] = new]
        /\ sess' = [sess EXCEPT ![s] = Idle] /\ raced' = raced
    BY <1>3 DEF add_group_history_row, Finish, Goto
  <2>2. "joining" \notin raced /\ parts \in Seq(Part) /\ JoinInv /\ SubmitInv /\ CountInv
    BY <2>1 DEF PartsInv
  <2>3. /\ i \in DOMAIN parts /\ h.value \in Nat /\ h.seen \in Nat
        /\ Reaches(old, h.seen, raced)
    BY <2>1, <2>2 DEF SubmitInv, Submitting
  <2>4. old \in Part
    BY <2>2, <2>3
  <2>5. old.count \in Nat /\ old.claimed \in Nat /\ old.live \in BOOLEAN
    BY <2>4 DEF Part
  <2>6. Max({old.claimed, h.value}) = IF old.claimed >= h.value THEN old.claimed ELSE h.value
    <3> DEFINE m == IF old.claimed >= h.value THEN old.claimed ELSE h.value
    <3>1. \A x \in {old.claimed, h.value} :
            (\A y \in {old.claimed, h.value} : x >= y) <=> x = m
      BY <2>3, <2>5
    <3>2. m \in {old.claimed, h.value}
      OBVIOUS
    <3> HIDE DEF m
    <3>3. Max({old.claimed, h.value}) = m
      BY <3>1, <3>2 DEF Max
    <3> QED BY <3>3 DEF m
  <2>7. more = IF h.value > h.seen THEN h.value - h.seen ELSE 0
    BY DEF Above
  <2>8. /\ new \in Part /\ new.live = old.live /\ new.torn = old.torn
        /\ new.count = old.count + more
        /\ new.claimed = IF old.claimed >= h.value THEN old.claimed ELSE h.value
    <3> DEFINE count == old.count + more
               claimed == IF old.claimed >= h.value THEN old.claimed ELSE h.value
    <3>1. count \in Nat /\ claimed \in Nat
      BY <2>3, <2>5, <2>7
    <3>2. new = [old EXCEPT !.count = count, !.claimed = claimed]
      BY <2>6
    <3> HIDE DEF count, claimed, new
    <3>3. /\ new \in Part /\ new.live = old.live /\ new.torn = old.torn
          /\ new.count = count /\ new.claimed = claimed
      BY <2>4, <3>1, <3>2 DEF Part
    <3> QED BY <3>3 DEF count, claimed
  <2>9. old.count <= new.count /\ Reaches(new, new.claimed, raced)
    <3>1. Reaches(old, old.claimed, raced)
      BY <2>2, <2>3 DEF CountInv
    <3>2. more \in Nat /\ (h.value <= h.seen => more = 0) /\ h.value <= h.seen + more
          /\ (h.value > h.seen => h.value = h.seen + more)
      BY <2>3, <2>7
    <3> HIDE DEF new, more, old, h
    <3>3. old.count <= new.count /\ new.count \in Nat /\ new.claimed \in Nat
      BY <2>3, <2>5, <2>8, <3>2
    <3>4. ASSUME "submitting" \notin raced \/ ~old.torn PROVE new.claimed <= new.count
      BY <2>3, <2>5, <2>8, <3>1, <3>2, <3>4 DEF Reaches
    <3>5. ASSUME "submitting" \notin raced, ~old.torn PROVE new.claimed = new.count
      BY <2>3, <2>5, <2>8, <3>1, <3>2, <3>5 DEF Reaches
    <3> QED BY <2>8, <3>3, <3>4, <3>5 DEF Reaches
  <2>10. /\ parts' \in Seq(Part) /\ DOMAIN parts' = DOMAIN parts
         /\ \A j \in DOMAIN parts : parts'[j] = IF j = i THEN new ELSE parts[j]
    <3> HIDE DEF new
    <3> QED BY <2>1, <2>2, <2>3, <2>8
  <2> HIDE DEF new, more
  <2>11. \A t \in Sessions : sess'[t] = IF t = s THEN Idle ELSE sess[t]
    BY <2>1 DEF IInv, SessShape
  <2>12. LiveParts' = LiveParts
    BY <2>8, <2>10 DEF LiveParts
  <2>13. JoinInv'
    BY <2>2, <2>10, <2>11, <2>12, IdleAside DEF JoinInv, Joining
  <2>14. CountInv'
    BY <2>1, <2>2, <2>9, <2>10 DEF CountInv
  <2>15. SubmitInv'
    <3>1. \A t \in Sessions : sess'[t].pc \in Submitting => t # s /\ sess'[t] = sess[t]
      BY <2>11, IdleAside
    <3>2. ASSUME NEW t \in Sessions
          PROVE  LET k == sess'[t] IN
                 /\ k.pc \in Submitting => k.at \in DOMAIN parts' /\ k.value \in Nat
                 /\ k.pc = "add" => k.seen \in Nat /\ Reaches(parts'[k.at], k.seen, raced')
                 /\ k.pc = "count" /\ "submitting" \notin raced' /\ ~parts'[k.at].live =>
                      \A j \in LiveParts' : parts'[j].count = 0
      <4>1. CASE sess'[t].pc \notin Submitting
        BY <4>1 DEF Submitting
      <4>2. CASE sess'[t].pc \in Submitting
        <5>1. t # s /\ sess'[t] = sess[t]
          BY <3>1, <4>2
        <5>2. sess[t].at \in DOMAIN parts /\ sess[t].value \in Nat
          BY <2>2, <4>2, <5>1 DEF SubmitInv
        <5>3. "submitting" \in raced
          BY <2>1, <2>2, <4>2, <5>1 DEF SubmitInv, Submitting
        <5>4. sess[t].pc = "add" =>
                sess[t].seen \in Nat /\ Reaches(parts[sess[t].at], sess[t].seen, raced)
          BY <2>2 DEF SubmitInv
        <5>5. CASE sess[t].at = i
          <6>1. new.count \in Nat
            BY <2>8 DEF Part
          <6> QED BY <2>1, <2>5, <2>8, <2>9, <2>10, <5>1, <5>2, <5>3, <5>4, <5>5, <6>1 DEF Reaches
        <5>6. CASE sess[t].at # i
          BY <2>1, <2>10, <5>1, <5>2, <5>3, <5>4, <5>6
        <5> QED BY <5>5, <5>6
      <4> QED BY <4>1, <4>2
    <3>3. "submitting" \notin raced' =>
            \A t, u \in Sessions : sess'[t].pc \in Submitting /\ sess'[u].pc \in Submitting => t = u
      BY <2>1, <2>2, <3>1 DEF SubmitInv
    <3> QED BY <3>2, <3>3 DEF SubmitInv
  <2> QED BY <2>10, <2>13, <2>14, <2>15
<1> QED BY <1>1, <1>2, <1>3 DEF Submit

LEMMA OwnKeepsParts ==
  ASSUME IInv, PartsInv, NEW s \in Sessions, Own(s) \/ Stats(s) \/ Crash(s) PROVE PartsInv'
<1>1. ASSUME CreateAccumulator(s) PROVE PartsInv'
  <2> DEFINE r == [Idle EXCEPT !.pc = "create"]
  <2>1. DOMAIN r = Fields /\ r.pc = "create"
    BY IdleFact DEF Fields
  <2>2. sess' = [sess EXCEPT ![s] = r] /\ parts' = parts /\ raced \subseteq raced'
    BY <1>1 DEF CreateAccumulator, Arrive, Begin, group
  <2> HIDE DEF r
  <2> QED BY <2>1, <2>2, AsidePreserves DEF Joining, Submitting
<1>2. ASSUME NEW i \in DOMAIN accs, NEW v \in 0..MaxCount, UpdateAccumulator(s, i, v)
      PROVE  PartsInv'
  <2> DEFINE pc == IF v > accs[i].current THEN "invalidate" ELSE "update"
             r == [Idle EXCEPT !.pc = pc, !.at = i, !.value = v, !.seen = accs[i].current]
  <2>1. DOMAIN r = Fields /\ r.pc = pc
    BY DEF Idle, Fields
  <2>2. sess' = [sess EXCEPT ![s] = r] /\ parts' = parts /\ raced \subseteq raced'
    BY <1>2 DEF UpdateAccumulator, Begin, group
  <2> HIDE DEF r
  <2> QED BY <2>1, <2>2, AsidePreserves DEF Joining, Submitting
<1>3. ASSUME invalidate_user_stats_cache(s) PROVE PartsInv'
  <2> DEFINE r == [sess[s] EXCEPT !.pc = "update"]
  <2>1. DOMAIN r = Fields /\ r.pc = "update"
    BY DEF IInv, SessShape, Fields
  <2>2. sess' = [sess EXCEPT ![s] = r] /\ parts' = parts /\ raced' = raced
    BY <1>3 DEF invalidate_user_stats_cache, Goto, group
  <2> HIDE DEF r
  <2> QED BY <2>1, <2>2, AsidePreserves DEF Joining, Submitting
<1>4. ASSUME GetUserStats(s) PROVE PartsInv'
  <2> DEFINE r == [Idle EXCEPT !.pc = "stats"]
  <2>1. DOMAIN r = Fields /\ r.pc = "stats"
    BY IdleFact DEF Fields
  <2>2. sess' = [sess EXCEPT ![s] = r] /\ parts' = parts /\ raced \subseteq raced'
    BY <1>4 DEF GetUserStats, Goto, group
  <2> HIDE DEF r
  <2> QED BY <2>1, <2>2, AsidePreserves DEF Joining, Submitting
<1>5. ASSUME get_user_activity_totals(s) PROVE PartsInv'
  <2> DEFINE r == [sess[s] EXCEPT !.pc = "statsSave", !.seen = total_accumulated]
  <2>1. DOMAIN r = Fields /\ r.pc = "statsSave"
    BY DEF IInv, SessShape, Fields
  <2>2. sess' = [sess EXCEPT ![s] = r] /\ parts' = parts /\ raced' = raced
    BY <1>5 DEF get_user_activity_totals, Goto, group
  <2> HIDE DEF r
  <2> QED BY <2>1, <2>2, AsidePreserves DEF Joining, Submitting
<1>6. ASSUME \/ _create_accumulator_from_preset(s) \/ update_accumulator(s)
             \/ set_user_stats_cache(s) \/ Crash(s)
      PROVE  PartsInv'
  <2>1. Finish(s) /\ parts' = parts
    BY <1>6 DEF _create_accumulator_from_preset, update_accumulator, set_user_stats_cache,
                Crash, group
  <2> QED BY <2>1, FinishAside
<1> QED BY <1>1, <1>2, <1>3, <1>4, <1>5, <1>6 DEF Own, Stats

LEMMA RestKeepsParts ==
  ASSUME PartsInv,
         \/ leave_group \/ Authors \/ Expire \/ UNCHANGED vars
         \/ \E i \in DOMAIN accs : delete_accumulator(i)
  PROVE  PartsInv'
<1>1. parts' = parts /\ sess' = sess /\ raced' = raced
  BY DEF leave_group, Authors, delete_group_accumulator, set_visibility, delete_preset,
         Expire, delete_accumulator, vars, group
<1> QED BY <1>1 DEF PartsInv, JoinInv, SubmitInv, CountInv, LiveParts

\* Every reachable state satisfies the invariant of the participations.
THEOREM PartsInvariance == Spec => []PartsInv
<1>1. Init => PartsInv
  <2> SUFFICES ASSUME Init PROVE PartsInv
    OBVIOUS
  <2>1. parts = <<>> /\ parts \in Seq(Part) /\ LiveParts = {}
    BY DEF Init, LiveParts
  <2>2. \A s \in Sessions : sess[s].pc = "idle"
    BY IdleFact DEF Init
  <2> QED BY <2>1, <2>2, IdleAside, IdleFact
          DEF PartsInv, JoinInv, SubmitInv, CountInv, Joining, Submitting
<1>2. IInv /\ PartsInv /\ [Next]_vars => PartsInv'
  BY JoinKeepsParts, StartOverKeepsParts, SubmitKeepsParts, OwnKeepsParts, RestKeepsParts
  DEF Next
<1> QED BY <1>1, <1>2, Invariance, PTL DEF Spec

\* What a device was told is counted is counted in the participation it was told
\* of, and nothing more is, for any number of devices, unless two handlers created
\* participations at once. More is counted only when submissions overlapped or when
\* one found its participation reset between its two look-ups; less only when both.
THEOREM SubmissionsCount == Spec => []SubmittedIsCounted
<1>1. PartsInv => SubmittedIsCounted
  <2> SUFFICES ASSUME PartsInv, "joining" \notin raced, NEW i \in DOMAIN parts
               PROVE  LET p == parts[i] IN
                      /\ p.count >= p.claimed \/ ("submitting" \in raced /\ p.torn)
                      /\ p.count = p.claimed \/ "submitting" \in raced \/ p.torn
    BY DEF SubmittedIsCounted
  <2>1. parts \in Seq(Part) /\ Reaches(parts[i], parts[i].claimed, raced)
    BY DEF PartsInv, CountInv
  <2>2. parts[i].count \in Nat /\ parts[i].claimed \in Nat
    <3>1. parts[i] \in Part
      BY <2>1
    <3> QED BY <3>1 DEF Part
  <2> QED BY <2>1, <2>2 DEF Reaches
<1> QED BY <1>1, PartsInvariance, PTL

-----------------------------------------------------------------------------
(* StatsAreFresh.  An update awaits the invalidation before it commits, so the *)
(* cached total must be known to be gone by then, or to be marked; and what a  *)
(* computation has read must be known to stay the total until it is cached,    *)
(* unless an update overtakes it.                                              *)

FreshInv ==
  /\ total_accumulated \in Nat
  /\ \A s \in Sessions :
       /\ sess[s].pc = "statsSave" /\ s \notin overtaken => sess[s].seen = total_accumulated
       /\ Adds(sess[s]) => cache = None \/ tainted
  /\ StatsAreFresh

\* A handler moves, the total stays, and a cached value passes for no fresher.
LEMMA MoveKeepsFresh ==
  ASSUME IInv, FreshInv, NEW s \in Sessions, NEW r,
         DOMAIN r = Fields, sess' = [sess EXCEPT ![s] = r],
         total_accumulated' = total_accumulated, overtaken \ {s} \subseteq overtaken',
         cache' = None \/ (cache' = cache /\ (tainted => tainted')),
         r.pc = "statsSave" => r.seen = total_accumulated,
         Adds(r) => cache' = None \/ tainted'
  PROVE  FreshInv'
<1>1. \A t \in Sessions : sess'[t] = IF t = s THEN r ELSE sess[t]
  BY SessionStep
<1>2. StatsAreFresh'
  BY DEF FreshInv, StatsAreFresh
<1>3. ASSUME NEW t \in Sessions
      PROVE  /\ sess'[t].pc = "statsSave" /\ t \notin overtaken' =>
                  sess'[t].seen = total_accumulated'
             /\ Adds(sess'[t]) => cache' = None \/ tainted'
  <2>1. CASE t = s
    BY <1>1, <2>1
  <2>2. CASE t # s
    BY <1>1, <2>2 DEF FreshInv
  <2> QED BY <2>1, <2>2
<1> QED BY <1>2, <1>3 DEF FreshInv, Adds

\* A handler that neither computes nor updates moves.
LEMMA ElsewhereKeepsFresh ==
  ASSUME IInv, FreshInv, NEW s \in Sessions, NEW r,
         DOMAIN r = Fields, sess' = [sess EXCEPT ![s] = r],
         total_accumulated' = total_accumulated, cache' = cache, tainted' = tainted,
         overtaken \ {s} \subseteq overtaken', r.pc \notin {"statsSave", "update"}
  PROVE  FreshInv'
<1>1. tainted => tainted'
  OBVIOUS
<1>2. r.pc # "statsSave" /\ ~Adds(r)
  BY DEF Adds
<1> QED BY <1>1, <1>2, MoveKeepsFresh

\* Joining, resetting and submitting have nothing to do with it.
LEMMA GroupKeepsFresh ==
  ASSUME IInv, FreshInv, NEW s \in Sessions, Join(s) \/ StartOver(s) \/ Submit(s)
  PROVE  FreshInv'
<1>1. /\ total_accumulated' = total_accumulated /\ cache' = cache
      /\ tainted' = tainted /\ overtaken' = overtaken
      /\ \E r : DOMAIN r = Fields /\ sess' = [sess EXCEPT ![s] = r]
                  /\ r.pc \in {"idle"} \cup Joining \cup Submitting
  <2> DEFINE Moved(r) == DOMAIN r = Fields /\ sess' = [sess EXCEPT ![s] = r]
                           /\ r.pc \in {"idle"} \cup Joining \cup Submitting
             Stays == /\ total_accumulated' = total_accumulated /\ cache' = cache
                      /\ tainted' = tainted /\ overtaken' = overtaken
  <2>1. ASSUME JoinGroupAccumulator(s) PROVE Stays /\ \E r : Moved(r)
    <3>1. Moved([Idle EXCEPT !.pc = "joinGroup", !.missing = ~member])
      BY <2>1 DEF JoinGroupAccumulator, Arrive, Begin, Idle, Fields, Joining
    <3> QED BY <2>1, <3>1 DEF JoinGroupAccumulator, Arrive, Begin, own
  <2>2. ASSUME Finish(s), UNCHANGED own PROVE Stays /\ \E r : Moved(r)
    BY <2>2, IdleFact DEF Finish, Goto, own
  <2>3. ASSUME NEW pc \in Joining, Goto(s, [Idle EXCEPT !.pc = pc]), UNCHANGED own
        PROVE  Stays /\ \E r : Moved(r)
    <3>1. Moved([Idle EXCEPT !.pc = pc])
      BY <2>3 DEF Goto, Idle, Fields
    <3> QED BY <2>3, <3>1 DEF Goto, own
  <2>4. ASSUME \/ upsert_group_join(s) \/ JoinSeen(s) \/ upsert_group_accumulator_join(s)
               \/ GetOrCreate(s) \/ create_user_group_accumulator(s)
               \/ soft_delete_user_group_accumulator(s) \/ add_group_history_row(s)
        PROVE  Stays /\ \E r : Moved(r)
    <3>1. /\ UNCHANGED own
          /\ Finish(s) \/ \E pc \in Joining : Goto(s, [Idle EXCEPT !.pc = pc])
      BY <2>4 DEF upsert_group_join, JoinSeen, upsert_group_accumulator_join, GetOrCreate,
                  create_user_group_accumulator, soft_delete_user_group_accumulator,
                  add_group_history_row, Joining
    <3> HIDE DEF Stays, Moved
    <3> QED BY <2>2, <2>3, <3>1
  <2>5. ASSUME Reset(s) PROVE Stays /\ \E r : Moved(r)
    <3>1. Moved([Idle EXCEPT !.pc = "reset", !.at = Active])
      BY <2>5 DEF Reset, Arrive, Begin, Idle, Fields, Joining
    <3> QED BY <2>5, <3>1 DEF Reset, Arrive, Begin, own
  <2>6. ASSUME NEW v \in 1..MaxCount, SubmitGroupCount(s, v) PROVE Stays /\ \E r : Moved(r)
    <3>1. Moved([Idle EXCEPT !.pc = "count", !.at = Active, !.value = v])
      BY <2>6 DEF SubmitGroupCount, Arrive, Begin, Idle, Fields, Submitting
    <3> QED BY <2>6, <3>1 DEF SubmitGroupCount, Arrive, Begin, own
  <2>7. ASSUME ReadCount(s) PROVE Stays /\ \E r : Moved(r)
    <3>1. Moved([sess[s] EXCEPT !.pc = "add", !.seen = ActiveCount])
      BY <2>7 DEF ReadCount, Goto, IInv, SessShape, Fields, Submitting
    <3> QED BY <2>7, <3>1 DEF ReadCount, Goto, own
  <2> HIDE DEF Stays, Moved
  <2>8. Stays /\ \E r : Moved(r)
    BY <2>1, <2>4, <2>5, <2>6, <2>7 DEF Join, StartOver, Submit
  <2> QED BY <2>8 DEF Stays, Moved
<1>2. \A pc \in {"idle"} \cup Joining \cup Submitting : pc \notin {"statsSave", "update"}
  BY DEF Joining, Submitting
<1> QED BY <1>1, <1>2, ElsewhereKeepsFresh

LEMMA OwnKeepsFresh == ASSUME IInv, FreshInv, NEW s \in Sessions, Own(s) PROVE FreshInv'
<1>1. ASSUME CreateAccumulator(s) PROVE FreshInv'
  <2> DEFINE r == [Idle EXCEPT !.pc = "create"]
  <2>1. DOMAIN r = Fields /\ r.pc = "create"
    BY IdleFact DEF Fields
  <2>2. /\ sess' = [sess EXCEPT ![s] = r] /\ tainted' = tainted /\ overtaken' = overtaken
        /\ total_accumulated' = total_accumulated /\ cache' = cache
    BY <1>1 DEF CreateAccumulator, Arrive, Begin, own
  <2> HIDE DEF r
  <2> QED BY <2>1, <2>2, ElsewhereKeepsFresh
<1>2. ASSUME _create_accumulator_from_preset(s) PROVE FreshInv'
  <2>1. /\ sess' = [sess EXCEPT ![s] = Idle] /\ tainted' = tainted /\ overtaken' = overtaken
        /\ total_accumulated' = total_accumulated /\ cache' = cache
    BY <1>2 DEF _create_accumulator_from_preset, Finish, Goto
  <2> QED BY <2>1, IdleFact, ElsewhereKeepsFresh
<1>3. ASSUME NEW i \in DOMAIN accs, NEW v \in 0..MaxCount, UpdateAccumulator(s, i, v)
      PROVE  FreshInv'
  <2> DEFINE pc == IF v > accs[i].current THEN "invalidate" ELSE "update"
             r == [Idle EXCEPT !.pc = pc, !.at = i, !.value = v, !.seen = accs[i].current]
  <2>1. DOMAIN r = Fields /\ r.pc = pc /\ r.value = v /\ r.seen = accs[i].current
    BY DEF Idle, Fields
  <2>2. /\ sess' = [sess EXCEPT ![s] = r] /\ tainted' = tainted /\ overtaken' = overtaken
        /\ total_accumulated' = total_accumulated /\ cache' = cache
    BY <1>3 DEF UpdateAccumulator, Begin, own
  <2> HIDE DEF r
  <2>3. r.pc # "statsSave" /\ ~Adds(r)
    BY <2>1 DEF Adds
  <2>4. tainted => tainted'
    BY <2>2
  <2> QED BY <2>1, <2>2, <2>3, <2>4, MoveKeepsFresh
<1>4. ASSUME invalidate_user_stats_cache(s) PROVE FreshInv'
  <2> DEFINE r == [sess[s] EXCEPT !.pc = "update"]
  <2>1. DOMAIN r = Fields /\ r.pc = "update"
    BY DEF IInv, SessShape, Fields
  <2>2. /\ sess' = [sess EXCEPT ![s] = r] /\ overtaken' = overtaken
        /\ total_accumulated' = total_accumulated
    BY <1>4 DEF invalidate_user_stats_cache, Goto
  <2> HIDE DEF r
  <2>3. CASE cache' = None
    BY <2>1, <2>2, <2>3, MoveKeepsFresh
  <2>4. CASE cache' # None
    <3>1. cache' = cache /\ cache # None /\ tainted' = (cache # None)
      BY <1>4, <2>4 DEF invalidate_user_stats_cache
    <3>2. tainted'
      BY <3>1
    <3> QED BY <2>1, <2>2, <3>1, <3>2, MoveKeepsFresh
  <2> QED BY <2>3, <2>4
<1>5. ASSUME update_accumulator(s) PROVE FreshInv'
  <2> DEFINE h == sess[s]
             more == Above(h.value, h.seen)
  <2>1. /\ h.pc = "update" /\ sess' = [sess EXCEPT ![s] = Idle]
        /\ overtaken' = IF Adds(h) THEN Readers ELSE overtaken
        /\ total_accumulated' = total_accumulated + more
        /\ cache' = cache /\ tainted' = tainted
    BY <1>5 DEF update_accumulator, Finish, Goto
  <2>2. h.value \in Nat /\ h.seen \in Nat
    BY <2>1 DEF IInv, SeenIsCovered, Updating
  <2>3. more \in Nat /\ (~Adds(h) => more = 0)
    BY <2>1, <2>2 DEF Above, Adds
  <2> HIDE DEF more
  <2>4. CASE ~Adds(h)
    <3>1. total_accumulated' = total_accumulated /\ overtaken' = overtaken
      BY <2>1, <2>3, <2>4 DEF FreshInv
    <3> QED BY <2>1, <3>1, IdleFact, ElsewhereKeepsFresh
  <2>5. CASE Adds(h)
    <3>1. \A t \in Sessions : sess'[t] = IF t = s THEN Idle ELSE sess[t]
      BY <2>1, IdleFact, SessionStep
    <3>2. overtaken' = Readers
      BY <2>1, <2>5
    <3>3. cache' = None \/ tainted'
      BY <2>1, <2>5 DEF FreshInv
    <3>4. StatsAreFresh'
      BY <3>3 DEF StatsAreFresh
    <3>5. \A t \in Sessions : sess'[t].pc = "statsSave" => t \in overtaken'
      BY <3>1, <3>2, IdleFact DEF Readers
    <3>6. total_accumulated' \in Nat
      BY <2>1, <2>3 DEF FreshInv
    <3> QED BY <3>3, <3>4, <3>5, <3>6 DEF FreshInv
  <2> QED BY <2>4, <2>5
<1> QED BY <1>1, <1>2, <1>3, <1>4, <1>5 DEF Own

LEMMA StatsKeepFresh ==
  ASSUME IInv, FreshInv, NEW s \in Sessions, Stats(s) \/ Crash(s) PROVE FreshInv'
<1>1. ASSUME GetUserStats(s) PROVE FreshInv'
  <2> DEFINE r == [Idle EXCEPT !.pc = "stats"]
  <2>1. DOMAIN r = Fields /\ r.pc = "stats"
    BY IdleFact DEF Fields
  <2>2. /\ sess' = [sess EXCEPT ![s] = r] /\ tainted' = tainted /\ overtaken' = overtaken
        /\ total_accumulated' = total_accumulated /\ cache' = cache
    BY <1>1 DEF GetUserStats, Goto, own
  <2> HIDE DEF r
  <2> QED BY <2>1, <2>2, ElsewhereKeepsFresh
<1>2. ASSUME get_user_activity_totals(s) PROVE FreshInv'
  <2> DEFINE r == [sess[s] EXCEPT !.pc = "statsSave", !.seen = total_accumulated]
  <2>1. DOMAIN r = Fields /\ r.pc = "statsSave" /\ r.seen = total_accumulated
    BY DEF IInv, SessShape, Fields
  <2>2. /\ sess' = [sess EXCEPT ![s] = r] /\ tainted' = tainted /\ overtaken' = overtaken
        /\ total_accumulated' = total_accumulated /\ cache' = cache
    BY <1>2 DEF get_user_activity_totals, Goto, own
  <2> HIDE DEF r
  <2>3. ~Adds(r) /\ (tainted => tainted')
    BY <2>1, <2>2 DEF Adds
  <2> QED BY <2>1, <2>2, <2>3, MoveKeepsFresh
<1>3. ASSUME set_user_stats_cache(s) PROVE FreshInv'
  <2>1. /\ sess[s].pc = "statsSave" /\ sess' = [sess EXCEPT ![s] = Idle]
        /\ total_accumulated' = total_accumulated /\ cache' = sess[s].seen
        /\ overtaken' = overtaken \ {s}
    BY <1>3 DEF set_user_stats_cache, Finish, Goto
  <2>2. tainted' <=> (s \in overtaken \/ \E t \in Sessions : Adds(sess[t]))
    BY <1>3 DEF set_user_stats_cache
  <2>3. \A t \in Sessions : sess'[t] = IF t = s THEN Idle ELSE sess[t]
    BY <2>1, IdleFact, SessionStep
  <2>4. StatsAreFresh'
    BY <2>1, <2>2 DEF FreshInv, StatsAreFresh
  <2>5. ASSUME NEW t \in Sessions
        PROVE  /\ sess'[t].pc = "statsSave" /\ t \notin overtaken' =>
                    sess'[t].seen = total_accumulated'
               /\ Adds(sess'[t]) => cache' = None \/ tainted'
    <3>1. CASE t = s
      BY <2>3, <3>1, IdleFact DEF Adds
    <3>2. CASE t # s
      <4>1. sess'[t] = sess[t]
        BY <2>3, <3>2
      <4>2. Adds(sess'[t]) => tainted'
        BY <2>2, <4>1
      <4> QED BY <2>1, <3>2, <4>1, <4>2 DEF FreshInv
    <3> QED BY <3>1, <3>2
  <2> QED BY <2>1, <2>4, <2>5 DEF FreshInv, Adds
<1>4. ASSUME Crash(s) PROVE FreshInv'
  <2>1. /\ sess' = [sess EXCEPT ![s] = Idle] /\ tainted' = tainted
        /\ overtaken' = overtaken \ {s}
        /\ total_accumulated' = total_accumulated /\ cache' = cache
    BY <1>4 DEF Crash, Finish, Goto
  <2> QED BY <2>1, IdleFact, ElsewhereKeepsFresh
<1> QED BY <1>1, <1>2, <1>3, <1>4 DEF Stats

LEMMA RestKeepsFresh ==
  ASSUME FreshInv,
         \/ leave_group \/ Authors \/ Expire \/ UNCHANGED vars
         \/ \E i \in DOMAIN accs : delete_accumulator(i)
  PROVE  FreshInv'
<1>1. /\ sess' = sess /\ overtaken' = overtaken /\ total_accumulated' = total_accumulated
      /\ cache' = None \/ (cache' = cache /\ tainted' = tainted)
  BY DEF leave_group, Authors, delete_group_accumulator, set_visibility, delete_preset,
         Expire, delete_accumulator, vars, own
<1>2. CASE cache' = None
  BY <1>1, <1>2 DEF FreshInv, StatsAreFresh, Adds
<1>3. CASE cache' = cache /\ tainted' = tainted
  BY <1>1, <1>3 DEF FreshInv, StatsAreFresh, Adds
<1> QED BY <1>1, <1>2, <1>3

\* The statistics a user is shown from the cache are those of the history, for
\* any number of devices, unless the cache failed when it was to be invalidated or
\* the total was read before an update committed and cached after that update
\* invalidated: an update invalidates before it commits.
THEOREM CachedTotalIsFresh == Spec => []StatsAreFresh
<1>1. Init => FreshInv
  BY IdleFact DEF Init, FreshInv, StatsAreFresh, Adds
<1>2. IInv /\ FreshInv /\ [Next]_vars => FreshInv'
  BY GroupKeepsFresh, OwnKeepsFresh, StatsKeepFresh, RestKeepsFresh DEF Next
<1>3. FreshInv => StatsAreFresh
  BY DEF FreshInv
<1> QED BY <1>1, <1>2, <1>3, Invariance, PTL DEF Spec

-----------------------------------------------------------------------------
(* What the code promises and does not keep when two calls overlap, it keeps   *)
(* while they do not: OneActiveAccumulator and ResetAlwaysToZero.              *)

\* Creations do not overlap, and one under way has found no active accumulator.
CreateInv ==
  "creating" \notin raced =>
    /\ \A i, j \in LiveAccs : i = j
    /\ \A s, t \in Sessions : sess[s].pc = "create" /\ sess[t].pc = "create" => s = t
    /\ \A s \in Sessions : sess[s].pc = "create" => LiveAccs = {}

\* A handler that does not begin a creation moves, and no accumulator comes to life.
LEMMA MoveKeepsCreate ==
  ASSUME IInv, CreateInv, NEW s \in Sessions, NEW r,
         DOMAIN r = Fields, sess' = [sess EXCEPT ![s] = r], r.pc # "create",
         LiveAccs' \subseteq LiveAccs, raced \subseteq raced'
  PROVE  CreateInv'
<1>1. \A t \in Sessions : sess'[t] = IF t = s THEN r ELSE sess[t]
  BY SessionStep
<1> QED BY <1>1 DEF CreateInv

\* Every step of a handler other than creating leaves the accumulators' lives alone.
LEMMA HandlerKeepsCreate ==
  ASSUME IInv, CreateInv, NEW s \in Sessions,
         Join(s) \/ StartOver(s) \/ Submit(s) \/ Own(s) \/ Stats(s) \/ Crash(s)
  PROVE  CreateInv'
<1> DEFINE Moved(r) == DOMAIN r = Fields /\ sess' = [sess EXCEPT ![s] = r] /\ r.pc # "create"
           Stays == accs' = accs /\ raced \subseteq raced' /\ \E r : Moved(r)
<1>1. ASSUME Stays PROVE CreateInv'
  BY <1>1, MoveKeepsCreate DEF LiveAccs
<1>2. ASSUME Finish(s), accs' = accs PROVE Stays
  BY <1>2, IdleFact DEF Finish, Goto
<1>3. ASSUME NEW pc \in Joining, Goto(s, [Idle EXCEPT !.pc = pc]), accs' = accs PROVE Stays
  <2>1. Moved([Idle EXCEPT !.pc = pc])
    BY <1>3 DEF Goto, Idle, Fields, Joining
  <2> QED BY <1>3, <2>1 DEF Goto
<1>4. ASSUME \/ upsert_group_join(s) \/ JoinSeen(s) \/ upsert_group_accumulator_join(s)
             \/ GetOrCreate(s) \/ create_user_group_accumulator(s)
             \/ soft_delete_user_group_accumulator(s) \/ add_group_history_row(s)
             \/ set_user_stats_cache(s) \/ Crash(s)
      PROVE  Stays
  <2>1. accs' = accs /\ (Finish(s) \/ \E pc \in Joining : Goto(s, [Idle EXCEPT !.pc = pc]))
    BY <1>4 DEF upsert_group_join, JoinSeen, upsert_group_accumulator_join, GetOrCreate,
                create_user_group_accumulator, soft_delete_user_group_accumulator,
                add_group_history_row, set_user_stats_cache, Crash, own, Joining
  <2> HIDE DEF Stays
  <2> QED BY <1>2, <1>3, <2>1
<1>5. ASSUME JoinGroupAccumulator(s) PROVE Stays
  <2>1. Moved([Idle EXCEPT !.pc = "joinGroup", !.missing = ~member])
    BY <1>5 DEF JoinGroupAccumulator, Arrive, Begin, Idle, Fields
  <2> QED BY <1>5, <2>1 DEF JoinGroupAccumulator, Arrive, Begin, own
<1>6. ASSUME Reset(s) PROVE Stays
  <2>1. Moved([Idle EXCEPT !.pc = "reset", !.at = Active])
    BY <1>6 DEF Reset, Arrive, Begin, Idle, Fields
  <2> QED BY <1>6, <2>1 DEF Reset, Arrive, Begin, own
<1>7. ASSUME NEW v \in 1..MaxCount, SubmitGroupCount(s, v) PROVE Stays
  <2>1. Moved([Idle EXCEPT !.pc = "count", !.at = Active, !.value = v])
    BY <1>7 DEF SubmitGroupCount, Arrive, Begin, Idle, Fields
  <2> QED BY <1>7, <2>1 DEF SubmitGroupCount, Arrive, Begin, own
<1>8. ASSUME ReadCount(s) PROVE Stays
  <2>1. Moved([sess[s] EXCEPT !.pc = "add", !.seen = ActiveCount])
    BY <1>8 DEF ReadCount, Goto, IInv, SessShape, Fields
  <2> QED BY <1>8, <2>1 DEF ReadCount, Goto, own
<1>9. ASSUME NEW i \in DOMAIN accs, NEW v \in 0..MaxCount, UpdateAccumulator(s, i, v)
      PROVE  Stays
  <2> DEFINE pc == IF v > accs[i].current THEN "invalidate" ELSE "update"
  <2>1. Moved([Idle EXCEPT !.pc = pc, !.at = i, !.value = v, !.seen = accs[i].current])
    BY <1>9 DEF UpdateAccumulator, Begin, Idle, Fields
  <2> QED BY <1>9, <2>1 DEF UpdateAccumulator, Begin, own
<1>10. ASSUME invalidate_user_stats_cache(s) PROVE Stays
  <2>1. Moved([sess[s] EXCEPT !.pc = "update"])
    BY <1>10 DEF invalidate_user_stats_cache, Goto, IInv, SessShape, Fields
  <2> QED BY <1>10, <2>1 DEF invalidate_user_stats_cache, Goto
<1>11. ASSUME GetUserStats(s) PROVE Stays
  <2>1. Moved([Idle EXCEPT !.pc = "stats"])
    BY <1>11 DEF GetUserStats, Goto, Idle, Fields
  <2> QED BY <1>11, <2>1 DEF GetUserStats, Goto, own
<1>12. ASSUME get_user_activity_totals(s) PROVE Stays
  <2>1. Moved([sess[s] EXCEPT !.pc = "statsSave", !.seen = total_accumulated])
    BY <1>12 DEF get_user_activity_totals, Goto, IInv, SessShape, Fields
  <2> QED BY <1>12, <2>1 DEF get_user_activity_totals, Goto, own
<1>13. ASSUME CreateAccumulator(s) PROVE CreateInv'
  <2> DEFINE r == [Idle EXCEPT !.pc = "create"]
  <2>1. DOMAIN r = Fields /\ r.pc = "create"
    BY IdleFact DEF Fields
  <2>2. /\ sess' = [sess EXCEPT ![s] = r] /\ LiveAccs = {} /\ LiveAccs' = {}
        /\ raced' = IF Busy({"create"}) THEN raced \cup {"creating"} ELSE raced
    BY <1>13 DEF CreateAccumulator, Arrive, Begin, own, LiveAccs
  <2> HIDE DEF r
  <2>3. \A t \in Sessions : sess'[t] = IF t = s THEN r ELSE sess[t]
    BY <2>1, <2>2, SessionStep
  <2>4. "creating" \notin raced' => \A t \in Sessions : sess[t].pc # "create"
    BY <2>2 DEF Busy
  <2> QED BY <2>2, <2>3, <2>4 DEF CreateInv
<1>14. ASSUME _create_accumulator_from_preset(s) PROVE CreateInv'
  <2> DEFINE new == [live |-> TRUE, current |-> 0, total |-> 0]
  <2> SUFFICES ASSUME "creating" \notin raced' PROVE CreateInv'
    BY DEF CreateInv
  <2>1. /\ sess[s].pc = "create" /\ accs' = Append(accs, new) /\ accs \in Seq(Acc)
        /\ sess' = [sess EXCEPT ![s] = Idle] /\ raced' = raced
    BY <1>14 DEF _create_accumulator_from_preset, Finish, Goto, IInv, AccsOK
  <2>2. LiveAccs = {} /\ \A t \in Sessions : sess[t].pc = "create" => t = s
    BY <2>1 DEF CreateInv
  <2> HIDE DEF new
  <2>3. /\ \A i \in DOMAIN accs : accs'[i] = accs[i]
        /\ \A i \in DOMAIN accs' : i \notin DOMAIN accs => i = Len(accs) + 1
    BY <2>1
  <2>4. \A i \in LiveAccs' : i = Len(accs) + 1
    BY <2>2, <2>3 DEF LiveAccs
  <2>5. \A t \in Sessions : sess'[t].pc # "create"
    <3>1. \A t \in Sessions : sess'[t] = IF t = s THEN Idle ELSE sess[t]
      BY <2>1, IdleFact, SessionStep
    <3> QED BY <2>2, <3>1, IdleFact
  <2> QED BY <2>4, <2>5 DEF CreateInv
<1>15. ASSUME update_accumulator(s) PROVE CreateInv'
  <2>1. /\ sess[s].pc = "update" /\ sess' = [sess EXCEPT ![s] = Idle] /\ raced' = raced
    BY <1>15 DEF update_accumulator, Finish, Goto
  <2>2. sess[s].at \in DOMAIN accs
    BY <2>1 DEF IInv, SeenIsCovered, Updating
  <2> DEFINE h == sess[s]
             a == accs[h.at]
             c == IF h.value = h.seen THEN a.current ELSE h.value
             n == a.total + Above(h.value, h.seen)
             new == [a EXCEPT !.current = c, !.total = n]
  <2>3. accs' = [accs EXCEPT ![h.at] = new]
    BY <1>15 DEF update_accumulator
  <2> HIDE DEF c, n
  <2>5. new.live = accs[sess[s].at].live
    <3>1. accs[sess[s].at] \in Acc
      BY <2>2 DEF IInv, AccsOK
    <3> QED BY <3>1 DEF Acc
  <2> HIDE DEF new
  <2>6. DOMAIN accs' = DOMAIN accs
        /\ \A i \in DOMAIN accs : accs'[i] = IF i = sess[s].at THEN new ELSE accs[i]
    BY <2>2, <2>3 DEF IInv, AccsOK
  <2>7. LiveAccs' = LiveAccs
    BY <2>5, <2>6 DEF LiveAccs
  <2> QED BY <2>1, <2>7, IdleFact, MoveKeepsCreate
<1> HIDE DEF Stays
<1>16. CASE Join(s) \/ StartOver(s) \/ Submit(s)
  BY <1>1, <1>4, <1>5, <1>6, <1>7, <1>8, <1>16 DEF Join, StartOver, Submit
<1>17. CASE Own(s)
  BY <1>1, <1>9, <1>10, <1>13, <1>14, <1>15, <1>17 DEF Own
<1>18. CASE Stats(s) \/ Crash(s)
  BY <1>1, <1>4, <1>11, <1>12, <1>18 DEF Stats
<1> QED BY <1>16, <1>17, <1>18

LEMMA DeleteKeepsCreate ==
  ASSUME IInv, CreateInv, NEW i \in DOMAIN accs, delete_accumulator(i) PROVE CreateInv'
<1> DEFINE new == [accs[i] EXCEPT !.live = FALSE]
<1>1. accs' = [accs EXCEPT ![i] = new] /\ sess' = sess /\ raced' = raced
  BY DEF delete_accumulator
<1>2. accs[i] \in Acc
  BY DEF IInv, AccsOK
<1>3. ~new.live
  BY <1>2 DEF Acc
<1> HIDE DEF new
<1>4. LiveAccs' \subseteq LiveAccs
  BY <1>1, <1>3 DEF LiveAccs, IInv, AccsOK
<1> QED BY <1>1, <1>4 DEF CreateInv

\* "A user has at most one active accumulator per preset" is true as long as no
\* two creations overlap: the look-up is all that keeps them apart.
THEOREM OneActiveUnlessCreatesRace ==
  Spec => []("creating" \notin raced => OneActiveAccumulator)
<1>1. Init => CreateInv
  BY IdleFact DEF Init, CreateInv, LiveAccs
<1>2. IInv /\ CreateInv /\ [Next]_vars => CreateInv'
  <2> SUFFICES ASSUME IInv, CreateInv, [Next]_vars PROVE CreateInv'
    OBVIOUS
  <2>1. CASE leave_group \/ Authors \/ Expire \/ UNCHANGED vars
    <3>1. accs' = accs /\ sess' = sess /\ raced' = raced
      BY <2>1 DEF leave_group, Authors, delete_group_accumulator, set_visibility,
                  delete_preset, Expire, vars, own
    <3> QED BY <3>1 DEF CreateInv, LiveAccs
  <2> QED BY <2>1, HandlerKeepsCreate, DeleteKeepsCreate DEF Next
<1>3. CreateInv => ("creating" \notin raced => OneActiveAccumulator)
  <2> SUFFICES ASSUME \A i, j \in LiveAccs : i = j PROVE Cardinality(LiveAccs) <= 1
    BY DEF CreateInv, OneActiveAccumulator
  <2>1. CASE LiveAccs = {}
    BY <2>1, FS_EmptySet
  <2>2. CASE LiveAccs # {}
    <3>1. PICK i : LiveAccs = {i}
      BY <2>2
    <3> QED BY <3>1, FS_Singleton
  <2> QED BY <2>1, <2>2
<1> QED BY <1>1, <1>2, <1>3, Invariance, PTL DEF Spec

\* The same of the state after a step.
LEMMA ActiveFactThen ==
  (parts \in Seq(Part) /\ (\A i, j \in LiveParts : i = j) =>
     /\ LiveParts = {} => ActiveCount = 0
     /\ ActiveCount \in Nat
     /\ \A i \in LiveParts : ActiveCount = parts[i].count)'
<1>1. parts \in Seq(Part) /\ (\A i, j \in LiveParts : i = j) =>
     /\ LiveParts = {} => ActiveCount = 0
     /\ ActiveCount \in Nat
     /\ \A i \in LiveParts : ActiveCount = parts[i].count
  BY ActiveFact DEF ActiveCount
<1> QED BY <1>1, PTL

\* The guarded count of ResetAlwaysToZero, step by step.
LEMMA CountMoves ==
  ASSUME IInv, PartsInv, PartsInv', [Next]_vars, "joining" \notin raced'
  PROVE  ActiveCount' >= ActiveCount \/ ActiveCount' = 0
<1>1. /\ parts' \in Seq(Part) /\ \A i, j \in LiveParts' : i = j
  BY DEF PartsInv, JoinInv
<1>2. /\ LiveParts' = {} => ActiveCount' = 0
      /\ ActiveCount' \in Nat
      /\ \A i \in LiveParts' : ActiveCount' = parts'[i].count
  BY <1>1, ActiveFactThen
<1>3. ASSUME "joining" \notin raced
      PROVE  /\ parts \in Seq(Part) /\ JoinInv /\ SubmitInv /\ ActiveCount \in Nat
             /\ \A i \in LiveParts : ActiveCount = parts[i].count
             /\ LiveParts = {} => ActiveCount = 0
  BY <1>3, ActiveFact DEF PartsInv, JoinInv, ActiveCount
<1>4. "joining" \notin raced
  <2>1. ASSUME NEW s \in Sessions, Join(s) \/ StartOver(s) \/ Submit(s)
        PROVE  raced \subseteq raced'
    <3>1. ASSUME NEW v \in 1..MaxCount, SubmitGroupCount(s, v) PROVE raced \subseteq raced'
      BY <3>1 DEF SubmitGroupCount, Arrive
    <3>2. ASSUME JoinGroupAccumulator(s) \/ Reset(s) PROVE raced \subseteq raced'
      BY <3>2 DEF JoinGroupAccumulator, Reset, Arrive
    <3>3. ASSUME \/ upsert_group_join(s) \/ JoinSeen(s) \/ upsert_group_accumulator_join(s)
                 \/ GetOrCreate(s) \/ create_user_group_accumulator(s)
                 \/ soft_delete_user_group_accumulator(s) \/ add_group_history_row(s)
          PROVE  raced' = raced
      BY <3>3 DEF upsert_group_join, JoinSeen, upsert_group_accumulator_join, GetOrCreate,
                  create_user_group_accumulator, soft_delete_user_group_accumulator,
                  add_group_history_row, Finish, Goto
    <3>4. ASSUME ReadCount(s) PROVE raced' = raced
      BY <3>4 DEF ReadCount, Goto
    <3> QED BY <2>1, <3>1, <3>2, <3>3, <3>4 DEF Join, StartOver, Submit
  <2>2. ASSUME NEW s \in Sessions, Own(s) \/ Stats(s) \/ Crash(s)
        PROVE  raced \subseteq raced'
    <3>1. ASSUME NEW i \in DOMAIN accs, NEW v \in 0..MaxCount, UpdateAccumulator(s, i, v)
          PROVE  raced' = raced
      BY <3>1 DEF UpdateAccumulator
    <3>2. ASSUME CreateAccumulator(s) PROVE raced \subseteq raced'
      BY <3>2 DEF CreateAccumulator, Arrive
    <3>3. ASSUME \/ _create_accumulator_from_preset(s) \/ update_accumulator(s)
                 \/ set_user_stats_cache(s) \/ Crash(s)
          PROVE  raced' = raced
      <4>1. Finish(s)
        BY <3>3 DEF _create_accumulator_from_preset, update_accumulator,
                    set_user_stats_cache, Crash
      <4> QED BY <4>1 DEF Finish, Goto
    <3>4. ASSUME invalidate_user_stats_cache(s) PROVE raced' = raced
      BY <3>4 DEF invalidate_user_stats_cache, Goto
    <3>5. ASSUME GetUserStats(s) \/ get_user_activity_totals(s) PROVE raced' = raced
      BY <3>5 DEF GetUserStats, get_user_activity_totals, Goto
    <3> QED BY <2>2, <3>1, <3>2, <3>3, <3>4, <3>5 DEF Own, Stats
  <2>3. ASSUME NEW i \in DOMAIN accs, delete_accumulator(i) PROVE raced' = raced
    BY <2>3 DEF delete_accumulator
  <2>4. ASSUME leave_group \/ Authors \/ Expire \/ UNCHANGED vars PROVE raced' = raced
    BY <2>4 DEF leave_group, Authors, Expire, delete_group_accumulator, set_visibility,
                delete_preset, vars
  <2>5. raced \subseteq raced'
    BY <2>1, <2>2, <2>3, <2>4 DEF Next
  <2> QED BY <2>5
<1>5. CASE parts' = parts
  <2>1. ActiveCount' = ActiveCount
    BY <1>5 DEF ActiveCount, Active, LiveParts
  <2> QED BY <1>3, <1>4, <2>1
<1>6. ASSUME NEW s \in Sessions, create_user_group_accumulator(s)
      PROVE  ActiveCount' >= ActiveCount
  <2>1. sess[s].pc = "partSave"
    BY <1>6 DEF create_user_group_accumulator
  <2>2. ActiveCount = 0
    BY <1>3, <1>4, <2>1 DEF JoinInv
  <2> QED BY <1>2, <2>2
<1>7. ASSUME NEW s \in Sessions, soft_delete_user_group_accumulator(s)
      PROVE  ActiveCount' >= ActiveCount \/ ActiveCount' = 0
  <2> DEFINE i == sess[s].at
             new == [parts[i] EXCEPT !.live = FALSE]
  <2>1. sess[s].pc = "reset" /\ parts' = [parts EXCEPT ![i] = new]
    BY <1>7 DEF soft_delete_user_group_accumulator
  <2>2. i \in DOMAIN parts /\ parts[i] \in Part
    BY <1>3, <1>4, <2>1 DEF JoinInv
  <2>3. ~new.live
    BY <2>2 DEF Part
  <2> HIDE DEF new
  <2>4. \A j \in LiveParts' : j \in LiveParts /\ parts'[j] = parts[j]
    BY <1>3, <1>4, <2>1, <2>2, <2>3 DEF LiveParts
  <2>5. CASE LiveParts' = {}
    BY <1>2, <2>5
  <2>6. CASE LiveParts' # {}
    BY <1>2, <1>3, <1>4, <2>4, <2>6
  <2> QED BY <2>5, <2>6
<1>8. ASSUME NEW s \in Sessions, add_group_history_row(s)
      PROVE  ActiveCount' >= ActiveCount \/ ActiveCount' = 0
  <2> DEFINE h == sess[s]
             i == h.at
             old == parts[i]
             more == Above(h.value, h.seen)
             top == Max({old.claimed, h.value})
             new == [old EXCEPT !.count = old.count + more, !.claimed = top]
  <2>1. h.pc = "add" /\ parts' = [parts EXCEPT ![i] = new]
    BY <1>8 DEF add_group_history_row
  <2>2. /\ i \in DOMAIN parts /\ old \in Part
        /\ h.value \in Nat /\ h.seen \in Nat
    BY <1>3, <1>4, <2>1 DEF SubmitInv, Submitting
  <2>3. more \in Nat
    BY <2>2 DEF Above
  <2> HIDE DEF top, more
  <2>4. new.live = old.live /\ new.count >= old.count
    BY <2>2, <2>3 DEF Part
  <2> HIDE DEF new
  <2>5. \A j \in LiveParts' : /\ j \in LiveParts
                              /\ parts'[j].count = IF j = i THEN new.count ELSE parts[j].count
    BY <1>3, <1>4, <2>1, <2>2, <2>4 DEF LiveParts
  <2>6. CASE LiveParts' = {}
    BY <1>2, <2>6
  <2>7. CASE LiveParts' # {}
    <3>1. PICK j \in LiveParts' : TRUE
      BY <2>7
    <3>2. ActiveCount' = parts'[j].count /\ ActiveCount = parts[j].count
      BY <1>2, <1>3, <1>4, <2>5, <3>1
    <3>3. CASE j = i
      BY <2>4, <2>5, <3>1, <3>2, <3>3
    <3>4. CASE j # i
      BY <1>3, <1>4, <2>5, <3>1, <3>2, <3>4
    <3> QED BY <3>3, <3>4
  <2> QED BY <2>6, <2>7
<1>9. ASSUME NEW s \in Sessions, ReadCount(s) PROVE ActiveCount' = ActiveCount
  <2> DEFINE i == sess[s].at
             new == [parts[i] EXCEPT !.torn = parts[i].torn \/ Active # i]
  <2>1. sess[s].pc = "count" /\ parts' = [parts EXCEPT ![i] = new]
    BY <1>9 DEF ReadCount
  <2>2. i \in DOMAIN parts /\ parts[i] \in Part
    BY <1>3, <1>4, <2>1 DEF SubmitInv, Submitting
  <2>3. new.live = parts[i].live /\ new.count = parts[i].count
    BY <2>2 DEF Part
  <2> HIDE DEF new
  <2>4. DOMAIN parts' = DOMAIN parts /\ \A j \in DOMAIN parts :
          parts'[j].live = parts[j].live /\ parts'[j].count = parts[j].count
    BY <1>3, <1>4, <2>1, <2>2, <2>3
  <2>5. LiveParts' = LiveParts
    BY <2>4 DEF LiveParts
  <2>6. CASE LiveParts = {}
    BY <1>2, <1>3, <1>4, <2>5, <2>6
  <2>7. CASE LiveParts # {}
    <3>1. PICK j \in LiveParts : j \in DOMAIN parts
      BY <2>7 DEF LiveParts
    <3> QED BY <1>2, <1>3, <1>4, <2>4, <2>5, <3>1
  <2> QED BY <2>6, <2>7
<1>10. \/ parts' = parts
       \/ \E s \in Sessions : \/ create_user_group_accumulator(s)
                              \/ soft_delete_user_group_accumulator(s)
                              \/ add_group_history_row(s) \/ ReadCount(s)
  <2>1. ASSUME NEW s \in Sessions, Join(s) \/ StartOver(s) \/ Submit(s)
        PROVE  \/ parts' = parts
               \/ create_user_group_accumulator(s) \/ soft_delete_user_group_accumulator(s)
               \/ add_group_history_row(s) \/ ReadCount(s)
    <3>1. ASSUME NEW v \in 1..MaxCount, SubmitGroupCount(s, v) PROVE parts' = parts
      BY <3>1 DEF SubmitGroupCount, group
    <3>2. ASSUME \/ JoinGroupAccumulator(s) \/ upsert_group_join(s) \/ JoinSeen(s)
                 \/ upsert_group_accumulator_join(s) \/ GetOrCreate(s) \/ Reset(s)
          PROVE  parts' = parts
      BY <3>2 DEF JoinGroupAccumulator, upsert_group_join, JoinSeen,
                  upsert_group_accumulator_join, GetOrCreate, Reset, group
    <3> QED BY <2>1, <3>1, <3>2 DEF Join, StartOver, Submit
  <2>2. ASSUME NEW s \in Sessions, Own(s) \/ Stats(s) \/ Crash(s) PROVE parts' = parts
    <3>1. ASSUME NEW i \in DOMAIN accs, NEW v \in 0..MaxCount, UpdateAccumulator(s, i, v)
          PROVE  parts' = parts
      BY <3>1 DEF UpdateAccumulator, group
    <3>2. ASSUME \/ CreateAccumulator(s) \/ _create_accumulator_from_preset(s)
                 \/ GetUserStats(s) \/ get_user_activity_totals(s)
                 \/ set_user_stats_cache(s) \/ Crash(s)
          PROVE  parts' = parts
      BY <3>2 DEF CreateAccumulator, _create_accumulator_from_preset, GetUserStats,
                  get_user_activity_totals, set_user_stats_cache, Crash, group
    <3>3. ASSUME invalidate_user_stats_cache(s) PROVE parts' = parts
      BY <3>3 DEF invalidate_user_stats_cache, group
    <3>4. ASSUME update_accumulator(s) PROVE parts' = parts
      BY <3>4 DEF update_accumulator, group
    <3> QED BY <2>2, <3>1, <3>2, <3>3, <3>4 DEF Own, Stats
  <2>3. CASE leave_group \/ Authors \/ Expire \/ UNCHANGED vars
             \/ \E i \in DOMAIN accs : delete_accumulator(i)
    BY <2>3 DEF leave_group, Authors, Expire, delete_accumulator, delete_group_accumulator,
      set_visibility, delete_preset, group, vars
  <2> QED BY <2>1, <2>2, <2>3 DEF Next
<1> QED BY <1>3, <1>4, <1>5, <1>6, <1>7, <1>8, <1>9, <1>10

\* "their progress resets to zero": as long as no two handlers that join or reset
\* overlap, the count of the active participation falls only to zero.
THEOREM ResetsToZeroUnlessJoinsRace ==
  Spec => [][ "joining" \notin raced' => ActiveCount' >= ActiveCount \/ ActiveCount' = 0 ]_vars
<1>1. IInv /\ PartsInv /\ PartsInv' /\ [Next]_vars =>
        [ "joining" \notin raced' => ActiveCount' >= ActiveCount \/ ActiveCount' = 0 ]_vars
  BY CountMoves
<1> QED BY <1>1, Invariance, PartsInvariance, PTL DEF Spec
=============================================================================
