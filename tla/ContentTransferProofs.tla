----------------------- MODULE ContentTransferProofs -----------------------
(***************************************************************************)
(* Proofs about ContentTransfer, for any sets of plans, series, groups     *)
(* and transfers. Type correctness needs nothing else; the rest is proved  *)
(* for one handler at a time, wherever handlers die: with two, a check     *)
(* and its commit come apart, and what follows is false.                   *)
(*                                                                         *)
(* None of it is inductive: the handler in flight must be known to act on  *)
(* what it checked. RequestInv, AnswerInv, RemoveInv and MoveInv say so    *)
(* of the handlers that OnePendingTransfer and OwnerIsPartner depend on,   *)
(* Knows of all that move content, and Sees of what custody needs          *)
(* besides: that what was read is what the commit changes. The last        *)
(* theorem is the refinement: the handlers implement ContentCustody.       *)
(***************************************************************************)
EXTENDS ContentTransfer, TLAPS

OneHandler == \A s, t \in Sessions : s = t

\* A request that is about to be made is the only one for its content.
RequestInv == \A s \in Sessions : sess[s].pc = "request" => ~has_pending_transfer(sess[s].c)

\* No answer makes a transfer pending, and the transfer answered exists.
AnswerInv ==
  \A s \in Sessions : sess[s].pc \in {"answer", "apply"} =>
    /\ sess[s].t \in Transfers /\ transfer[sess[s].t] # None
    /\ sess[s].pc = "answer" => sess[s].answer \in TransferStatus \ {"PENDING"}

\* A request has content to ask for, and a group to ask for it.
CarriesInv ==
  \A s \in Sessions :
    /\ sess[s].pc = "request" => sess[s].c \in Content /\ sess[s].to \in Groups
    /\ sess[s].pc = "move" => sess[s].to \in Groups
    /\ sess[s].pc = "series" => sess[s].c \in Series /\ sess[s].to \in Groups \cup {None}
    /\ sess[s].pc = "clone" => sess[s].c \in Series
    /\ sess[s].pc = "attach" => sess[s].c \in Plans /\ sess[s].to \in Series \cup {None}
    /\ sess[s].pc = "remove" => sess[s].c \in Series /\ sess[s].to \in Groups

TInv == TypeOK /\ AnswerInv /\ CarriesInv

-----------------------------------------------------------------------------
LEMMA IdleFact == /\ Idle \in Session /\ Idle.pc = "idle"
  BY DEF Idle, Session

\* What a handler that comes in must bring.
Brings(r) ==
  /\ r \in Session
  /\ r.pc \in {"answer", "apply"} =>
       /\ r.t \in Transfers /\ transfer[r.t] # None
       /\ r.pc = "answer" => r.answer \in TransferStatus \ {"PENDING"}
  /\ r.pc = "request" => r.c \in Content /\ r.to \in Groups
  /\ r.pc = "move" => r.to \in Groups
  /\ r.pc = "series" => r.c \in Series /\ r.to \in Groups \cup {None}
  /\ r.pc = "clone" => r.c \in Series
  /\ r.pc = "attach" => r.c \in Plans /\ r.to \in Series \cup {None}
  /\ r.pc = "remove" => r.c \in Series /\ r.to \in Groups

LEMMA IdleBrings == Brings(Idle)
  BY IdleFact DEF Brings

LEMMA EnterTyped ==
  ASSUME TInv, NEW s \in Sessions, NEW r, Brings(r), Enter(s, r)
  PROVE  TInv'
<1>1. TypeOK'
  BY DEF TInv, TypeOK, Enter, content, Brings
<1>2. \A t \in Sessions : sess'[t] = IF t = s THEN r ELSE sess[t]
  BY DEF TInv, TypeOK, Enter
<1>3. AnswerInv' /\ CarriesInv'
  BY <1>2 DEF TInv, AnswerInv, CarriesInv, Enter, Brings
<1> QED BY <1>1, <1>3 DEF TInv

\* A handler has done its last commit, which left the transfers in being.
LEMMA LeaveTyped ==
  ASSUME TInv, NEW s \in Sessions, sess' = [sess EXCEPT ![s] = Idle],
         \A t \in Transfers : transfer[t] # None => transfer'[t] # None
  PROVE  sess' \in [Sessions -> Session] /\ AnswerInv' /\ CarriesInv'
<1>1. sess' \in [Sessions -> Session]
  BY IdleFact DEF TInv, TypeOK
<1>2. \A t \in Sessions : sess'[t] = IF t = s THEN Idle ELSE sess[t]
  BY DEF TInv, TypeOK
<1> QED BY <1>1, <1>2, IdleFact DEF TInv, AnswerInv, CarriesInv

\* A clone comes in for a series that is there; its copies are of plans it holds.
LEMMA CloneEnters ==
  ASSUME TInv, NEW s \in Sessions, NEW x \in Series, NEW new \in SUBSET Plans,
         NEW source \in [new -> Plans], CloneRead(s, x, new, source)
  PROVE  \E r \in Session :
           /\ Enter(s, r) /\ r.pc = "clone" /\ r.c = x /\ x \in LiveSeries
           /\ \A p \in Plans : r.copies[p] # None =>
                /\ p \in unused
                /\ \E q \in Held(x) : planGroup[q] = r.copies[p]
<1> DEFINE copies == [p \in Plans |-> IF p \in new THEN planGroup[source[p]] ELSE None]
           r == [Idle EXCEPT !.pc = "clone", !.c = x, !.copies = copies]
<1>1. copies \in [Plans -> Groups \cup {None}]
  BY DEF TInv, TypeOK
<1>2. Enter(s, r) /\ x \in LiveSeries
  BY DEF CloneRead
<1>3. \A p \in Plans : copies[p] # None =>
        p \in unused /\ \E q \in Held(x) : planGroup[q] = copies[p]
  BY DEF CloneRead
<1> HIDE DEF copies
<1>4. r \in Session /\ r.pc = "clone" /\ r.c = x /\ r.copies = copies
  BY <1>1 DEF Idle, Session, Content
<1> QED BY <1>2, <1>3, <1>4

LEMMA CloneTyped == ASSUME TInv, Clone PROVE TInv'
<1>1. ASSUME NEW s \in Sessions, NEW x \in Series, NEW new \in SUBSET Plans,
             NEW source \in [new -> Plans], CloneRead(s, x, new, source)
      PROVE  TInv'
  <2>1. PICK r \in Session : Enter(s, r) /\ r.pc = "clone" /\ r.c = x
    BY <1>1, CloneEnters
  <2>2. Brings(r)
    BY <2>1 DEF Brings
  <2> QED BY <2>1, <2>2, EnterTyped
<1>2. ASSUME NEW s \in Sessions, clone_series_plans_for_language(s) PROVE TInv'
  <2>1. sess[s].c \in Series /\ sess[s].copies \in [Plans -> Groups \cup {None}]
    BY <1>2 DEF clone_series_plans_for_language, TInv, TypeOK, CarriesInv, Session
  <2>2. /\ planGroup' \in [Plans -> Groups]
        /\ planSeries' \in [Plans -> Series \cup {None}]
        /\ planGone' \subseteq Plans /\ unused' \subseteq planGone'
    BY <1>2, <2>1 DEF clone_series_plans_for_language, TInv, TypeOK
  <2>3. sess' \in [Sessions -> Session] /\ AnswerInv' /\ CarriesInv'
    BY <1>2, LeaveTyped DEF clone_series_plans_for_language, Leave
  <2> QED BY <1>2, <2>2, <2>3 DEF clone_series_plans_for_language, Leave, TInv, TypeOK
<1> QED BY <1>1, <1>2 DEF Clone

LEMMA TransfersTyped ==
  ASSUME TInv, Request \/ Respond PROVE TInv'
<1>1. ASSUME NEW s \in Sessions, NEW c \in Content, NEW g \in Groups, RequestRead(s, c, g)
      PROVE  TInv'
  <2> DEFINE r == [Idle EXCEPT !.pc = "request", !.c = c, !.to = g]
  <2>1. Brings(r)
    BY DEF Brings, Idle, Session
  <2> QED BY <1>1, <2>1, EnterTyped DEF RequestRead
<1>2. ASSUME NEW s \in Sessions, NEW t \in Transfers, create_transfer_request(s, t)
      PROVE  TInv'
  <2> DEFINE new == [content |-> sess[s].c, to |-> sess[s].to, status |-> "PENDING"]
  <2>1. new \in Transfer /\ new # None
    BY <1>2, NoneIsNoTransfer
    DEF create_transfer_request, TInv, CarriesInv, Transfer, TransferStatus
  <2> HIDE DEF new
  <2>2. transfer' = [transfer EXCEPT ![t] = new] /\ sess' = [sess EXCEPT ![s] = Idle]
    BY <1>2 DEF create_transfer_request, Leave, new
  <2>3. \A u \in Transfers : transfer[u] # None => transfer'[u] # None
    BY <2>1, <2>2 DEF TInv, TypeOK
  <2>4. sess' \in [Sessions -> Session] /\ AnswerInv' /\ CarriesInv'
    BY <2>2, <2>3, LeaveTyped
  <2>5. TypeOK'
    BY <1>2, <2>1, <2>2, <2>4 DEF create_transfer_request, Leave, content, TInv, TypeOK
  <2> QED BY <2>4, <2>5 DEF TInv
<1>3. ASSUME NEW s \in Sessions, NEW t \in Transfers, NEW a \in TransferStatus \ {"PENDING"},
             Pending(t), Answer(s, t, a)
      PROVE  TInv'
  <2> DEFINE r == [Idle EXCEPT !.pc = "answer", !.t = t, !.answer = a]
  <2>1. Brings(r)
    BY <1>3 DEF Brings, Idle, Session, Pending
  <2> QED BY <1>3, <2>1, EnterTyped DEF Answer
<1>4. ASSUME NEW s \in Sessions, NEW t \in Transfers,
             \/ accept_transfer_request(s, t) \/ reject_transfer_request(s, t)
             \/ revoke_transfer_request(s, t)
      PROVE  TInv'
  <2>1. \E a \in TransferStatus \ {"PENDING"} : Pending(t) /\ Answer(s, t, a)
    BY <1>4 DEF accept_transfer_request, reject_transfer_request, revoke_transfer_request,
                TransferStatus
  <2> QED BY <1>3, <2>1
<1>5. ASSUME NEW s \in Sessions, save_transfer(s) PROVE TInv'
  <2> DEFINE t == sess[s].t
             old == transfer[t]
             new == [old EXCEPT !.status = sess[s].answer]
  <2>1. t \in Transfers /\ old # None /\ sess[s].answer \in TransferStatus
    BY <1>5 DEF save_transfer, TInv, AnswerInv
  <2>2. old \in Transfer
    BY <2>1 DEF TInv, TypeOK
  <2>3. new \in Transfer /\ new # None
    BY <2>1, <2>2, NoneIsNoTransfer DEF Transfer
  <2>4. transfer' = [transfer EXCEPT ![t] = new]
    BY <1>5 DEF save_transfer
  <2> HIDE DEF new
  <2>5. /\ transfer' \in [Transfers -> Transfer \cup {None}]
        /\ \A u \in Transfers : transfer[u] # None => transfer'[u] # None
    BY <2>3, <2>4 DEF TInv, TypeOK
  <2>6. CASE sess[s].answer = "ACCEPTED"
    <3>1. sess' = [sess EXCEPT ![s].pc = "apply"] /\ UNCHANGED crashed
      BY <1>5, <2>6 DEF save_transfer
    <3>2. /\ sess' \in [Sessions -> Session]
          /\ sess'[s].pc = "apply" /\ sess'[s].t = t
          /\ \A u \in Sessions : u # s => sess'[u] = sess[u]
      <4> DEFINE r == [sess[s] EXCEPT !.pc = "apply"]
      <4>1. sess[s] \in Session
        BY DEF TInv, TypeOK
      <4>2. r \in Session /\ r.pc = "apply" /\ r.t = t
        BY <4>1 DEF Session
      <4>3. sess' = [sess EXCEPT ![s] = r]
        BY <3>1 DEF TInv, TypeOK
      <4> HIDE DEF r
      <4> QED BY <4>2, <4>3 DEF TInv, TypeOK
    <3>3. AnswerInv' /\ CarriesInv'
      BY <2>1, <2>5, <3>2 DEF TInv, AnswerInv, CarriesInv
    <3> QED BY <1>5, <2>5, <3>1, <3>2, <3>3 DEF save_transfer, content, TInv, TypeOK
  <2>7. CASE sess[s].answer # "ACCEPTED"
    <3>1. Leave(s)
      BY <1>5, <2>7 DEF save_transfer
    <3>2. sess' \in [Sessions -> Session] /\ AnswerInv' /\ CarriesInv'
      BY <2>5, <3>1, LeaveTyped DEF Leave
    <3> QED BY <1>5, <2>5, <3>1, <3>2 DEF save_transfer, Leave, content, TInv, TypeOK
  <2> QED BY <2>6, <2>7
<1>6. ASSUME NEW s \in Sessions, ApplyLoad(s) PROVE TInv'
  <2> DEFINE c == transfer[sess[s].t].content
             to == transfer[sess[s].t].to
             loaded == IF c \in Plans THEN {c}
                       ELSE IF c \in LiveSeries THEN {c} \cup Held(c) ELSE {}
             b == IF loaded = {} THEN None ELSE c
             keep == {d \in loaded : GroupOf(d) # to}
  <2>1. sess[s].t \in Transfers /\ transfer[sess[s].t] # None
    BY <1>6 DEF ApplyLoad, TInv, AnswerInv
  <2>2. transfer[sess[s].t] \in Transfer
    BY <2>1 DEF TInv, TypeOK
  <2>3. b \in Content \cup {None} /\ to \in Groups
    BY <2>2 DEF Transfer
  <2>4. keep \subseteq Content
    BY DEF Content, LiveSeries, Held, LivePlans
  <2>5. /\ sess' = [sess EXCEPT ![s].pc = "move", ![s].to = to, ![s].c = b, ![s].keep = keep]
        /\ UNCHANGED <<content, transfer, expired, crashed>>
    BY <1>6 DEF ApplyLoad
  <2> HIDE DEF b, to, keep
  <2> DEFINE new == [sess[s] EXCEPT !.pc = "move", !.to = to, !.c = b, !.keep = keep]
  <2>10. sess[s] \in Session
    BY DEF TInv, TypeOK
  <2>11. new \in Session /\ new.pc = "move" /\ new.to = to
    BY <2>10, <2>3, <2>4 DEF Session
  <2>12. sess' = [sess EXCEPT ![s] = new]
    BY <2>5 DEF TInv, TypeOK, Session
  <2> HIDE DEF new
  <2>6. /\ sess' \in [Sessions -> Session]
        /\ sess'[s].pc = "move" /\ sess'[s].to = to
        /\ \A u \in Sessions : u # s => sess'[u] = sess[u]
    BY <2>11, <2>12 DEF TInv, TypeOK
  <2>7. AnswerInv' /\ CarriesInv'
    BY <2>3, <2>5, <2>6 DEF TInv, AnswerInv, CarriesInv
  <2> QED BY <2>5, <2>6, <2>7 DEF content, TInv, TypeOK
<1>7. ASSUME NEW s \in Sessions, _apply_transfer_accept(s) PROVE TInv'
  <2>1. sess[s].to \in Groups
    BY <1>7 DEF _apply_transfer_accept, TInv, CarriesInv
  <2>2. /\ planGroup' \in [Plans -> Groups]
        /\ seriesGroup' \in [Series -> Groups \cup {None}]
        /\ partners' \subseteq Series \X Groups
    BY <1>7, <2>1 DEF _apply_transfer_accept, TInv, TypeOK
  <2>3. sess' \in [Sessions -> Session] /\ AnswerInv' /\ CarriesInv'
    BY <1>7, LeaveTyped DEF _apply_transfer_accept, Leave
  <2> QED BY <1>7, <2>2, <2>3 DEF _apply_transfer_accept, Leave, TInv, TypeOK
<1> QED BY <1>1, <1>2, <1>4, <1>5, <1>6, <1>7 DEF Request, Respond

LEMMA EditsTyped ==
  ASSUME TInv, EditSeries \/ EditPlan \/ Delete \/ EditPartners PROVE TInv'
<1>1. ASSUME NEW s \in Sessions, NEW x \in Series, NEW ps \in SUBSET Plans,
             \/ update_existing_series(s, x, ps)
             \/ \E g \in Groups : create_new_series(s, x, g, ps)
      PROVE  TInv'
  <2>1. CASE update_existing_series(s, x, ps)
    <3> DEFINE r == [Idle EXCEPT !.pc = "series", !.c = x, !.keep = ps, !.drop = Held(x) \ ps]
    <3>1. Brings(r)
      BY DEF Brings, Idle, Session, Content, Held, LivePlans
    <3> QED BY <2>1, <3>1, EnterTyped DEF update_existing_series
  <2>2. ASSUME NEW g \in Groups, create_new_series(s, x, g, ps) PROVE TInv'
    <3> DEFINE r == [Idle EXCEPT !.pc = "series", !.c = x, !.to = g, !.keep = ps]
    <3>1. Brings(r)
      BY DEF Brings, Idle, Session, Content
    <3> QED BY <2>2, <3>1, EnterTyped DEF create_new_series
  <2> QED BY <1>1, <2>1, <2>2
<1>2. ASSUME NEW s \in Sessions, SaveSeriesWithPlans(s) PROVE TInv'
  <2>1. sess[s].c \in Series /\ sess[s].to \in Groups \cup {None}
    BY <1>2 DEF SaveSeriesWithPlans, TInv, CarriesInv
  <2>2. /\ planSeries' \in [Plans -> Series \cup {None}]
        /\ seriesGroup' \in [Series -> Groups \cup {None}]
        /\ partners' \subseteq Series \X Groups
    BY <1>2, <2>1 DEF SaveSeriesWithPlans, TInv, TypeOK
  <2>3. sess' \in [Sessions -> Session] /\ AnswerInv' /\ CarriesInv'
    BY <1>2, LeaveTyped DEF SaveSeriesWithPlans, Leave
  <2> QED BY <1>2, <2>2, <2>3 DEF SaveSeriesWithPlans, Leave, TInv, TypeOK
<1>3. ASSUME NEW s \in Sessions, NEW p \in Plans,
             DetachRead(s, p) \/ \E x \in Series : AttachRead(s, p, x)
      PROVE  TInv'
  <2>1. CASE DetachRead(s, p)
    <3> DEFINE r == [Idle EXCEPT !.pc = "attach", !.c = p]
    <3>1. Brings(r)
      BY DEF Brings, Idle, Session, Content
    <3> QED BY <2>1, <3>1, EnterTyped DEF DetachRead
  <2>2. ASSUME NEW x \in Series, AttachRead(s, p, x) PROVE TInv'
    <3> DEFINE r == [Idle EXCEPT !.pc = "attach", !.c = p, !.to = x]
    <3>1. Brings(r)
      BY DEF Brings, Idle, Session, Content
    <3> QED BY <2>2, <3>1, EnterTyped DEF AttachRead
  <2> QED BY <1>3, <2>1, <2>2
<1>4. ASSUME NEW s \in Sessions, update_plan_details(s) PROVE TInv'
  <2>1. sess[s].c \in Plans /\ sess[s].to \in Series \cup {None}
    BY <1>4 DEF update_plan_details, TInv, CarriesInv
  <2>2. sess' \in [Sessions -> Session] /\ AnswerInv' /\ CarriesInv'
    BY <1>4, LeaveTyped DEF update_plan_details, Leave
  <2> QED BY <1>4, <2>1, <2>2 DEF update_plan_details, Leave, TInv, TypeOK
<1>5. ASSUME Delete PROVE TInv'
  <2>1. AnswerInv' /\ CarriesInv'
    BY <1>5 DEF Delete, _soft_delete_plan_by_id, soft_delete_series_with_plan_detach,
                TInv, AnswerInv, CarriesInv
  <2>2. TypeOK'
    BY <1>5 DEF Delete, _soft_delete_plan_by_id, soft_delete_series_with_plan_detach,
                LivePlans, LiveSeries, TInv, TypeOK
  <2> QED BY <2>1, <2>2 DEF TInv
<1>6. ASSUME NEW s \in Sessions, NEW x \in Series, NEW g \in Groups,
             add_series_partner(s, x, g) \/ RemovePartnerRead(s, x, g)
      PROVE  TInv'
  <2>1. CASE add_series_partner(s, x, g)
    BY <2>1 DEF add_series_partner, TInv, TypeOK, AnswerInv, CarriesInv
  <2>2. CASE RemovePartnerRead(s, x, g)
    <3> DEFINE r == [Idle EXCEPT !.pc = "remove", !.c = x, !.to = g]
    <3>1. Brings(r)
      BY DEF Brings, Idle, Session, Content
    <3> QED BY <2>2, <3>1, EnterTyped DEF RemovePartnerRead
  <2> QED BY <1>6, <2>1, <2>2
<1>7. ASSUME NEW s \in Sessions, remove_series_partner(s) PROVE TInv'
  <2>1. sess' \in [Sessions -> Session] /\ AnswerInv' /\ CarriesInv'
    BY <1>7, LeaveTyped DEF remove_series_partner, Leave
  <2> QED BY <1>7, <2>1 DEF remove_series_partner, Leave, TInv, TypeOK
<1> QED
  BY <1>1, <1>2, <1>3, <1>4, <1>5, <1>6, <1>7 DEF EditSeries, EditPlan, EditPartners

LEMMA StepTyped == ASSUME TInv, [Next]_vars PROVE TInv'
<1>1. ASSUME NEW t \in Transfers, Expire(t) PROVE TInv'
  BY <1>1 DEF Expire, content, TInv, TypeOK, AnswerInv, CarriesInv
<1>2. ASSUME NEW s \in Sessions, Crash(s) PROVE TInv'
  <2>1. sess' \in [Sessions -> Session] /\ AnswerInv' /\ CarriesInv'
    BY <1>2, LeaveTyped DEF Crash
  <2> QED BY <1>2, <2>1 DEF Crash, content, TInv, TypeOK
<1>3. CASE UNCHANGED vars
  BY <1>3 DEF vars, content, TInv, TypeOK, AnswerInv, CarriesInv
<1> QED BY <1>1, <1>2, <1>3, TransfersTyped, EditsTyped, CloneTyped DEF Next

LEMMA InitTyped == Init => TInv
  BY IdleFact DEF Init, TInv, TypeOK, AnswerInv, CarriesInv

\* Every variable has its type, for any number of handlers in flight: what a
\* handler carries over its checks is what its commit may write.
THEOREM TypeCorrect == Spec => []TypeOK
<1>1. TInv => TypeOK
  BY DEF TInv
<1> QED BY <1>1, InitTyped, StepTyped, PTL DEF Spec

-----------------------------------------------------------------------------
\* With one handler, what it carries next is all that is carried.
LEMMA Alone ==
  ASSUME OneHandler, TInv, NEW s \in Sessions, NEW r, sess' = [sess EXCEPT ![s] = r]
  PROVE  \A t \in Sessions : sess'[t] = r
<1>1. sess'[s] = r
  BY DEF TInv, TypeOK
<1> QED BY <1>1 DEF OneHandler

\* No transfer becomes pending that was not.
NoNewPending ==
  \A t \in Transfers : Pending(t)' => Pending(t) /\ transfer'[t].content = transfer[t].content

PendingInv == OnePendingTransfer /\ RequestInv

\* A step that makes no transfer pending, and takes in no request, keeps it.
LEMMA NoNewPendingKeeps ==
  ASSUME PendingInv, NoNewPending,
         \A s \in Sessions : sess'[s].pc = "request" =>
           sess[s].pc = "request" /\ sess'[s].c = sess[s].c
  PROVE  PendingInv'
<1>1. OnePendingTransfer'
  BY DEF PendingInv, OnePendingTransfer, NoNewPending
<1>2. RequestInv'
  BY DEF PendingInv, RequestInv, NoNewPending, has_pending_transfer, Pending
<1> QED BY <1>1, <1>2 DEF PendingInv

LEMMA SameTransfers == UNCHANGED transfer => NoNewPending
  BY DEF NoNewPending, Pending

\* A handler that comes in, and is not a request, keeps it too.
LEMMA EnterKeepsPending ==
  ASSUME OneHandler, TInv, PendingInv, NEW s \in Sessions, NEW r, Enter(s, r), r.pc # "request"
  PROVE  PendingInv'
<1>1. UNCHANGED transfer /\ \A t \in Sessions : sess'[t] = r
  BY Alone DEF Enter
<1> QED BY <1>1, SameTransfers, NoNewPendingKeeps

LEMMA LeaveKeepsPending ==
  ASSUME OneHandler, TInv, PendingInv, NEW s \in Sessions, NoNewPending,
         sess' = [sess EXCEPT ![s] = Idle]
  PROVE  PendingInv'
<1>1. \A t \in Sessions : sess'[t] = Idle
  BY Alone
<1> QED BY <1>1, IdleFact, NoNewPendingKeeps

LEMMA RequestKeepsPending ==
  ASSUME OneHandler, TInv, PendingInv, Request PROVE PendingInv'
<1>1. ASSUME NEW s \in Sessions, NEW c \in Content, NEW g \in Groups, RequestRead(s, c, g)
      PROVE  PendingInv'
  <2> DEFINE r == [Idle EXCEPT !.pc = "request", !.c = c, !.to = g]
  <2>1. r.c = c
    BY DEF Idle
  <2>2. ~has_pending_transfer(c) /\ UNCHANGED transfer /\ sess' = [sess EXCEPT ![s] = r]
    BY <1>1 DEF RequestRead, Enter
  <2> HIDE DEF r
  <2>3. \A t \in Sessions : sess'[t].c = c
    BY <2>1, <2>2, Alone
  <2>4. RequestInv'
    BY <2>2, <2>3 DEF RequestInv, has_pending_transfer
  <2> QED BY <2>2, <2>4 DEF PendingInv, OnePendingTransfer, Pending
<1>2. ASSUME NEW s \in Sessions, NEW t \in Transfers, create_transfer_request(s, t)
      PROVE  PendingInv'
  <2> DEFINE new == [content |-> sess[s].c, to |-> sess[s].to, status |-> "PENDING"]
  <2>1. /\ sess[s].pc = "request"
        /\ transfer' = [transfer EXCEPT ![t] = new] /\ sess' = [sess EXCEPT ![s] = Idle]
    BY <1>2 DEF create_transfer_request, Leave
  <2>2. ~has_pending_transfer(sess[s].c)
    BY <2>1 DEF PendingInv, RequestInv
  <2>3. \A u \in Transfers : IF u = t THEN transfer'[u].content = sess[s].c
                                      ELSE transfer'[u] = transfer[u]
    BY <2>1 DEF TInv, TypeOK
  <2>4. OnePendingTransfer'
    BY <2>2, <2>3 DEF PendingInv, OnePendingTransfer, Pending, has_pending_transfer
  <2>5. RequestInv'
    BY <2>1, Alone, IdleFact DEF RequestInv
  <2> QED BY <2>4, <2>5 DEF PendingInv
<1> QED BY <1>1, <1>2 DEF Request

LEMMA RespondKeepsPending ==
  ASSUME OneHandler, TInv, PendingInv, Respond PROVE PendingInv'
<1>1. ASSUME NEW s \in Sessions, NEW t \in Transfers, NEW a, Answer(s, t, a)
      PROVE  PendingInv'
  <2>1. [Idle EXCEPT !.pc = "answer", !.t = t, !.answer = a].pc = "answer"
    BY DEF Idle
  <2> QED BY <1>1, <2>1, EnterKeepsPending DEF Answer
<1>2. ASSUME NEW s \in Sessions, save_transfer(s) PROVE PendingInv'
  <2> DEFINE t == sess[s].t
             new == [transfer[t] EXCEPT !.status = sess[s].answer]
  <2>1. /\ t \in Transfers /\ transfer[t] # None
        /\ sess[s].answer \in TransferStatus \ {"PENDING"}
    BY <1>2 DEF save_transfer, TInv, AnswerInv
  <2>2. new.status # "PENDING"
    BY <2>1 DEF TInv, TypeOK, Transfer
  <2>3. transfer' = [transfer EXCEPT ![t] = new]
    BY <1>2 DEF save_transfer
  <2> HIDE DEF new
  <2>4. NoNewPending
    BY <2>1, <2>2, <2>3 DEF NoNewPending, Pending, TInv, TypeOK
  <2>5. CASE sess[s].answer = "ACCEPTED"
    <3> DEFINE r == [sess[s] EXCEPT !.pc = "apply"]
    <3>1. sess' = [sess EXCEPT ![s] = r] /\ r.pc = "apply"
      BY <1>2, <2>5 DEF save_transfer, TInv, TypeOK, Session
    <3> HIDE DEF r
    <3>2. \A u \in Sessions : sess'[u].pc = "apply"
      BY <3>1, Alone
    <3> QED BY <3>2, <2>4, NoNewPendingKeeps
  <2>6. CASE sess[s].answer # "ACCEPTED"
    BY <1>2, <2>4, <2>6, LeaveKeepsPending DEF save_transfer, Leave
  <2> QED BY <2>5, <2>6
<1>3. ASSUME NEW s \in Sessions, ApplyLoad(s) PROVE PendingInv'
  <2>1. UNCHANGED transfer /\ \A u \in Sessions : sess'[u].pc = "move"
    <3>1. UNCHANGED transfer /\ sess'[s].pc = "move"
      BY <1>3 DEF ApplyLoad, TInv, TypeOK, Session
    <3> QED BY <3>1 DEF OneHandler
  <2> QED BY <2>1, SameTransfers, NoNewPendingKeeps
<1>4. ASSUME NEW s \in Sessions, _apply_transfer_accept(s) PROVE PendingInv'
  BY <1>4, SameTransfers, LeaveKeepsPending DEF _apply_transfer_accept, Leave
<1> QED
  BY <1>1, <1>2, <1>3, <1>4
  DEF Respond, accept_transfer_request, reject_transfer_request, revoke_transfer_request

\* What a step of an editing handler does to the transfers and the handlers.
LEMMA EditKinds ==
  ASSUME TInv, EditSeries \/ Clone \/ EditPlan \/ Delete \/ EditPartners
  PROVE  \/ UNCHANGED <<transfer, sess>>
         \/ UNCHANGED transfer /\ \E s \in Sessions : sess' = [sess EXCEPT ![s] = Idle]
         \/ \E s \in Sessions, r \in Session : Enter(s, r) /\ r.pc # "request"
<1>1. CASE EditSeries
  <2>1. ASSUME NEW s \in Sessions, NEW x \in Series, NEW g \in Groups, NEW ps \in SUBSET Plans,
               create_new_series(s, x, g, ps)
        PROVE  \E r \in Session : Enter(s, r) /\ r.pc # "request"
    <3>1. [Idle EXCEPT !.pc = "series", !.c = x, !.to = g, !.keep = ps] \in Session
      BY DEF Idle, Session, Content
    <3>2. [Idle EXCEPT !.pc = "series", !.c = x, !.to = g, !.keep = ps].pc # "request"
      BY DEF Idle
    <3> QED BY <2>1, <3>1, <3>2 DEF create_new_series
  <2>2. ASSUME NEW s \in Sessions, NEW x \in Series, NEW ps \in SUBSET Plans,
               update_existing_series(s, x, ps)
        PROVE  \E r \in Session : Enter(s, r) /\ r.pc # "request"
    <3> DEFINE qs == Held(x) \ ps
    <3>1. [Idle EXCEPT !.pc = "series", !.c = x, !.keep = ps, !.drop = qs] \in Session
      BY DEF Idle, Session, Content, Held, LivePlans
    <3>2. [Idle EXCEPT !.pc = "series", !.c = x, !.keep = ps, !.drop = qs].pc # "request"
      BY DEF Idle
    <3> QED BY <2>2, <3>1, <3>2 DEF update_existing_series
  <2> QED BY <1>1, <2>1, <2>2 DEF EditSeries, SaveSeriesWithPlans, Leave
<1>2. CASE EditPlan
  <2>1. ASSUME NEW s \in Sessions, NEW p \in Plans, DetachRead(s, p)
        PROVE  \E r \in Session : Enter(s, r) /\ r.pc # "request"
    <3>1. [Idle EXCEPT !.pc = "attach", !.c = p] \in Session
      BY DEF Idle, Session, Content
    <3>2. [Idle EXCEPT !.pc = "attach", !.c = p].pc # "request"
      BY DEF Idle
    <3> QED BY <2>1, <3>1, <3>2 DEF DetachRead
  <2>2. ASSUME NEW s \in Sessions, NEW p \in Plans, NEW x \in Series, AttachRead(s, p, x)
        PROVE  \E r \in Session : Enter(s, r) /\ r.pc # "request"
    <3>1. [Idle EXCEPT !.pc = "attach", !.c = p, !.to = x] \in Session
      BY DEF Idle, Session, Content
    <3>2. [Idle EXCEPT !.pc = "attach", !.c = p, !.to = x].pc # "request"
      BY DEF Idle
    <3> QED BY <2>2, <3>1, <3>2 DEF AttachRead
  <2> QED BY <1>2, <2>1, <2>2 DEF EditPlan, update_plan_details, Leave
<1>3. CASE Delete
  BY <1>3 DEF Delete, _soft_delete_plan_by_id, soft_delete_series_with_plan_detach
<1>4. CASE EditPartners
  <2>1. ASSUME NEW s \in Sessions, NEW x \in Series, NEW g \in Groups, RemovePartnerRead(s, x, g)
        PROVE  \E r \in Session : Enter(s, r) /\ r.pc # "request"
    <3>1. [Idle EXCEPT !.pc = "remove", !.c = x, !.to = g] \in Session
      BY DEF Idle, Session, Content
    <3>2. [Idle EXCEPT !.pc = "remove", !.c = x, !.to = g].pc # "request"
      BY DEF Idle
    <3> QED BY <2>1, <3>1, <3>2 DEF RemovePartnerRead
  <2> QED BY <1>4, <2>1 DEF EditPartners, add_series_partner, remove_series_partner, Leave
<1>5. CASE Clone
  <2>1. ASSUME NEW s \in Sessions, NEW x \in Series, NEW new \in SUBSET Plans,
               NEW source \in [new -> Plans], CloneRead(s, x, new, source)
        PROVE  \E r \in Session : Enter(s, r) /\ r.pc # "request"
    <3>1. PICK r \in Session : Enter(s, r) /\ r.pc = "clone"
      BY <2>1, CloneEnters
    <3> QED BY <3>1
  <2> QED BY <1>5, <2>1 DEF Clone, clone_series_plans_for_language, Leave
<1> QED BY <1>1, <1>2, <1>3, <1>4, <1>5

LEMMA EditsKeepPending ==
  ASSUME OneHandler, TInv, PendingInv,
         EditSeries \/ Clone \/ EditPlan \/ Delete \/ EditPartners
  PROVE  PendingInv'
<1>1. CASE UNCHANGED <<transfer, sess>>
  BY <1>1, SameTransfers, NoNewPendingKeeps
<1>2. CASE UNCHANGED transfer /\ \E s \in Sessions : sess' = [sess EXCEPT ![s] = Idle]
  BY <1>2, SameTransfers, LeaveKeepsPending
<1>3. CASE \E s \in Sessions, r \in Session : Enter(s, r) /\ r.pc # "request"
  BY <1>3, EnterKeepsPending
<1> QED BY <1>1, <1>2, <1>3, EditKinds

LEMMA StepKeepsPending == ASSUME OneHandler, TInv, PendingInv, [Next]_vars PROVE PendingInv'
<1>1. ASSUME NEW t \in Transfers, Expire(t) PROVE PendingInv'
  BY <1>1, SameTransfers, NoNewPendingKeeps DEF Expire
<1>2. ASSUME NEW s \in Sessions, Crash(s) PROVE PendingInv'
  BY <1>2, SameTransfers, LeaveKeepsPending DEF Crash
<1>3. CASE UNCHANGED vars
  BY <1>3, SameTransfers, NoNewPendingKeeps DEF vars
<1> QED
  BY <1>1, <1>2, <1>3, RequestKeepsPending, RespondKeepsPending, EditsKeepPending DEF Next

\* "A pending transfer request already exists for this content": with one handler
\* at a time, content has one pending transfer at most, however many transfers
\* there are and wherever a handler dies.
THEOREM PendingIsUnique == ASSUME OneHandler PROVE Spec => []OnePendingTransfer
<1>1. Init => TInv /\ PendingInv
  BY InitTyped, IdleFact DEF Init, PendingInv, OnePendingTransfer, RequestInv, Pending
<1>2. TInv /\ PendingInv /\ [Next]_vars => TInv' /\ PendingInv'
  BY StepTyped, StepKeepsPending
<1>3. PendingInv => OnePendingTransfer
  BY DEF PendingInv
<1> QED BY <1>1, <1>2, <1>3, PTL DEF Spec

-----------------------------------------------------------------------------
\* The partner that is being removed does not own the series.
RemoveInv == \A s \in Sessions : sess[s].pc = "remove" => sess[s].to # seriesGroup[sess[s].c]

\* The one series a transfer moves is the one it makes its new owner a partner of.
MoveInv == \A s \in Sessions : sess[s].pc = "move" => sess[s].keep \cap Series \subseteq {sess[s].c}

OwnInv == OwnerIsPartner /\ RemoveInv /\ MoveInv

\* What a handler must carry to keep OwnInv.
Minds(r) ==
  /\ r.pc = "remove" => r.to # seriesGroup[r.c]
  /\ r.pc = "move" => r.keep \cap Series \subseteq {r.c}

\* No series changes owner or comes back, and no partner is lost.
LEMMA SameOwnersKeep ==
  ASSUME OneHandler, TInv, OwnInv, NEW s \in Sessions, NEW r, Minds(r),
         sess' = [sess EXCEPT ![s] = r],
         UNCHANGED <<seriesGroup, partners>>, seriesGone \subseteq seriesGone'
  PROVE  OwnInv'
<1>1. \A t \in Sessions : sess'[t] = r
  BY Alone
<1>2. OwnerIsPartner'
  BY DEF OwnInv, OwnerIsPartner, LiveSeries
<1> QED BY <1>1, <1>2 DEF OwnInv, RemoveInv, MoveInv, Minds

LEMMA EnterKeepsOwner ==
  ASSUME OneHandler, TInv, OwnInv, NEW s \in Sessions, NEW r, Minds(r), Enter(s, r)
  PROVE  OwnInv'
BY SameOwnersKeep DEF Enter, content

LEMMA IdleMinds == Minds(Idle)
  BY IdleFact DEF Minds

LEMMA RequestKeepsOwner ==
  ASSUME OneHandler, TInv, OwnInv, Request PROVE OwnInv'
<1>1. ASSUME NEW s \in Sessions, NEW c \in Content, NEW g \in Groups, RequestRead(s, c, g)
      PROVE  OwnInv'
  <2>1. Minds([Idle EXCEPT !.pc = "request", !.c = c, !.to = g])
    BY DEF Idle, Minds
  <2> QED BY <1>1, <2>1, EnterKeepsOwner DEF RequestRead
<1>2. ASSUME NEW s \in Sessions, NEW t \in Transfers, create_transfer_request(s, t)
      PROVE  OwnInv'
  BY <1>2, IdleMinds, SameOwnersKeep DEF create_transfer_request, Leave, content
<1> QED BY <1>1, <1>2 DEF Request

LEMMA RespondKeepsOwner ==
  ASSUME OneHandler, TInv, OwnInv, Respond PROVE OwnInv'
<1>1. ASSUME NEW s \in Sessions, NEW t \in Transfers, NEW a, Answer(s, t, a)
      PROVE  OwnInv'
  <2>1. Minds([Idle EXCEPT !.pc = "answer", !.t = t, !.answer = a])
    BY DEF Idle, Minds
  <2> QED BY <1>1, <2>1, EnterKeepsOwner DEF Answer
<1>2. ASSUME NEW s \in Sessions, save_transfer(s) PROVE OwnInv'
  <2>1. CASE sess[s].answer = "ACCEPTED"
    <3> DEFINE r == [sess[s] EXCEPT !.pc = "apply"]
    <3>1. sess' = [sess EXCEPT ![s] = r] /\ Minds(r)
      BY <1>2, <2>1 DEF save_transfer, TInv, TypeOK, Session, Minds
    <3> HIDE DEF r
    <3> QED BY <1>2, <3>1, SameOwnersKeep DEF save_transfer, content
  <2>2. CASE sess[s].answer # "ACCEPTED"
    BY <1>2, <2>2, IdleMinds, SameOwnersKeep DEF save_transfer, Leave, content
  <2> QED BY <2>1, <2>2
<1>3. ASSUME NEW s \in Sessions, ApplyLoad(s) PROVE OwnInv'
  <2> DEFINE c == transfer[sess[s].t].content
             to == transfer[sess[s].t].to
             loaded == IF c \in Plans THEN {c}
                       ELSE IF c \in LiveSeries THEN {c} \cup Held(c) ELSE {}
             b == IF loaded = {} THEN None ELSE c
             keep == {d \in loaded : GroupOf(d) # to}
  <2>1. keep \cap Series \subseteq {b}
    BY Disjoint DEF Held, LivePlans, LiveSeries
  <2>2. /\ sess' = [sess EXCEPT ![s].pc = "move", ![s].to = to, ![s].c = b, ![s].keep = keep]
        /\ UNCHANGED content
    BY <1>3 DEF ApplyLoad
  <2> HIDE DEF b, to, keep
  <2> DEFINE r == [sess[s] EXCEPT !.pc = "move", !.to = to, !.c = b, !.keep = keep]
  <2>3. Minds(r)
    BY <2>1 DEF TInv, TypeOK, Session, Minds
  <2>4. sess' = [sess EXCEPT ![s] = r]
    BY <2>2 DEF TInv, TypeOK, Session
  <2> HIDE DEF r
  <2> QED BY <2>2, <2>3, <2>4, SameOwnersKeep DEF content
<1>4. ASSUME NEW s \in Sessions, _apply_transfer_accept(s) PROVE OwnInv'
  <2>1. \A t \in Sessions : sess'[t] = Idle
    BY <1>4, Alone DEF _apply_transfer_accept, Leave
  <2>2. sess[s].keep \cap Series \subseteq {sess[s].c} /\ sess[s].to \in Groups
    BY <1>4 DEF _apply_transfer_accept, OwnInv, MoveInv, TInv, CarriesInv
  <2>3. ASSUME NEW x \in LiveSeries' PROVE <<x, seriesGroup'[x]>> \in partners'
    <3>1. CASE x \in sess[s].keep
      <4>1. x = sess[s].c /\ seriesGroup'[x] = sess[s].to
        BY <1>4, <2>2, <3>1 DEF _apply_transfer_accept, LiveSeries
      <4>2. <<sess[s].c, sess[s].to>> \in partners'
        BY <1>4, <3>1, <4>1 DEF _apply_transfer_accept, LiveSeries
      <4> QED BY <4>1, <4>2
    <3>2. CASE x \notin sess[s].keep
      <4>1. seriesGroup'[x] = seriesGroup[x] /\ x \in LiveSeries /\ partners \subseteq partners'
        BY <1>4, <3>2 DEF _apply_transfer_accept, LiveSeries
      <4> QED BY <4>1 DEF OwnInv, OwnerIsPartner
    <3> QED BY <3>1, <3>2
  <2> QED BY <2>1, <2>3, IdleFact DEF OwnInv, OwnerIsPartner, RemoveInv, MoveInv
<1> QED
  BY <1>1, <1>2, <1>3, <1>4
  DEF Respond, accept_transfer_request, reject_transfer_request, revoke_transfer_request

LEMMA SeriesKeepsOwner ==
  ASSUME OneHandler, TInv, OwnInv, EditSeries PROVE OwnInv'
<1>1. ASSUME NEW s \in Sessions, NEW x \in Series, NEW g \in Groups, NEW ps \in SUBSET Plans,
             create_new_series(s, x, g, ps)
      PROVE  OwnInv'
  <2>1. Minds([Idle EXCEPT !.pc = "series", !.c = x, !.to = g, !.keep = ps])
    BY DEF Idle, Minds
  <2> QED BY <1>1, <2>1, EnterKeepsOwner DEF create_new_series
<1>2. ASSUME NEW s \in Sessions, NEW x \in Series, NEW ps \in SUBSET Plans,
             update_existing_series(s, x, ps)
      PROVE  OwnInv'
  <2>1. Minds([Idle EXCEPT !.pc = "series", !.c = x, !.keep = ps, !.drop = Held(x) \ ps])
    BY DEF Idle, Minds
  <2> QED BY <1>2, <2>1, EnterKeepsOwner DEF update_existing_series
<1>3. ASSUME NEW s \in Sessions, SaveSeriesWithPlans(s) PROVE OwnInv'
  <2>1. CASE sess[s].to = None
    BY <1>3, <2>1, IdleMinds, SameOwnersKeep DEF SaveSeriesWithPlans, Leave
  <2>2. CASE sess[s].to # None
    <3>1. \A t \in Sessions : sess'[t] = Idle
      BY <1>3, Alone DEF SaveSeriesWithPlans, Leave
    <3>2. /\ seriesGroup' = [seriesGroup EXCEPT ![sess[s].c] = sess[s].to]
          /\ partners' = partners \cup {<<sess[s].c, sess[s].to>>}
          /\ UNCHANGED seriesGone
      BY <1>3, <2>2 DEF SaveSeriesWithPlans
    <3>3. OwnerIsPartner'
      BY <3>2 DEF OwnInv, OwnerIsPartner, LiveSeries, TInv, TypeOK
    <3> QED BY <3>1, <3>3, IdleFact DEF OwnInv, RemoveInv, MoveInv
  <2> QED BY <2>1, <2>2
<1> QED BY <1>1, <1>2, <1>3 DEF EditSeries

LEMMA CloneKeepsOwner == ASSUME OneHandler, TInv, OwnInv, Clone PROVE OwnInv'
<1>1. ASSUME NEW s \in Sessions, NEW x \in Series, NEW new \in SUBSET Plans,
             NEW source \in [new -> Plans], CloneRead(s, x, new, source)
      PROVE  OwnInv'
  <2>1. PICK r \in Session : Enter(s, r) /\ r.pc = "clone"
    BY <1>1, CloneEnters
  <2>2. Minds(r)
    BY <2>1 DEF Minds
  <2> QED BY <2>1, <2>2, EnterKeepsOwner
<1>2. ASSUME NEW s \in Sessions, clone_series_plans_for_language(s) PROVE OwnInv'
  BY <1>2, IdleMinds, SameOwnersKeep DEF clone_series_plans_for_language, Leave
<1> QED BY <1>1, <1>2 DEF Clone

LEMMA PlansAndPartnersKeepOwner ==
  ASSUME OneHandler, TInv, OwnInv, EditPlan \/ Delete \/ EditPartners PROVE OwnInv'
<1>1. CASE EditPlan
  <2>1. ASSUME NEW p \in Plans PROVE Minds([Idle EXCEPT !.pc = "attach", !.c = p])
    BY DEF Idle, Minds
  <2>2. ASSUME NEW p \in Plans, NEW x \in Series
        PROVE  Minds([Idle EXCEPT !.pc = "attach", !.c = p, !.to = x])
    BY DEF Idle, Minds
  <2>3. ASSUME NEW s \in Sessions, NEW p \in Plans,
               DetachRead(s, p) \/ \E x \in Series : AttachRead(s, p, x)
        PROVE  OwnInv'
    BY <2>1, <2>2, <2>3, EnterKeepsOwner DEF DetachRead, AttachRead
  <2>4. ASSUME NEW s \in Sessions, update_plan_details(s) PROVE OwnInv'
    BY <2>4, IdleMinds, SameOwnersKeep DEF update_plan_details, Leave
  <2> QED BY <1>1, <2>3, <2>4 DEF EditPlan
<1>2. CASE Delete
  <2>1. /\ UNCHANGED <<seriesGroup, partners, sess>> /\ seriesGone \subseteq seriesGone'
    BY <1>2 DEF Delete, _soft_delete_plan_by_id, soft_delete_series_with_plan_detach
  <2> QED BY <2>1 DEF OwnInv, OwnerIsPartner, RemoveInv, MoveInv, LiveSeries
<1>3. ASSUME NEW s \in Sessions, NEW x \in Series, NEW g \in Groups, add_series_partner(s, x, g)
      PROVE  OwnInv'
  <2>1. UNCHANGED <<seriesGroup, seriesGone, sess>> /\ partners \subseteq partners'
    BY <1>3 DEF add_series_partner
  <2> QED BY <2>1 DEF OwnInv, OwnerIsPartner, RemoveInv, MoveInv, LiveSeries
<1>4. ASSUME NEW s \in Sessions, NEW x \in Series, NEW g \in Groups, RemovePartnerRead(s, x, g)
      PROVE  OwnInv'
  <2>1. Minds([Idle EXCEPT !.pc = "remove", !.c = x, !.to = g])
    BY <1>4 DEF Idle, Minds, RemovePartnerRead
  <2> QED BY <1>4, <2>1, EnterKeepsOwner DEF RemovePartnerRead
<1>5. ASSUME NEW s \in Sessions, remove_series_partner(s) PROVE OwnInv'
  <2>1. \A t \in Sessions : sess'[t] = Idle
    BY <1>5, Alone DEF remove_series_partner, Leave
  <2>2. sess[s].to # seriesGroup[sess[s].c]
    BY <1>5 DEF remove_series_partner, OwnInv, RemoveInv
  <2>3. /\ partners' = partners \ {<<sess[s].c, sess[s].to>>}
        /\ UNCHANGED <<seriesGroup, seriesGone>>
    BY <1>5 DEF remove_series_partner
  <2>4. OwnerIsPartner'
    BY <2>2, <2>3 DEF OwnInv, OwnerIsPartner, LiveSeries
  <2> QED BY <2>1, <2>4, IdleFact DEF OwnInv, RemoveInv, MoveInv
<1> QED BY <1>1, <1>2, <1>3, <1>4, <1>5 DEF EditPartners

\* With one handler at a time the group that owns a series stays one of its
\* partners, through any number of transfers, additions and removals.
THEOREM OwnerStaysPartner == ASSUME OneHandler PROVE Spec => []OwnerIsPartner
<1>1. Init => TInv /\ OwnInv
  BY InitTyped, IdleFact DEF Init, OwnInv, OwnerIsPartner, RemoveInv, MoveInv, LiveSeries
<1>2. TInv /\ OwnInv /\ [Next]_vars => TInv' /\ OwnInv'
  <2> SUFFICES ASSUME TInv, OwnInv, [Next]_vars PROVE OwnInv'
    BY StepTyped
  <2>1. ASSUME NEW t \in Transfers, Expire(t) PROVE OwnInv'
    BY <2>1 DEF Expire, content, OwnInv, OwnerIsPartner, RemoveInv, MoveInv, LiveSeries
  <2>2. ASSUME NEW s \in Sessions, Crash(s) PROVE OwnInv'
    BY <2>2, IdleMinds, SameOwnersKeep DEF Crash, content
  <2>3. CASE UNCHANGED vars
    BY <2>3 DEF vars, content, OwnInv, OwnerIsPartner, RemoveInv, MoveInv, LiveSeries
  <2> QED
    BY <2>1, <2>2, <2>3, RequestKeepsOwner, RespondKeepsOwner, SeriesKeepsOwner,
       CloneKeepsOwner, PlansAndPartnersKeepOwner DEF Next
<1>3. OwnInv => OwnerIsPartner
  BY DEF OwnInv
<1> QED BY <1>1, <1>2, <1>3, PTL DEF Spec

-----------------------------------------------------------------------------
(* StraysByTransferOrCopy.  A transfer of a plan moves the plan alone, that of *)
(* a series moves what it holds, an edit of a series takes in plans of its     *)
(* group only, and a clone copies plans it holds: each relies on what it has   *)
(* read, which Knows spells out.                                               *)

\* What the handler that carries r goes by still holds.
Knows(r) ==
  /\ r.pc = "answer" => Pending(r.t)
  /\ r.pc = "apply" => transfer[r.t].status = "ACCEPTED"
  /\ r.pc = "move" =>
       /\ r.t \in Transfers /\ transfer[r.t] # None
       /\ transfer[r.t].status = "ACCEPTED" /\ transfer[r.t].to = r.to
       /\ IF r.c \in Series THEN r.keep = {d \in {r.c} \cup Held(r.c) : GroupOf(d) # r.to}
                            ELSE r.keep \subseteq Plans \cap {transfer[r.t].content}
  /\ r.pc = "series" =>
       /\ r.to = None <=> seriesGroup[r.c] # None
       /\ \A p \in r.keep \cap Plans :
            \/ planSeries[p] = r.c
            \/ planGroup[p] = IF r.to = None THEN seriesGroup[r.c] ELSE r.to
  /\ r.pc = "clone" =>
       /\ r.c \in LiveSeries
       /\ \A p \in Plans : r.copies[p] # None =>
            p \in unused /\ \E q \in Held(r.c) : planGroup[q] = r.copies[p]
  /\ (r.pc = "attach" /\ r.to # None) => seriesGroup[r.to] = planGroup[r.c]

KnowsInv == \A s \in Sessions : Knows(sess[s])

\* A plan is in no series that nobody has created.
PlacedInv == \A p \in Plans : planSeries[p] # None => seriesGroup[planSeries[p]] # None

StrayInv == PlacedInv /\ KnowsInv

NoNewStray == \A p \in Plans : Strays(p)' => Strays(p)

\* Where a plan and its series are as they were, or the plan has left it, the
\* plan has not strayed anew.
LEMMA SamePlaceKeeps ==
  ASSUME StrayInv, UNCHANGED <<planGroup, seriesGroup>>,
         planGone \subseteq planGone', seriesGone \subseteq seriesGone',
         \A p \in Plans : planSeries'[p] \in {planSeries[p], None}
  PROVE  PlacedInv' /\ NoNewStray
<1>1. PlacedInv'
  BY DEF StrayInv, PlacedInv
<1>2. ASSUME NEW p \in Plans, Strays(p)' PROVE Strays(p)
  <2>1. p \in LivePlans /\ planSeries'[p] # None
    BY <1>2, Disjoint DEF Strays, LivePlans, LiveSeries
  <2>2. planSeries[p] = planSeries'[p]
    BY <2>1
  <2> QED BY <1>2, <2>1, <2>2 DEF Strays, LiveSeries
<1> QED BY <1>1, <1>2 DEF NoNewStray

LEMMA IdleKnows == Knows(Idle)
  BY IdleFact DEF Knows

\* The one handler has left.
LEMMA LeaveKnows ==
  ASSUME OneHandler, TInv, NEW s \in Sessions, sess' = [sess EXCEPT ![s] = Idle]
  PROVE  KnowsInv'
<1>1. \A t \in Sessions : sess'[t] = Idle
  BY Alone
<1> QED BY <1>1, IdleFact DEF KnowsInv, Knows

LEMMA EnterKeepsStray ==
  ASSUME OneHandler, TInv, StrayInv, NEW s \in Sessions, NEW r, Enter(s, r), Knows(r)
  PROVE  StrayInv' /\ NoNewStray
<1>1. /\ UNCHANGED <<planGroup, planSeries, planGone, unused, seriesGroup, seriesGone, transfer>>
      /\ sess' = [sess EXCEPT ![s] = r]
  BY DEF Enter, content
<1>2. \A t \in Sessions : sess'[t] = r
  BY <1>1, Alone
<1>3. KnowsInv'
  BY <1>1, <1>2 DEF KnowsInv, Knows, Pending, Held, LivePlans, LiveSeries, GroupOf
<1> QED BY <1>1, <1>3, SamePlaceKeeps DEF StrayInv

LEMMA RequestKeepsStray == ASSUME OneHandler, TInv, StrayInv, Request PROVE StrayInv' /\ NoNewStray
<1>1. ASSUME NEW s \in Sessions, NEW c \in Content, NEW g \in Groups, RequestRead(s, c, g)
      PROVE  StrayInv' /\ NoNewStray
  <2> DEFINE r == [Idle EXCEPT !.pc = "request", !.c = c, !.to = g]
  <2>1. r.pc = "request"
    BY DEF Idle
  <2>2. Enter(s, r)
    BY <1>1 DEF RequestRead
  <2> HIDE DEF r
  <2>3. Knows(r)
    BY <2>1 DEF Knows
  <2> QED BY <2>2, <2>3, EnterKeepsStray
<1>2. ASSUME NEW s \in Sessions, NEW t \in Transfers, create_transfer_request(s, t)
      PROVE  StrayInv' /\ NoNewStray
  <2>1. /\ UNCHANGED <<planGroup, planSeries, planGone, unused, seriesGroup, seriesGone>>
        /\ sess' = [sess EXCEPT ![s] = Idle]
    BY <1>2 DEF create_transfer_request, Leave, content
  <2> QED BY <2>1, SamePlaceKeeps, LeaveKnows DEF StrayInv
<1> QED BY <1>1, <1>2 DEF Request

LEMMA SaveKeepsStray ==
  ASSUME OneHandler, TInv, StrayInv, NEW s \in Sessions, save_transfer(s) PROVE StrayInv' /\ NoNewStray
<1> DEFINE t == sess[s].t
           new == [transfer[t] EXCEPT !.status = sess[s].answer]
<1>1. /\ t \in Transfers /\ transfer[t] # None /\ transfer[t].status = "PENDING"
      /\ UNCHANGED <<planGroup, planSeries, planGone, unused, seriesGroup, seriesGone>>
  BY DEF save_transfer, TInv, AnswerInv, StrayInv, KnowsInv, Knows, Pending, content
<1>2. transfer' = [transfer EXCEPT ![t] = new]
  BY DEF save_transfer
<1>3. transfer[t] \in Transfer
  BY <1>1 DEF TInv, TypeOK
<1>4. new.status = sess[s].answer
  BY <1>3 DEF Transfer
<1> HIDE DEF new
<1>5. transfer'[t].status = sess[s].answer
  BY <1>1, <1>2, <1>4 DEF TInv, TypeOK
<1>6. KnowsInv'
  <2>1. CASE sess[s].answer = "ACCEPTED"
    <3> DEFINE r == [sess[s] EXCEPT !.pc = "apply"]
    <3>1. sess' = [sess EXCEPT ![s] = r] /\ r.pc = "apply" /\ r.t = t
      BY <2>1 DEF save_transfer, TInv, TypeOK, Session
    <3> HIDE DEF r
    <3>2. \A u \in Sessions : sess'[u] = r
      BY <3>1, Alone
    <3> QED BY <1>5, <2>1, <3>1, <3>2 DEF KnowsInv, Knows
  <2>2. CASE sess[s].answer # "ACCEPTED"
    BY <2>2, LeaveKnows DEF save_transfer, Leave
  <2> QED BY <2>1, <2>2
<1> QED BY <1>1, <1>6, SamePlaceKeeps DEF StrayInv

LEMMA LoadKeepsStray ==
  ASSUME OneHandler, TInv, StrayInv, NEW s \in Sessions, ApplyLoad(s) PROVE StrayInv' /\ NoNewStray
<1> DEFINE t == sess[s].t
           c == transfer[t].content
           to == transfer[t].to
           loaded == IF c \in Plans THEN {c} ELSE IF c \in LiveSeries THEN {c} \cup Held(c) ELSE {}
           b == IF loaded = {} THEN None ELSE c
           keep == {d \in loaded : GroupOf(d) # to}
           r == [sess[s] EXCEPT !.pc = "move", !.to = to, !.c = b, !.keep = keep]
<1>1. /\ t \in Transfers /\ transfer[t] # None /\ transfer[t].status = "ACCEPTED"
      /\ UNCHANGED <<planGroup, planSeries, planGone, unused, seriesGroup, seriesGone, transfer>>
  BY DEF ApplyLoad, TInv, AnswerInv, StrayInv, KnowsInv, Knows, content
<1>2. IF b \in Series THEN keep = {d \in {b} \cup Held(b) : GroupOf(d) # to}
                      ELSE keep \subseteq Plans \cap {c}
  BY Disjoint DEF LiveSeries
<1>3. sess' = [sess EXCEPT ![s].pc = "move", ![s].to = to, ![s].c = b, ![s].keep = keep]
  BY DEF ApplyLoad
<1> HIDE DEF b, keep, to
<1>4. /\ sess' = [sess EXCEPT ![s] = r]
      /\ r.pc = "move" /\ r.t = t /\ r.to = to /\ r.c = b /\ r.keep = keep
  BY <1>3 DEF TInv, TypeOK, Session
<1> HIDE DEF r
<1>5. \A u \in Sessions : sess'[u] = r
  BY <1>4, Alone
<1>6. Knows(r)
  BY <1>1, <1>2, <1>4 DEF Knows, to
<1>7. KnowsInv'
  BY <1>1, <1>5, <1>6 DEF KnowsInv, Knows, Pending, Held, LivePlans, LiveSeries, GroupOf
<1> QED BY <1>1, <1>7, SamePlaceKeeps DEF StrayInv

LEMMA ApplyKeepsStray ==
  ASSUME OneHandler, TInv, StrayInv, NEW s \in Sessions, _apply_transfer_accept(s)
  PROVE  StrayInv' /\ \A p \in Plans : Strays(p)' => Strays(p) \/ MovesAlone(p)
<1> DEFINE h == sess[s]
           moved == h.keep
           to == h.to
<1>1. /\ h.pc = "move" /\ to \in Groups
      /\ planGroup' = [p \in Plans |-> IF p \in moved THEN to ELSE planGroup[p]]
      /\ seriesGroup' = [x \in Series |-> IF x \in moved THEN to ELSE seriesGroup[x]]
      /\ sess' = [sess EXCEPT ![s] = Idle]
      /\ UNCHANGED <<planSeries, planGone, unused, seriesGone, transfer>>
  BY DEF _apply_transfer_accept, Leave, TInv, CarriesInv
<1>2. Knows(h)
  BY DEF StrayInv, KnowsInv
<1>3. PlacedInv'
  BY <1>1, Disjoint DEF StrayInv, PlacedInv, TInv, TypeOK
<1>4. LivePlans' = LivePlans
  BY <1>1 DEF LivePlans
<1>5. \A x \in Series : x \in LiveSeries' => x \in LiveSeries \/ x \in moved
  BY <1>1, Disjoint DEF LiveSeries
<1>6. ASSUME NEW p \in Plans, Strays(p)' PROVE Strays(p) \/ MovesAlone(p)
  <2> DEFINE x == planSeries[p]
  <2>1. /\ p \in LivePlans /\ x \in LiveSeries' /\ planGroup'[p] # seriesGroup'[x]
        /\ x \in Series /\ p \notin Series /\ x \notin Plans
    BY <1>1, <1>4, <1>6, Disjoint DEF Strays, LiveSeries
  <2>2. planGroup'[p] = IF p \in moved THEN to ELSE planGroup[p]
    BY <1>1
  <2>3. seriesGroup'[x] = IF x \in moved THEN to ELSE seriesGroup[x]
    BY <1>1, <2>1
  <2>4. CASE h.c \in Series
    <3>1. moved = {d \in {h.c} \cup Held(h.c) : GroupOf(d) # to}
      BY <1>1, <1>2, <2>4 DEF Knows
    <3>2. x # h.c
      <4> SUFFICES ASSUME x = h.c PROVE FALSE
        OBVIOUS
      <4>1. p \in Held(h.c)
        BY <2>1 DEF Held
      <4>2. planGroup'[p] = to
        BY <2>1, <2>2, <3>1, <4>1 DEF GroupOf
      <4>3. seriesGroup'[x] = to
        BY <2>1, <2>3, <3>1 DEF GroupOf
      <4> QED BY <2>1, <4>2, <4>3
    <3>3. p \notin moved /\ x \notin moved
      BY <2>1, <2>4, <3>1, <3>2, Disjoint DEF Held, LivePlans
    <3> QED BY <1>5, <2>1, <2>2, <2>3, <3>3 DEF Strays
  <2>5. CASE h.c \notin Series
    <3>1. moved \subseteq Plans \cap {transfer[h.t].content}
      BY <1>1, <1>2, <2>5 DEF Knows
    <3>2. CASE p \in moved
      <4>1. /\ transfer[h.t].content = p /\ transfer[h.t].status = "ACCEPTED"
            /\ transfer[h.t] # None /\ h.t # None
        BY <1>1, <1>2, <3>1, <3>2, Disjoint DEF Knows
      <4> QED BY <1>1, <4>1 DEF MovesAlone
    <3>3. CASE p \notin moved
      BY <1>5, <2>1, <2>2, <2>3, <3>1, <3>3 DEF Strays
    <3> QED BY <3>2, <3>3
  <2> QED BY <2>4, <2>5
<1> QED BY <1>1, <1>3, <1>6, LeaveKnows DEF StrayInv

LEMMA RespondKeepsStray ==
  ASSUME OneHandler, TInv, StrayInv, Respond
  PROVE  StrayInv' /\ \A p \in Plans : Strays(p)' => Strays(p) \/ MovesAlone(p)
<1>1. ASSUME NEW s \in Sessions, NEW t \in Transfers, NEW a, Pending(t), Answer(s, t, a)
      PROVE  StrayInv' /\ NoNewStray
  <2> DEFINE r == [Idle EXCEPT !.pc = "answer", !.t = t, !.answer = a]
  <2>1. r.pc = "answer" /\ r.t = t
    BY DEF Idle
  <2>2. Enter(s, r)
    BY <1>1 DEF Answer
  <2> HIDE DEF r
  <2>3. Knows(r)
    BY <1>1, <2>1 DEF Knows
  <2> QED BY <2>2, <2>3, EnterKeepsStray
<1>2. ASSUME NEW s \in Sessions, NEW t \in Transfers,
             \/ accept_transfer_request(s, t) \/ reject_transfer_request(s, t)
             \/ revoke_transfer_request(s, t)
      PROVE  StrayInv' /\ NoNewStray
  <2>1. \E a \in TransferStatus : Pending(t) /\ Answer(s, t, a)
    BY <1>2 DEF accept_transfer_request, reject_transfer_request, revoke_transfer_request,
                TransferStatus
  <2> QED BY <1>1, <2>1
<1> QED BY <1>2, SaveKeepsStray, LoadKeepsStray, ApplyKeepsStray DEF Respond, NoNewStray

\* A series is created, or its plans replaced.
LEMMA SeriesKeepsStray == ASSUME OneHandler, TInv, StrayInv, EditSeries PROVE StrayInv' /\ NoNewStray
<1>1. ASSUME NEW s \in Sessions, NEW x \in Series, NEW g \in Groups, NEW ps \in SUBSET Plans,
             create_new_series(s, x, g, ps)
      PROVE  StrayInv' /\ NoNewStray
  <2> DEFINE r == [Idle EXCEPT !.pc = "series", !.c = x, !.to = g, !.keep = ps]
  <2>1. r.pc = "series" /\ r.c = x /\ r.to = g /\ r.keep = ps /\ g # None
    BY Disjoint DEF Idle
  <2>2. Enter(s, r) /\ seriesGroup[x] = None /\ _validate_plan_ids(ps, x, g)
    BY <1>1 DEF create_new_series
  <2> HIDE DEF r
  <2>3. Knows(r)
    BY <2>1, <2>2 DEF Knows, _validate_plan_ids
  <2> QED BY <2>2, <2>3, EnterKeepsStray
<1>2. ASSUME NEW s \in Sessions, NEW x \in Series, NEW ps \in SUBSET Plans,
             update_existing_series(s, x, ps)
      PROVE  StrayInv' /\ NoNewStray
  <2> DEFINE qs == Held(x) \ ps
             r == [Idle EXCEPT !.pc = "series", !.c = x, !.keep = ps, !.drop = qs]
  <2>1. r.pc = "series" /\ r.c = x /\ r.to = None /\ r.keep = ps
    BY DEF Idle
  <2>2. Enter(s, r) /\ x \in LiveSeries /\ _validate_plan_ids(ps, x, seriesGroup[x])
    BY <1>2 DEF update_existing_series
  <2> HIDE DEF r
  <2>3. Knows(r)
    BY <2>1, <2>2 DEF Knows, _validate_plan_ids, LiveSeries
  <2> QED BY <2>2, <2>3, EnterKeepsStray
<1>3. ASSUME NEW s \in Sessions, SaveSeriesWithPlans(s) PROVE StrayInv' /\ NoNewStray
  <2> DEFINE h == sess[s]
             x == h.c
             g == IF h.to = None THEN seriesGroup[x] ELSE h.to
  <2>1. /\ h.pc = "series" /\ sess' = [sess EXCEPT ![s] = Idle]
        /\ planSeries' = [p \in Plans |-> IF p \in h.keep THEN x
                                          ELSE IF p \in h.drop THEN None ELSE planSeries[p]]
        /\ UNCHANGED <<planGroup, planGone, unused, seriesGone, transfer>>
    BY <1>3 DEF SaveSeriesWithPlans, Leave
  <2>2. /\ x \in Series
        /\ h.to = None <=> seriesGroup[x] # None
        /\ \A p \in h.keep \cap Plans : planSeries[p] = x \/ planGroup[p] = g
    BY <2>1 DEF StrayInv, KnowsInv, Knows, TInv, CarriesInv
  <2>3. /\ g # None
        /\ \A y \in Series : seriesGroup'[y] = IF y = x THEN g ELSE seriesGroup[y]
    BY <1>3, <2>2 DEF SaveSeriesWithPlans, TInv, TypeOK
  <2> HIDE DEF g
  <2>4. \A p \in Plans : planSeries'[p] \in Series \cup {None}
    BY <2>1, <2>2 DEF TInv, TypeOK
  <2>5. PlacedInv'
    BY <2>1, <2>2, <2>3, <2>4 DEF StrayInv, PlacedInv, TInv, TypeOK
  <2>6. LivePlans' = LivePlans
    BY <2>1 DEF LivePlans
  <2>7. ASSUME NEW p \in Plans, Strays(p)' PROVE Strays(p)
    <3> DEFINE y == planSeries'[p]
    <3>1. /\ p \in LivePlans /\ y \in LiveSeries' /\ planGroup[p] # seriesGroup'[y]
          /\ y \in Series /\ y # None
      BY <2>1, <2>6, <2>7, Disjoint DEF Strays, LiveSeries
    <3>2. planSeries[p] = y
      <4>1. CASE p \in h.keep
        BY <2>1, <2>2, <2>3, <3>1, <4>1
      <4>2. CASE p \notin h.keep
        BY <2>1, <3>1, <4>2
      <4> QED BY <4>1, <4>2
    <3>3. seriesGroup[y] # None /\ y \in LiveSeries
      BY <2>1, <3>1, <3>2 DEF StrayInv, PlacedInv, LiveSeries
    <3>4. seriesGroup'[y] = seriesGroup[y]
      BY <2>2, <2>3, <3>1, <3>3 DEF g
    <3> QED BY <3>1, <3>2, <3>3, <3>4 DEF Strays
  <2> QED BY <2>1, <2>5, <2>7, LeaveKnows DEF StrayInv, NoNewStray
<1> QED BY <1>1, <1>2, <1>3 DEF EditSeries

LEMMA PlanKeepsStray == ASSUME OneHandler, TInv, StrayInv, EditPlan PROVE StrayInv' /\ NoNewStray
<1>1. ASSUME NEW s \in Sessions, NEW p \in Plans, DetachRead(s, p) PROVE StrayInv' /\ NoNewStray
  <2> DEFINE r == [Idle EXCEPT !.pc = "attach", !.c = p]
  <2>1. r.pc = "attach" /\ r.to = None
    BY DEF Idle
  <2>2. Enter(s, r)
    BY <1>1 DEF DetachRead
  <2> HIDE DEF r
  <2>3. Knows(r)
    BY <2>1 DEF Knows
  <2> QED BY <2>2, <2>3, EnterKeepsStray
<1>2. ASSUME NEW s \in Sessions, NEW p \in Plans, NEW x \in Series, AttachRead(s, p, x)
      PROVE  StrayInv' /\ NoNewStray
  <2> DEFINE r == [Idle EXCEPT !.pc = "attach", !.c = p, !.to = x]
  <2>1. r.pc = "attach" /\ r.to = x /\ r.c = p
    BY DEF Idle
  <2>2. Enter(s, r) /\ seriesGroup[x] = planGroup[p]
    BY <1>2 DEF AttachRead
  <2> HIDE DEF r
  <2>3. Knows(r)
    BY <2>1, <2>2 DEF Knows
  <2> QED BY <2>2, <2>3, EnterKeepsStray
<1>3. ASSUME NEW s \in Sessions, update_plan_details(s) PROVE StrayInv' /\ NoNewStray
  <2> DEFINE q == sess[s].c
             x == sess[s].to
  <2>1. /\ q \in Plans /\ x \in Series \cup {None}
        /\ x # None => seriesGroup[x] = planGroup[q]
        /\ planSeries' = [planSeries EXCEPT ![q] = x]
        /\ sess' = [sess EXCEPT ![s] = Idle]
        /\ UNCHANGED <<planGroup, planGone, unused, seriesGroup, seriesGone, transfer>>
    BY <1>3 DEF update_plan_details, Leave, TInv, CarriesInv, StrayInv, KnowsInv, Knows
  <2> HIDE DEF q, x
  <2>2. \A p \in Plans : planSeries'[p] = IF p = q THEN x ELSE planSeries[p]
    BY <2>1 DEF TInv, TypeOK
  <2>3. planGroup[q] # None
    BY <2>1, Disjoint DEF TInv, TypeOK
  <2>4. PlacedInv'
    BY <2>1, <2>2, <2>3 DEF StrayInv, PlacedInv
  <2>5. ASSUME NEW p \in Plans, Strays(p)' PROVE Strays(p)
    <3>1. /\ p \in LivePlans /\ planSeries'[p] \in LiveSeries /\ planSeries'[p] # None
          /\ planGroup[p] # seriesGroup[planSeries'[p]]
      BY <2>1, <2>5, Disjoint DEF Strays, LivePlans, LiveSeries
    <3>2. p # q
      BY <2>1, <2>2, <3>1
    <3> QED BY <2>2, <3>1, <3>2 DEF Strays
  <2> QED BY <2>1, <2>4, <2>5, LeaveKnows DEF StrayInv, NoNewStray
<1> QED BY <1>1, <1>2, <1>3 DEF EditPlan

\* A copy strays as its source does.
LEMMA CloneKeepsStray ==
  ASSUME OneHandler, TInv, StrayInv, Clone
  PROVE  StrayInv' /\ \A p \in Plans : Strays(p)' => Strays(p) \/ CopiesStray(p)
<1>1. ASSUME NEW s \in Sessions, NEW x \in Series, NEW new \in SUBSET Plans,
             NEW source \in [new -> Plans], CloneRead(s, x, new, source)
      PROVE  StrayInv' /\ NoNewStray
  <2>1. PICK r \in Session :
           /\ Enter(s, r) /\ r.pc = "clone" /\ r.c = x /\ x \in LiveSeries
           /\ \A p \in Plans : r.copies[p] # None =>
                p \in unused /\ \E q \in Held(x) : planGroup[q] = r.copies[p]
    BY <1>1, CloneEnters
  <2>2. Knows(r)
    BY <2>1 DEF Knows
  <2> QED BY <2>1, <2>2, EnterKeepsStray
<1>2. ASSUME NEW s \in Sessions, clone_series_plans_for_language(s)
      PROVE  StrayInv' /\ \A p \in Plans : Strays(p)' => Strays(p) \/ CopiesStray(p)
  <2>1. PICK x, copies : x = sess[s].c /\ copies = sess[s].copies
    OBVIOUS
  <2> DEFINE new == {p \in Plans : copies[p] # None}
  <2>2. /\ planGroup' = [p \in Plans |-> IF p \in new THEN copies[p] ELSE planGroup[p]]
        /\ planSeries' = [p \in Plans |-> IF p \in new THEN x ELSE planSeries[p]]
        /\ planGone' = planGone \ new
        /\ UNCHANGED <<seriesGroup, seriesGone, transfer>>
        /\ sess' = [sess EXCEPT ![s] = Idle]
    BY <1>2, <2>1 DEF clone_series_plans_for_language, Leave
  <2>3. /\ x \in LiveSeries
        /\ \A p \in new : p \in unused /\ \E q \in Held(x) : planGroup[q] = copies[p]
    BY <1>2, <2>1 DEF clone_series_plans_for_language, StrayInv, KnowsInv, Knows
  <2> HIDE DEF new
  <2>4. PlacedInv'
    BY <2>2, <2>3 DEF StrayInv, PlacedInv, LiveSeries
  <2>5. LiveSeries' = LiveSeries
    BY <2>2 DEF LiveSeries
  <2>6. ASSUME NEW p \in Plans, Strays(p)' PROVE Strays(p) \/ CopiesStray(p)
    <3>1. CASE p \in new
      <4>1. planSeries'[p] = x /\ planGroup'[p] = copies[p] /\ planGroup'[p] # seriesGroup[x]
        BY <2>2, <2>6, <3>1 DEF Strays
      <4>2. PICK q \in Held(x) : planGroup[q] = copies[p]
        BY <2>3, <3>1
      <4>3. q \in Plans /\ Strays(q) /\ planSeries[q] = x
        BY <2>3, <4>1, <4>2 DEF Held, LivePlans, Strays
      <4> QED BY <2>3, <3>1, <4>1, <4>2, <4>3 DEF CopiesStray
    <3>2. CASE p \notin new
      BY <2>2, <2>5, <2>6, <3>2 DEF Strays, LivePlans
    <3> QED BY <3>1, <3>2
  <2> QED BY <2>2, <2>4, <2>6, LeaveKnows DEF StrayInv
<1> QED BY <1>1, <1>2 DEF Clone, NoNewStray

\* Deleting a plan or a series needs a session that runs no handler, and with one
\* handler there is then none to know anything.
LEMMA DeleteKeepsStray == ASSUME OneHandler, TInv, StrayInv, Delete PROVE StrayInv' /\ NoNewStray
<1>1. /\ \A s \in Sessions : sess[s].pc = "idle"
      /\ UNCHANGED <<planGroup, seriesGroup, transfer, sess>>
      /\ planGone \subseteq planGone' /\ seriesGone \subseteq seriesGone'
  BY DEF Delete, _soft_delete_plan_by_id, soft_delete_series_with_plan_detach, OneHandler
<1>2. \A p \in Plans : planSeries'[p] \in {planSeries[p], None}
  BY DEF Delete, _soft_delete_plan_by_id, soft_delete_series_with_plan_detach
<1>3. KnowsInv'
  BY <1>1 DEF KnowsInv, Knows
<1> QED BY <1>1, <1>2, <1>3, SamePlaceKeeps DEF StrayInv

LEMMA PartnersKeepStray == ASSUME OneHandler, TInv, StrayInv, EditPartners PROVE StrayInv' /\ NoNewStray
<1>1. ASSUME NEW s \in Sessions, NEW x \in Series, NEW g \in Groups, add_series_partner(s, x, g)
      PROVE  StrayInv' /\ NoNewStray
  <2>1. UNCHANGED <<planGroup, planSeries, planGone, unused, seriesGroup, seriesGone, transfer, sess>>
    BY <1>1 DEF add_series_partner
  <2>2. KnowsInv'
    BY <2>1 DEF StrayInv, KnowsInv, Knows, Pending, Held, LivePlans, LiveSeries, GroupOf
  <2> QED BY <2>1, <2>2, SamePlaceKeeps DEF StrayInv
<1>2. ASSUME NEW s \in Sessions, NEW x \in Series, NEW g \in Groups, RemovePartnerRead(s, x, g)
      PROVE  StrayInv' /\ NoNewStray
  <2> DEFINE r == [Idle EXCEPT !.pc = "remove", !.c = x, !.to = g]
  <2>1. r.pc = "remove"
    BY DEF Idle
  <2>2. Enter(s, r)
    BY <1>2 DEF RemovePartnerRead
  <2> HIDE DEF r
  <2>3. Knows(r)
    BY <2>1 DEF Knows
  <2> QED BY <2>2, <2>3, EnterKeepsStray
<1>3. ASSUME NEW s \in Sessions, remove_series_partner(s) PROVE StrayInv' /\ NoNewStray
  <2>1. /\ UNCHANGED <<planGroup, planSeries, planGone, unused, seriesGroup, seriesGone, transfer>>
        /\ sess' = [sess EXCEPT ![s] = Idle]
    BY <1>3 DEF remove_series_partner, Leave
  <2> QED BY <2>1, LeaveKnows, SamePlaceKeeps DEF StrayInv
<1> QED BY <1>1, <1>2, <1>3 DEF EditPartners

LEMMA StepKeepsStray ==
  ASSUME OneHandler, TInv, StrayInv, [Next]_vars
  PROVE  /\ StrayInv'
         /\ \A p \in Plans : Strays(p)' => Strays(p) \/ MovesAlone(p) \/ CopiesStray(p)
<1>1. ASSUME NEW s \in Sessions, Crash(s) PROVE StrayInv' /\ NoNewStray
  <2>1. /\ UNCHANGED <<planGroup, planSeries, planGone, unused, seriesGroup, seriesGone, transfer>>
        /\ sess' = [sess EXCEPT ![s] = Idle]
    BY <1>1 DEF Crash, content
  <2> QED BY <2>1, LeaveKnows, SamePlaceKeeps DEF StrayInv
<1>2. ASSUME UNCHANGED vars \/ \E t \in Transfers : Expire(t) PROVE StrayInv' /\ NoNewStray
  <2>1. UNCHANGED <<planGroup, planSeries, planGone, unused, seriesGroup, seriesGone, transfer, sess>>
    BY <1>2 DEF vars, content, Expire
  <2>2. KnowsInv'
    BY <2>1 DEF StrayInv, KnowsInv, Knows, Pending, Held, LivePlans, LiveSeries, GroupOf
  <2> QED BY <2>1, <2>2, SamePlaceKeeps DEF StrayInv
<1> QED
  BY <1>1, <1>2, RequestKeepsStray, RespondKeepsStray, SeriesKeepsStray, CloneKeepsStray,
     PlanKeepsStray, DeleteKeepsStray, PartnersKeepStray
  DEF Next, NoNewStray

-----------------------------------------------------------------------------
(* ImplementsCustody.  What a handler has read is what it will change, and a *)
(* live plan is in no deleted series: a transfer moves what custody says.    *)

\* What the handler that carries r has read is still there.
Sees(r) ==
  /\ r.pc = "request" =>
       /\ r.c \in LivePlans \cup LiveSeries /\ GroupOf(r.c) # r.to
       /\ r.c \in Plans => planSeries[r.c] = None
  /\ r.pc = "series" => r.c \notin seriesGone
  /\ (r.pc = "attach" /\ r.to # None) => r.to \in LiveSeries
  /\ r.pc = "move" =>
       IF r.c \in Series
       THEN r.c = transfer[r.t].content /\ r.c \in LiveSeries
       ELSE /\ transfer[r.t].content \notin LiveSeries
            /\ r.keep = {d \in Plans \cap {transfer[r.t].content} : planGroup[d] # r.to}

SeesInv == \A s \in Sessions : Sees(sess[s])

HeldInv == \A p \in LivePlans : planSeries[p] # None => planSeries[p] \in LiveSeries
GoneInv == \A x \in seriesGone : seriesGroup[x] # None

PlaceInv == HeldInv /\ GoneInv /\ SeesInv

LEMMA EnterKeepsPlace ==
  ASSUME OneHandler, TInv, PlaceInv, NEW s \in Sessions, NEW r, Enter(s, r), Sees(r)
  PROVE  PlaceInv'
<1>1. /\ UNCHANGED <<planGroup, planSeries, planGone, unused, seriesGroup, seriesGone, transfer>>
      /\ sess' = [sess EXCEPT ![s] = r]
  BY DEF Enter, content
<1>2. \A t \in Sessions : sess'[t] = r
  BY <1>1, Alone
<1>3. SeesInv'
  BY <1>1, <1>2 DEF SeesInv, Sees, LivePlans, LiveSeries, GroupOf
<1>4. HeldInv' /\ GoneInv'
  BY <1>1 DEF PlaceInv, HeldInv, GoneInv, LivePlans, LiveSeries
<1> QED BY <1>3, <1>4 DEF PlaceInv

LEMMA LeaveSees ==
  ASSUME OneHandler, TInv, NEW s \in Sessions, sess' = [sess EXCEPT ![s] = Idle]
  PROVE  SeesInv'
<1>1. \A t \in Sessions : sess'[t] = Idle
  BY Alone
<1> QED BY <1>1, IdleFact DEF SeesInv, Sees

\* A handler leaves, and the content is what it was.
LEMMA LeaveKeepsPlace ==
  ASSUME OneHandler, TInv, PlaceInv, NEW s \in Sessions, sess' = [sess EXCEPT ![s] = Idle],
         UNCHANGED <<planSeries, planGone, unused, seriesGroup, seriesGone>>
  PROVE  PlaceInv'
<1>1. HeldInv' /\ GoneInv'
  BY DEF PlaceInv, HeldInv, GoneInv, LivePlans, LiveSeries
<1> QED BY <1>1, LeaveSees DEF PlaceInv

LEMMA TransfersKeepPlace ==
  ASSUME OneHandler, TInv, PlaceInv, StrayInv, Request \/ Respond PROVE PlaceInv'
<1>1. ASSUME NEW s \in Sessions, NEW c \in Content, NEW g \in Groups, RequestRead(s, c, g)
      PROVE  PlaceInv'
  <2> DEFINE r == [Idle EXCEPT !.pc = "request", !.c = c, !.to = g]
  <2>1. r.pc = "request" /\ r.c = c /\ r.to = g
    BY DEF Idle
  <2>2. Enter(s, r)
    BY <1>1 DEF RequestRead
  <2> HIDE DEF r
  <2>3. Sees(r)
    BY <1>1, <2>1 DEF RequestRead, Sees
  <2> QED BY <2>2, <2>3, EnterKeepsPlace
<1>2. ASSUME NEW s \in Sessions, NEW t \in Transfers, create_transfer_request(s, t)
      PROVE  PlaceInv'
  BY <1>2, LeaveKeepsPlace DEF create_transfer_request, Leave, content
<1>3. ASSUME NEW s \in Sessions, NEW t \in Transfers, NEW a, Answer(s, t, a) PROVE PlaceInv'
  <2> DEFINE r == [Idle EXCEPT !.pc = "answer", !.t = t, !.answer = a]
  <2>1. r.pc = "answer"
    BY DEF Idle
  <2>2. Enter(s, r)
    BY <1>3 DEF Answer
  <2> HIDE DEF r
  <2>3. Sees(r)
    BY <2>1 DEF Sees
  <2> QED BY <2>2, <2>3, EnterKeepsPlace
<1>4. ASSUME NEW s \in Sessions, save_transfer(s) PROVE PlaceInv'
  <2>1. CASE sess[s].answer = "ACCEPTED"
    <3> DEFINE r == [sess[s] EXCEPT !.pc = "apply"]
    <3>1. sess' = [sess EXCEPT ![s] = r] /\ r.pc = "apply"
      BY <1>4, <2>1 DEF save_transfer, TInv, TypeOK, Session
    <3> HIDE DEF r
    <3>2. \A u \in Sessions : sess'[u] = r
      BY <3>1, Alone
    <3>3. SeesInv'
      BY <3>1, <3>2 DEF SeesInv, Sees
    <3>4. HeldInv' /\ GoneInv'
      BY <1>4 DEF save_transfer, content, PlaceInv, HeldInv, GoneInv, LivePlans, LiveSeries
    <3> QED BY <3>3, <3>4 DEF PlaceInv
  <2>2. CASE sess[s].answer # "ACCEPTED"
    BY <1>4, <2>2, LeaveKeepsPlace DEF save_transfer, Leave, content
  <2> QED BY <2>1, <2>2
<1>5. ASSUME NEW s \in Sessions, ApplyLoad(s) PROVE PlaceInv'
  <2> DEFINE c == transfer[sess[s].t].content
             to == transfer[sess[s].t].to
             loaded == IF c \in Plans THEN {c}
                       ELSE IF c \in LiveSeries THEN {c} \cup Held(c) ELSE {}
             b == IF loaded = {} THEN None ELSE c
             keep == {d \in loaded : GroupOf(d) # to}
             r == [sess[s] EXCEPT !.pc = "move", !.to = to, !.c = b, !.keep = keep]
  <2>1. UNCHANGED <<planGroup, planSeries, planGone, unused, seriesGroup, seriesGone, transfer>>
    BY <1>5 DEF ApplyLoad, content
  <2>2. c \in Content
    BY <1>5 DEF ApplyLoad, TInv, AnswerInv, TypeOK, Transfer
  <2>3. IF b \in Series THEN b = c /\ c \in LiveSeries
        ELSE c \notin LiveSeries /\ keep = {d \in Plans \cap {c} : planGroup[d] # to}
    <3>1. CASE c \in Plans
      BY <3>1, Disjoint DEF LiveSeries, GroupOf
    <3>2. CASE c \notin Plans /\ c \in LiveSeries
      BY <3>2 DEF LiveSeries
    <3>3. CASE c \notin Plans /\ c \notin LiveSeries
      BY <3>3, Disjoint
    <3> QED BY <3>1, <3>2, <3>3
  <2>4. sess' = [sess EXCEPT ![s].pc = "move", ![s].to = to, ![s].c = b, ![s].keep = keep]
    BY <1>5 DEF ApplyLoad
  <2> HIDE DEF b, keep, to
  <2>5. /\ sess' = [sess EXCEPT ![s] = r] /\ r.pc = "move"
        /\ r.t = sess[s].t /\ r.to = to /\ r.c = b /\ r.keep = keep
    BY <2>4 DEF TInv, TypeOK, Session
  <2> HIDE DEF r
  <2>6. \A u \in Sessions : sess'[u] = r
    BY <2>5, Alone
  <2>7. SeesInv'
    BY <2>1, <2>3, <2>5, <2>6 DEF SeesInv, Sees, LivePlans, LiveSeries, GroupOf
  <2>8. HeldInv' /\ GoneInv'
    BY <2>1 DEF PlaceInv, HeldInv, GoneInv, LivePlans, LiveSeries
  <2> QED BY <2>7, <2>8 DEF PlaceInv
<1>6. ASSUME NEW s \in Sessions, _apply_transfer_accept(s) PROVE PlaceInv'
  <2>1. /\ sess[s].to \in Groups /\ sess' = [sess EXCEPT ![s] = Idle]
        /\ seriesGroup' = [x \in Series |-> IF x \in sess[s].keep THEN sess[s].to
                                            ELSE seriesGroup[x]]
        /\ UNCHANGED <<planSeries, planGone, unused, seriesGone>>
    BY <1>6 DEF _apply_transfer_accept, Leave, TInv, CarriesInv
  <2>2. \A x \in Series : seriesGroup[x] # None => seriesGroup'[x] # None
    BY <2>1, Disjoint
  <2>3. HeldInv' /\ GoneInv'
    BY <2>1, <2>2 DEF PlaceInv, HeldInv, GoneInv, LivePlans, LiveSeries, TInv, TypeOK
  <2> QED BY <2>1, <2>3, LeaveSees DEF PlaceInv
<1> QED
  BY <1>1, <1>2, <1>3, <1>4, <1>5, <1>6
  DEF Request, Respond, accept_transfer_request, reject_transfer_request, revoke_transfer_request

LEMMA EditsKeepPlace ==
  ASSUME OneHandler, TInv, PlaceInv, StrayInv, EditSeries \/ EditPlan \/ Delete \/ EditPartners
  PROVE  PlaceInv'
<1>1. ASSUME NEW s \in Sessions, NEW r, Enter(s, r),
             r.pc \notin {"request", "move"},
             r.pc = "series" => r.c \notin seriesGone,
             (r.pc = "attach" /\ r.to # None) => r.to \in LiveSeries
      PROVE  PlaceInv'
  BY <1>1, EnterKeepsPlace DEF Sees
<1>2. ASSUME NEW s \in Sessions, NEW x \in Series, NEW ps \in SUBSET Plans,
             \/ update_existing_series(s, x, ps)
             \/ \E g \in Groups : create_new_series(s, x, g, ps)
      PROVE  PlaceInv'
  <2>1. CASE update_existing_series(s, x, ps)
    <3> DEFINE r == [Idle EXCEPT !.pc = "series", !.c = x, !.keep = ps, !.drop = Held(x) \ ps]
    <3>1. r.pc = "series" /\ r.c = x
      BY DEF Idle
    <3>2. Enter(s, r) /\ x \notin seriesGone
      BY <2>1 DEF update_existing_series, LiveSeries
    <3> HIDE DEF r
    <3> QED BY <1>1, <3>1, <3>2
  <2>2. ASSUME NEW g \in Groups, create_new_series(s, x, g, ps) PROVE PlaceInv'
    <3> DEFINE r == [Idle EXCEPT !.pc = "series", !.c = x, !.to = g, !.keep = ps]
    <3>1. r.pc = "series" /\ r.c = x
      BY DEF Idle
    <3>2. Enter(s, r) /\ x \notin seriesGone
      BY <2>2 DEF create_new_series, PlaceInv, GoneInv
    <3> HIDE DEF r
    <3> QED BY <1>1, <3>1, <3>2
  <2> QED BY <1>2, <2>1, <2>2
<1>3. ASSUME NEW s \in Sessions, SaveSeriesWithPlans(s) PROVE PlaceInv'
  <2> DEFINE h == sess[s]
             x == h.c
             g == IF h.to = None THEN seriesGroup[x] ELSE h.to
  <2>1. /\ h.pc = "series" /\ sess' = [sess EXCEPT ![s] = Idle]
        /\ planSeries' = [p \in Plans |-> IF p \in h.keep THEN x
                                          ELSE IF p \in h.drop THEN None ELSE planSeries[p]]
        /\ UNCHANGED <<planGroup, planGone, unused, seriesGone, transfer>>
    BY <1>3 DEF SaveSeriesWithPlans, Leave
  <2>2. /\ x \in Series /\ x \notin seriesGone
        /\ h.to = None <=> seriesGroup[x] # None
    BY <2>1 DEF StrayInv, KnowsInv, Knows, TInv, CarriesInv, PlaceInv, SeesInv, Sees
  <2>3. /\ g # None
        /\ \A y \in Series : seriesGroup'[y] = IF y = x THEN g ELSE seriesGroup[y]
    BY <1>3, <2>2 DEF SaveSeriesWithPlans, TInv, TypeOK
  <2> HIDE DEF g
  <2>4. GoneInv'
    BY <2>1, <2>2, <2>3 DEF PlaceInv, GoneInv, TInv, TypeOK
  <2>5. HeldInv'
    <3>1. LivePlans' = LivePlans /\ LivePlans \subseteq Plans
      BY <2>1 DEF LivePlans
    <3>2. LiveSeries \subseteq LiveSeries' /\ x \in LiveSeries'
      BY <2>1, <2>2, <2>3 DEF LiveSeries
    <3>3. \A p \in Plans : planSeries'[p] \in {x, None, planSeries[p]}
      BY <2>1
    <3> QED BY <3>1, <3>2, <3>3 DEF PlaceInv, HeldInv
  <2> QED BY <2>1, <2>4, <2>5, LeaveSees DEF PlaceInv
<1>4. ASSUME NEW s \in Sessions, NEW p \in Plans,
             DetachRead(s, p) \/ \E x \in Series : AttachRead(s, p, x)
      PROVE  PlaceInv'
  <2>1. CASE DetachRead(s, p)
    <3> DEFINE r == [Idle EXCEPT !.pc = "attach", !.c = p]
    <3>1. r.pc = "attach" /\ r.to = None
      BY DEF Idle
    <3>2. Enter(s, r)
      BY <2>1 DEF DetachRead
    <3> HIDE DEF r
    <3> QED BY <1>1, <3>1, <3>2
  <2>2. ASSUME NEW x \in Series, AttachRead(s, p, x) PROVE PlaceInv'
    <3> DEFINE r == [Idle EXCEPT !.pc = "attach", !.c = p, !.to = x]
    <3>1. r.pc = "attach" /\ r.to = x
      BY DEF Idle
    <3>2. Enter(s, r) /\ x \in LiveSeries
      BY <2>2 DEF AttachRead
    <3> HIDE DEF r
    <3> QED BY <1>1, <3>1, <3>2
  <2> QED BY <1>4, <2>1, <2>2
<1>5. ASSUME NEW s \in Sessions, update_plan_details(s) PROVE PlaceInv'
  <2> DEFINE q == sess[s].c
             x == sess[s].to
  <2>1. /\ q \in Plans /\ x # None => x \in LiveSeries
        /\ planSeries' = [planSeries EXCEPT ![q] = x]
        /\ sess' = [sess EXCEPT ![s] = Idle]
        /\ UNCHANGED <<planGone, unused, seriesGroup, seriesGone>>
    BY <1>5 DEF update_plan_details, Leave, TInv, CarriesInv, PlaceInv, SeesInv, Sees
  <2>2. HeldInv' /\ GoneInv'
    BY <2>1 DEF PlaceInv, HeldInv, GoneInv, LivePlans, LiveSeries, TInv, TypeOK
  <2> QED BY <2>1, <2>2, LeaveSees DEF PlaceInv
<1>6. ASSUME Delete PROVE PlaceInv'
  <2>1. \A s \in Sessions : sess[s].pc = "idle" /\ sess' = sess
    BY <1>6 DEF Delete, _soft_delete_plan_by_id, soft_delete_series_with_plan_detach, OneHandler
  <2>2. SeesInv'
    BY <2>1 DEF SeesInv, Sees
  <2>3. ASSUME NEW s \in Sessions, NEW p \in Plans, _soft_delete_plan_by_id(s, p)
        PROVE  HeldInv' /\ GoneInv'
    BY <2>3 DEF _soft_delete_plan_by_id, PlaceInv, HeldInv, GoneInv, LivePlans, LiveSeries
  <2>4. ASSUME NEW s \in Sessions, NEW x \in Series, soft_delete_series_with_plan_detach(s, x)
        PROVE  HeldInv' /\ GoneInv'
    BY <2>4 DEF soft_delete_series_with_plan_detach, PlaceInv, HeldInv, GoneInv, LivePlans,
                LiveSeries
  <2> QED BY <1>6, <2>2, <2>3, <2>4 DEF Delete, PlaceInv
<1>7. ASSUME NEW s \in Sessions, NEW x \in Series, NEW g \in Groups,
             add_series_partner(s, x, g) \/ RemovePartnerRead(s, x, g)
      PROVE  PlaceInv'
  <2>1. CASE add_series_partner(s, x, g)
    BY <2>1 DEF add_series_partner, PlaceInv, HeldInv, GoneInv, SeesInv, Sees, LivePlans,
                LiveSeries, GroupOf
  <2>2. CASE RemovePartnerRead(s, x, g)
    <3> DEFINE r == [Idle EXCEPT !.pc = "remove", !.c = x, !.to = g]
    <3>1. r.pc = "remove"
      BY DEF Idle
    <3>2. Enter(s, r)
      BY <2>2 DEF RemovePartnerRead
    <3> HIDE DEF r
    <3> QED BY <1>1, <3>1, <3>2
  <2> QED BY <1>7, <2>1, <2>2
<1>8. ASSUME NEW s \in Sessions, remove_series_partner(s) PROVE PlaceInv'
  BY <1>8, LeaveKeepsPlace DEF remove_series_partner, Leave
<1> QED
  BY <1>2, <1>3, <1>4, <1>5, <1>6, <1>7, <1>8 DEF EditSeries, EditPlan, EditPartners

LEMMA CloneKeepsPlace ==
  ASSUME OneHandler, TInv, PlaceInv, StrayInv, Clone PROVE PlaceInv'
<1>1. ASSUME NEW s \in Sessions, NEW x \in Series, NEW new \in SUBSET Plans,
             NEW source \in [new -> Plans], CloneRead(s, x, new, source)
      PROVE  PlaceInv'
  <2>1. PICK r \in Session : Enter(s, r) /\ r.pc = "clone"
    BY <1>1, CloneEnters
  <2>2. Sees(r)
    BY <2>1 DEF Sees
  <2> QED BY <2>1, <2>2, EnterKeepsPlace
<1>2. ASSUME NEW s \in Sessions, clone_series_plans_for_language(s) PROVE PlaceInv'
  <2>1. PICK x, copies : x = sess[s].c /\ copies = sess[s].copies
    OBVIOUS
  <2> DEFINE new == {p \in Plans : copies[p] # None}
  <2>2. /\ planSeries' = [p \in Plans |-> IF p \in new THEN x ELSE planSeries[p]]
        /\ planGone' = planGone \ new
        /\ UNCHANGED <<seriesGroup, seriesGone>>
        /\ sess' = [sess EXCEPT ![s] = Idle]
        /\ x \in LiveSeries
    BY <1>2, <2>1 DEF clone_series_plans_for_language, Leave, StrayInv, KnowsInv, Knows
  <2> HIDE DEF new
  <2>3. HeldInv' /\ GoneInv'
    BY <2>2 DEF PlaceInv, HeldInv, GoneInv, LivePlans, LiveSeries
  <2> QED BY <2>2, <2>3, LeaveSees DEF PlaceInv
<1> QED BY <1>1, <1>2 DEF Clone

LEMMA StepKeepsPlace ==
  ASSUME OneHandler, TInv, PlaceInv, StrayInv, [Next]_vars PROVE PlaceInv'
<1>1. ASSUME NEW s \in Sessions, Crash(s) PROVE PlaceInv'
  BY <1>1, LeaveKeepsPlace DEF Crash, content
<1>2. ASSUME UNCHANGED vars \/ \E t \in Transfers : Expire(t) PROVE PlaceInv'
  <2>1. UNCHANGED <<planGroup, planSeries, planGone, unused, seriesGroup, seriesGone, transfer, sess>>
    BY <1>2 DEF vars, content, Expire
  <2> QED BY <2>1 DEF PlaceInv, HeldInv, GoneInv, SeesInv, Sees, LivePlans, LiveSeries, GroupOf
<1> QED BY <1>1, <1>2, TransfersKeepPlace, EditsKeepPlace, CloneKeepsPlace DEF Next

-----------------------------------------------------------------------------
LEMMA InitKnown == Init => StrayInv /\ PlaceInv
<1> SUFFICES ASSUME Init PROVE StrayInv /\ PlaceInv
  OBVIOUS
<1>1. KnowsInv /\ SeesInv
  BY IdleFact DEF Init, KnowsInv, Knows, SeesInv, Sees
<1>2. PlacedInv /\ HeldInv /\ GoneInv
  BY DEF Init, PlacedInv, HeldInv, GoneInv, LivePlans
<1> QED BY <1>1, <1>2 DEF StrayInv, PlaceInv

\* A transfer of a plan is made while the plan is in no series.
LEMMA MadeForLoosePlan ==
  ASSUME TInv, PlaceInv, [Next]_vars, NEW p \in Plans, NEW t \in Transfers,
         transfer[t] = None, transfer'[t] # None, transfer'[t].content = p
  PROVE  planSeries[p] = None
<1>1. ASSUME NEW s \in Sessions, NEW u \in Transfers, create_transfer_request(s, u)
      PROVE  planSeries[p] = None
  <2>1. t = u /\ sess[s].pc = "request" /\ sess[s].c = p
    BY <1>1 DEF create_transfer_request, TInv, TypeOK
  <2> QED BY <2>1 DEF PlaceInv, SeesInv, Sees
<1>2. ASSUME NEW s \in Sessions, save_transfer(s) PROVE FALSE
  <2>1. sess[s].t # t
    BY <1>2 DEF save_transfer, TInv, AnswerInv
  <2> QED BY <1>2, <2>1 DEF save_transfer, TInv, TypeOK
<1>3. UNCHANGED transfer
        \/ \E s \in Sessions : save_transfer(s) \/ \E u \in Transfers : create_transfer_request(s, u)
  <2>1. CASE Request \/ Respond
    BY <2>1 DEF Request, Respond, RequestRead, accept_transfer_request, reject_transfer_request,
                revoke_transfer_request, Answer, Enter, ApplyLoad, _apply_transfer_accept
  <2>2. CASE EditSeries \/ Clone \/ EditPlan \/ Delete \/ EditPartners
    BY <2>2, EditKinds DEF Enter
  <2>3. CASE UNCHANGED vars \/ (\E u \in Transfers : Expire(u)) \/ \E s \in Sessions : Crash(s)
    BY <2>3 DEF vars, Expire, Crash
  <2> QED BY <2>1, <2>2, <2>3 DEF Next
<1> QED BY <1>1, <1>2, <1>3

\* With one handler at a time, and wherever one dies, a plan comes to be in a
\* series of another group only when its own transfer, requested while the plan
\* was in no series, is carried out, or as the copy of such a plan.  Neither the
\* transfer of a series nor an edit of one leaves a plan behind.
THEOREM StraysMovedOrCopied == ASSUME OneHandler PROVE Spec => StraysByTransferOrCopy
<1>1. Init => TInv /\ StrayInv /\ PlaceInv
  BY InitTyped, InitKnown
<1>2. TInv /\ StrayInv /\ PlaceInv /\ [Next]_vars => (TInv /\ StrayInv /\ PlaceInv)'
  BY StepTyped, StepKeepsStray, StepKeepsPlace
<1>3. TInv /\ StrayInv /\ PlaceInv /\ [Next]_vars =>
        /\ \A p \in Plans : ~Strays(p) /\ Strays(p)' => MovesAlone(p) \/ CopiesStray(p)
        /\ \A p \in Plans, t \in Transfers :
             (transfer[t] = None /\ transfer'[t] # None /\ transfer'[t].content = p)
                => planSeries[p] = None
  BY StepKeepsStray, MadeForLoosePlan
<1> QED BY <1>1, <1>2, <1>3, PTL DEF Spec, StraysByTransferOrCopy

-----------------------------------------------------------------------------
\* The variables of ContentCustody, as ImplementsCustody maps them.
HomeOf(c) == IF c \in LivePlans \cup LiveSeries THEN GroupOf(c) ELSE None
WithinOf(p) == IF p \in LivePlans THEN planSeries[p] ELSE None
Home == [c \in Content |-> HomeOf(c)]
Within == [p \in Plans |-> WithinOf(p)]
Offers == [t \in Transfers |-> OfferOf(t)]

Offer == [content : Content, to : Groups, state : {"OPEN", "ACCEPTED", "CLOSED"}]
\* The value that stands for nothing is no offer.
NoneIsNoOffer == None \notin Offer

\* Content that stays as it is keeps its home and its place.
LEMMA SameContentMaps ==
  ASSUME UNCHANGED <<planGroup, planSeries, planGone, unused, seriesGroup, seriesGone>>
  PROVE  Home' = Home /\ Within' = Within
<1>1. LivePlans' = LivePlans /\ LiveSeries' = LiveSeries
  BY DEF LivePlans, LiveSeries
<1>2. \A c : GroupOf(c)' = GroupOf(c)
  BY DEF GroupOf
<1> QED BY <1>1, <1>2 DEF Home, Within, HomeOf, WithinOf

\* The one handler is applying a transfer, or none is.
LEMMA ApplyingFact ==
  ASSUME OneHandler, NEW s \in Sessions, NEW t \in Transfers
  PROVE  Applying(t) <=> sess[s].t = t /\ sess[s].pc \in {"apply", "move"}
  BY DEF OneHandler, Applying

\* Transfers stay as they are, and no application begins or ends.
LEMMA SameOffers ==
  ASSUME OneHandler, NEW s \in Sessions, UNCHANGED transfer,
         \/ sess' = sess
         \/ sess[s].pc \notin {"apply", "move"} /\ sess'[s].pc \notin {"apply", "move"}
         \/ /\ sess[s].pc \in {"apply", "move"} /\ sess'[s].pc \in {"apply", "move"}
            /\ sess'[s].t = sess[s].t
  PROVE  Offers' = Offers
<1>1. \A t \in Transfers : Applying(t)' <=> Applying(t)
  BY ApplyingFact DEF Applying, OneHandler
<1>2. \A t \in Transfers : OfferOf(t)' = OfferOf(t)
  BY <1>1 DEF OfferOf, Pending
<1> QED BY <1>2 DEF Offers

\* A handler that comes in changes nothing that can be seen.
LEMMA EnterMaps ==
  ASSUME OneHandler, TInv, NEW s \in Sessions, NEW r, Enter(s, r), r.pc \notin {"apply", "move"}
  PROVE  UNCHANGED <<Home, Within, Offers>>
<1>1. /\ UNCHANGED <<planGroup, planSeries, planGone, unused, seriesGroup, seriesGone, transfer>>
      /\ sess' = [sess EXCEPT ![s] = r] /\ sess[s].pc = "idle"
  BY DEF Enter, content
<1>2. sess'[s] = r
  BY <1>1 DEF TInv, TypeOK
<1> QED BY <1>1, <1>2, SameContentMaps, SameOffers

\* A handler that leaves, and was applying no transfer, changes no offer.
LEMMA LeaveMaps ==
  ASSUME OneHandler, TInv, NEW s \in Sessions, sess' = [sess EXCEPT ![s] = Idle],
         sess[s].pc \notin {"apply", "move"}, UNCHANGED transfer
  PROVE  Offers' = Offers
<1>1. sess'[s] = Idle
  BY DEF TInv, TypeOK
<1> QED BY <1>1, IdleFact, SameOffers

LEMMA RequestMaps ==
  ASSUME OneHandler, TInv, PendingInv, PlaceInv, Request
  PROVE  Custody!Next \/ UNCHANGED <<Home, Within, Offers>>
<1>1. ASSUME NEW s \in Sessions, NEW c \in Content, NEW g \in Groups, RequestRead(s, c, g)
      PROVE  UNCHANGED <<Home, Within, Offers>>
  <2> DEFINE r == [Idle EXCEPT !.pc = "request", !.c = c, !.to = g]
  <2>1. r.pc = "request"
    BY DEF Idle
  <2>2. Enter(s, r)
    BY <1>1 DEF RequestRead
  <2> HIDE DEF r
  <2> QED BY <2>1, <2>2, EnterMaps
<1>2. ASSUME NEW s \in Sessions, NEW t \in Transfers, create_transfer_request(s, t)
      PROVE  Custody!Next
  <2> DEFINE c == sess[s].c
             g == sess[s].to
             new == [content |-> c, to |-> g, status |-> "PENDING"]
             open == [content |-> c, to |-> g, state |-> "OPEN"]
  <2>1. /\ sess[s].pc = "request" /\ transfer[t] = None
        /\ transfer' = [transfer EXCEPT ![t] = new]
        /\ sess' = [sess EXCEPT ![s] = Idle]
        /\ UNCHANGED <<planGroup, planSeries, planGone, unused, seriesGroup, seriesGone>>
    BY <1>2 DEF create_transfer_request, Leave, content
  <2>2. /\ c \in Content /\ g \in Groups
        /\ c \in LivePlans \cup LiveSeries /\ GroupOf(c) # g
        /\ c \in Plans => planSeries[c] = None
        /\ ~has_pending_transfer(c)
    BY <2>1 DEF TInv, CarriesInv, PlaceInv, SeesInv, Sees, PendingInv, RequestInv
  <2>3. \A u \in Transfers : ~Applying(u) /\ ~Applying(u)'
    <3>1. sess'[s] = Idle
      BY <2>1 DEF TInv, TypeOK
    <3> QED BY <2>1, <3>1, IdleFact DEF OneHandler, Applying
  <2>4. new \in Transfer /\ new # None
    BY <2>2, NoneIsNoTransfer DEF Transfer, TransferStatus
  <2>5. \A u \in Transfers : transfer'[u] = IF u = t THEN new ELSE transfer[u]
    BY <2>1 DEF TInv, TypeOK
  <2>6. OfferOf(t) = None /\ OfferOf(t)' = open
    BY <2>1, <2>4, <2>5 DEF OfferOf, Pending
  <2>7. \A u \in Transfers \ {t} : OfferOf(u)' = OfferOf(u)
    BY <2>3, <2>5 DEF OfferOf, Pending
  <2>8. Offers' = [Offers EXCEPT ![t] = open] /\ Offers[t] = None
    BY <2>6, <2>7 DEF Offers
  <2>9. \A u \in Transfers : ~(/\ OfferOf(u) # None /\ OfferOf(u).content = c
                               /\ OfferOf(u).state = "OPEN")
    <3> SUFFICES ASSUME NEW u \in Transfers, OfferOf(u) # None, OfferOf(u).content = c
                 PROVE  OfferOf(u).state # "OPEN"
      OBVIOUS
    <3>1. transfer[u] # None
      BY DEF OfferOf
    <3>2. OfferOf(u).content = transfer[u].content
      BY <3>1 DEF OfferOf
    <3>3. ~Pending(u)
      BY <2>2, <3>1, <3>2 DEF has_pending_transfer, Pending
    <3> QED BY <2>3, <3>1, <3>3 DEF OfferOf
  <2>10. HomeOf(c) \notin {None, g} /\ (c \in Plans => WithinOf(c) = None)
    <3>1. GroupOf(c) # None
      BY <2>2, Disjoint DEF GroupOf, LivePlans, LiveSeries, TInv, TypeOK
    <3> QED BY <2>2, <3>1 DEF HomeOf, WithinOf
  <2>11. Home' = Home /\ Within' = Within
    BY <2>1, SameContentMaps
  <2>12. Home[c] \notin {None, g} /\ (c \in Plans => Within[c] = None)
    BY <2>2, <2>10 DEF Home, Within
  <2>13. {u \in Transfers : Offers[u] # None /\ Offers[u].content = c /\ Offers[u].state = "OPEN"} = {}
    BY <2>9 DEF Offers
  <2> HIDE DEF c, g
  <2>14. Custody!Request(t, c, g)
    BY <2>8, <2>11, <2>12, <2>13
    DEF Custody!Request, Custody!Open, Home, Within, Offers, HomeOf, WithinOf
  <2> QED BY <2>2, <2>14 DEF Custody!Next, Custody!Content, Content
<1> QED BY <1>1, <1>2 DEF Request

\* What a transfer looks like from outside.
LEMMA OfferFact ==
  ASSUME NoneIsNoOffer, TInv, NEW t \in Transfers, transfer[t] # None
  PROVE  /\ OfferOf(t) # None
         /\ OfferOf(t).content = transfer[t].content /\ OfferOf(t).to = transfer[t].to
         /\ OfferOf(t) = [content |-> transfer[t].content, to |-> transfer[t].to,
                          state |-> OfferOf(t).state]
         /\ OfferOf(t).state = IF Pending(t) \/ Applying(t) THEN "OPEN"
                               ELSE IF transfer[t].status = "ACCEPTED" THEN "ACCEPTED"
                                    ELSE "CLOSED"
<1>1. transfer[t] \in Transfer
  BY DEF TInv, TypeOK
<1>2. OfferOf(t) \in Offer
  BY <1>1 DEF OfferOf, Offer, Transfer
<1> QED BY <1>2 DEF OfferOf, NoneIsNoOffer

LEMMA SaveMaps ==
  ASSUME OneHandler, NoneIsNoOffer, TInv, StrayInv, NEW s \in Sessions, save_transfer(s)
  PROVE  Custody!Next \/ UNCHANGED <<Home, Within, Offers>>
<1>0. PICK t \in Transfers : t = sess[s].t
  BY DEF save_transfer, TInv, AnswerInv
<1> DEFINE new == [transfer[t] EXCEPT !.status = sess[s].answer]
<1>1. /\ t \in Transfers /\ transfer[t] # None /\ transfer[t].status = "PENDING"
      /\ sess[s].pc = "answer" /\ sess[s].answer \in TransferStatus \ {"PENDING"}
      /\ transfer' = [transfer EXCEPT ![t] = new]
      /\ UNCHANGED <<planGroup, planSeries, planGone, unused, seriesGroup, seriesGone>>
  BY <1>0 DEF save_transfer, TInv, AnswerInv, StrayInv, KnowsInv, Knows, Pending, content
<1>2. transfer[t] \in Transfer
  BY <1>1 DEF TInv, TypeOK
<1>3. /\ new.status = sess[s].answer /\ new.content = transfer[t].content
      /\ new.to = transfer[t].to /\ new \in Transfer /\ new # None
  BY <1>1, <1>2, NoneIsNoTransfer DEF Transfer
<1> HIDE DEF new
<1>4. \A u \in Transfers : transfer'[u] = IF u = t THEN new ELSE transfer[u]
  BY <1>1 DEF TInv, TypeOK
<1>5. Home' = Home /\ Within' = Within
  BY <1>1, SameContentMaps
<1>6. \A u \in Transfers : ~Applying(u)
  BY <1>1 DEF OneHandler, Applying
<1>7. \A u \in Transfers : Applying(u)' <=> u = t /\ sess[s].answer = "ACCEPTED"
  <2>1. CASE sess[s].answer = "ACCEPTED"
    <3>1. sess'[s].pc = "apply" /\ sess'[s].t = t
      BY <1>0, <2>1 DEF save_transfer, TInv, TypeOK, Session
    <3> QED BY <1>0, <2>1, <3>1 DEF OneHandler, Applying
  <2>2. CASE sess[s].answer # "ACCEPTED"
    <3>1. sess'[s] = Idle
      BY <2>2 DEF save_transfer, Leave, TInv, TypeOK
    <3> QED BY <2>2, <3>1, IdleFact DEF OneHandler, Applying
  <2> QED BY <2>1, <2>2
<1>8. \A u \in Transfers \ {t} : OfferOf(u)' = OfferOf(u)
  BY <1>4, <1>6, <1>7 DEF OfferOf, Pending
<1>9. OfferOf(t) # None /\ OfferOf(t).state = "OPEN"
  BY <1>1, OfferFact DEF Pending
<1>10. CASE sess[s].answer = "ACCEPTED"
  <2>1. OfferOf(t)' = OfferOf(t)
    BY <1>1, <1>3, <1>4, <1>7, <1>10 DEF OfferOf, Pending
  <2> QED BY <1>5, <1>8, <2>1 DEF Offers
<1>11. CASE sess[s].answer # "ACCEPTED"
  <2>1. OfferOf(t)' = [OfferOf(t) EXCEPT !.state = "CLOSED"]
    <3>1. OfferOf(t)' = [content |-> transfer[t].content, to |-> transfer[t].to,
                         state |-> "CLOSED"]
      BY <1>1, <1>3, <1>4, <1>7, <1>11 DEF OfferOf, Pending
    <3>2. OfferOf(t) = [content |-> transfer[t].content, to |-> transfer[t].to,
                        state |-> "OPEN"]
      BY <1>1, <1>9, OfferFact
    <3> QED BY <3>1, <3>2
  <2>2. Offers[t] = OfferOf(t) /\ Offers' = [Offers EXCEPT ![t] = [Offers[t] EXCEPT !.state = "CLOSED"]]
    BY <1>1, <1>8, <2>1 DEF Offers
  <2>3. Custody!Close(t)
    BY <1>5, <1>9, <2>2
    DEF Custody!Close, Custody!Answered, Home, Within, Offers, HomeOf, WithinOf
  <2> QED BY <1>1, <2>3 DEF Custody!Next
<1> QED BY <1>10, <1>11

LEMMA LoadMaps ==
  ASSUME OneHandler, TInv, NEW s \in Sessions, ApplyLoad(s)
  PROVE  UNCHANGED <<Home, Within, Offers>>
<1>1. /\ UNCHANGED <<planGroup, planSeries, planGone, unused, seriesGroup, seriesGone, transfer>>
      /\ sess[s].pc = "apply"
  BY DEF ApplyLoad, content
<1>2. sess'[s].pc = "move" /\ sess'[s].t = sess[s].t
  <2>1. PICK b, keep, to :
           sess' = [sess EXCEPT ![s].pc = "move", ![s].to = to, ![s].c = b, ![s].keep = keep]
    BY DEF ApplyLoad
  <2>2. sess[s] \in Session
    BY DEF TInv, TypeOK
  <2> QED BY <2>1, <2>2 DEF TInv, TypeOK, Session
<1> QED BY <1>1, <1>2, SameContentMaps, SameOffers

\* What custody carries along with c.
Carry(c) == {d \in Content : HomeOf(d) # None /\ (d = c \/ (d \in Plans /\ WithinOf(d) = c))}

LEMMA ApplyMaps ==
  ASSUME OneHandler, NoneIsNoOffer, TInv, StrayInv, PlaceInv, NEW s \in Sessions,
         _apply_transfer_accept(s)
  PROVE  Custody!Next
<1>0. PICK t \in Transfers, c \in Content, to \in Groups :
        t = sess[s].t /\ c = transfer[t].content /\ to = sess[s].to
  <2>1. sess[s].pc = "move" /\ sess[s].to \in Groups /\ Knows(sess[s])
    BY DEF _apply_transfer_accept, TInv, CarriesInv, StrayInv, KnowsInv
  <2>2. sess[s].t \in Transfers /\ transfer[sess[s].t] \in Transfer
    BY <2>1 DEF Knows, TInv, TypeOK
  <2> QED BY <2>1, <2>2 DEF Transfer
<1> DEFINE h == sess[s]
<1>1. /\ h.pc = "move" /\ to \in Groups
      /\ planGroup' = [p \in Plans |-> IF p \in h.keep THEN to ELSE planGroup[p]]
      /\ seriesGroup' = [x \in Series |-> IF x \in h.keep THEN to ELSE seriesGroup[x]]
      /\ sess' = [sess EXCEPT ![s] = Idle]
      /\ UNCHANGED <<planSeries, planGone, unused, seriesGone, transfer>>
  BY <1>0 DEF _apply_transfer_accept, Leave, TInv, CarriesInv
<1>2. /\ Knows(h) /\ Sees(h)
      /\ t \in Transfers /\ transfer[t] # None
      /\ transfer[t].status = "ACCEPTED" /\ transfer[t].to = to
  BY <1>0, <1>1 DEF StrayInv, KnowsInv, Knows, PlaceInv, SeesInv
<1>3. c \in Content
  BY <1>0
<1>4. LivePlans' = LivePlans /\ LivePlans \subseteq Plans /\ LiveSeries \subseteq Series
  BY <1>1 DEF LivePlans, LiveSeries
<1>5. LiveSeries' = LiveSeries
  <2>1. \A x \in h.keep \cap Series : x \in LiveSeries
    <3>1. CASE h.c \in Series
      <4>1. h.c \in LiveSeries /\ h.keep \subseteq {h.c} \cup Plans
        BY <1>1, <1>2, <3>1 DEF Knows, Sees, Held, LivePlans
      <4> QED BY <4>1, Disjoint
    <3>2. CASE h.c \notin Series
      BY <1>1, <1>2, <3>2, Disjoint DEF Sees
    <3> QED BY <3>1, <3>2
  <2> QED BY <1>1, <2>1, Disjoint DEF LiveSeries
<1>6. \A d \in Content : HomeOf(d) # None <=> d \in LivePlans \cup LiveSeries
  BY Disjoint DEF HomeOf, GroupOf, LivePlans, LiveSeries, TInv, TypeOK
<1>7. \A d \in Content : GroupOf(d)' = IF d \in h.keep THEN to ELSE GroupOf(d)
  BY <1>1 DEF GroupOf, Content
<1>8. ASSUME NEW d \in LivePlans \cup LiveSeries
      PROVE  d \in h.keep <=> (d = c \/ (d \in Plans /\ WithinOf(d) = c)) /\ GroupOf(d) # to
  <2>1. CASE h.c \in Series
    <3>1. h.c = c /\ h.keep = {e \in {c} \cup Held(c) : GroupOf(e) # to}
      BY <1>0, <1>1, <1>2, <2>1 DEF Knows, Sees
    <3>2. d \in Held(c) <=> d \in Plans /\ WithinOf(d) = c
      BY <1>4, <1>8, <2>1, <3>1, Disjoint DEF Held, WithinOf
    <3> QED BY <3>1, <3>2
  <2>2. CASE h.c \notin Series
    <3>1. c \notin LiveSeries /\ h.keep = {e \in Plans \cap {c} : planGroup[e] # to}
      BY <1>0, <1>1, <1>2, <2>2 DEF Sees
    <3>2. ~(d \in Plans /\ WithinOf(d) = c)
      <4> SUFFICES ASSUME d \in Plans, WithinOf(d) = c PROVE FALSE
        OBVIOUS
      <4>1. d \in LivePlans /\ planSeries[d] = c
        BY <1>4, <1>8, Disjoint DEF WithinOf
      <4>2. c # None
        BY <1>3, Disjoint DEF Content
      <4> QED BY <3>1, <4>1, <4>2 DEF PlaceInv, HeldInv
    <3>3. d = c => c \in Plans
      BY <1>4, <1>8, <3>1
    <3> QED BY <3>1, <3>2, <3>3 DEF GroupOf
  <2> QED BY <2>1, <2>2
<1>9. \A d \in Content : HomeOf(d)' = IF d \in Carry(c) THEN to ELSE HomeOf(d)
  <2> SUFFICES ASSUME NEW d \in Content
               PROVE  HomeOf(d)' = IF d \in Carry(c) THEN to ELSE HomeOf(d)
    OBVIOUS
  <2>1. CASE d \in LivePlans \cup LiveSeries
    <3>1. HomeOf(d) = GroupOf(d) /\ HomeOf(d)' = GroupOf(d)'
      BY <1>4, <1>5, <2>1 DEF HomeOf
    <3>2. d \in Carry(c) <=> (d = c \/ (d \in Plans /\ WithinOf(d) = c))
      BY <1>6, <2>1 DEF Carry
    <3> QED BY <1>7, <1>8, <2>1, <3>1, <3>2
  <2>2. CASE d \notin LivePlans \cup LiveSeries
    BY <1>4, <1>5, <1>6, <2>2 DEF HomeOf, Carry
  <2> QED BY <2>1, <2>2
<1>10. Within' = Within
  BY <1>1, <1>4 DEF Within, WithinOf
<1>11. Applying(t) /\ \A u \in Transfers : ~Applying(u)' /\ (Applying(u) => u = t)
  <2>1. sess'[s] = Idle
    BY <1>1 DEF TInv, TypeOK
  <2> QED BY <1>0, <1>1, <2>1, IdleFact DEF OneHandler, Applying
<1>12. \A u \in Transfers \ {t} : OfferOf(u)' = OfferOf(u)
  BY <1>1, <1>11 DEF OfferOf, Pending
<1>13. /\ OfferOf(t) = [content |-> c, to |-> to, state |-> "OPEN"]
       /\ OfferOf(t)' = [content |-> c, to |-> to, state |-> "ACCEPTED"]
  BY <1>0, <1>1, <1>2, <1>11 DEF OfferOf, Pending
<1>14. OfferOf(t) # None
  BY <1>2, OfferFact
<1>15. /\ Offers[t] = OfferOf(t)
       /\ Offers' = [Offers EXCEPT ![t] = [Offers[t] EXCEPT !.state = "ACCEPTED"]]
  <2>1. Offers[t] = OfferOf(t)
    BY DEF Offers
  <2>2. OfferOf(t)' = [Offers[t] EXCEPT !.state = "ACCEPTED"]
    BY <1>13, <2>1
  <2>3. Offers' = [Offers EXCEPT ![t] = OfferOf(t)']
    BY <1>12 DEF Offers
  <2> QED BY <2>1, <2>2, <2>3
<1>16. /\ Offers[t] # None /\ Offers[t].state = "OPEN"
       /\ Offers[t].content = c /\ Offers[t].to = to
  BY <1>13, <1>14, <1>15
<1>17. Home' = [d \in Content |-> IF d \in {e \in Content : Home[e] # None /\ (e = c \/ (e \in Plans /\ Within[e] = c))}
                                  THEN to ELSE Home[d]]
  <2>1. {e \in Content : Home[e] # None /\ (e = c \/ (e \in Plans /\ Within[e] = c))} = Carry(c)
    BY DEF Home, Within, Carry
  <2> QED BY <1>9, <2>1 DEF Home
<1>18. Custody!Accept(t)
  <2>1. Custody!Carried(c) = {e \in Content : Home[e] # None /\ (e = c \/ (e \in Plans /\ Within[e] = c))}
    BY DEF Custody!Carried, Custody!Content, Content, Home, Within, HomeOf, WithinOf
  <2>2. Custody!Answered(t, "ACCEPTED")
    BY <1>15, <1>16 DEF Custody!Answered, Offers
  <2>3. Custody!Carried(Offers[t].content) = {e \in Content : Home[e] # None /\ (e = c \/ (e \in Plans /\ Within[e] = c))}
    BY <1>16, <2>1
  <2> QED BY <1>10, <1>16, <1>17, <2>2, <2>3
          DEF Custody!Accept, Custody!Content, Content, Home, Within, Offers, HomeOf, WithinOf
<1> QED BY <1>2, <1>18 DEF Custody!Next

\* Plans leave their series, or enter one of their group.
Arranged ==
  \A p \in Plans : WithinOf(p)' \in {WithinOf(p), None}
                     \/ /\ WithinOf(p)' \in Content
                        /\ HomeOf(p)' = HomeOf(WithinOf(p))'

LEMMA ArrangeMaps == ASSUME Arranged, Offers' = Offers PROVE Custody!Arrange
<1>1. \A p \in Plans : Within'[p] \in {Within[p], None} \/ Home'[p] = Home'[Within'[p]]
  <2> SUFFICES ASSUME NEW p \in Plans
               PROVE  Within'[p] \in {Within[p], None} \/ Home'[p] = Home'[Within'[p]]
    OBVIOUS
  <2>1. Within'[p] = WithinOf(p)' /\ Within[p] = WithinOf(p)
    BY DEF Within
  <2>2. \A d \in Content : Home'[d] = HomeOf(d)'
    BY DEF Home
  <2>3. Home'[p] = HomeOf(p)'
    BY <2>2 DEF Content
  <2>4. WithinOf(p)' \in Content => Home'[WithinOf(p)'] = HomeOf(WithinOf(p))'
    BY DEF Home
  <2> QED BY <2>1, <2>3, <2>4 DEF Arranged
<1> QED BY <1>1 DEF Custody!Arrange, Home, Within, Offers, HomeOf, WithinOf

LEMMA SeriesMaps ==
  ASSUME OneHandler, TInv, StrayInv, PlaceInv, NEW s \in Sessions, SaveSeriesWithPlans(s)
  PROVE  Custody!Next
<1>0. PICK x \in Series : x = sess[s].c
  BY DEF SaveSeriesWithPlans, TInv, CarriesInv
<1> DEFINE h == sess[s]
           g == IF h.to = None THEN seriesGroup[x] ELSE h.to
<1>1. /\ h.pc = "series" /\ sess' = [sess EXCEPT ![s] = Idle]
      /\ planSeries' = [p \in Plans |-> IF p \in h.keep THEN x
                                        ELSE IF p \in h.drop THEN None ELSE planSeries[p]]
      /\ UNCHANGED <<planGroup, planGone, unused, seriesGone, transfer>>
  BY <1>0 DEF SaveSeriesWithPlans, Leave
<1>2. /\ h.to \in Groups \cup {None} /\ x \notin seriesGone
      /\ h.to = None <=> seriesGroup[x] # None
      /\ \A p \in h.keep \cap Plans : planSeries[p] = x \/ planGroup[p] = g
  BY <1>0, <1>1 DEF StrayInv, KnowsInv, Knows, TInv, CarriesInv, PlaceInv, SeesInv, Sees
<1>3. /\ g \in Groups /\ g # None
      /\ \A y \in Series : seriesGroup'[y] = IF y = x THEN g ELSE seriesGroup[y]
  BY <1>0, <1>2, Disjoint DEF SaveSeriesWithPlans, TInv, TypeOK
<1>4. Offers' = Offers
  BY <1>1, LeaveMaps
<1>5. /\ LivePlans' = LivePlans /\ LivePlans \subseteq Plans
      /\ LiveSeries' = LiveSeries \cup {x} /\ LiveSeries \subseteq Series
  BY <1>1, <1>2, <1>3 DEF LivePlans, LiveSeries
<1> HIDE DEF g
<1>6. \A d \in Content : GroupOf(d)' = IF d = x THEN g ELSE GroupOf(d)
  BY <1>1, <1>3, Disjoint DEF GroupOf, Content
<1>7. \A d \in Content : HomeOf(d)' = IF d = x THEN g ELSE HomeOf(d)
  BY <1>5, <1>6 DEF HomeOf
<1>8. Arranged
  <2> SUFFICES ASSUME NEW p \in Plans
               PROVE  \/ WithinOf(p)' \in {WithinOf(p), None}
                      \/ WithinOf(p)' \in Content /\ HomeOf(p)' = HomeOf(WithinOf(p))'
    BY DEF Arranged
  <2>1. CASE p \notin LivePlans
    BY <1>5, <2>1 DEF WithinOf
  <2>2. CASE p \in LivePlans /\ p \notin h.keep
    BY <1>1, <1>5, <2>2 DEF WithinOf
  <2>3. CASE p \in LivePlans /\ p \in h.keep
    <3>1. WithinOf(p)' = x /\ WithinOf(p) = planSeries[p]
      BY <1>1, <1>5, <2>3 DEF WithinOf
    <3>2. CASE planSeries[p] = x
      BY <3>1, <3>2
    <3>3. CASE planGroup[p] = g
      <4>1. HomeOf(p)' = g
        BY <1>7, <2>3, <3>3, Disjoint DEF HomeOf, GroupOf, Content
      <4>2. HomeOf(x)' = g /\ x \in Content
        BY <1>7 DEF Content
      <4>3. HomeOf(WithinOf(p))' = HomeOf(x)'
        BY <3>1
      <4> QED BY <3>1, <4>1, <4>2, <4>3
    <3> QED BY <1>2, <2>3, <3>2, <3>3
  <2> QED BY <2>1, <2>2, <2>3
<1>9. Custody!Arrange
  BY <1>4, <1>8, ArrangeMaps
<1>10. CASE h.to = None
  <2>1. HomeOf(x) = g
    BY <1>2, <1>10, Disjoint DEF HomeOf, LiveSeries, GroupOf, g
  <2>2. Home' = Home
    BY <1>7, <2>1 DEF Home
  <2> QED BY <1>9, <2>2 DEF Custody!Next, Custody!Rearrange, Home, HomeOf
<1>11. CASE h.to # None
  <2>1. HomeOf(x) = None /\ x \in Content
    BY <1>2, <1>11, Disjoint DEF HomeOf, LiveSeries, LivePlans, Content
  <2>2. Home[x] = None /\ Home' = [Home EXCEPT ![x] = g]
    BY <1>7, <2>1 DEF Home
  <2>3. Custody!Found(x)
    BY <1>3, <1>9, <2>2 DEF Custody!Found, Home, HomeOf
  <2> QED BY <2>3 DEF Custody!Next
<1> QED BY <1>10, <1>11

LEMMA CloneMaps ==
  ASSUME OneHandler, TInv, StrayInv, PlaceInv, NEW s \in Sessions,
         clone_series_plans_for_language(s)
  PROVE  Custody!Next
<1>0. PICK x \in Series, copies \in [Plans -> Groups \cup {None}] :
        x = sess[s].c /\ copies = sess[s].copies
  BY DEF clone_series_plans_for_language, TInv, TypeOK, CarriesInv, Session
<1>1. PICK new \in SUBSET Plans : new = {p \in Plans : copies[p] # None}
  OBVIOUS
<1>2. /\ sess[s].pc = "clone"
      /\ planGroup' = [p \in Plans |-> IF p \in new THEN copies[p] ELSE planGroup[p]]
      /\ planSeries' = [p \in Plans |-> IF p \in new THEN x ELSE planSeries[p]]
      /\ planGone' = planGone \ new
      /\ UNCHANGED <<seriesGroup, seriesGone, transfer>>
      /\ sess' = [sess EXCEPT ![s] = Idle]
  BY <1>0, <1>1 DEF clone_series_plans_for_language, Leave
<1>3. /\ x \in LiveSeries /\ x # None
      /\ \A p \in new : p \in planGone /\ \E q \in Held(x) : planGroup[q] = copies[p]
  BY <1>0, <1>1, <1>2, Disjoint DEF StrayInv, KnowsInv, Knows, TInv, TypeOK
<1>4. Offers' = Offers
  BY <1>2, LeaveMaps
<1>5. LivePlans' = LivePlans \cup new /\ LiveSeries' = LiveSeries /\ new \cap LivePlans = {}
  BY <1>2, <1>3 DEF LivePlans, LiveSeries
<1>6. \A c \in Content : HomeOf(c)' = IF c \in new THEN copies[c] ELSE HomeOf(c)
  <2> SUFFICES ASSUME NEW c \in Content
               PROVE  HomeOf(c)' = IF c \in new THEN copies[c] ELSE HomeOf(c)
    OBVIOUS
  <2>1. GroupOf(c)' = IF c \in new THEN copies[c] ELSE GroupOf(c)
    BY <1>2, Disjoint DEF GroupOf
  <2> QED BY <1>5, <2>1 DEF HomeOf
<1>7. \A p \in Plans : WithinOf(p)' = IF p \in new THEN x ELSE WithinOf(p)
  BY <1>2, <1>5 DEF WithinOf
<1>8. \A p \in new : HomeOf(p) = None /\ copies[p] # None
  BY <1>1, <1>5, Disjoint DEF HomeOf, LiveSeries
<1>9. \A q \in Held(x) : q \in Plans /\ WithinOf(q) = x /\ HomeOf(q) = planGroup[q]
  BY DEF Held, LivePlans, WithinOf, HomeOf, GroupOf
<1>10. new = {p \in Plans : Home'[p] # Home[p]}
  BY <1>6, <1>8 DEF Home, Content
<1>11. \A p \in new : /\ Home[p] = None /\ Within'[p] = x
                      /\ \E q \in Plans : Within[q] = x /\ Home[q] = Home'[p]
  <2> SUFFICES ASSUME NEW p \in new
               PROVE  /\ Home[p] = None /\ Within'[p] = x
                      /\ \E q \in Plans : Within[q] = x /\ Home[q] = Home'[p]
    OBVIOUS
  <2>1. PICK q \in Held(x) : planGroup[q] = copies[p]
    BY <1>3
  <2>2. q \in Plans /\ Within[q] = x /\ Home[q] = copies[p]
    BY <1>9, <2>1 DEF Within, Home, Content
  <2>3. Home[p] = None /\ Within'[p] = x /\ Home'[p] = copies[p]
    BY <1>6, <1>7, <1>8 DEF Within, Home, Content
  <2> QED BY <2>2, <2>3
<1>12. /\ Home' = [c \in Content |-> IF c \in new THEN Home'[c] ELSE Home[c]]
       /\ Within' = [p \in Plans |-> IF p \in new THEN x ELSE Within[p]]
  BY <1>6, <1>7 DEF Home, Within
<1>13. Custody!Copy(x)
  BY <1>4, <1>10, <1>11, <1>12
  DEF Custody!Copy, Custody!Content, Content, Home, Within, Offers, HomeOf, WithinOf
<1> QED BY <1>13 DEF Custody!Next

LEMMA PlanMaps ==
  ASSUME OneHandler, TInv, StrayInv, PlaceInv, NEW s \in Sessions, update_plan_details(s)
  PROVE  Custody!Next
<1>0. PICK q \in Plans, x \in Series \cup {None} : q = sess[s].c /\ x = sess[s].to
  BY DEF update_plan_details, TInv, CarriesInv
<1>1. /\ sess[s].pc = "attach"
      /\ x # None => x \in LiveSeries /\ seriesGroup[x] = planGroup[q]
      /\ planSeries' = [planSeries EXCEPT ![q] = x]
      /\ sess' = [sess EXCEPT ![s] = Idle]
      /\ UNCHANGED <<planGroup, planGone, unused, seriesGroup, seriesGone, transfer>>
  BY <1>0 DEF update_plan_details, Leave, StrayInv, KnowsInv, Knows, PlaceInv, SeesInv, Sees
<1>2. \A p \in Plans : planSeries'[p] = IF p = q THEN x ELSE planSeries[p]
  BY <1>1 DEF TInv, TypeOK
<1>3. Offers' = Offers
  BY <1>1, LeaveMaps
<1>4. LivePlans' = LivePlans /\ LiveSeries' = LiveSeries
  BY <1>1 DEF LivePlans, LiveSeries
<1>5. \A d \in Content : HomeOf(d)' = HomeOf(d)
  BY <1>1, <1>4 DEF HomeOf, GroupOf
<1>6. Arranged
  <2> SUFFICES ASSUME NEW p \in Plans
               PROVE  \/ WithinOf(p)' \in {WithinOf(p), None}
                      \/ WithinOf(p)' \in Content /\ HomeOf(p)' = HomeOf(WithinOf(p))'
    BY DEF Arranged
  <2>1. CASE p \notin LivePlans \/ p # q \/ x = None
    BY <1>2, <1>4, <2>1 DEF WithinOf
  <2>2. CASE p \in LivePlans /\ p = q /\ x # None
    <3>1. WithinOf(p)' = x /\ x \in Series
      BY <1>1, <1>2, <1>4, <2>2 DEF WithinOf, LiveSeries
    <3>2. HomeOf(p) = planGroup[p] /\ HomeOf(x) = seriesGroup[x]
      BY <1>1, <2>2, <3>1, Disjoint DEF HomeOf, GroupOf
    <3>3. HomeOf(p)' = HomeOf(x)' /\ x \in Content
      BY <1>1, <1>5, <2>2, <3>1, <3>2 DEF Content
    <3>4. HomeOf(WithinOf(p))' = HomeOf(x)'
      BY <3>1
    <3> QED BY <3>1, <3>3, <3>4
  <2> QED BY <2>1, <2>2
<1>7. Custody!Arrange
  BY <1>3, <1>6, ArrangeMaps
<1>8. Home' = Home
  BY <1>5 DEF Home
<1> QED BY <1>7, <1>8 DEF Custody!Next, Custody!Rearrange, Home, HomeOf

LEMMA DeleteMaps ==
  ASSUME OneHandler, TInv, PlaceInv, Delete PROVE Custody!Next
<1>1. ASSUME NEW c \in Content, Offers' = Offers,
             UNCHANGED <<planGroup, seriesGroup>>,
             LivePlans' = LivePlans \ {c}, LiveSeries' = LiveSeries \ {c},
             \A p \in Plans : planSeries'[p] \in {planSeries[p], None}
      PROVE  Custody!Next
  <2>1. \A d \in Content : HomeOf(d)' = IF d = c THEN None ELSE HomeOf(d)
    BY <1>1 DEF HomeOf, GroupOf
  <2>2. Home' = [Home EXCEPT ![c] = None]
    BY <2>1 DEF Home
  <2>3. Arranged
    BY <1>1 DEF Arranged, WithinOf
  <2>4. Custody!Arrange
    BY <1>1, <2>3, ArrangeMaps
  <2>5. Custody!Discard(c)
    BY <2>2, <2>4 DEF Custody!Discard, Home, HomeOf
  <2> QED BY <2>5 DEF Custody!Next, Custody!Content, Content
<1>2. ASSUME NEW s \in Sessions, NEW p \in Plans, _soft_delete_plan_by_id(s, p)
      PROVE  Custody!Next
  <2>1. LivePlans' = LivePlans \ {p} /\ LiveSeries' = LiveSeries \ {p} /\ p \in Content
    BY <1>2, Disjoint DEF _soft_delete_plan_by_id, LivePlans, LiveSeries, Content
  <2>2. Offers' = Offers
    BY <1>2, SameOffers DEF _soft_delete_plan_by_id
  <2> QED BY <1>1, <1>2, <2>1, <2>2 DEF _soft_delete_plan_by_id
<1>3. ASSUME NEW s \in Sessions, NEW x \in Series, soft_delete_series_with_plan_detach(s, x)
      PROVE  Custody!Next
  <2>1. LivePlans' = LivePlans \ {x} /\ LiveSeries' = LiveSeries \ {x} /\ x \in Content
    BY <1>3, Disjoint DEF soft_delete_series_with_plan_detach, LivePlans, LiveSeries, Content
  <2>2. Offers' = Offers
    BY <1>3, SameOffers DEF soft_delete_series_with_plan_detach
  <2> QED BY <1>1, <1>3, <2>1, <2>2 DEF soft_delete_series_with_plan_detach
<1> QED BY <1>2, <1>3 DEF Delete

\* The handlers that come in to edit, and the partners, which custody knows not.
LEMMA RestMaps ==
  ASSUME OneHandler, TInv, NEW s \in Sessions,
         \/ \E x \in Series, new \in SUBSET Plans : \E source \in [new -> Plans] :
              CloneRead(s, x, new, source)
         \/ \E x \in Series, ps \in SUBSET Plans :
              \/ update_existing_series(s, x, ps)
              \/ \E g \in Groups : create_new_series(s, x, g, ps)
         \/ \E p \in Plans : DetachRead(s, p) \/ \E x \in Series : AttachRead(s, p, x)
         \/ \E x \in Series, g \in Groups : add_series_partner(s, x, g) \/ RemovePartnerRead(s, x, g)
         \/ remove_series_partner(s)
         \/ \E t \in Transfers, a \in TransferStatus : Answer(s, t, a)
  PROVE  UNCHANGED <<Home, Within, Offers>>
<1>1. ASSUME NEW x \in Series, NEW ps \in SUBSET Plans, update_existing_series(s, x, ps)
      PROVE  UNCHANGED <<Home, Within, Offers>>
  <2> DEFINE r == [Idle EXCEPT !.pc = "series", !.c = x, !.keep = ps, !.drop = Held(x) \ ps]
  <2>1. r.pc = "series" /\ Enter(s, r)
    BY <1>1 DEF Idle, update_existing_series
  <2> HIDE DEF r
  <2> QED BY <2>1, EnterMaps
<1>2. ASSUME NEW x \in Series, NEW ps \in SUBSET Plans, NEW g \in Groups,
             create_new_series(s, x, g, ps)
      PROVE  UNCHANGED <<Home, Within, Offers>>
  <2> DEFINE r == [Idle EXCEPT !.pc = "series", !.c = x, !.to = g, !.keep = ps]
  <2>1. r.pc = "series" /\ Enter(s, r)
    BY <1>2 DEF Idle, create_new_series
  <2> HIDE DEF r
  <2> QED BY <2>1, EnterMaps
<1>3. ASSUME NEW p \in Plans, DetachRead(s, p) PROVE UNCHANGED <<Home, Within, Offers>>
  <2> DEFINE r == [Idle EXCEPT !.pc = "attach", !.c = p]
  <2>1. r.pc = "attach" /\ Enter(s, r)
    BY <1>3 DEF Idle, DetachRead
  <2> HIDE DEF r
  <2> QED BY <2>1, EnterMaps
<1>4. ASSUME NEW p \in Plans, NEW x \in Series, AttachRead(s, p, x)
      PROVE  UNCHANGED <<Home, Within, Offers>>
  <2> DEFINE r == [Idle EXCEPT !.pc = "attach", !.c = p, !.to = x]
  <2>1. r.pc = "attach" /\ Enter(s, r)
    BY <1>4 DEF Idle, AttachRead
  <2> HIDE DEF r
  <2> QED BY <2>1, EnterMaps
<1>5. ASSUME NEW x \in Series, NEW g \in Groups, add_series_partner(s, x, g)
      PROVE  UNCHANGED <<Home, Within, Offers>>
  BY <1>5, SameContentMaps, SameOffers DEF add_series_partner
<1>6. ASSUME NEW x \in Series, NEW g \in Groups, RemovePartnerRead(s, x, g)
      PROVE  UNCHANGED <<Home, Within, Offers>>
  <2> DEFINE r == [Idle EXCEPT !.pc = "remove", !.c = x, !.to = g]
  <2>1. r.pc = "remove" /\ Enter(s, r)
    BY <1>6 DEF Idle, RemovePartnerRead
  <2> HIDE DEF r
  <2> QED BY <2>1, EnterMaps
<1>7. ASSUME remove_series_partner(s) PROVE UNCHANGED <<Home, Within, Offers>>
  BY <1>7, SameContentMaps, LeaveMaps DEF remove_series_partner, Leave
<1>8. ASSUME NEW t \in Transfers, NEW a \in TransferStatus, Answer(s, t, a)
      PROVE  UNCHANGED <<Home, Within, Offers>>
  <2> DEFINE r == [Idle EXCEPT !.pc = "answer", !.t = t, !.answer = a]
  <2>1. r.pc = "answer" /\ Enter(s, r)
    BY <1>8 DEF Idle, Answer
  <2> HIDE DEF r
  <2> QED BY <2>1, EnterMaps
<1>9. ASSUME NEW x \in Series, NEW new \in SUBSET Plans, NEW source \in [new -> Plans],
             CloneRead(s, x, new, source)
      PROVE  UNCHANGED <<Home, Within, Offers>>
  <2>1. PICK r \in Session : Enter(s, r) /\ r.pc = "clone"
    BY <1>9, CloneEnters
  <2> QED BY <2>1, EnterMaps
<1> QED BY <1>1, <1>2, <1>3, <1>4, <1>5, <1>6, <1>7, <1>8, <1>9

CustodyInv == TInv /\ PendingInv /\ StrayInv /\ PlaceInv

\* Every step but a death in the middle of a handler is one of custody, or none.
LEMMA StepMaps ==
  ASSUME OneHandler, NoneIsNoOffer, CustodyInv, [Next]_vars, ~crashed'
  PROVE  Custody!Next \/ UNCHANGED <<Home, Within, Offers>>
<1>1. CASE Request
  BY <1>1, RequestMaps DEF CustodyInv
<1>2. CASE Respond
  <2>1. ASSUME NEW s \in Sessions, NEW t \in Transfers,
               \/ accept_transfer_request(s, t) \/ reject_transfer_request(s, t)
               \/ revoke_transfer_request(s, t)
        PROVE  UNCHANGED <<Home, Within, Offers>>
    <3>1. \E a \in TransferStatus : Answer(s, t, a)
      BY <2>1 DEF accept_transfer_request, reject_transfer_request, revoke_transfer_request,
                  TransferStatus
    <3> QED BY <3>1, RestMaps DEF CustodyInv
  <2> QED BY <1>2, <2>1, SaveMaps, LoadMaps, ApplyMaps DEF Respond, CustodyInv
<1>3. CASE EditSeries
  BY <1>3, SeriesMaps, RestMaps DEF EditSeries, CustodyInv
<1>4. CASE EditPlan
  BY <1>4, PlanMaps, RestMaps DEF EditPlan, CustodyInv
<1>5. CASE Delete
  BY <1>5, DeleteMaps DEF CustodyInv
<1>6. CASE EditPartners
  BY <1>6, RestMaps DEF EditPartners, CustodyInv
<1>7. CASE UNCHANGED vars \/ \E t \in Transfers : Expire(t)
  <2>1. UNCHANGED <<planGroup, planSeries, planGone, unused, seriesGroup, seriesGone, transfer, sess>>
    BY <1>7 DEF vars, content, Expire
  <2>2. Offers' = Offers
    BY <2>1 DEF Offers, OfferOf, Pending, Applying
  <2> QED BY <2>1, <2>2, SameContentMaps
<1>8. ~\E s \in Sessions : Crash(s)
  BY DEF Crash
<1>9. CASE Clone
  BY <1>9, CloneMaps, RestMaps DEF Clone, CustodyInv
<1> QED BY <1>1, <1>2, <1>3, <1>4, <1>5, <1>6, <1>7, <1>8, <1>9 DEF Next

LEMMA InitMaps == Init => Custody!Init
<1> SUFFICES ASSUME Init PROVE Custody!Init
  OBVIOUS
<1>1. Home \in [Content -> Groups \cup {None}]
  BY DEF Init, Home, HomeOf, GroupOf, LivePlans, LiveSeries, Content
<1>2. Within = [p \in Plans |-> None]
  BY DEF Init, Within, WithinOf
<1>3. Offers = [t \in Transfers |-> None]
  BY DEF Init, Offers, OfferOf
<1> QED
  BY <1>1, <1>2, <1>3
  DEF Custody!Init, Custody!Content, Content, Home, Within, Offers, HomeOf, WithinOf

\* One handler at a time, and until one dies between its commits, transfers and
\* edits keep the custody that ContentCustody promises: content moves in the step
\* that shows its transfer accepted, a series with all its live plans, and at no
\* other time.
THEOREM KeepsCustody == ASSUME OneHandler, NoneIsNoOffer PROVE Spec => ImplementsCustody
<1>1. Init => CustodyInv
  <2> SUFFICES ASSUME Init PROVE CustodyInv
    OBVIOUS
  <2>1. PendingInv
    BY IdleFact DEF Init, PendingInv, OnePendingTransfer, RequestInv, Pending
  <2> QED BY <2>1, InitTyped, InitKnown DEF CustodyInv
<1>2. CustodyInv /\ [Next]_vars => CustodyInv'
  BY StepTyped, StepKeepsPending, StepKeepsStray, StepKeepsPlace DEF CustodyInv
<1>3. CustodyInv /\ [Next]_vars => [Custody!Next \/ crashed']_<<Custody!vars>>
  <2> SUFFICES ASSUME CustodyInv, [Next]_vars, ~crashed',
                      ~Custody!Next, UNCHANGED <<Home, Within, Offers>>
               PROVE  UNCHANGED <<Custody!vars>>
    BY StepMaps
  <2> QED BY DEF Custody!vars, Home, Within, Offers, HomeOf, WithinOf
<1>4. Init => Custody!Init
  BY InitMaps
<1> QED BY <1>1, <1>2, <1>3, <1>4, PTL DEF Spec, ImplementsCustody
=============================================================================
