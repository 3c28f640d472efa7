-------------------------- MODULE ContentTransfer --------------------------
(***************************************************************************)
(* Plans and series change hands between author groups: transfers are      *)
(* requested, accepted, rejected and revoked while authors put plans into  *)
(* series, take them out, clone those of a series into another language,   *)
(* delete either, and manage the partner groups of a series.  Whether the  *)
(* author may act is left out: some author may.                            *)
(*                                                                         *)
(* No handler locks a row.  Each is split between what it loads and checks *)
(* and its commit; accepting a transfer has two commits.                   *)
(***************************************************************************)
CONSTANTS Plans, Series, Groups,
          Transfers, \* ids of transfer requests; bounds how many are made
          Sessions,  \* handlers that may be in flight at the same time
          MayCrash,  \* whether a process may die inside a handler
          None

ASSUME Disjoint ==
  /\ None \notin Plans \cup Series \cup Groups \cup Transfers
  /\ Plans \cap Series = {}

VARIABLES
  planGroup,   \* plans.group_id
  planSeries,  \* plans.series_id
  planGone,    \* plans that are not there: deleted_at is set, or not yet created
  unused,      \* the plan ids among them that no plan has had yet
  seriesGroup, \* series.group_id, None for a series nobody has created yet
  seriesGone,  \* series whose deleted_at is set
  partners,    \* series_partners rows that are not soft-deleted
  transfer,    \* content_transfer_requests
  expired,     \* transfers whose expires_at has passed
  sess,        \* the handler each session is running
  crashed      \* history: a handler has died half way

content == <<planGroup, planSeries, planGone, unused, seriesGroup, seriesGone, partners>>
vars == <<content, transfer, expired, sess, crashed>>

Content == Plans \cup Series
TransferStatus == {"PENDING", "ACCEPTED", "REJECTED", "REVOKED", "EXPIRED"}
Transfer == [content : Content, to : Groups, status : TransferStatus]
ASSUME NoneIsNoTransfer == None \notin Transfer
\* What a handler carries from its checks to its commit: the answer it will
\* write to transfer t, or content c, a group, and the content to change; and
\* for each plan id that is to be a copy, the group of the plan it is copied from.
Session == [pc : {"idle", "request", "answer", "apply", "move", "series", "clone", "attach",
                  "remove"},
            answer : TransferStatus \cup {None}, t : Transfers \cup {None},
            c : Content \cup {None}, to : Groups \cup Series \cup {None},
            keep : SUBSET Content, drop : SUBSET Plans,
            copies : [Plans -> Groups \cup {None}]]

Idle == [pc |-> "idle", answer |-> None, t |-> None, c |-> None, to |-> None,
         keep |-> {}, drop |-> {}, copies |-> [p \in Plans |-> None]]

Init ==
  /\ planGroup \in [Plans -> Groups]
  /\ planSeries = [p \in Plans |-> None]
  /\ unused \in SUBSET Plans /\ planGone = unused
  /\ seriesGroup = [x \in Series |-> None] /\ seriesGone = {} /\ partners = {}
  /\ transfer = [t \in Transfers |-> None] /\ expired = {}
  /\ sess = [s \in Sessions |-> Idle]
  /\ crashed = FALSE

LivePlans == Plans \ planGone
LiveSeries == {x \in Series : seriesGroup[x] # None} \ seriesGone
GroupOf(c) == IF c \in Plans THEN planGroup[c] ELSE seriesGroup[c]
Held(x) == {p \in LivePlans : planSeries[p] = x}

\* A handler comes in and goes on, as session record r, from what it checked.
Enter(s, r) ==
  /\ sess[s].pc = "idle"
  /\ sess' = [sess EXCEPT ![s] = r]
  /\ UNCHANGED <<content, transfer, expired, crashed>>
\* It has done its last commit.
Leave(s) == sess' = [sess EXCEPT ![s] = Idle] /\ UNCHANGED crashed

-----------------------------------------------------------------------------
(* Transfers *)

\* Mutant: a transfer nobody answered in time no longer counts.
has_pending_transfer_unexpired(c) ==
  \E t \in Transfers \ expired :
    transfer[t] # None /\ transfer[t].content = c /\ transfer[t].status = "PENDING"

\* expires_at is not looked at.
has_pending_transfer(c) ==
  \E t \in Transfers :
    transfer[t] # None /\ transfer[t].content = c /\ transfer[t].status = "PENDING"

RequestRead(s, c, g) ==
  /\ c \in LivePlans \cup LiveSeries
  /\ c \in Plans => planSeries[c] = None
  /\ g # GroupOf(c)
  /\ ~has_pending_transfer(c)
  /\ Enter(s, [Idle EXCEPT !.pc = "request", !.c = c, !.to = g])

create_transfer_request(s, t) ==
  /\ sess[s].pc = "request" /\ transfer[t] = None
  /\ transfer' = [transfer EXCEPT ![t] =
                    [content |-> sess[s].c, to |-> sess[s].to, status |-> "PENDING"]]
  /\ Leave(s)
  /\ UNCHANGED <<content, expired>>

Pending(t) == transfer[t] # None /\ transfer[t].status = "PENDING"

\* expires_at passes; nobody asks for it once the transfer is answered.
Expire(t) ==
  /\ Pending(t)
  /\ expired' = expired \cup {t}
  /\ UNCHANGED <<content, transfer, sess, crashed>>

Answer(s, t, answer) == Enter(s, [Idle EXCEPT !.pc = "answer", !.t = t, !.answer = answer])

accept_transfer_request(s, t) ==
  /\ Pending(t)
  /\ Answer(s, t, IF t \in expired THEN "EXPIRED" ELSE "ACCEPTED")

reject_transfer_request(s, t) == Pending(t) /\ Answer(s, t, "REJECTED")
revoke_transfer_request(s, t) == Pending(t) /\ Answer(s, t, "REVOKED")

\* An UPDATE by id, whatever the status has become.
save_transfer(s) ==
  /\ sess[s].pc = "answer"
  /\ transfer' = [transfer EXCEPT ![sess[s].t].status = sess[s].answer]
  /\ IF sess[s].answer = "ACCEPTED"
     THEN sess' = [sess EXCEPT ![s].pc = "apply"] /\ UNCHANGED crashed
     ELSE Leave(s)
  /\ UNCHANGED <<content, expired>>

\* Mutant: the plans of a series stay where they are.
ApplyLoad_seriesOnly(s) ==
  LET c == transfer[sess[s].t].content IN
  /\ sess[s].pc = "apply"
  /\ sess' = [sess EXCEPT
       ![s].pc = "move", ![s].to = transfer[sess[s].t].to,
       ![s].c = IF c \in Plans \cup LiveSeries THEN c ELSE None,
       ![s].keep = IF c \in Plans \cup LiveSeries THEN {c} ELSE {}]
  /\ UNCHANGED <<content, transfer, expired, crashed>>

\* get_plan_by_id finds a deleted plan too, get_series_by_id no deleted series.
\* Content that is in the other group already is not written.
ApplyLoad(s) ==
  LET c == transfer[sess[s].t].content
      to == transfer[sess[s].t].to
      loaded == IF c \in Plans THEN {c} ELSE IF c \in LiveSeries THEN {c} \cup Held(c) ELSE {}
  IN
  /\ sess[s].pc = "apply"
  /\ sess' = [sess EXCEPT ![s].pc = "move", ![s].to = to,
                          ![s].c = IF loaded = {} THEN None ELSE c,
                          ![s].keep = {d \in loaded : GroupOf(d) # to}]
  /\ UNCHANGED <<content, transfer, expired, crashed>>

_apply_transfer_accept(s) ==
  LET to == sess[s].to
      moved == sess[s].keep
  IN
  /\ sess[s].pc = "move"
  /\ planGroup' = [p \in Plans |-> IF p \in moved THEN to ELSE planGroup[p]]
  /\ seriesGroup' = [x \in Series |-> IF x \in moved THEN to ELSE seriesGroup[x]]
  /\ partners' = partners \cup {<<x, to>> : x \in Series \cap {sess[s].c}}
  /\ Leave(s)
  /\ UNCHANGED <<planSeries, planGone, unused, seriesGone, transfer, expired>>

-----------------------------------------------------------------------------
(* Series and the plans in them *)

\* Mutant: the group of the plans is not compared.
_validate_plan_ids_anyGroup(ps, x, g) ==
  \A p \in ps : p \in LivePlans /\ planSeries[p] \in {None, x}

\* Plans that are in the series already are not compared with its group.
_validate_plan_ids(ps, x, g) ==
  \A p \in ps : /\ p \in LivePlans
                /\ planSeries[p] \in {None, x}
                /\ planSeries[p] = x \/ planGroup[p] = g

create_new_series(s, x, g, ps) ==
  /\ seriesGroup[x] = None /\ \A t \in Sessions : sess[t].c # x
  /\ _validate_plan_ids(ps, x, g)
  /\ Enter(s, [Idle EXCEPT !.pc = "series", !.c = x, !.to = g, !.keep = ps])

update_existing_series(s, x, ps) ==
  /\ x \in LiveSeries
  /\ _validate_plan_ids(ps, x, seriesGroup[x])
  /\ Enter(s, [Idle EXCEPT !.pc = "series", !.c = x, !.keep = ps, !.drop = Held(x) \ ps])

\* Bulk UPDATEs of the plans by id; to is set for a series that is created.
SaveSeriesWithPlans(s) ==
  LET x == sess[s].c
      new == sess[s].to # None
  IN
  /\ sess[s].pc = "series"
  /\ planSeries' = [p \in Plans |-> IF p \in sess[s].keep THEN x
                                    ELSE IF p \in sess[s].drop THEN None ELSE planSeries[p]]
  /\ seriesGroup' = IF new THEN [seriesGroup EXCEPT ![x] = sess[s].to] ELSE seriesGroup
  /\ partners' = IF new THEN partners \cup {<<x, sess[s].to>>} ELSE partners
  /\ Leave(s)
  /\ UNCHANGED <<planGroup, planGone, unused, seriesGone, transfer, expired>>

\* The plans of one language, any of those the series holds, are copied; new
\* stands for the ids their copies will get.  A copy keeps the group of its
\* source, not that of the series.
CloneRead(s, x, new, source) ==
  /\ x \in LiveSeries
  /\ new # {} /\ new \subseteq unused
  /\ \A t \in Sessions, p \in new : sess[t].copies[p] = None
  /\ \A p \in new : source[p] \in Held(x)
  /\ \A p, q \in new : source[p] = source[q] => p = q
  /\ Enter(s, [Idle EXCEPT !.pc = "clone", !.c = x,
                 !.copies = [p \in Plans |-> IF p \in new THEN planGroup[source[p]] ELSE None]])

clone_series_plans_for_language(s) ==
  LET copies == sess[s].copies
      new == {p \in Plans : copies[p] # None}
  IN
  /\ sess[s].pc = "clone"
  /\ planGroup' = [p \in Plans |-> IF p \in new THEN copies[p] ELSE planGroup[p]]
  /\ planSeries' = [p \in Plans |-> IF p \in new THEN sess[s].c ELSE planSeries[p]]
  /\ planGone' = planGone \ new /\ unused' = unused \ new
  /\ Leave(s)
  /\ UNCHANGED <<seriesGroup, seriesGone, partners, transfer, expired>>

AttachRead(s, p, x) ==
  /\ p \in LivePlans /\ planSeries[p] = None
  /\ x \in LiveSeries /\ seriesGroup[x] = planGroup[p]
  /\ Enter(s, [Idle EXCEPT !.pc = "attach", !.c = p, !.to = x])

DetachRead(s, p) ==
  /\ p \in LivePlans /\ planSeries[p] # None
  /\ Enter(s, [Idle EXCEPT !.pc = "attach", !.c = p])

update_plan_details(s) ==
  /\ sess[s].pc = "attach"
  /\ planSeries' = [planSeries EXCEPT ![sess[s].c] = sess[s].to]
  /\ Leave(s)
  /\ UNCHANGED <<planGroup, planGone, unused, seriesGroup, seriesGone, partners,
                 transfer, expired>>

\* A handler whose checks nothing but its own commit can fail is one step: the
\* session s only has to be free.  The plan keeps its series.
_soft_delete_plan_by_id(s, p) ==
  /\ sess[s].pc = "idle"
  /\ p \in LivePlans
  /\ planGone' = planGone \cup {p}
  /\ UNCHANGED <<planGroup, planSeries, unused, seriesGroup, seriesGone, partners,
                 transfer, expired, sess, crashed>>

soft_delete_series_with_plan_detach(s, x) ==
  /\ sess[s].pc = "idle"
  /\ x \in LiveSeries
  /\ seriesGone' = seriesGone \cup {x}
  /\ planSeries' = [p \in Plans |-> IF planSeries[p] = x THEN None ELSE planSeries[p]]
  /\ UNCHANGED <<planGroup, planGone, unused, seriesGroup, partners,
                 transfer, expired, sess, crashed>>

add_series_partner(s, x, g) ==
  /\ sess[s].pc = "idle"
  /\ x \in LiveSeries /\ <<x, g>> \notin partners
  /\ partners' = partners \cup {<<x, g>>}
  /\ UNCHANGED <<planGroup, planSeries, planGone, unused, seriesGroup, seriesGone,
                 transfer, expired, sess, crashed>>

\* Mutant: the owner may be removed like any other partner.
RemovePartnerRead_ownerToo(s, x, g) ==
  /\ x \in LiveSeries
  /\ <<x, g>> \in partners
  /\ Enter(s, [Idle EXCEPT !.pc = "remove", !.c = x, !.to = g])

RemovePartnerRead(s, x, g) ==
  /\ x \in LiveSeries
  /\ g # seriesGroup[x]
  /\ <<x, g>> \in partners
  /\ Enter(s, [Idle EXCEPT !.pc = "remove", !.c = x, !.to = g])

remove_series_partner(s) ==
  /\ sess[s].pc = "remove"
  /\ partners' = partners \ {<<sess[s].c, sess[s].to>>}
  /\ Leave(s)
  /\ UNCHANGED <<planGroup, planSeries, planGone, unused, seriesGroup, seriesGone,
                 transfer, expired>>

Crash(s) ==
  /\ MayCrash /\ sess[s].pc # "idle"
  /\ sess' = [sess EXCEPT ![s] = Idle]
  /\ crashed' = TRUE
  /\ UNCHANGED <<content, transfer, expired>>

-----------------------------------------------------------------------------
Request == \E s \in Sessions :
  \/ \E c \in Content, g \in Groups : RequestRead(s, c, g)
  \/ \E t \in Transfers : create_transfer_request(s, t)
Respond == \E s \in Sessions :
  \/ \E t \in Transfers :
       \/ accept_transfer_request(s, t)
       \/ reject_transfer_request(s, t)
       \/ revoke_transfer_request(s, t)
  \/ save_transfer(s) \/ ApplyLoad(s) \/ _apply_transfer_accept(s)
EditSeries == \E s \in Sessions :
  \/ \E x \in Series, ps \in SUBSET Plans :
       update_existing_series(s, x, ps) \/ \E g \in Groups : create_new_series(s, x, g, ps)
  \/ SaveSeriesWithPlans(s)
Clone == \E s \in Sessions :
  \/ \E x \in Series, new \in SUBSET Plans : \E source \in [new -> Plans] :
       CloneRead(s, x, new, source)
  \/ clone_series_plans_for_language(s)
EditPlan == \E s \in Sessions :
  \/ \E p \in Plans : DetachRead(s, p) \/ \E x \in Series : AttachRead(s, p, x)
  \/ update_plan_details(s)
Delete == \E s \in Sessions :
  \/ \E p \in Plans : _soft_delete_plan_by_id(s, p)
  \/ \E x \in Series : soft_delete_series_with_plan_detach(s, x)
EditPartners == \E s \in Sessions :
  \/ \E x \in Series, g \in Groups : add_series_partner(s, x, g) \/ RemovePartnerRead(s, x, g)
  \/ remove_series_partner(s)

Next ==
  \/ Request \/ Respond \/ EditSeries \/ Clone \/ EditPlan \/ Delete \/ EditPartners
  \/ \E t \in Transfers : Expire(t)
  \/ \E s \in Sessions : Crash(s)

Spec == Init /\ [][Next]_vars

-----------------------------------------------------------------------------
\* Every variable has its type.
TypeOK ==
  /\ planGroup \in [Plans -> Groups]
  /\ planSeries \in [Plans -> Series \cup {None}]
  /\ planGone \subseteq Plans /\ unused \subseteq planGone
  /\ seriesGroup \in [Series -> Groups \cup {None}] /\ seriesGone \subseteq Series
  /\ partners \subseteq Series \X Groups
  /\ transfer \in [Transfers -> Transfer \cup {None}] /\ expired \subseteq Transfers
  /\ sess \in [Sessions -> Session]
  /\ crashed \in BOOLEAN

Applying(t) == \E s \in Sessions : sess[s].t = t /\ sess[s].pc \in {"apply", "move"}

\* What a transfer has come to, seen from outside: a transfer that is ACCEPTED
\* counts as open until its content has been moved.
OfferOf(t) ==
  IF transfer[t] = None THEN None
  ELSE [content |-> transfer[t].content, to |-> transfer[t].to,
        state |-> IF Pending(t) \/ Applying(t) THEN "OPEN"
                  ELSE IF transfer[t].status = "ACCEPTED" THEN "ACCEPTED" ELSE "CLOSED"]

Custody == INSTANCE ContentCustody WITH
  Plans <- Plans, Series <- Series, Groups <- Groups, Transfers <- Transfers, None <- None,
  home <- [c \in Content |-> IF c \in LivePlans \cup LiveSeries THEN GroupOf(c) ELSE None],
  within <- [p \in Plans |-> IF p \in LivePlans THEN planSeries[p] ELSE None],
  offer <- [t \in Transfers |-> OfferOf(t)]

\* One handler at a time, and until one dies between its commits, the handlers
\* keep the custody that ContentCustody promises: content moves when its transfer
\* is accepted and at no other time, a series with all its live plans.
ImplementsCustody == Custody!Init /\ [][Custody!Next \/ crashed']_<<Custody!vars>>

\* "A pending transfer request already exists for this content": one handler at
\* a time, and wherever one died, content has one pending transfer at most.
OnePendingTransfer ==
  \A t, u \in Transfers :
    Pending(t) /\ Pending(u) /\ transfer[t].content = transfer[u].content => t = u

Strays(p) ==
  /\ p \in LivePlans /\ planSeries[p] \in LiveSeries
  /\ planGroup[p] # seriesGroup[planSeries[p]]

\* An accepted transfer of the plan itself is being carried out.
MovesAlone(p) ==
  \E s \in Sessions : LET t == sess[s].t IN
    /\ sess[s].pc = "move" /\ t # None /\ transfer[t] # None
    /\ transfer[t].status = "ACCEPTED" /\ transfer[t].content = p

\* The step makes p a copy of a plan that strays already.
CopiesStray(p) ==
  /\ p \in unused
  /\ \E q \in Plans : /\ Strays(q) /\ planSeries[q] = planSeries'[p]
                      /\ planGroup[q] = planGroup'[p]

\* One handler at a time, and wherever one died, a plan comes to be in a series
\* of another group in two ways only: a transfer of its own is carried out, and
\* such a transfer was requested while the plan was in no series; or it is the
\* copy of a plan that was in that series and in that other group before.
StraysByTransferOrCopy ==
  [][/\ \A p \in Plans : ~Strays(p) /\ Strays(p)' => MovesAlone(p) \/ CopiesStray(p)
     /\ \A p \in Plans, t \in Transfers :
          (transfer[t] = None /\ transfer'[t] # None /\ transfer'[t].content = p)
             => planSeries[p] = None]_vars

\* One handler at a time, the group that owns a series is one of its active
\* partners, also after the series changed hands, partners came and went, and
\* handlers died.
OwnerIsPartner ==
  \A x \in LiveSeries : <<x, seriesGroup[x]>> \in partners

\* "Plan and series must belong to the same group"
PlansFollowSeries ==
  \A p \in LivePlans : planSeries[p] \in LiveSeries => planGroup[p] = seriesGroup[planSeries[p]]
=============================================================================
