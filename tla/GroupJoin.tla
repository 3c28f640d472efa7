----------------------------- MODULE GroupJoin -----------------------------
(***************************************************************************)
(* How app users become members of one COMMUNITY group: a direct join      *)
(* while the group is public, a join request reviewed by a moderator while *)
(* it is private, and the sweep that admits every pending applicant when   *)
(* the group is made public.                                               *)
(*                                                                         *)
(* Every HTTP handler runs in a session of its own against PostgreSQL      *)
(* (READ COMMITTED, autoflush off).  A handler is split where another      *)
(* session can get between its statements: after an unlocked read, and     *)
(* while it waits for a row lock.  A handler that is refused before it     *)
(* writes changes nothing and is not shown, unless it was waiting for a    *)
(* lock when it found out.                                                 *)
(*                                                                         *)
(* The partial unique index on pending requests is left out on purpose:    *)
(* OnePendingPerUser shows the locks and checks suffice without it.        *)
(***************************************************************************)
EXTENDS JoinRequests

CONSTANTS Users, Moderators,
          Sessions    \* handlers that may be in flight at the same time

ASSUME NoneIsFresh == None \notin Users \cup Moderators \cup Requests \cup Sessions

VARIABLES
  isPublic, published, deleted,  \* the author_groups row
  joins,                         \* author_group_joins: the joined users
  requests,                      \* author_group_join_requests
  groupLock,                     \* session holding the group row FOR UPDATE
  rowLock,                       \* sessions holding a request row FOR UPDATE
  sess,                          \* the handler each session is running
  departed                       \* history: locked requests whose user has left

group == <<isPublic, published, deleted>>
vars == <<isPublic, published, deleted, joins, requests, groupLock, rowLock, sess, departed>>

RequestStatus == {"ABSENT", "PENDING", "APPROVED", "REJECTED"}
JoinRequest == [user : Users \cup {None},
                status : RequestStatus,
                reviewedBy : Moderators \cup {None}]
PCs == {"idle", "join_insert", "submit_lock", "submit_insert",
        "settings_lock", "settings_sweep", "sweep_look", "sweep_insert",
        "approve_lock", "approve_check", "approve_insert", "approve_commit",
        "reject_lock", "reject_commit"}
\* todo and admitted are the sweep's: the requests it has not come to, and the
\* users it has inserted in its transaction, which only the commit shows.
Session == [pc : PCs, user : Users \cup {None}, mod : Moderators \cup {None},
            req : Requests \cup {None}, todo : SUBSET Requests, admitted : SUBSET Users]

Idle == [pc |-> "idle", user |-> None, mod |-> None, req |-> None,
         todo |-> {}, admitted |-> {}]

Init ==
  /\ isPublic \in BOOLEAN /\ published \in BOOLEAN /\ deleted = FALSE
  /\ joins = {}
  /\ requests = [r \in Requests |-> [user |-> None, status |-> "ABSENT", reviewedBy |-> None]]
  /\ groupLock = None
  /\ rowLock = [r \in Requests |-> None]
  /\ sess = [s \in Sessions |-> Idle]
  /\ departed = {}

Pending(r) == requests[r].status = "PENDING"
has_pending_join_request(u) == \E r \in Requests : Pending(r) /\ requests[r].user = u

\* Mutant: a session that ends keeps the group row locked.
Release_keepsGroupLock(s) ==
  /\ rowLock' = [r \in Requests |-> IF rowLock[r] = s THEN None ELSE rowLock[r]]
  /\ sess' = [sess EXCEPT ![s] = Idle]
  /\ departed' = {r \in departed : rowLock[r] # s}
  /\ UNCHANGED groupLock

\* A session that ends commits or rolls back, and lets go of its row locks.
Release(s) ==
  /\ groupLock' = IF groupLock = s THEN None ELSE groupLock
  /\ rowLock' = [r \in Requests |-> IF rowLock[r] = s THEN None ELSE rowLock[r]]
  /\ sess' = [sess EXCEPT ![s] = Idle]
  /\ departed' = {r \in departed : rowLock[r] # s}

Goto(s, pc) == sess' = [sess EXCEPT ![s].pc = pc]

Begin(s, handler) ==
  /\ sess[s].pc = "idle"
  /\ sess' = [sess EXCEPT ![s] = handler]
  /\ UNCHANGED <<group, joins, requests, groupLock, rowLock, departed>>

\* A membership references the group row, so that its insert waits while another
\* session holds that row FOR UPDATE; and it waits for a session that has
\* inserted the same membership and not committed.
MayInsert(s, u) ==
  /\ groupLock \in {s, None}
  /\ \A t \in Sessions \ {s} : u \notin sess[t].admitted

-----------------------------------------------------------------------------
(* join_group: an unlocked read of the group, then the insert.  The look-up *)
(* of upsert_group_join is part of the insert: who finds the row writes     *)
(* nothing, and who finds none when there is one is refused.                *)

JoinRead(s, u) ==
  /\ published /\ ~deleted /\ isPublic
  /\ Begin(s, [Idle EXCEPT !.pc = "join_insert", !.user = u])

JoinInsert(s) ==
  /\ sess[s].pc = "join_insert"
  /\ sess[s].user \in joins \/ MayInsert(s, sess[s].user)
  /\ joins' = joins \cup {sess[s].user}
  /\ Release(s)
  /\ UNCHANGED <<group, requests>>

\* Needs no lock that a review or a sweep holds.
leave_group(u) ==
  /\ u \in joins
  /\ joins' = joins \ {u}
  /\ departed' = departed \cup {r \in Requests : requests[r].user = u /\ rowLock[r] # None}
  /\ UNCHANGED <<group, requests, groupLock, rowLock, sess>>

-----------------------------------------------------------------------------
(* submit_group_join_request *)

SubmitRead(s, u, r) ==
  /\ published /\ ~deleted
  /\ requests[r].status = "ABSENT"
  /\ \A t \in Sessions : sess[t].req # r
  /\ Begin(s, [Idle EXCEPT !.pc = "submit_lock", !.user = u, !.req = r])

\* Mutant: the visibility read before the lock is trusted.
MayApply_staleVisibility(u) ==
  ~deleted /\ u \notin joins /\ ~has_pending_join_request(u)

\* Mutant: only the unique index guards against a second pending request.
MayApply_noPendingCheck(u) == ~deleted /\ ~isPublic /\ u \notin joins

MayApply(u) ==
  ~deleted /\ ~isPublic /\ u \notin joins /\ ~has_pending_join_request(u)

\* Mutant: the checks run in a transaction of their own.
SubmitLock_notHeld(s) ==
  /\ sess[s].pc = "submit_lock"
  /\ groupLock = None
  /\ MayApply(sess[s].user)
  /\ Goto(s, "submit_insert")
  /\ UNCHANGED <<group, joins, requests, groupLock, rowLock, departed>>

SubmitLock(s) ==
  /\ sess[s].pc = "submit_lock"
  /\ groupLock = None
  /\ MayApply(sess[s].user)
  /\ groupLock' = s
  /\ Goto(s, "submit_insert")
  /\ UNCHANGED <<group, joins, requests, rowLock, departed>>

SubmitRefused(s) ==
  /\ sess[s].pc = "submit_lock"
  /\ groupLock = None
  /\ ~MayApply(sess[s].user)
  /\ Release(s)
  /\ UNCHANGED <<group, joins, requests>>

SubmitInsert(s) ==
  /\ sess[s].pc = "submit_insert"
  /\ requests' = [requests EXCEPT ![sess[s].req] =
                    [user |-> sess[s].user, status |-> "PENDING", reviewedBy |-> None]]
  /\ Release(s)
  /\ UNCHANGED <<group, joins>>

-----------------------------------------------------------------------------
(* update_author_group.  Only a change of the loaded is_public is written,  *)
(* so a request that repeats the loaded value is no step here.              *)

\* The group was loaded private and the request makes it public.
SettingsRead(s) ==
  /\ ~deleted /\ ~isPublic
  /\ Begin(s, [Idle EXCEPT !.pc = "settings_lock"])

\* A deleted group is not matched by the locking query, hence not locked.
SettingsLock(s) ==
  /\ sess[s].pc = "settings_lock"
  /\ groupLock = None
  /\ groupLock' = IF deleted THEN None ELSE s
  /\ Goto(s, "settings_sweep")
  /\ UNCHANGED <<group, joins, requests, rowLock, departed>>

\* _approve_pending_join_requests_on_publish locks every pending row.
SweepLock(s) ==
  /\ sess[s].pc = "settings_sweep"
  /\ \A r \in Requests : Pending(r) => rowLock[r] = None
  /\ rowLock' = [r \in Requests |-> IF Pending(r) THEN s ELSE rowLock[r]]
  /\ sess' = [sess EXCEPT ![s].pc = "sweep_look",
                          ![s].todo = {r \in Requests : Pending(r)}]
  /\ UNCHANGED <<group, joins, requests, groupLock, departed>>

\* The look-up of upsert_group_join, one applicant after the other: whoever is
\* a member needs no insert.
SweepLook(s, r) ==
  /\ sess[s].pc = "sweep_look" /\ r \in sess[s].todo
  /\ sess' = [sess EXCEPT
                ![s].todo = @ \ {r},
                ![s].pc = IF requests[r].user \in joins THEN "sweep_look" ELSE "sweep_insert",
                ![s].req = IF requests[r].user \in joins THEN None ELSE r]
  /\ UNCHANGED <<group, joins, requests, groupLock, rowLock, departed>>

SweepInsert(s) ==
  /\ sess[s].pc = "sweep_insert"
  /\ requests[sess[s].req].user \notin joins
  /\ MayInsert(s, requests[sess[s].req].user)
  /\ sess' = [sess EXCEPT ![s].pc = "sweep_look", ![s].req = None,
                          ![s].admitted = @ \cup {requests[sess[s].req].user}]
  /\ UNCHANGED <<group, joins, requests, groupLock, rowLock, departed>>

\* Of a deleted group the row is not held: a join may have come in between.
SweepConflict(s) ==
  /\ sess[s].pc = "sweep_insert"
  /\ requests[sess[s].req].user \in joins
  /\ Release(s)
  /\ UNCHANGED <<group, joins, requests>>

\* update_group commits the memberships, the decisions and the flip.
\* reviewer None: the sweep decides for no moderator.
SettingsCommit(s) ==
  /\ sess[s].pc = "sweep_look" /\ sess[s].todo = {}
  /\ joins' = joins \cup sess[s].admitted
  /\ requests' = [r \in Requests |->
                    IF Pending(r) /\ rowLock[r] = s
                      THEN [requests[r] EXCEPT !.status = "APPROVED"]
                      ELSE requests[r]]
  /\ isPublic' = TRUE
  /\ Release(s)
  /\ UNCHANGED <<published, deleted>>

MakePrivate ==
  /\ isPublic /\ ~deleted /\ groupLock = None
  /\ isPublic' = FALSE
  /\ UNCHANGED <<published, deleted, joins, requests, groupLock, rowLock, sess, departed>>

update_group_status ==
  /\ ~deleted /\ groupLock = None
  /\ published' = ~published
  /\ UNCHANGED <<isPublic, deleted, joins, requests, groupLock, rowLock, sess, departed>>

delete_author_group ==
  /\ ~deleted /\ groupLock = None
  /\ deleted' = TRUE
  /\ UNCHANGED <<isPublic, published, joins, requests, groupLock, rowLock, sess, departed>>

-----------------------------------------------------------------------------
(* approve_group_join_request and reject_group_join_request *)

ReviewRead(s, m, r, lockStep) ==
  /\ ~deleted
  /\ requests[r].status # "ABSENT"
  /\ lockStep \in {"approve_lock", "reject_lock"}
  /\ Begin(s, [Idle EXCEPT !.pc = lockStep, !.mod = m, !.req = r])

\* Mutant: the status is not looked at again once the row is locked.
ReviewLock_noRecheck(s) ==
  /\ sess[s].pc \in {"approve_lock", "reject_lock"}
  /\ rowLock[sess[s].req] = None
  /\ rowLock' = [rowLock EXCEPT ![sess[s].req] = s]
  /\ Goto(s, IF sess[s].pc = "approve_lock" THEN "approve_check" ELSE "reject_commit")
  /\ UNCHANGED <<group, joins, requests, groupLock, departed>>

ReviewLock(s) ==
  /\ sess[s].pc \in {"approve_lock", "reject_lock"}
  /\ rowLock[sess[s].req] = None
  /\ Pending(sess[s].req)
  /\ rowLock' = [rowLock EXCEPT ![sess[s].req] = s]
  /\ Goto(s, IF sess[s].pc = "approve_lock" THEN "approve_check" ELSE "reject_commit")
  /\ UNCHANGED <<group, joins, requests, groupLock, departed>>

\* Somebody else reviewed it while this moderator waited.
ReviewRefused(s) ==
  /\ sess[s].pc \in {"approve_lock", "reject_lock"}
  /\ rowLock[sess[s].req] = None
  /\ ~Pending(sess[s].req)
  /\ Release(s)
  /\ UNCHANGED <<group, joins, requests>>

\* Mutant: the applicant is recorded as the reviewer.
Decide_byApplicant(s, decision) ==
  requests' = [requests EXCEPT ![sess[s].req].status = decision,
                               ![sess[s].req].reviewedBy = requests[sess[s].req].user]

Decide(s, decision) ==
  requests' = [requests EXCEPT ![sess[s].req].status = decision,
                               ![sess[s].req].reviewedBy = sess[s].mod]

\* upsert_group_join looks for the row, without a lock: whoever is a member
\* needs no insert, and may have left when the decision is committed.
ApproveLook(s) ==
  /\ sess[s].pc = "approve_check"
  /\ Goto(s, IF requests[sess[s].req].user \in joins THEN "approve_commit" ELSE "approve_insert")
  /\ UNCHANGED <<group, joins, requests, groupLock, rowLock, departed>>

ApproveMember(s) ==
  /\ sess[s].pc = "approve_commit"
  /\ Decide(s, "APPROVED")
  /\ Release(s)
  /\ UNCHANGED <<group, joins>>

\* Mutant: the status is committed and the membership left for later.
ApproveInsert_statusOnly(s) ==
  /\ sess[s].pc = "approve_insert"
  /\ requests[sess[s].req].user \notin joins
  /\ MayInsert(s, requests[sess[s].req].user)
  /\ Decide(s, "APPROVED")
  /\ Release(s)
  /\ UNCHANGED <<group, joins>>

\* Insert and commit are one step: until the commit no other session sees the
\* row, and the update of the group waits for it.
ApproveInsert(s) ==
  /\ sess[s].pc = "approve_insert"
  /\ requests[sess[s].req].user \notin joins
  /\ MayInsert(s, requests[sess[s].req].user)
  /\ joins' = joins \cup {requests[sess[s].req].user}
  /\ Decide(s, "APPROVED")
  /\ Release(s)
  /\ UNCHANGED group

\* The user joined directly after the look-up: the primary key refuses the
\* insert and the review is rolled back.
ApproveConflict(s) ==
  /\ sess[s].pc = "approve_insert"
  /\ requests[sess[s].req].user \in joins
  /\ Release(s)
  /\ UNCHANGED <<group, joins, requests>>

Reject(s) ==
  /\ sess[s].pc = "reject_commit"
  /\ Decide(s, "REJECTED")
  /\ Release(s)
  /\ UNCHANGED <<group, joins>>

-----------------------------------------------------------------------------
(* A review locks the request and then needs the group; a settings update   *)
(* locks the group and then needs the request.  PostgreSQL breaks the cycle *)
(* by aborting one of the two transactions.                                 *)

Deadlocked(approver, settings) ==
  /\ sess[approver].pc = "approve_insert"
  /\ sess[settings].pc = "settings_sweep"
  /\ groupLock = settings
  /\ rowLock[sess[approver].req] = approver
  /\ Pending(sess[approver].req)

DeadlockAbort(approver, settings, victim) ==
  /\ Deadlocked(approver, settings)
  /\ victim \in {approver, settings}
  /\ Release(victim)
  /\ UNCHANGED <<group, joins, requests>>

-----------------------------------------------------------------------------
Start(s) ==
  \/ \E u \in Users : JoinRead(s, u)
  \/ \E u \in Users, r \in Requests : SubmitRead(s, u, r)
  \/ SettingsRead(s)
  \/ \E m \in Moderators, r \in Requests :
       ReviewRead(s, m, r, "approve_lock") \/ ReviewRead(s, m, r, "reject_lock")

Continue(s) ==
  \/ JoinInsert(s)
  \/ SubmitLock(s) \/ SubmitRefused(s) \/ SubmitInsert(s)
  \/ SettingsLock(s) \/ SweepLock(s) \/ (\E r \in Requests : SweepLook(s, r))
  \/ SweepInsert(s) \/ SweepConflict(s) \/ SettingsCommit(s)
  \/ ReviewLock(s) \/ ReviewRefused(s)
  \/ ApproveLook(s) \/ ApproveMember(s) \/ ApproveInsert(s) \/ ApproveConflict(s)
  \/ Reject(s)

BreakDeadlock == \E a, p, v \in Sessions : DeadlockAbort(a, p, v)

Next ==
  \/ \E s \in Sessions : Start(s) \/ Continue(s)
  \/ BreakDeadlock
  \/ \E u \in Users : leave_group(u)
  \/ MakePrivate \/ update_group_status \/ delete_author_group

Spec == Init /\ [][Next]_vars

(* A handler that can go on does: the server runs every request it accepted. *)
(* Strong fairness for a session stands for PostgreSQL's lock queue, which   *)
(* serves a waiter before a later request for the same row.  Nobody is       *)
(* obliged to send a request.                                                *)
Fairness == /\ \A s \in Sessions : SF_vars(Continue(s))
            /\ WF_vars(BreakDeadlock)
FairSpec == Spec /\ Fairness

-----------------------------------------------------------------------------
(* Properties *)

\* Every variable has its type.
TypeOK ==
  /\ isPublic \in BOOLEAN /\ published \in BOOLEAN /\ deleted \in BOOLEAN
  /\ joins \subseteq Users
  /\ requests \in [Requests -> JoinRequest]
  /\ groupLock \in Sessions \cup {None}
  /\ rowLock \in [Requests -> Sessions \cup {None}]
  /\ sess \in [Sessions -> Session]
  /\ departed \subseteq Requests

\* A public group has no pending applicant: update_author_group promises that
\* "the group can never be public with applicants left waiting", whatever a
\* submission, a review or a second settings update does at the same time.
NoStrandedApplicant == isPublic => \A r \in Requests : ~Pending(r)

\* A user has at most one pending request, by the check made under the group
\* lock and not only by the unique index behind it.
OnePendingPerUser ==
  \A q, r \in Requests :
    (Pending(q) /\ Pending(r) /\ requests[q].user = requests[r].user) => q = r

\* A request is filed only while the group is private and not deleted, in the
\* very state the insert commits in: the read that let the handler in is stale.
FiledOnlyWhenPrivate ==
  [][\A r \in Requests :
       (~Pending(r) /\ Pending(r)') => (~isPublic' /\ ~deleted')]_vars

\* A decision is never revised: two moderators, or a moderator and the publish
\* sweep, cannot both decide one request.
ReviewedIsFinal ==
  [][\A r \in Requests :
       requests[r].status \in {"APPROVED", "REJECTED"} => requests'[r] = requests[r]]_vars

\* Whoever is approved, by a moderator or by the sweep, is a member in the very
\* state that shows the approval, whatever is joined, left, filed and published
\* at the same time -- unless they left while the request was being decided.
ApprovalAdmits ==
  [][\A r \in Requests :
       (requests[r].status # "APPROVED" /\ requests'[r].status = "APPROVED")
         => requests'[r].user \in joins' \/ r \in departed]_vars

\* The comment on approve_group_join_request promises it without the exception:
\* membership and status "are committed together".
ApprovedTogether ==
  [][\A r \in Requests :
       (requests[r].status # "APPROVED" /\ requests'[r].status = "APPROVED")
         => requests'[r].user \in joins']_vars

\* Every handler answers: no request hangs on a lock for ever, although reviews
\* and settings updates take the two row locks in opposite orders.
HandlersFinish ==
  \A s \in Sessions : sess[s].pc # "idle" ~> sess[s].pc = "idle"
=============================================================================
