-------------------------- MODULE GroupGovernance --------------------------
(***************************************************************************)
(* Who runs one author group: the roles of its members, the transfer of    *)
(* ownership, removals, and the invitations authors enter by.              *)
(*                                                                         *)
(* None of these handlers locks a row.  Each reads, decides, and writes in *)
(* a later statement, so a handler here is a read step followed by one     *)
(* write step for each COMMIT of the code.  AUTHOR and VIEWER are treated  *)
(* alike by all of them: a role below ADMIN is a member of PlainRoles.     *)
(***************************************************************************)
CONSTANTS Authors,
          SuperAdmins,  \* authors who act with the rights of an OWNER
          PlainRoles,
          Invites,      \* ids of invitations; bounds how many are sent
          Sessions,     \* handlers that may be in flight at the same time
          MayCrash,     \* whether a handler may die between two commits
          None

ASSUME GovernanceAssumption ==
  /\ SuperAdmins \subseteq Authors
  /\ None \notin Authors \cup Invites \cup Sessions
  /\ PlainRoles \cap {"OWNER", "ADMIN", "NONE"} = {}
  /\ MayCrash \in BOOLEAN

VARIABLES
  members,  \* author_group_members: the role of each author, or "NONE"
  invites,  \* author_group_invites
  sess,     \* the handler each session is running
  entered,  \* history: invitations whose acceptance has added a member
  torn      \* history: invitations accepted twice at once, or by a handler that died

history == <<entered, torn>>
vars == <<members, invites, sess, entered, torn>>

Roles == {"OWNER", "ADMIN"} \cup PlainRoles
InviteStatus == {"ABSENT", "PENDING", "ACCEPTED", "REJECTED", "REVOKED"}
Invite == [target : Authors \cup {None}, role : Roles \cup {"NONE"},
           status : InviteStatus, live : BOOLEAN]
PCs == {"idle", "role_write", "transfer_demote", "transfer_promote", "remove_write",
        "invite_insert", "accept_add", "accept_mark", "reject_write", "revoke_write"}
\* role is what the handler is about to write, seen the role it loaded, gone
\* the authors whose row was deleted after the handler loaded it (a row added
\* later for the same author has another id).
Session == [pc : PCs, actor : Authors \cup {None}, target : Authors \cup {None},
            role : Roles \cup {"NONE"}, seen : Roles \cup {"NONE"},
            gone : SUBSET Authors, inv : Invites \cup {None}]

Idle == [pc |-> "idle", actor |-> None, target |-> None,
         role |-> "NONE", seen |-> "NONE", gone |-> {}, inv |-> None]

IsOwner(a) == members[a] = "OWNER"
IsMember(a) == members[a] # "NONE"
owner_count == {a \in Authors : IsOwner(a)}

\* create_group makes its creator the one OWNER; the rest entered by invitations.
Init ==
  /\ members \in [Authors -> Roles \cup {"NONE"}]
  /\ \E o \in Authors : owner_count = {o}
  /\ invites = [i \in Invites |-> [target |-> None, role |-> "NONE",
                                   status |-> "ABSENT", live |-> TRUE]]
  /\ sess = [s \in Sessions |-> Idle]
  /\ entered = {} /\ torn = {}

OwnerRights(a) == a \in SuperAdmins \/ IsOwner(a)
MayManage(a) == a \in SuperAdmins \/ members[a] \in {"OWNER", "ADMIN"}
Pending(i) == invites[i].status = "PENDING"
has_pending_invite(a) == \E i \in Invites : Pending(i) /\ invites[i].live /\ invites[i].target = a

Begin(s, handler) ==
  /\ sess[s].pc = "idle"
  /\ sess' = [sess EXCEPT ![s] = handler]
  /\ UNCHANGED <<members, invites>>
Goto(s, pc) == sess' = [sess EXCEPT ![s].pc = pc]
Finish(s) == sess' = [sess EXCEPT ![s] = Idle]
\* The row of a that s loaded is still there.
RowLives(s, a) == IsMember(a) /\ a \notin sess[s].gone

-----------------------------------------------------------------------------
(* update_group_member_role *)

_assert_role_change_allowed(actor, target, role) ==
  /\ role # "OWNER"
  /\ IsOwner(target) => OwnerRights(actor)
  /\ \/ OwnerRights(actor)
     \/ ~(members[target] = "ADMIN" /\ target # actor) /\ role # "ADMIN"

\* Mutant: the last owner may go.
_assert_not_last_owner_unchecked(a) == TRUE

_assert_not_last_owner(a) == IsOwner(a) => owner_count # {a}

RoleRead(s, actor, target, role) ==
  /\ MayManage(actor) /\ IsMember(target)
  /\ _assert_role_change_allowed(actor, target, role)
  /\ _assert_not_last_owner(target)
  /\ Begin(s, [Idle EXCEPT !.pc = "role_write", !.actor = actor, !.target = target,
                           !.role = role, !.seen = members[target]])

\* The ORM writes the role only when it differs from the loaded one, and
\* nothing when the row is gone (the handler then answers 500).
RoleWrite(s) ==
  /\ sess[s].pc = "role_write"
  /\ LET t == sess[s].target IN
     members' = IF RowLives(s, t) /\ sess[s].role # sess[s].seen
                THEN [members EXCEPT ![t] = sess[s].role] ELSE members
  /\ Finish(s)
  /\ UNCHANGED invites

-----------------------------------------------------------------------------
(* transfer_group_ownership: two commits, the old owner first *)

TransferRead(s, actor, target) ==
  /\ IsOwner(actor) /\ target # actor
  /\ IsMember(target) /\ ~IsOwner(target)
  /\ Begin(s, [Idle EXCEPT !.pc = "transfer_demote", !.actor = actor, !.target = target])

\* Mutant: the old owner gets a role the group does not have.
TransferDemote_unknownRole(s) ==
  /\ sess[s].pc = "transfer_demote"
  /\ RowLives(s, sess[s].actor)
  /\ members' = [members EXCEPT ![sess[s].actor] = "MEMBER"]
  /\ Goto(s, "transfer_promote")
  /\ UNCHANGED invites

TransferDemote(s) ==
  /\ sess[s].pc = "transfer_demote"
  /\ RowLives(s, sess[s].actor)
  /\ members' = [members EXCEPT ![sess[s].actor] = "ADMIN"]
  /\ Goto(s, "transfer_promote")
  /\ UNCHANGED invites

\* Mutant: without the unique index on the OWNER of a group.
OwnerIndexAllows_dropped(a) == TRUE

\* uq_author_group_members_one_owner_per_group
OwnerIndexAllows(a) == owner_count \subseteq {a}

TransferPromote(s) ==
  /\ sess[s].pc = "transfer_promote"
  /\ RowLives(s, sess[s].target) /\ OwnerIndexAllows(sess[s].target)
  /\ members' = [members EXCEPT ![sess[s].target] = "OWNER"]
  /\ Finish(s)
  /\ UNCHANGED invites

\* The row of the old or of the new owner is gone, or the index refuses a
\* second owner: the handler answers 500 after what it has committed so far.
TransferFails(s) ==
  /\ \/ sess[s].pc = "transfer_demote" /\ ~RowLives(s, sess[s].actor)
     \/ /\ sess[s].pc = "transfer_promote"
        /\ ~(RowLives(s, sess[s].target) /\ OwnerIndexAllows(sess[s].target))
  /\ Finish(s)
  /\ UNCHANGED <<members, invites>>

-----------------------------------------------------------------------------
(* delete_group_member *)

\* Mutant: an ADMIN may remove another ADMIN.
_assert_admin_can_remove_target_ownerOnly(actor, target) ==
  ~OwnerRights(actor) => ~IsOwner(target)

_assert_admin_can_remove_target(actor, target) ==
  ~OwnerRights(actor) => members[target] \in PlainRoles

RemoveRead(s, actor, target) ==
  /\ IsMember(target)
  /\ target # actor => MayManage(actor) /\ _assert_admin_can_remove_target(actor, target)
  /\ _assert_not_last_owner(target)
  /\ Begin(s, [Idle EXCEPT !.pc = "remove_write", !.actor = actor, !.target = target,
                           !.seen = members[target]])

RemoveWrite(s) ==
  /\ sess[s].pc = "remove_write"
  /\ LET a == sess[s].target IN
     IF RowLives(s, a)
     THEN /\ members' = [members EXCEPT ![a] = "NONE"]
          /\ sess' = [t \in Sessions |->
                        IF t = s THEN Idle
                        ELSE IF a \in {sess[t].actor, sess[t].target}
                        THEN [sess[t] EXCEPT !.gone = @ \cup {a}] ELSE sess[t]]
     ELSE Finish(s) /\ UNCHANGED members
  /\ UNCHANGED invites

-----------------------------------------------------------------------------
(* Invitations *)

_assert_invite_role_allowed(actor, role) ==
  role # "OWNER" /\ (role = "ADMIN" => OwnerRights(actor))

\* Mutant: a second invitation may be sent while one is pending.
MayInvite_again(actor, target, role) ==
  /\ MayManage(actor) /\ _assert_invite_role_allowed(actor, role)
  /\ ~IsMember(target)

MayInvite(actor, target, role) ==
  /\ MayManage(actor) /\ _assert_invite_role_allowed(actor, role)
  /\ ~IsMember(target) /\ ~has_pending_invite(target)

InviteRead(s, actor, target, role, i) ==
  /\ MayInvite(actor, target, role)
  /\ invites[i].status = "ABSENT" /\ \A t \in Sessions : sess[t].inv # i
  /\ Begin(s, [Idle EXCEPT !.pc = "invite_insert", !.actor = actor, !.target = target,
                           !.role = role, !.inv = i])

InviteInsert(s) ==
  /\ sess[s].pc = "invite_insert"
  /\ invites' = [invites EXCEPT ![sess[s].inv] =
                   [target |-> sess[s].target, role |-> sess[s].role,
                    status |-> "PENDING", live |-> TRUE]]
  /\ Finish(s)
  /\ UNCHANGED members

InviteExpires(i) ==
  /\ Pending(i) /\ invites[i].live
  /\ invites' = [invites EXCEPT ![i].live = FALSE]
  /\ UNCHANGED <<members, sess>>

Accepting(s, i) == sess[s].pc \in {"accept_add", "accept_mark"} /\ sess[s].inv = i

\* Mutant: the status of the invitation is not looked at.
AcceptRead_anyStatus(s, i) ==
  /\ invites[i].status # "ABSENT" /\ invites[i].live
  /\ LET a == invites[i].target IN
     Begin(s, [Idle EXCEPT !.pc = IF IsMember(a) THEN "accept_mark" ELSE "accept_add",
                           !.actor = a, !.target = a, !.role = invites[i].role, !.inv = i])
  /\ torn' = IF \E t \in Sessions : Accepting(t, i) THEN torn \cup {i} ELSE torn
  /\ UNCHANGED entered

\* The recipient accepts: a member already needs no new row.
AcceptRead(s, i) ==
  /\ Pending(i) /\ invites[i].live
  /\ LET a == invites[i].target IN
     Begin(s, [Idle EXCEPT !.pc = IF IsMember(a) THEN "accept_mark" ELSE "accept_add",
                           !.actor = a, !.target = a, !.role = invites[i].role, !.inv = i])
  /\ torn' = IF \E t \in Sessions : Accepting(t, i) THEN torn \cup {i} ELSE torn
  /\ UNCHANGED entered

\* Mutant: the member row is upserted, so an invitation can change a role.
AcceptAdd_upsert(s) ==
  /\ sess[s].pc = "accept_add"
  /\ members' = [members EXCEPT ![sess[s].target] = sess[s].role]
  /\ Goto(s, "accept_mark")
  /\ entered' = entered \cup {sess[s].inv}
  /\ UNCHANGED <<invites, torn>>

AcceptAdd(s) ==
  /\ sess[s].pc = "accept_add"
  /\ ~IsMember(sess[s].target)
  /\ members' = [members EXCEPT ![sess[s].target] = sess[s].role]
  /\ Goto(s, "accept_mark")
  /\ entered' = entered \cup {sess[s].inv}
  /\ UNCHANGED <<invites, torn>>

\* uq_author_group_members_group_author refuses the second row: 500.
AcceptConflict(s) ==
  /\ sess[s].pc = "accept_add"
  /\ IsMember(sess[s].target)
  /\ Finish(s)
  /\ UNCHANGED <<members, invites>>

MarkInvite(s, status) ==
  /\ invites' = [invites EXCEPT ![sess[s].inv].status = status]
  /\ Finish(s)
  /\ UNCHANGED members

AcceptMark(s) == sess[s].pc = "accept_mark" /\ MarkInvite(s, "ACCEPTED")

RejectRead(s, i) ==
  /\ Pending(i) /\ invites[i].live
  /\ Begin(s, [Idle EXCEPT !.pc = "reject_write", !.actor = invites[i].target, !.inv = i])

RejectWrite(s) == sess[s].pc = "reject_write" /\ MarkInvite(s, "REJECTED")

MayRevoke(actor, i) ==
  /\ MayManage(actor)
  /\ invites[i].role = "ADMIN" => OwnerRights(actor)
  /\ Pending(i)

RevokeRead(s, actor, i) ==
  /\ MayRevoke(actor, i)
  /\ Begin(s, [Idle EXCEPT !.pc = "revoke_write", !.actor = actor, !.inv = i])

RevokeWrite(s) == sess[s].pc = "revoke_write" /\ MarkInvite(s, "REVOKED")

-----------------------------------------------------------------------------
\* The process dies, or the database is lost, before the handler's next commit.
Crash(s) ==
  /\ MayCrash
  /\ sess[s].pc # "idle"
  /\ Finish(s)
  /\ torn' = IF sess[s].pc = "accept_mark" THEN torn \cup {sess[s].inv} ELSE torn
  /\ UNCHANGED <<members, invites, entered>>

Read(s) ==
  \/ /\ \/ \E a, t \in Authors, r \in Roles : RoleRead(s, a, t, r)
        \/ \E a, t \in Authors : TransferRead(s, a, t) \/ RemoveRead(s, a, t)
        \/ \E a, t \in Authors, r \in Roles, i \in Invites : InviteRead(s, a, t, r, i)
        \/ \E i \in Invites : RejectRead(s, i)
        \/ \E a \in Authors, i \in Invites : RevokeRead(s, a, i)
     /\ UNCHANGED history
  \/ \E i \in Invites : AcceptRead(s, i)

Write(s) ==
  \/ /\ \/ RoleWrite(s)
        \/ TransferDemote(s) \/ TransferPromote(s) \/ TransferFails(s)
        \/ RemoveWrite(s)
        \/ InviteInsert(s)
        \/ AcceptConflict(s) \/ AcceptMark(s)
        \/ RejectWrite(s) \/ RevokeWrite(s)
     /\ UNCHANGED history
  \/ AcceptAdd(s)

Next ==
  \/ \E s \in Sessions : Read(s) \/ Write(s) \/ Crash(s)
  \/ \E i \in Invites : InviteExpires(i) /\ UNCHANGED history

Spec == Init /\ [][Next]_vars

-----------------------------------------------------------------------------
(* Properties *)

\* Every variable has its type.
TypeOK ==
  /\ members \in [Authors -> Roles \cup {"NONE"}]
  /\ invites \in [Invites -> Invite]
  /\ sess \in [Sessions -> Session]
  /\ entered \subseteq Invites /\ torn \subseteq Invites

\* Two transfers, or a transfer and a role change, never leave two owners.
AtMostOneOwner == \A a, b \in Authors : IsOwner(a) /\ IsOwner(b) => a = b

\* Between handlers the group has an owner: "At least one OWNER must always
\* remain", say the checks of role changes and removals.
AllIdle == \A s \in Sessions : sess[s].pc = "idle"
OwnerRemains == AllIdle => \E a \in Authors : IsOwner(a)

\* A plain ADMIN never takes the role or the seat of the owner or of another
\* ADMIN: the rights read first still hold when the write lands.
AdminsAreProtected ==
  [][\A s \in Sessions :
       (/\ sess[s].pc \in {"role_write", "remove_write"}
        /\ ~OwnerRights(sess[s].actor) /\ sess[s].actor # sess[s].target
        /\ sess[s].target # None /\ members' # members)
         => members[sess[s].target] \in PlainRoles]_<<members>>

\* The owner is only ever lost to a transfer that stopped half-way, or to a
\* handler that loaded its target before the target became the owner: the
\* checks on the role they loaded let no owner go.
OwnerLostOnlyByStaleCheck ==
  [][(owner_count # {} /\ owner_count' = {}) =>
       \E s \in Sessions :
         \/ sess[s].pc = "transfer_demote"
         \/ sess[s].pc \in {"role_write", "remove_write"} /\ sess[s].seen # "OWNER"]_vars

\* A member's role or seat changes only by a role change, a removal or a
\* transfer that names the member: in particular not by accepting an old or a
\* second invitation after a moderator has changed the role the first one gave.
ChangedByName ==
  [][\A a \in Authors :
       (IsMember(a) /\ members'[a] # members[a]) =>
         \E s \in Sessions :
           \/ sess[s].pc \in {"role_write", "remove_write", "transfer_promote"} /\ sess[s].target = a
           \/ sess[s].pc = "transfer_demote" /\ sess[s].actor = a]_vars

Enters(s, i) == sess[s].pc = "accept_add" /\ sess[s].inv = i /\ sess'[s].pc = "accept_mark"

\* An invitation lets its recipient in once: whoever is removed after accepting
\* does not come back by it, whatever else is answered, revoked or changed at the
\* same time.  The exceptions are two acceptances of it at once, and one whose
\* handler died after adding the member and before recording the answer.
EntersOnce ==
  [][\A i \in Invites :
       (i \in entered /\ \E s \in Sessions : Enters(s, i)) => i \in torn]_vars

\* An author has at most one invitation that is pending and not expired.
OnePendingInvite ==
  \A i, j \in Invites :
    (Pending(i) /\ Pending(j) /\ invites[i].live /\ invites[j].live
     /\ invites[i].target = invites[j].target) => i = j

\* "Only pending invites can be revoked": in particular none that was accepted.
\* Two handlers break it.
OnlyPendingRevoked ==
  [][\A i \in Invites :
       (invites[i].status # "REVOKED" /\ invites'[i].status = "REVOKED") => Pending(i)]_vars
=============================================================================
