----------------------- MODULE GroupGovernanceProofs -----------------------
(***************************************************************************)
(* Proofs about GroupGovernance, for any sets of authors, roles,           *)
(* invitations and sessions: what survives interleaving and crashes, and   *)
(* that the group keeps an owner if handlers run one after the other.      *)
(***************************************************************************)
EXTENDS GroupGovernance, TLAPS

\* No request assigns OWNER: neither a role change nor an invitation.
OwnerNotAssigned ==
  /\ \A s \in Sessions : sess[s].role # "OWNER"
  /\ \A i \in Invites : invites[i].role # "OWNER"

\* What a role change or a removal loaded was not the owner: there is only
\* one, and the check lets the last one stay.
TargetWasNoOwner ==
  \A s \in Sessions :
    sess[s].pc \in {"role_write", "remove_write"}
      => sess[s].target \in Authors /\ sess[s].seen # "OWNER"

IInv == TypeOK /\ OwnerNotAssigned /\ TargetWasNoOwner /\ AtMostOneOwner

\* A group starts with its creator as the one owner.
LEMMA InitIInv == Init => IInv
<1> SUFFICES ASSUME Init PROVE IInv OBVIOUS
<1>1. TypeOK
  BY GovernanceAssumption DEF Init, TypeOK, Roles, Invite, InviteStatus, Session, PCs, Idle
<1>2. OwnerNotAssigned /\ TargetWasNoOwner
  BY DEF Init, OwnerNotAssigned, TargetWasNoOwner, Idle
<1>3. AtMostOneOwner
  BY DEF Init, AtMostOneOwner, owner_count
<1> QED BY <1>1, <1>2, <1>3 DEF IInv

\* The names of roles and of program counters are distinct.
LEMMA RoleNames == "OWNER" \notin PlainRoles /\ "ADMIN" \notin PlainRoles /\ "NONE" \notin PlainRoles
BY GovernanceAssumption

\* Reading and checking keeps the invariant; this is where the last owner is
\* spared.
LEMMA ReadPreserves ==
  ASSUME IInv, NEW s \in Sessions, Read(s),
         entered' \subseteq Invites, torn' \subseteq Invites
  PROVE  IInv'
<1> USE GovernanceAssumption, RoleNames DEF IInv
<1>1. ASSUME NEW a \in Authors, NEW t \in Authors, NEW r \in Roles, RoleRead(s, a, t, r)
      PROVE  IInv'
  <2> USE <1>1 DEF RoleRead, Begin
  <2>1. members[t] \in Roles /\ members[t] # "OWNER" /\ r # "OWNER"
    BY DEF TypeOK, IsMember, _assert_not_last_owner, _assert_role_change_allowed, owner_count,
           AtMostOneOwner, IsOwner
  <2>2. TypeOK' BY <2>1 DEF TypeOK, Session, PCs, Idle
  <2>3. OwnerNotAssigned' BY <2>1 DEF TypeOK, OwnerNotAssigned, Idle
  <2>4. TargetWasNoOwner' BY <2>1 DEF TypeOK, TargetWasNoOwner, Idle
  <2>5. AtMostOneOwner' BY DEF AtMostOneOwner, IsOwner
  <2> QED BY <2>2, <2>3, <2>4, <2>5
<1>2. ASSUME NEW a \in Authors, NEW t \in Authors, TransferRead(s, a, t)
      PROVE  IInv'
  <2> USE <1>2 DEF TransferRead, Begin
  <2>1. TypeOK' BY DEF TypeOK, Session, PCs, Idle
  <2>2. OwnerNotAssigned' BY DEF TypeOK, OwnerNotAssigned, Idle
  <2>3. TargetWasNoOwner' BY DEF TypeOK, TargetWasNoOwner, Idle
  <2>4. AtMostOneOwner' BY DEF AtMostOneOwner, IsOwner
  <2> QED BY <2>1, <2>2, <2>3, <2>4
<1>3. ASSUME NEW a \in Authors, NEW t \in Authors, RemoveRead(s, a, t)
      PROVE  IInv'
  <2> USE <1>3 DEF RemoveRead, Begin
  <2>1. members[t] \in Roles /\ members[t] # "OWNER"
    BY DEF TypeOK, IsMember, _assert_not_last_owner, owner_count, AtMostOneOwner, IsOwner
  <2>2. TypeOK' BY <2>1 DEF TypeOK, Session, PCs, Idle
  <2>3. OwnerNotAssigned' BY <2>1 DEF TypeOK, OwnerNotAssigned, Idle
  <2>4. TargetWasNoOwner' BY <2>1 DEF TypeOK, TargetWasNoOwner, Idle
  <2>5. AtMostOneOwner' BY DEF AtMostOneOwner, IsOwner
  <2> QED BY <2>2, <2>3, <2>4, <2>5
<1>4. ASSUME NEW a \in Authors, NEW t \in Authors, NEW r \in Roles, NEW i \in Invites,
             InviteRead(s, a, t, r, i)
      PROVE  IInv'
  <2> USE <1>4 DEF InviteRead, Begin
  <2>1. r # "OWNER" BY DEF MayInvite, _assert_invite_role_allowed
  <2>2. TypeOK' BY DEF TypeOK, Session, PCs, Idle
  <2>3. OwnerNotAssigned' BY <2>1 DEF TypeOK, OwnerNotAssigned, Idle
  <2>4. TargetWasNoOwner' BY DEF TypeOK, TargetWasNoOwner, Idle
  <2>5. AtMostOneOwner' BY DEF AtMostOneOwner, IsOwner
  <2> QED BY <2>2, <2>3, <2>4, <2>5
<1>5. ASSUME NEW i \in Invites, AcceptRead(s, i) \/ RejectRead(s, i)
      PROVE  IInv'
  <2>1. PICK h \in Session : Begin(s, h) /\ h.role # "OWNER"
                               /\ h.pc \notin {"role_write", "remove_write"}
    <3>1. /\ invites[i].target \in Authors \cup {None} /\ invites[i].role \in Roles \cup {"NONE"}
          /\ invites[i].role # "OWNER"
      BY DEF TypeOK, Invite, OwnerNotAssigned
    <3>2. CASE AcceptRead(s, i)
      <4> DEFINE h == [Idle EXCEPT !.pc = IF IsMember(invites[i].target) THEN "accept_mark"
                                          ELSE "accept_add",
                                   !.actor = invites[i].target, !.target = invites[i].target,
                                   !.role = invites[i].role, !.inv = i]
      <4>1. Begin(s, h) BY <3>2 DEF AcceptRead
      <4>2. /\ h \in Session /\ h.role # "OWNER"
            /\ h.pc \notin {"role_write", "remove_write"}
        BY <3>1 DEF Session, PCs, Idle
      <4> QED BY <4>1, <4>2
    <3>3. CASE RejectRead(s, i)
      <4> DEFINE h == [Idle EXCEPT !.pc = "reject_write", !.actor = invites[i].target, !.inv = i]
      <4>1. Begin(s, h) BY <3>3 DEF RejectRead
      <4>2. /\ h \in Session /\ h.role # "OWNER"
            /\ h.pc \notin {"role_write", "remove_write"}
        BY <3>1 DEF Session, PCs, Idle
      <4> QED BY <4>1, <4>2
    <3> QED BY <1>5, <3>2, <3>3
  <2> USE <2>1 DEF Begin
  <2>2. TypeOK' BY DEF TypeOK
  <2>3. OwnerNotAssigned' BY DEF TypeOK, OwnerNotAssigned
  <2>4. TargetWasNoOwner' BY DEF TypeOK, TargetWasNoOwner
  <2>5. AtMostOneOwner' BY DEF AtMostOneOwner, IsOwner
  <2> QED BY <2>2, <2>3, <2>4, <2>5
<1>6. ASSUME NEW a \in Authors, NEW i \in Invites, RevokeRead(s, a, i)
      PROVE  IInv'
  <2> USE <1>6 DEF RevokeRead, Begin
  <2>1. TypeOK' BY DEF TypeOK, Session, PCs, Idle
  <2>2. OwnerNotAssigned' BY DEF TypeOK, OwnerNotAssigned, Idle
  <2>3. TargetWasNoOwner' BY DEF TypeOK, TargetWasNoOwner, Idle
  <2>4. AtMostOneOwner' BY DEF AtMostOneOwner, IsOwner
  <2> QED BY <2>1, <2>2, <2>3, <2>4
<1> QED BY <1>1, <1>2, <1>3, <1>4, <1>5, <1>6 DEF Read

\* A handler that ends without writing keeps the invariant.
LEMMA FinishPreserves ==
  ASSUME IInv, NEW s \in Sessions, Finish(s), UNCHANGED <<members, invites>>,
         entered' \subseteq Invites, torn' \subseteq Invites
  PROVE  IInv'
<1> USE DEF IInv, Finish
<1>1. TypeOK' BY GovernanceAssumption DEF TypeOK, Session, PCs, Idle
<1>2. OwnerNotAssigned' BY DEF TypeOK, OwnerNotAssigned, Idle
<1>3. TargetWasNoOwner' BY DEF TypeOK, TargetWasNoOwner, Idle
<1>4. AtMostOneOwner' BY DEF AtMostOneOwner, IsOwner
<1> QED BY <1>1, <1>2, <1>3, <1>4

\* Writing a role keeps the invariant: only a transfer makes an owner, and the
\* unique index refuses the second.
LEMMA RoleWritePreserves ==
  ASSUME IInv, NEW s \in Sessions,
         RoleWrite(s) \/ TransferDemote(s) \/ TransferPromote(s) \/ RemoveWrite(s) \/ AcceptAdd(s),
         entered' \subseteq Invites, torn' \subseteq Invites
  PROVE  IInv'
<1> USE GovernanceAssumption, RoleNames DEF IInv
<1>0. sess[s] \in Session BY DEF TypeOK
<1>1. CASE RoleWrite(s)
  <2> USE <1>1 DEF RoleWrite, Finish
  <2>1. TypeOK' BY <1>0 DEF TypeOK, Session, PCs, Idle
  <2>2. OwnerNotAssigned' BY DEF TypeOK, OwnerNotAssigned, Idle
  <2>3. TargetWasNoOwner' BY DEF TypeOK, TargetWasNoOwner, Idle
  <2>4. AtMostOneOwner' BY DEF TypeOK, AtMostOneOwner, IsOwner, OwnerNotAssigned
  <2> QED BY <2>1, <2>2, <2>3, <2>4
<1>2. CASE TransferDemote(s)
  <2> USE <1>2 DEF TransferDemote, Goto
  <2>1. TypeOK' BY <1>0 DEF TypeOK, Session, PCs, Roles
  <2>2. OwnerNotAssigned' BY DEF TypeOK, OwnerNotAssigned, Session
  <2>3. TargetWasNoOwner' BY DEF TypeOK, TargetWasNoOwner, Session
  <2>4. AtMostOneOwner' BY DEF TypeOK, AtMostOneOwner, IsOwner
  <2> QED BY <2>1, <2>2, <2>3, <2>4
<1>3. CASE TransferPromote(s)
  <2> USE <1>3 DEF TransferPromote, Finish
  <2>1. TypeOK' BY <1>0 DEF TypeOK, Session, PCs, Roles, Idle
  <2>2. OwnerNotAssigned' BY DEF TypeOK, OwnerNotAssigned, Idle
  <2>3. TargetWasNoOwner' BY DEF TypeOK, TargetWasNoOwner, Idle
  <2>4. AtMostOneOwner'
    BY DEF TypeOK, AtMostOneOwner, IsOwner, OwnerIndexAllows, owner_count
  <2> QED BY <2>1, <2>2, <2>3, <2>4
<1>4. CASE RemoveWrite(s)
  <2>1. CASE RowLives(s, sess[s].target)
    <3> USE <1>4, <2>1 DEF RemoveWrite
    <3>1. \A t \in Sessions :
            \/ sess'[t] = Idle
            \/ sess'[t] = sess[t]
            \/ sess'[t] = [sess[t] EXCEPT !.gone = @ \cup {sess[s].target}]
                 /\ sess[s].target \in {sess[t].actor, sess[t].target}
      OBVIOUS
    <3>2. sess[s].target \in Authors
      BY DEF TargetWasNoOwner
    <3>3. TypeOK' BY <3>1, <3>2 DEF TypeOK, Session, PCs, Idle
    <3>4. OwnerNotAssigned' BY <3>1 DEF TypeOK, OwnerNotAssigned, Idle, Session
    <3>5. TargetWasNoOwner' BY <3>1 DEF TypeOK, TargetWasNoOwner, Idle, Session
    <3>6. AtMostOneOwner' BY DEF TypeOK, AtMostOneOwner, IsOwner
    <3> QED BY <3>3, <3>4, <3>5, <3>6
  <2>2. CASE ~RowLives(s, sess[s].target)
    BY <1>4, <2>2, FinishPreserves DEF RemoveWrite
  <2> QED BY <2>1, <2>2
<1>5. CASE AcceptAdd(s)
  <2> USE <1>5 DEF AcceptAdd, Goto
  <2>1. TypeOK' BY <1>0 DEF TypeOK, Session, PCs
  <2>2. OwnerNotAssigned' BY DEF TypeOK, OwnerNotAssigned, Session
  <2>3. TargetWasNoOwner' BY DEF TypeOK, TargetWasNoOwner, Session
  <2>4. AtMostOneOwner' BY DEF TypeOK, AtMostOneOwner, IsOwner, OwnerNotAssigned
  <2> QED BY <2>1, <2>2, <2>3, <2>4
<1> QED BY <1>1, <1>2, <1>3, <1>4, <1>5

\* Writing an invitation keeps the invariant.
LEMMA InviteWritePreserves ==
  ASSUME IInv, NEW s \in Sessions,
         InviteInsert(s) \/ AcceptMark(s) \/ RejectWrite(s) \/ RevokeWrite(s),
         entered' \subseteq Invites, torn' \subseteq Invites
  PROVE  IInv'
<1> USE GovernanceAssumption DEF IInv
<1>0. sess[s] \in Session /\ sess[s].role # "OWNER" BY DEF TypeOK, OwnerNotAssigned
<1>1. Finish(s) /\ UNCHANGED members
  BY DEF InviteInsert, AcceptMark, RejectWrite, RevokeWrite, MarkInvite
<1>2. invites' \in [Invites -> Invite] /\ \A i \in Invites : invites'[i].role # "OWNER"
  <2>1. CASE InviteInsert(s)
    BY <1>0, <2>1 DEF InviteInsert, TypeOK, OwnerNotAssigned, Invite, InviteStatus, Session
  <2>2. ASSUME NEW st \in InviteStatus, MarkInvite(s, st)
        PROVE  invites' \in [Invites -> Invite] /\ \A i \in Invites : invites'[i].role # "OWNER"
    <3>1. \A i \in Invites : /\ [invites[i] EXCEPT !.status = st] \in Invite
                             /\ [invites[i] EXCEPT !.status = st].role = invites[i].role
      BY DEF TypeOK, Invite
    <3>2. invites' = [i \in Invites |-> IF i = sess[s].inv THEN [invites[i] EXCEPT !.status = st]
                                       ELSE invites[i]]
      BY <2>2 DEF MarkInvite, TypeOK
    <3> QED BY <3>1, <3>2 DEF TypeOK, OwnerNotAssigned
  <2> QED BY <2>1, <2>2 DEF AcceptMark, RejectWrite, RevokeWrite, InviteStatus
<1> USE <1>1 DEF Finish
<1>3. TypeOK' BY <1>2 DEF TypeOK, Session, PCs, Idle
<1>4. OwnerNotAssigned' BY <1>2 DEF TypeOK, OwnerNotAssigned, Idle
<1>5. TargetWasNoOwner' BY DEF TypeOK, TargetWasNoOwner, Idle
<1>6. AtMostOneOwner' BY DEF AtMostOneOwner, IsOwner
<1> QED BY <1>3, <1>4, <1>5, <1>6

\* An invitation that expires, and a step of something else, keep the invariant.
LEMMA OthersPreserve ==
  ASSUME IInv, UNCHANGED vars \/ \E i \in Invites : InviteExpires(i),
         entered' \subseteq Invites, torn' \subseteq Invites
  PROVE  IInv'
<1> USE DEF IInv
<1>1. CASE UNCHANGED vars
  BY <1>1 DEF vars, TypeOK, OwnerNotAssigned, TargetWasNoOwner, AtMostOneOwner, IsOwner
<1>2. ASSUME NEW i \in Invites, InviteExpires(i)
      PROVE  IInv'
  <2> USE <1>2 DEF InviteExpires
  <2>1. TypeOK' BY DEF TypeOK, Invite
  <2>2. OwnerNotAssigned' BY DEF TypeOK, OwnerNotAssigned, Invite
  <2>3. TargetWasNoOwner' /\ AtMostOneOwner'
    BY DEF TargetWasNoOwner, AtMostOneOwner, IsOwner
  <2> QED BY <2>1, <2>2, <2>3
<1> QED BY <1>1, <1>2

\* A handler at an acceptance got there by reading its invitation, or was there.
LEMMA AcceptSteps ==
  ASSUME TypeOK, [Next]_vars, NEW t \in Sessions, sess'[t].pc \in {"accept_add", "accept_mark"}
  PROVE  \/ sess[t].pc = sess'[t].pc /\ sess[t].inv = sess'[t].inv
         \/ AcceptAdd(t) /\ sess'[t].pc = "accept_mark" /\ sess[t].inv = sess'[t].inv
         \/ \E i \in Invites : AcceptRead(t, i) /\ sess'[t].inv = i
<1> USE DEF TypeOK
<1>1. ASSUME NEW s \in Sessions, Finish(s)
      PROVE  sess[t].pc = sess'[t].pc /\ sess[t].inv = sess'[t].inv
  BY <1>1 DEF Finish, Idle
<1>2. ASSUME NEW s \in Sessions, NEW h, Begin(s, h), h.pc \notin {"accept_add", "accept_mark"}
      PROVE  sess[t].pc = sess'[t].pc /\ sess[t].inv = sess'[t].inv
  BY <1>2 DEF Begin
<1>3. ASSUME NEW s \in Sessions, Read(s), ~\E i \in Invites : AcceptRead(s, i)
      PROVE  sess[t].pc = sess'[t].pc /\ sess[t].inv = sess'[t].inv
  <2>1. \/ \E a, u \in Authors, r \in Roles : RoleRead(s, a, u, r)
        \/ \E a, u \in Authors : TransferRead(s, a, u) \/ RemoveRead(s, a, u)
        \/ \E a, u \in Authors, r \in Roles, i \in Invites : InviteRead(s, a, u, r, i)
        \/ \E i \in Invites : RejectRead(s, i)
        \/ \E a \in Authors, i \in Invites : RevokeRead(s, a, i)
    BY <1>3 DEF Read
  <2>2. ASSUME NEW u \in Authors, NEW w \in Authors, NEW r \in Roles, RoleRead(s, u, w, r)
        PROVE  sess[t].pc = sess'[t].pc /\ sess[t].inv = sess'[t].inv
    BY <2>2, <1>2 DEF RoleRead, Idle
  <2>3. ASSUME NEW u \in Authors, NEW w \in Authors, TransferRead(s, u, w) \/ RemoveRead(s, u, w)
        PROVE  sess[t].pc = sess'[t].pc /\ sess[t].inv = sess'[t].inv
    BY <2>3, <1>2 DEF TransferRead, RemoveRead, Idle
  <2>4. ASSUME NEW u \in Authors, NEW w \in Authors, NEW r \in Roles, NEW i \in Invites,
               InviteRead(s, u, w, r, i)
        PROVE  sess[t].pc = sess'[t].pc /\ sess[t].inv = sess'[t].inv
    BY <2>4, <1>2 DEF InviteRead, Idle
  <2>5. ASSUME NEW i \in Invites, RejectRead(s, i)
        PROVE  sess[t].pc = sess'[t].pc /\ sess[t].inv = sess'[t].inv
    BY <2>5, <1>2 DEF RejectRead, Idle
  <2>6. ASSUME NEW u \in Authors, NEW i \in Invites, RevokeRead(s, u, i)
        PROVE  sess[t].pc = sess'[t].pc /\ sess[t].inv = sess'[t].inv
    BY <2>6, <1>2 DEF RevokeRead, Idle
  <2> QED BY <2>1, <2>2, <2>3, <2>4, <2>5, <2>6
<1>4. ASSUME NEW s \in Sessions, NEW i \in Invites, AcceptRead(s, i)
      PROVE  \/ sess[t].pc = sess'[t].pc /\ sess[t].inv = sess'[t].inv
             \/ s = t /\ sess'[t].inv = i
  BY <1>4 DEF AcceptRead, Begin, Idle
<1>5. ASSUME NEW s \in Sessions, TransferDemote(s) \/ AcceptAdd(s)
      PROVE  \/ sess[t].pc = sess'[t].pc /\ sess[t].inv = sess'[t].inv
             \/ AcceptAdd(t) /\ sess'[t].pc = "accept_mark" /\ sess[t].inv = sess'[t].inv
  BY <1>5 DEF TransferDemote, AcceptAdd, Goto, Session
<1>6. ASSUME NEW s \in Sessions, RemoveWrite(s)
      PROVE  sess[t].pc = sess'[t].pc /\ sess[t].inv = sess'[t].inv
  <2>1. CASE RowLives(s, sess[s].target)
    BY <1>6, <2>1 DEF RemoveWrite, Idle, Session
  <2>2. CASE ~RowLives(s, sess[s].target)
    BY <1>1, <1>6, <2>2 DEF RemoveWrite
  <2> QED BY <2>1, <2>2
<1>7. ASSUME NEW s \in Sessions,
             \/ RoleWrite(s) \/ TransferPromote(s) \/ TransferFails(s) \/ InviteInsert(s)
             \/ AcceptConflict(s) \/ AcceptMark(s) \/ RejectWrite(s) \/ RevokeWrite(s) \/ Crash(s)
      PROVE  sess[t].pc = sess'[t].pc /\ sess[t].inv = sess'[t].inv
  BY <1>1, <1>7 DEF RoleWrite, TransferPromote, TransferFails, InviteInsert, AcceptConflict,
                    AcceptMark, RejectWrite, RevokeWrite, MarkInvite, Crash
<1>8. CASE UNCHANGED sess
  BY <1>8
<1> QED BY <1>3, <1>4, <1>5, <1>6, <1>7, <1>8 DEF Next, Write, InviteExpires, vars

\* Who accepts knows the invitation, and the history is about invitations.
AcceptsKnown ==
  \A s \in Sessions : sess[s].pc \in {"accept_add", "accept_mark"} => sess[s].inv \in Invites

LEMMA HistoryPreserves ==
  ASSUME TypeOK, AcceptsKnown, [Next]_vars
  PROVE  AcceptsKnown' /\ entered' \subseteq Invites /\ torn' \subseteq Invites
<1>1. AcceptsKnown'
  BY AcceptSteps DEF AcceptsKnown, AcceptAdd
<1>2. \/ UNCHANGED history
      \/ \E s \in Sessions : AcceptAdd(s) \/ Crash(s) \/ \E i \in Invites : AcceptRead(s, i)
  BY DEF Next, Read, Write, vars, history
<1>3. entered' \subseteq Invites /\ torn' \subseteq Invites
  BY <1>2 DEF history, AcceptAdd, Crash, AcceptRead, AcceptsKnown, TypeOK
<1> QED BY <1>1, <1>3

\* The inductive invariant holds in every reachable state.
THEOREM Invariance == Spec => []IInv
<1>1. IInv /\ AcceptsKnown /\ [Next]_vars => IInv' /\ AcceptsKnown'
  <2> SUFFICES ASSUME IInv, AcceptsKnown, [Next]_vars PROVE IInv'
    BY HistoryPreserves DEF IInv
  <2>h. entered' \subseteq Invites /\ torn' \subseteq Invites
    BY HistoryPreserves DEF IInv
  <2>1. ASSUME NEW s \in Sessions, Write(s) \/ Crash(s) PROVE IInv'
    <3>1. CASE Crash(s) \/ TransferFails(s) \/ AcceptConflict(s)
      BY <2>h, <3>1, FinishPreserves DEF Crash, TransferFails, AcceptConflict
    <3>2. CASE \/ RoleWrite(s) \/ TransferDemote(s) \/ TransferPromote(s)
               \/ RemoveWrite(s) \/ AcceptAdd(s)
      BY <2>h, <3>2, RoleWritePreserves
    <3>3. CASE InviteInsert(s) \/ AcceptMark(s) \/ RejectWrite(s) \/ RevokeWrite(s)
      BY <2>h, <3>3, InviteWritePreserves
    <3> QED BY <2>1, <3>1, <3>2, <3>3 DEF Write
  <2> QED BY <2>h, <2>1, ReadPreserves, OthersPreserve DEF Next
<1>2. Init => AcceptsKnown
  BY DEF Init, AcceptsKnown, Idle
<1> QED BY InitIInv, <1>1, <1>2, PTL DEF Spec

\* Every variable keeps its type.
THEOREM TypeCorrect == Spec => []TypeOK
BY Invariance, PTL DEF IInv

\* However transfers, role changes, removals and invitations interleave, and
\* wherever they crash, there are never two owners.
THEOREM OneOwner == Spec => []AtMostOneOwner
BY Invariance, PTL DEF IInv

\* A write that changes no member, or turns nobody from OWNER into something
\* else, loses no owner.
LEMMA OwnerKept ==
  ASSUME NEW a \in Authors, IsOwner(a), IsOwner(a)'
  PROVE  owner_count' # {}
BY DEF owner_count, IsOwner

\* The owner is lost only half-way through a transfer or to a handler whose
\* target became the owner after it was loaded.
THEOREM OwnerLoss == Spec => OwnerLostOnlyByStaleCheck
<1> DEFINE Stale(s) == \/ sess[s].pc = "transfer_demote"
                       \/ sess[s].pc \in {"role_write", "remove_write"} /\ sess[s].seen # "OWNER"
           Lost == owner_count # {} /\ owner_count' = {}
<1>1. ASSUME IInv, [Next]_vars, Lost
      PROVE  \E s \in Sessions : Stale(s)
  <2> USE <1>1 DEF IInv
  <2>1. PICK o \in Authors : IsOwner(o) BY DEF owner_count
  <2>2. ~IsOwner(o)' BY <2>1, OwnerKept
  <2>3. members' # members BY <2>1, <2>2 DEF IsOwner
  <2>4. PICK s \in Sessions : \/ RoleWrite(s) \/ TransferDemote(s) \/ TransferPromote(s)
                              \/ RemoveWrite(s) \/ AcceptAdd(s)
    BY <2>3 DEF Next, vars, Read, Write, Crash, Begin, RoleRead, TransferRead, RemoveRead,
                InviteRead, AcceptRead, RejectRead, RevokeRead, TransferFails, InviteInsert,
                AcceptConflict, AcceptMark, RejectWrite, RevokeWrite, MarkInvite, InviteExpires
  <2>5. CASE RoleWrite(s) \/ RemoveWrite(s)
    BY <2>5 DEF RoleWrite, RemoveWrite, TargetWasNoOwner
  <2>6. CASE TransferDemote(s)
    BY <2>6 DEF TransferDemote
  <2>7. CASE TransferPromote(s)
    BY <2>1, <2>2, <2>7 DEF TransferPromote, TypeOK, OwnerIndexAllows, owner_count, IsOwner
  <2>8. CASE AcceptAdd(s)
    BY <2>1, <2>2, <2>8 DEF AcceptAdd, TypeOK, IsMember, IsOwner
  <2> QED BY <2>4, <2>5, <2>6, <2>7, <2>8
<1>2. IInv /\ [Next]_vars => [Lost => \E s \in Sessions : Stale(s)]_vars
  BY <1>1
<1> QED BY Invariance, <1>2, PTL DEF Spec, OwnerLostOnlyByStaleCheck

\* However handlers interleave, nobody's role or seat changes but by a handler
\* that names them.
THEOREM NamedChange == Spec => ChangedByName
<1> DEFINE Named(a) == \E s \in Sessions :
             \/ sess[s].pc \in {"role_write", "remove_write", "transfer_promote"} /\ sess[s].target = a
             \/ sess[s].pc = "transfer_demote" /\ sess[s].actor = a
           Change == \A a \in Authors : (IsMember(a) /\ members'[a] # members[a]) => Named(a)
<1>1. ASSUME IInv, [Next]_vars, NEW a \in Authors, IsMember(a), members'[a] # members[a]
      PROVE  Named(a)
  <2> USE <1>1 DEF IInv
  <2>1. PICK s \in Sessions : \/ RoleWrite(s) \/ TransferDemote(s) \/ TransferPromote(s)
                              \/ RemoveWrite(s) \/ AcceptAdd(s)
    BY DEF Next, vars, Read, Write, Crash, Begin, RoleRead, TransferRead, RemoveRead,
           InviteRead, AcceptRead, RejectRead, RevokeRead, TransferFails, InviteInsert,
           AcceptConflict, AcceptMark, RejectWrite, RevokeWrite, MarkInvite, InviteExpires
  <2>2. CASE RoleWrite(s) \/ RemoveWrite(s)
    BY <2>2 DEF RoleWrite, RemoveWrite, TypeOK
  <2>3. CASE TransferDemote(s) \/ TransferPromote(s)
    BY <2>3 DEF TransferDemote, TransferPromote, TypeOK
  <2>4. CASE AcceptAdd(s)
    BY <2>4 DEF AcceptAdd, TypeOK, IsMember
  <2> QED BY <2>1, <2>2, <2>3, <2>4
<1>2. IInv /\ [Next]_vars => [Change]_vars
  BY <1>1
<1> QED BY Invariance, <1>2, PTL DEF Spec, ChangedByName

-----------------------------------------------------------------------------
(* With one handler at a time and no crash the checks do what they say.     *)
(* What a handler read still holds when it writes, so that only the two     *)
(* commits of a transfer have a state without an owner between them.        *)

\* What the one handler in flight has read is still so.
ReadStillHolds ==
  \A s \in Sessions :
    /\ sess[s].gone = {}
    /\ sess[s].pc \in {"role_write", "remove_write"} => ~IsOwner(sess[s].target)
    /\ sess[s].pc = "transfer_demote" =>
         /\ sess[s].actor \in Authors /\ IsOwner(sess[s].actor)
         /\ sess[s].target \in Authors /\ IsMember(sess[s].target)
         /\ sess[s].actor # sess[s].target
    /\ sess[s].pc = "transfer_promote" =>
         sess[s].target \in Authors /\ IsMember(sess[s].target) /\ owner_count = {}

\* Only in the middle of a transfer is there no owner.
OwnerUnlessPromoting ==
  (\A s \in Sessions : sess[s].pc # "transfer_promote") => owner_count # {}

SeqInv == IInv /\ ReadStillHolds /\ OwnerUnlessPromoting

\* A write that makes an owner of nobody, or spares the one there is, leaves
\* the group with an owner.
LEMMA OwnerSpared ==
  ASSUME NEW t \in Authors, NEW role, members' = [members EXCEPT ![t] = role],
         ~IsOwner(t), owner_count # {}, TypeOK
  PROVE  owner_count' # {}
<1>1. PICK o \in Authors : IsOwner(o) BY DEF owner_count
<1>2. o # t BY <1>1
<1>3. IsOwner(o)' BY <1>1, <1>2 DEF IsOwner, TypeOK
<1> QED BY <1>1, <1>3, OwnerKept

\* A handler reads, alone.
LEMMA SequentialRead ==
  ASSUME SeqInv, NEW s \in Sessions, \A t \in Sessions : t = s, Read(s)
  PROVE  ReadStillHolds' /\ OwnerUnlessPromoting'
<1> USE GovernanceAssumption, RoleNames DEF SeqInv, IInv
<1>1. sess[s].pc = "idle" /\ UNCHANGED <<members, invites>>
  BY DEF Read, RoleRead, TransferRead, RemoveRead, InviteRead, AcceptRead, RejectRead, RevokeRead,
         Begin
<1>2. owner_count # {} BY <1>1 DEF OwnerUnlessPromoting
<1> DEFINE Holds ==
      /\ sess'[s].gone = {}
      /\ sess'[s].pc # "transfer_promote"
      /\ sess'[s].pc \in {"role_write", "remove_write"} => ~IsOwner(sess'[s].target)
      /\ sess'[s].pc = "transfer_demote" =>
           /\ sess'[s].actor \in Authors /\ IsOwner(sess'[s].actor)
           /\ sess'[s].target \in Authors /\ IsMember(sess'[s].target)
           /\ sess'[s].actor # sess'[s].target
<1>3. Holds
  <2>1. ASSUME NEW a \in Authors, NEW t \in Authors, NEW r \in Roles, RoleRead(s, a, t, r)
        PROVE  Holds
    <3>1. ~IsOwner(t)
      BY <2>1 DEF RoleRead, _assert_not_last_owner, owner_count, AtMostOneOwner, IsOwner
    <3> QED BY <2>1, <3>1 DEF RoleRead, Begin, Idle, TypeOK
  <2>2. ASSUME NEW a \in Authors, NEW t \in Authors, TransferRead(s, a, t)
        PROVE  Holds
    BY <2>2 DEF TransferRead, Begin, Idle, TypeOK
  <2>3. ASSUME NEW a \in Authors, NEW t \in Authors, RemoveRead(s, a, t)
        PROVE  Holds
    <3>1. ~IsOwner(t)
      BY <2>3 DEF RemoveRead, _assert_not_last_owner, owner_count, AtMostOneOwner, IsOwner
    <3> QED BY <2>3, <3>1 DEF RemoveRead, Begin, Idle, TypeOK
  <2>4. CASE \/ \E a, t \in Authors, r \in Roles, i \in Invites : InviteRead(s, a, t, r, i)
             \/ \E i \in Invites : AcceptRead(s, i) \/ RejectRead(s, i)
             \/ \E a \in Authors, i \in Invites : RevokeRead(s, a, i)
    <3>1. sess'[s].gone = {} /\ sess'[s].pc \in {"invite_insert", "accept_mark", "accept_add",
                                                   "reject_write", "revoke_write"}
      <4>1. CASE \E a, t \in Authors, r \in Roles, i \in Invites : InviteRead(s, a, t, r, i)
        BY <4>1 DEF InviteRead, Begin, Idle, TypeOK
      <4>2. CASE \E i \in Invites : AcceptRead(s, i)
        BY <4>2 DEF AcceptRead, Begin, Idle, TypeOK
      <4>3. CASE \E i \in Invites : RejectRead(s, i)
        BY <4>3 DEF RejectRead, Begin, Idle, TypeOK
      <4>4. CASE \E a \in Authors, i \in Invites : RevokeRead(s, a, i)
        BY <4>4 DEF RevokeRead, Begin, Idle, TypeOK
      <4> QED BY <2>4, <4>1, <4>2, <4>3, <4>4
    <3> QED BY <3>1
  <2> QED BY <2>1, <2>2, <2>3, <2>4 DEF Read
<1>4. ReadStillHolds' BY <1>1, <1>3 DEF ReadStillHolds, IsOwner, IsMember
<1>5. OwnerUnlessPromoting' BY <1>1, <1>2 DEF OwnerUnlessPromoting, owner_count, IsOwner
<1> QED BY <1>4, <1>5

\* The handler writes, alone: a transfer finds both rows as it left them, and
\* no other write meets the owner.
LEMMA SequentialWrite ==
  ASSUME SeqInv, NEW s \in Sessions, \A t \in Sessions : t = s, Write(s)
  PROVE  ReadStillHolds' /\ OwnerUnlessPromoting'
<1> USE GovernanceAssumption, RoleNames DEF SeqInv, IInv
<1>0. sess[s] \in Session /\ sess[s].gone = {} BY DEF TypeOK, ReadStillHolds
<1>f. ASSUME owner_count' # {}, sess'[s] = Idle
      PROVE  ReadStillHolds' /\ OwnerUnlessPromoting'
  BY <1>f DEF ReadStillHolds, OwnerUnlessPromoting, Idle
<1>o. sess[s].pc # "transfer_promote" => owner_count # {}
  BY DEF OwnerUnlessPromoting
<1>1. CASE RoleWrite(s) \/ RemoveWrite(s)
  <2>1. sess'[s] = Idle BY <1>1 DEF RoleWrite, RemoveWrite, Finish, TypeOK
  <2>2. sess[s].target \in Authors /\ ~IsOwner(sess[s].target) /\ owner_count # {}
    BY <1>1, <1>o DEF RoleWrite, RemoveWrite, TargetWasNoOwner, ReadStillHolds
  <2>3. CASE members' = members
    BY <1>f, <2>1, <2>2, <2>3 DEF owner_count, IsOwner
  <2>4. CASE members' # members
    <3>1. PICK role : members' = [members EXCEPT ![sess[s].target] = role]
      BY <1>1, <2>4 DEF RoleWrite, RemoveWrite
    <3> QED BY <1>f, <2>1, <2>2, <3>1, OwnerSpared
  <2> QED BY <2>3, <2>4
<1>2. CASE TransferDemote(s)
  <2> USE <1>2 DEF TransferDemote, Goto
  <2>1. /\ sess[s].actor \in Authors /\ IsOwner(sess[s].actor)
        /\ sess[s].target \in Authors /\ IsMember(sess[s].target)
        /\ sess[s].actor # sess[s].target
    BY DEF ReadStillHolds
  <2>2. owner_count' = {}
    BY <2>1 DEF owner_count, IsOwner, AtMostOneOwner, TypeOK
  <2>3. IsMember(sess[s].target)' BY <2>1 DEF IsMember, TypeOK, Session
  <2>4. /\ sess'[s].pc = "transfer_promote" /\ sess'[s].gone = {}
        /\ sess'[s].target = sess[s].target
    BY <1>0 DEF TypeOK, Session
  <2> QED BY <2>1, <2>2, <2>3, <2>4 DEF ReadStillHolds, OwnerUnlessPromoting, IsMember
<1>3. CASE TransferPromote(s)
  <2>1. sess[s].target \in Authors BY <1>3 DEF TransferPromote, ReadStillHolds
  <2>2. owner_count' # {} BY <1>3, <2>1 DEF TransferPromote, TypeOK, owner_count, IsOwner
  <2> QED BY <1>3, <1>f, <2>2 DEF TransferPromote, Finish, TypeOK
<1>4. CASE TransferFails(s)
  <2>1. FALSE
    BY <1>4, <1>0 DEF TransferFails, ReadStillHolds, RowLives, IsMember, IsOwner,
                      OwnerIndexAllows
  <2> QED BY <2>1
<1>5. CASE AcceptAdd(s)
  <2> USE <1>5 DEF AcceptAdd, Goto
  <2>1. owner_count' # {}
    <3>1. PICK o \in Authors : IsOwner(o) BY <1>o DEF owner_count
    <3>2. IsOwner(o)' BY <3>1 DEF IsOwner, IsMember, TypeOK
    <3> QED BY <3>1, <3>2, OwnerKept
  <2>2. sess'[s].pc = "accept_mark" /\ sess'[s].gone = {}
    BY <1>0 DEF TypeOK, Session
  <2> QED BY <2>1, <2>2 DEF ReadStillHolds, OwnerUnlessPromoting
<1>6. CASE AcceptConflict(s) \/ InviteInsert(s) \/ AcceptMark(s) \/ RejectWrite(s) \/ RevokeWrite(s)
  <2>1. UNCHANGED members /\ Finish(s) /\ sess[s].pc # "transfer_promote"
    BY <1>6 DEF AcceptConflict, InviteInsert, AcceptMark, RejectWrite, RevokeWrite, MarkInvite
  <2> QED BY <1>f, <1>o, <2>1 DEF Finish, TypeOK, owner_count, IsOwner
<1> QED BY <1>1, <1>2, <1>3, <1>4, <1>5, <1>6 DEF Write

\* "At least one OWNER must always remain": true of handlers that run one after
\* the other to their end, whatever they are called with.
THEOREM OwnerStays ==
  ASSUME \A s, t \in Sessions : s = t, MayCrash = FALSE
  PROVE  Spec => []OwnerRemains
<1>1. Init => SeqInv
  <2> SUFFICES ASSUME Init PROVE SeqInv OBVIOUS
  <2>1. ReadStillHolds /\ OwnerUnlessPromoting
    BY DEF Init, ReadStillHolds, OwnerUnlessPromoting, Idle
  <2> QED BY <2>1, InitIInv DEF SeqInv
<1>2. SeqInv /\ IInv' /\ [Next]_vars => SeqInv'
  <2> SUFFICES ASSUME SeqInv, IInv', [Next]_vars PROVE ReadStillHolds' /\ OwnerUnlessPromoting'
    BY DEF SeqInv
  <2>1. ASSUME NEW s \in Sessions, Read(s) \/ Write(s)
        PROVE  ReadStillHolds' /\ OwnerUnlessPromoting'
    BY <2>1, SequentialRead, SequentialWrite
  <2>2. CASE UNCHANGED <<members, sess>>
    BY <2>2 DEF SeqInv, ReadStillHolds, OwnerUnlessPromoting, owner_count, IsOwner, IsMember
  <2> QED BY <2>1, <2>2 DEF Next, vars, Crash, InviteExpires
<1>3. SeqInv => OwnerRemains
  BY DEF SeqInv, OwnerUnlessPromoting, OwnerRemains, AllIdle, owner_count
<1> QED BY Invariance, <1>1, <1>2, <1>3, PTL DEF Spec

-----------------------------------------------------------------------------
(* One handler at a time, crash or not: has_pending_invite is still the     *)
(* answer it gave when the invitation is inserted.                          *)

InviteInv ==
  /\ OnePendingInvite
  /\ \A s \in Sessions : sess[s].pc = "invite_insert" => ~has_pending_invite(sess[s].target)

\* No invitation is pending, or alive again, that was not.
NoNewInvite ==
  \A i \in Invites : (Pending(i) /\ invites[i].live)' =>
    /\ Pending(i) /\ invites[i].live
    /\ invites'[i].target = invites[i].target

LEMMA NoNewInviteKeeps ==
  ASSUME InviteInv, NoNewInvite,
         \A s \in Sessions : sess'[s].pc = "invite_insert" =>
           sess[s].pc = "invite_insert" /\ sess'[s].target = sess[s].target
  PROVE  InviteInv'
<1>1. OnePendingInvite'
  BY DEF InviteInv, OnePendingInvite, NoNewInvite
<1>2. \A s \in Sessions : sess'[s].pc = "invite_insert" => ~has_pending_invite(sess[s].target)
  BY DEF InviteInv
<1> QED BY <1>1, <1>2 DEF InviteInv, NoNewInvite, has_pending_invite

LEMMA SameInvites == UNCHANGED invites => NoNewInvite
  BY DEF NoNewInvite, Pending

\* A handler reads, alone.
LEMMA ReadKeepsInvites ==
  ASSUME InviteInv, TypeOK, NEW s \in Sessions, \A t \in Sessions : t = s, Read(s)
  PROVE  InviteInv'
<1>1. ASSUME NEW a \in Authors, NEW t \in Authors, NEW r \in Roles, NEW i \in Invites,
             InviteRead(s, a, t, r, i)
      PROVE  InviteInv'
  <2>1. ~has_pending_invite(t) /\ UNCHANGED invites /\ sess'[s].target = t
    BY <1>1 DEF InviteRead, MayInvite, Begin, Idle, TypeOK
  <2> QED BY <2>1 DEF InviteInv, OnePendingInvite, has_pending_invite, Pending
<1>2. CASE sess'[s].pc # "invite_insert" /\ UNCHANGED invites
  BY <1>2, SameInvites, NoNewInviteKeeps
<1>3. CASE \E a, t \in Authors, r \in Roles : RoleRead(s, a, t, r)
  BY <1>2, <1>3 DEF RoleRead, Begin, Idle, TypeOK
<1>4. CASE \E a, t \in Authors : TransferRead(s, a, t)
  BY <1>2, <1>4 DEF TransferRead, Begin, Idle, TypeOK
<1>5. CASE \E a, t \in Authors : RemoveRead(s, a, t)
  BY <1>2, <1>5 DEF RemoveRead, Begin, Idle, TypeOK
<1>6. CASE \E i \in Invites : AcceptRead(s, i)
  <2>1. PICK i \in Invites : AcceptRead(s, i) BY <1>6
  <2>2. sess'[s].pc \in {"accept_mark", "accept_add"} /\ UNCHANGED invites
    BY <2>1 DEF AcceptRead, Begin, Idle, TypeOK
  <2> QED BY <1>2, <2>2
<1>7. CASE \E i \in Invites : RejectRead(s, i)
  BY <1>2, <1>7 DEF RejectRead, Begin, Idle, TypeOK
<1>8. CASE \E a \in Authors, i \in Invites : RevokeRead(s, a, i)
  BY <1>2, <1>8 DEF RevokeRead, Begin, Idle, TypeOK
<1> QED BY <1>1, <1>3, <1>4, <1>5, <1>6, <1>7, <1>8 DEF Read

\* The handler writes, or dies, alone.
LEMMA WriteKeepsInvites ==
  ASSUME InviteInv, TypeOK, NEW s \in Sessions, \A t \in Sessions : t = s, Write(s) \/ Crash(s)
  PROVE  InviteInv'
<1> USE DEF TypeOK
<1>1. CASE InviteInsert(s)
  <2>1. ~has_pending_invite(sess[s].target)
    BY <1>1 DEF InviteInsert, InviteInv
  <2>2. /\ \A i \in Invites : i # sess[s].inv => invites'[i] = invites[i]
        /\ \A i \in Invites : i = sess[s].inv => invites'[i].target = sess[s].target
    BY <1>1 DEF InviteInsert
  <2>3. OnePendingInvite'
    BY <2>1, <2>2 DEF InviteInv, OnePendingInvite, Pending, has_pending_invite
  <2>4. sess'[s].pc = "idle"
    BY <1>1 DEF InviteInsert, Finish, Idle
  <2> QED BY <2>3, <2>4 DEF InviteInv
<1>2. ASSUME NEW status \in InviteStatus \ {"PENDING"}, MarkInvite(s, status) PROVE InviteInv'
  <2>1. \A i \in Invites : IF i = sess[s].inv THEN invites'[i].status = status
                                              ELSE invites'[i] = invites[i]
    BY <1>2 DEF MarkInvite, Invite
  <2>2. NoNewInvite
    BY <2>1 DEF NoNewInvite, Pending
  <2>3. sess'[s].pc = "idle"
    BY <1>2 DEF MarkInvite, Finish, Idle
  <2> QED BY <2>2, <2>3, NoNewInviteKeeps
<1>3. CASE UNCHANGED invites /\ sess'[s].pc # "invite_insert"
  BY <1>3, SameInvites, NoNewInviteKeeps
<1>4. CASE \/ RoleWrite(s) \/ TransferPromote(s) \/ TransferFails(s)
           \/ RemoveWrite(s) \/ AcceptConflict(s) \/ Crash(s)
  BY <1>3, <1>4 DEF RoleWrite, TransferPromote, TransferFails, RemoveWrite, AcceptConflict,
                    Crash, Finish, Idle
<1>5. CASE TransferDemote(s) \/ AcceptAdd(s)
  BY <1>3, <1>5 DEF TransferDemote, AcceptAdd, Goto, Session
<1> QED BY <1>1, <1>2, <1>4, <1>5
        DEF Write, AcceptMark, RejectWrite, RevokeWrite, InviteStatus

\* With one handler at a time an author has at most one invitation that can
\* still be answered, over any number of invitations that expired, were
\* answered or were revoked, and wherever a handler dies.
THEOREM OneInvite ==
  ASSUME \A s, t \in Sessions : s = t
  PROVE  Spec => []OnePendingInvite
<1>1. Init => InviteInv
  BY DEF Init, InviteInv, OnePendingInvite, Pending, Idle
<1>2. InviteInv /\ TypeOK /\ [Next]_vars => InviteInv'
  <2> SUFFICES ASSUME InviteInv, TypeOK, [Next]_vars PROVE InviteInv'
    OBVIOUS
  <2>1. ASSUME NEW s \in Sessions, Read(s) \/ Write(s) \/ Crash(s) PROVE InviteInv'
    BY <2>1, ReadKeepsInvites, WriteKeepsInvites
  <2>2. ASSUME NEW i \in Invites, InviteExpires(i) PROVE InviteInv'
    <3>1. NoNewInvite /\ UNCHANGED sess
      BY <2>2 DEF InviteExpires, NoNewInvite, Pending, TypeOK, Invite
    <3> QED BY <3>1, NoNewInviteKeeps
  <2>3. CASE UNCHANGED vars
    BY <2>3, SameInvites, NoNewInviteKeeps DEF vars
  <2> QED BY <2>1, <2>2, <2>3 DEF Next
<1>3. InviteInv => OnePendingInvite
  BY DEF InviteInv
<1> QED BY TypeCorrect, <1>1, <1>2, <1>3, PTL DEF Spec

-----------------------------------------------------------------------------
(* One handler at a time: the rights it read are those it writes by.        *)

RightsInv ==
  \A s \in Sessions :
    (/\ sess[s].pc \in {"role_write", "remove_write"}
     /\ ~OwnerRights(sess[s].actor) /\ sess[s].actor # sess[s].target)
      => members[sess[s].target] \in PlainRoles

\* What a handler reads gives it the rights it will use.
LEMMA ReadGivesRights ==
  ASSUME TypeOK, NEW s \in Sessions, \A t \in Sessions : t = s, Read(s)
  PROVE  RightsInv'
<1> USE DEF TypeOK
<1>1. ASSUME NEW a \in Authors, NEW t \in Authors, NEW r \in Roles, RoleRead(s, a, t, r)
      PROVE  RightsInv'
  <2>1. ~OwnerRights(a) /\ a # t => members[t] \in PlainRoles
    BY <1>1 DEF RoleRead, _assert_role_change_allowed, IsMember, IsOwner, Roles
  <2>2. /\ UNCHANGED members /\ sess'[s].pc = "role_write"
        /\ sess'[s].actor = a /\ sess'[s].target = t
    BY <1>1 DEF RoleRead, Begin, Idle
  <2> QED BY <2>1, <2>2 DEF RightsInv, OwnerRights, IsOwner
<1>2. ASSUME NEW a \in Authors, NEW t \in Authors, RemoveRead(s, a, t)
      PROVE  RightsInv'
  <2>1. ~OwnerRights(a) /\ a # t => members[t] \in PlainRoles
    BY <1>2 DEF RemoveRead, _assert_admin_can_remove_target
  <2>2. /\ UNCHANGED members /\ sess'[s].pc = "remove_write"
        /\ sess'[s].actor = a /\ sess'[s].target = t
    BY <1>2 DEF RemoveRead, Begin, Idle
  <2> QED BY <2>1, <2>2 DEF RightsInv, OwnerRights, IsOwner
<1>4. CASE sess'[s].pc \notin {"role_write", "remove_write"}
  BY <1>4 DEF RightsInv
<1>5. CASE \E a, t \in Authors : TransferRead(s, a, t)
  BY <1>4, <1>5 DEF TransferRead, Begin, Idle
<1>6. CASE \E a, t \in Authors, r \in Roles, i \in Invites : InviteRead(s, a, t, r, i)
  BY <1>4, <1>6 DEF InviteRead, Begin, Idle
<1>7. CASE \E i \in Invites : AcceptRead(s, i)
  <2>1. PICK i \in Invites : AcceptRead(s, i) BY <1>7
  <2>2. sess'[s].pc \in {"accept_mark", "accept_add"}
    BY <2>1 DEF AcceptRead, Begin, Idle
  <2> QED BY <1>4, <2>2
<1>8. CASE \E i \in Invites : RejectRead(s, i)
  BY <1>4, <1>8 DEF RejectRead, Begin, Idle
<1>9. CASE \E a \in Authors, i \in Invites : RevokeRead(s, a, i)
  BY <1>4, <1>9 DEF RevokeRead, Begin, Idle
<1> QED BY <1>1, <1>2, <1>5, <1>6, <1>7, <1>8, <1>9 DEF Read

\* No write of the handler goes on to a write by rights it read.
LEMMA WriteUsesRights ==
  ASSUME TypeOK, NEW s \in Sessions, \A t \in Sessions : t = s, Write(s) \/ Crash(s)
  PROVE  RightsInv'
<1>1. CASE TransferDemote(s) \/ AcceptAdd(s)
  BY <1>1 DEF TransferDemote, AcceptAdd, Goto, TypeOK, Session, RightsInv
<1>2. CASE ~(TransferDemote(s) \/ AcceptAdd(s))
  <2>1. sess'[s] = Idle
    BY <1>2 DEF Write, Crash, RoleWrite, TransferPromote, TransferFails, RemoveWrite, InviteInsert,
                AcceptConflict, AcceptMark, RejectWrite, RevokeWrite, MarkInvite, Finish, TypeOK
  <2> QED BY <2>1 DEF Idle, RightsInv
<1> QED BY <1>1, <1>2

\* Handlers one after the other keep the rights they read to their write.
LEMMA RightsHold ==
  ASSUME \A s, t \in Sessions : s = t
  PROVE  Spec => []RightsInv
<1>1. Init => RightsInv
  BY DEF Init, Idle, RightsInv
<1>2. RightsInv /\ TypeOK /\ [Next]_vars => RightsInv'
  <2> SUFFICES ASSUME RightsInv, TypeOK, [Next]_vars PROVE RightsInv'
    OBVIOUS
  <2>1. ASSUME NEW s \in Sessions, Read(s) \/ Write(s) \/ Crash(s) PROVE RightsInv'
    BY <2>1, ReadGivesRights, WriteUsesRights
  <2>2. ASSUME NEW i \in Invites, InviteExpires(i) PROVE RightsInv'
    BY <2>2 DEF InviteExpires, RightsInv, OwnerRights, IsOwner
  <2>3. CASE UNCHANGED vars
    BY <2>3 DEF vars, RightsInv, OwnerRights, IsOwner
  <2> QED BY <2>1, <2>2, <2>3 DEF Next
<1> QED BY TypeCorrect, <1>1, <1>2, PTL DEF Spec

\* With one handler at a time a plain ADMIN takes neither role nor seat of the
\* owner or another ADMIN, by any sequence of calls.
THEOREM PeersAreSafe ==
  ASSUME \A s, t \in Sessions : s = t
  PROVE  Spec => AdminsAreProtected
<1>1. RightsInv => [\A s \in Sessions :
         (/\ sess[s].pc \in {"role_write", "remove_write"}
          /\ ~OwnerRights(sess[s].actor) /\ sess[s].actor # sess[s].target
          /\ sess[s].target # None /\ members' # members)
           => members[sess[s].target] \in PlainRoles]_<<members>>
  BY DEF RightsInv
<1> QED BY RightsHold, <1>1, PTL DEF AdminsAreProtected

-----------------------------------------------------------------------------
(* Any number of handlers and crashes: an invitation that was not accepted  *)
(* twice at once, and whose handler did not die, has let in its recipient   *)
(* only if it is answered or just about to be.                              *)

EntryInv ==
  /\ \A s \in Sessions : sess[s].pc = "invite_insert" =>
       /\ sess[s].inv \in Invites /\ invites[sess[s].inv].status = "ABSENT"
       /\ \A t \in Sessions : sess[t].inv = sess[s].inv => t = s
  /\ \A i \in Invites :
       /\ i \in entered \/ (\E s \in Sessions : Accepting(s, i)) => invites[i].status # "ABSENT"
       /\ i \notin torn => \A s, t \in Sessions : Accepting(s, i) /\ Accepting(t, i) => s = t
       /\ i \in entered \ torn =>
            /\ \A s \in Sessions : Accepting(s, i) => sess[s].pc = "accept_mark"
            /\ Pending(i) => \E s \in Sessions : Accepting(s, i)

\* What a step that begins and ends no acceptance keeps.
LEMMA NoAcceptanceKeeps ==
  ASSUME EntryInv, UNCHANGED history,
         \A t \in Sessions, i \in Invites :
            /\ Accepting(t, i)' => Accepting(t, i) /\ sess'[t].pc = sess[t].pc
            /\ Accepting(t, i) => Accepting(t, i)' \/ ~Pending(i)' \/ sess[t].pc # "accept_mark",
         \A t \in Sessions : sess'[t].pc = "invite_insert" =>
            /\ sess'[t].inv \in Invites /\ invites'[sess'[t].inv].status = "ABSENT"
            /\ \A u \in Sessions : sess'[u].inv = sess'[t].inv => u = t,
         \A i \in Invites : /\ invites[i].status # "ABSENT" => invites'[i].status # "ABSENT"
                            /\ Pending(i)' => Pending(i) \/ invites[i].status = "ABSENT"
  PROVE  EntryInv'
<1> SUFFICES ASSUME NEW i \in Invites
             PROVE  /\ i \in entered \/ (\E s \in Sessions : Accepting(s, i)') => invites'[i].status # "ABSENT"
                    /\ i \notin torn => \A s, t \in Sessions : Accepting(s, i)' /\ Accepting(t, i)' => s = t
                    /\ i \in entered \ torn =>
                         /\ \A s \in Sessions : Accepting(s, i)' => sess'[s].pc = "accept_mark"
                         /\ Pending(i)' => \E s \in Sessions : Accepting(s, i)'
  BY DEF EntryInv, history
<1>1. i \in entered \/ (\E s \in Sessions : Accepting(s, i)') => invites'[i].status # "ABSENT"
  BY DEF EntryInv
<1>2. i \notin torn => \A s, t \in Sessions : Accepting(s, i)' /\ Accepting(t, i)' => s = t
  BY DEF EntryInv
<1>3. ASSUME i \in entered \ torn
      PROVE  \A s \in Sessions : Accepting(s, i)' => sess'[s].pc = "accept_mark"
  BY <1>3 DEF EntryInv
<1>4. ASSUME i \in entered \ torn, Pending(i)'
      PROVE  \E s \in Sessions : Accepting(s, i)'
  <2>1. Pending(i)
    BY <1>4 DEF EntryInv
  <2>2. PICK s \in Sessions : Accepting(s, i) /\ sess[s].pc = "accept_mark"
    BY <1>4, <2>1 DEF EntryInv
  <2> QED BY <1>4, <2>2
<1> QED BY <1>1, <1>2, <1>3, <1>4

\* Beginning to accept an invitation keeps EntryInv.
LEMMA AcceptReadKeepsEntry ==
  ASSUME TypeOK, EntryInv, NEW s \in Sessions, NEW i \in Invites, AcceptRead(s, i)
  PROVE  EntryInv'
<1> USE GovernanceAssumption
<1>1. /\ Pending(i) /\ sess[s].pc = "idle" /\ UNCHANGED <<invites, entered>>
      /\ torn' = IF \E t \in Sessions : Accepting(t, i) THEN torn \cup {i} ELSE torn
      /\ sess'[s].pc \in {"accept_add", "accept_mark"} /\ sess'[s].inv = i
      /\ \A t \in Sessions : t # s => sess'[t] = sess[t]
  BY DEF AcceptRead, Begin, Idle, TypeOK
<1>2. \A t \in Sessions, j \in Invites : t # s => (Accepting(t, j)' <=> Accepting(t, j))
  BY <1>1 DEF Accepting
<1>3. \A j \in Invites : /\ Accepting(s, j)' <=> j = i
                         /\ ~Accepting(s, j)
  BY <1>1 DEF Accepting
<1>4. \A t \in Sessions : sess'[t].pc = "invite_insert" =>
        /\ sess'[t].inv \in Invites /\ invites'[sess'[t].inv].status = "ABSENT"
        /\ \A u \in Sessions : sess'[u].inv = sess'[t].inv => u = t
  BY <1>1 DEF EntryInv, Pending
<1>5. ASSUME NEW j \in Invites, j # i
      PROVE  /\ j \in entered \/ (\E u \in Sessions : Accepting(u, j)') => invites'[j].status # "ABSENT"
             /\ j \notin torn' => \A u, t \in Sessions : Accepting(u, j)' /\ Accepting(t, j)' => u = t
             /\ j \in entered \ torn' =>
                  /\ \A u \in Sessions : Accepting(u, j)' => sess'[u].pc = "accept_mark"
                  /\ Pending(j)' => \E u \in Sessions : Accepting(u, j)'
  <2>1. \A t \in Sessions : Accepting(t, j)' <=> Accepting(t, j)
    BY <1>2, <1>3, <1>5
  <2>2. \A t \in Sessions : Accepting(t, j) => t # s
    BY <1>3
  <2>3. (j \in torn' <=> j \in torn) /\ (Pending(j)' <=> Pending(j))
    BY <1>1, <1>5 DEF Pending
  <2> QED BY <1>1, <2>1, <2>2, <2>3 DEF EntryInv
<1>6. /\ invites'[i].status # "ABSENT"
      /\ i \notin torn' => \A u, t \in Sessions : Accepting(u, i)' /\ Accepting(t, i)' => u = t
      /\ i \notin entered \ torn'
  <2>1. CASE \E t \in Sessions : Accepting(t, i)
    BY <1>1, <2>1 DEF Pending
  <2>2. CASE ~\E t \in Sessions : Accepting(t, i)
    <3>1. i \notin entered \ torn
      BY <1>1, <2>2 DEF EntryInv
    <3> QED BY <1>1, <1>2, <2>2, <3>1 DEF Pending
  <2> QED BY <2>1, <2>2
<1> QED BY <1>1, <1>4, <1>5, <1>6 DEF EntryInv

\* Adding the member keeps EntryInv: nobody else is accepting the invitation.
LEMMA AcceptAddKeepsEntry ==
  ASSUME TypeOK, AcceptsKnown, EntryInv, NEW s \in Sessions, AcceptAdd(s)
  PROVE  EntryInv'
<1> DEFINE i == sess[s].inv
<1>1. /\ sess[s].pc = "accept_add" /\ i \in Invites /\ UNCHANGED <<invites, torn>>
      /\ entered' = entered \cup {i}
      /\ sess'[s].pc = "accept_mark" /\ sess'[s].inv = i
      /\ \A t \in Sessions : t # s => sess'[t] = sess[t]
  BY DEF AcceptAdd, AcceptsKnown, Goto, TypeOK, Session
<1> HIDE DEF i
<1>2. \A t \in Sessions, j \in Invites : Accepting(t, j)' <=> Accepting(t, j)
  BY <1>1 DEF Accepting, i
<1>3. \A j \in Invites : Accepting(s, j) <=> j = i
  BY <1>1 DEF Accepting, i
<1>4. \A t \in Sessions : sess'[t].pc = "invite_insert" =>
        /\ sess'[t].inv \in Invites /\ invites'[sess'[t].inv].status = "ABSENT"
        /\ \A u \in Sessions : sess'[u].inv = sess'[t].inv => u = t
  <2>1. \A t \in Sessions : sess'[t].inv = sess[t].inv
    BY <1>1 DEF i
  <2> QED BY <1>1, <2>1 DEF EntryInv
<1>5. ASSUME NEW j \in Invites
      PROVE  /\ j \in entered' \/ (\E u \in Sessions : Accepting(u, j)') => invites'[j].status # "ABSENT"
             /\ j \notin torn' => \A u, t \in Sessions : Accepting(u, j)' /\ Accepting(t, j)' => u = t
             /\ j \in entered' \ torn' =>
                  /\ \A u \in Sessions : Accepting(u, j)' => sess'[u].pc = "accept_mark"
                  /\ Pending(j)' => \E u \in Sessions : Accepting(u, j)'
  <2>1. (j \in torn' <=> j \in torn) /\ (Pending(j)' <=> Pending(j))
    BY <1>1 DEF Pending
  <2>2. CASE j = i
    <3>1. \A u \in Sessions : j \notin torn /\ Accepting(u, j) => u = s
      BY <1>3, <2>2 DEF EntryInv
    <3> QED BY <1>1, <1>2, <1>3, <2>1, <2>2, <3>1 DEF EntryInv
  <2>3. CASE j # i
    <3>1. \A u \in Sessions : Accepting(u, j) => u # s
      BY <1>3, <2>3
    <3> QED BY <1>1, <1>2, <2>1, <2>3, <3>1 DEF EntryInv
  <2> QED BY <2>2, <2>3
<1> QED BY <1>4, <1>5 DEF EntryInv

\* A handler that ends keeps EntryInv, if no invitation is pending again and the
\* one it was accepting is answered, or torn, or has let nobody in.
LEMMA EndKeepsEntry ==
  ASSUME TypeOK, EntryInv, NEW s \in Sessions, sess' = [sess EXCEPT ![s] = Idle],
         \/ UNCHANGED history /\ (sess[s].pc # "accept_mark" \/ \A i \in Invites : i = sess[s].inv => ~Pending(i)')
         \/ sess[s].pc = "accept_mark" /\ entered' = entered /\ torn' = torn \cup {sess[s].inv},
         \A i \in Invites : \/ invites'[i] = invites[i]
                            \/ /\ invites'[i].status # "ABSENT" /\ i = sess[s].inv
                               /\ Pending(i)' => sess[s].pc = "invite_insert"
  PROVE  EntryInv'
<1> USE GovernanceAssumption
<1>1. sess'[s] = Idle /\ \A t \in Sessions : t # s => sess'[t] = sess[t]
  BY DEF TypeOK
<1>2. \A t \in Sessions : sess'[t].pc = "invite_insert" =>
        /\ sess'[t].inv \in Invites /\ invites'[sess'[t].inv].status = "ABSENT"
        /\ \A u \in Sessions : sess'[u].inv = sess'[t].inv => u = t
  <2> SUFFICES ASSUME NEW t \in Sessions, sess'[t].pc = "invite_insert"
               PROVE  /\ sess'[t].inv \in Invites /\ invites'[sess'[t].inv].status = "ABSENT"
                      /\ \A u \in Sessions : sess'[u].inv = sess'[t].inv => u = t
    OBVIOUS
  <2>1. t # s /\ sess'[t] = sess[t]
    BY <1>1 DEF Idle
  <2>2. sess[t].inv \in Invites /\ sess[t].inv # sess[s].inv /\ invites[sess[t].inv].status = "ABSENT"
    BY <2>1 DEF EntryInv
  <2>3. \A u \in Sessions : sess'[u].inv \in {sess[u].inv, None}
    BY <1>1 DEF Idle
  <2> QED BY <2>1, <2>2, <2>3 DEF EntryInv
<1>3. \A t \in Sessions, j \in Invites :
        /\ Accepting(t, j)' => t # s /\ Accepting(t, j) /\ sess'[t].pc = sess[t].pc
        /\ Accepting(t, j) /\ t # s => Accepting(t, j)'
  BY <1>1 DEF Accepting, Idle
<1>4. ASSUME NEW j \in Invites
      PROVE  /\ j \in entered' \/ (\E u \in Sessions : Accepting(u, j)') => invites'[j].status # "ABSENT"
             /\ j \notin torn' => \A u, t \in Sessions : Accepting(u, j)' /\ Accepting(t, j)' => u = t
             /\ j \in entered' \ torn' => \A u \in Sessions : Accepting(u, j)' => sess'[u].pc = "accept_mark"
  <2>1. entered' = entered /\ (j \notin torn' => j \notin torn)
    BY DEF history
  <2> QED BY <1>3, <2>1 DEF EntryInv
<1>5. ASSUME NEW j \in Invites, j \in entered' \ torn', Pending(j)'
      PROVE  \E u \in Sessions : Accepting(u, j)'
  <2>1. j \in entered \ torn
    BY <1>5 DEF history
  <2>2. Pending(j)
    BY <1>5, <2>1 DEF EntryInv, Pending
  <2>3. PICK u \in Sessions : Accepting(u, j) /\ sess[u].pc = "accept_mark"
    BY <2>1, <2>2 DEF EntryInv
  <2>4. u # s
    BY <1>5, <2>3 DEF Accepting, history
  <2> QED BY <1>3, <2>3, <2>4
<1> QED BY <1>2, <1>4, <1>5 DEF EntryInv

\* Every step keeps EntryInv.
LEMMA EntryPreserved ==
  ASSUME TypeOK, AcceptsKnown, EntryInv, [Next]_vars
  PROVE  EntryInv'
<1> USE GovernanceAssumption
\* A reading step that does not concern acceptances.
<1>b. ASSUME NEW s \in Sessions, NEW h, Begin(s, h), UNCHANGED history,
             h.pc \notin {"accept_add", "accept_mark"},
             h.inv = None \/ h.pc = "invite_insert" \/ (h.inv \in Invites /\ Pending(h.inv)),
             h.pc = "invite_insert" => /\ h.inv \in Invites /\ invites[h.inv].status = "ABSENT"
                                       /\ \A t \in Sessions : sess[t].inv # h.inv
      PROVE  EntryInv'
  <2>1. /\ sess[s].pc = "idle" /\ UNCHANGED invites /\ sess'[s] = h
        /\ \A t \in Sessions : t # s => sess'[t] = sess[t]
    BY <1>b DEF Begin, TypeOK
  <2>2. \A t \in Sessions, i \in Invites :
            /\ Accepting(t, i)' => Accepting(t, i) /\ sess'[t].pc = sess[t].pc
            /\ Accepting(t, i) => Accepting(t, i)'
    BY <1>b, <2>1 DEF Accepting
  <2>3. \A t \in Sessions : sess'[t].pc = "invite_insert" =>
            /\ sess'[t].inv \in Invites /\ invites'[sess'[t].inv].status = "ABSENT"
            /\ \A u \in Sessions : sess'[u].inv = sess'[t].inv => u = t
    BY <1>b, <2>1 DEF EntryInv, Pending
  <2> QED BY <1>b, <2>1, <2>2, <2>3, NoAcceptanceKeeps DEF Pending
<1>1. ASSUME NEW s \in Sessions, Read(s)
      PROVE  EntryInv'
  <2>1. ASSUME NEW a \in Authors, NEW t \in Authors, NEW r \in Roles, RoleRead(s, a, t, r), UNCHANGED history
        PROVE  EntryInv'
    BY <1>b, <2>1 DEF RoleRead, Idle
  <2>2. ASSUME NEW a \in Authors, NEW t \in Authors, TransferRead(s, a, t) \/ RemoveRead(s, a, t),
               UNCHANGED history
        PROVE  EntryInv'
    BY <1>b, <2>2 DEF TransferRead, RemoveRead, Idle
  <2>3. ASSUME NEW a \in Authors, NEW t \in Authors, NEW r \in Roles, NEW i \in Invites,
               InviteRead(s, a, t, r, i), UNCHANGED history
        PROVE  EntryInv'
    BY <1>b, <2>3 DEF InviteRead, Idle
  <2>4. ASSUME NEW i \in Invites, RejectRead(s, i), UNCHANGED history
        PROVE  EntryInv'
    BY <1>b, <2>4 DEF RejectRead, Idle
  <2>5. ASSUME NEW a \in Authors, NEW i \in Invites, RevokeRead(s, a, i), UNCHANGED history
        PROVE  EntryInv'
    BY <1>b, <2>5 DEF RevokeRead, MayRevoke, Idle
  <2> QED BY <1>1, <2>1, <2>2, <2>3, <2>4, <2>5, AcceptReadKeepsEntry DEF Read
<1>2. ASSUME NEW s \in Sessions, Finish(s), UNCHANGED <<invites, entered, torn>>, sess[s].pc # "accept_mark"
      PROVE  EntryInv'
  BY <1>2, EndKeepsEntry DEF Finish, history
<1>3. ASSUME NEW s \in Sessions, Crash(s)
      PROVE  EntryInv'
  BY <1>2, <1>3, EndKeepsEntry DEF Crash, Finish
<1>4. ASSUME NEW s \in Sessions, NEW st \in InviteStatus \ {"ABSENT", "PENDING"}, MarkInvite(s, st),
             UNCHANGED history
      PROVE  EntryInv'
  <2>1. \A i \in Invites : /\ i # sess[s].inv => invites'[i] = invites[i]
                           /\ i = sess[s].inv => invites'[i].status = st
    BY <1>4 DEF MarkInvite, TypeOK, Invite
  <2>2. \A i \in Invites : /\ i = sess[s].inv => ~Pending(i)'
                           /\ \/ invites'[i] = invites[i]
                              \/ invites'[i].status # "ABSENT" /\ i = sess[s].inv /\ ~Pending(i)'
    BY <1>4, <2>1 DEF Pending
  <2> QED BY <1>4, <2>2, EndKeepsEntry DEF MarkInvite, Finish
<1>5. ASSUME NEW s \in Sessions, InviteInsert(s), UNCHANGED history
      PROVE  EntryInv'
  <2>1. \A i \in Invites : \/ invites'[i] = invites[i]
                           \/ invites'[i].status # "ABSENT" /\ i = sess[s].inv
    BY <1>5 DEF InviteInsert, TypeOK
  <2> QED BY <1>5, <2>1, EndKeepsEntry DEF InviteInsert, Finish
<1>6. ASSUME NEW s \in Sessions, TransferDemote(s), UNCHANGED history
      PROVE  EntryInv'
  <2>1. /\ sess[s].pc = "transfer_demote" /\ sess'[s].pc = "transfer_promote" /\ sess'[s].inv = sess[s].inv
        /\ UNCHANGED invites /\ \A t \in Sessions : t # s => sess'[t] = sess[t]
    BY <1>6 DEF TransferDemote, Goto, TypeOK, Session
  <2>2. \A t \in Sessions, i \in Invites :
            /\ Accepting(t, i)' => Accepting(t, i) /\ sess'[t].pc = sess[t].pc
            /\ Accepting(t, i) => Accepting(t, i)'
    BY <2>1 DEF Accepting
  <2>3. \A t \in Sessions : sess'[t].pc = "invite_insert" =>
            /\ sess'[t].inv \in Invites /\ invites'[sess'[t].inv].status = "ABSENT"
            /\ \A u \in Sessions : sess'[u].inv = sess'[t].inv => u = t
    BY <2>1 DEF EntryInv
  <2> QED BY <1>6, <2>1, <2>2, <2>3, NoAcceptanceKeeps DEF Pending
<1>7. ASSUME NEW s \in Sessions, RemoveWrite(s), UNCHANGED history
      PROVE  EntryInv'
  <2>1. CASE RowLives(s, sess[s].target)
    <3>1. /\ sess[s].pc = "remove_write" /\ UNCHANGED invites /\ sess'[s] = Idle
          /\ \A t \in Sessions : t # s => sess'[t].pc = sess[t].pc /\ sess'[t].inv = sess[t].inv
      BY <1>7, <2>1 DEF RemoveWrite, TypeOK, Session
    <3>2. \A t \in Sessions, i \in Invites :
              /\ Accepting(t, i)' => Accepting(t, i) /\ sess'[t].pc = sess[t].pc
              /\ Accepting(t, i) => Accepting(t, i)'
      BY <3>1 DEF Accepting, Idle
    <3>3. \A t \in Sessions : sess'[t].pc = "invite_insert" =>
              /\ sess'[t].inv \in Invites /\ invites'[sess'[t].inv].status = "ABSENT"
              /\ \A u \in Sessions : sess'[u].inv = sess'[t].inv => u = t
      BY <3>1 DEF EntryInv, Idle
    <3> QED BY <1>7, <3>1, <3>2, <3>3, NoAcceptanceKeeps DEF Pending
  <2>2. CASE ~RowLives(s, sess[s].target)
    BY <1>2, <1>7, <2>2 DEF RemoveWrite, history
  <2> QED BY <2>1, <2>2
<1>8. ASSUME NEW s \in Sessions, UNCHANGED history,
             RoleWrite(s) \/ TransferPromote(s) \/ TransferFails(s) \/ AcceptConflict(s)
      PROVE  EntryInv'
  BY <1>2, <1>8 DEF RoleWrite, TransferPromote, TransferFails, AcceptConflict, history
<1>9. ASSUME NEW i \in Invites, InviteExpires(i), UNCHANGED history
      PROVE  EntryInv'
  <2>1. UNCHANGED sess /\ \A j \in Invites : invites'[j].status = invites[j].status
    BY <1>9 DEF InviteExpires, TypeOK, Invite
  <2> QED BY <1>9, <2>1, NoAcceptanceKeeps DEF Accepting, Pending, EntryInv
<1>10. CASE UNCHANGED vars
  BY <1>10, NoAcceptanceKeeps DEF vars, Accepting, Pending, EntryInv, history
<1> QED BY <1>1, <1>3, <1>4, <1>5, <1>6, <1>7, <1>8, <1>9, <1>10, AcceptAddKeepsEntry
        DEF Next, Write, AcceptMark, RejectWrite, RevokeWrite, InviteStatus

\* However many handlers run and die: an invitation lets its recipient in again
\* only if two acceptances overlapped or one was cut short.
THEOREM EntryIsOnce == Spec => EntersOnce
<1> DEFINE Once == \A i \in Invites :
             (i \in entered /\ \E s \in Sessions : Enters(s, i)) => i \in torn
<1>1. TypeOK /\ EntryInv => Once
  BY DEF TypeOK, EntryInv, Accepting, Enters
<1>2. Init => AcceptsKnown /\ EntryInv
  BY DEF Init, AcceptsKnown, EntryInv, Accepting, Idle
<1>3. TypeOK /\ AcceptsKnown /\ EntryInv /\ [Next]_vars => AcceptsKnown' /\ EntryInv'
  BY HistoryPreserves, EntryPreserved
<1>4. Spec => []EntryInv
  BY TypeCorrect, <1>2, <1>3, PTL DEF Spec
<1>5. TypeOK /\ EntryInv /\ [Next]_vars => [Once]_vars
  BY <1>1
<1> QED BY TypeCorrect, <1>4, <1>5, PTL DEF Spec, EntersOnce
=============================================================================
