--------------------------- MODULE ChatRoomProofs ---------------------------
(***************************************************************************)
(* Proofs about ChatRoom, for any sets of users, messages and sessions.    *)
(*                                                                         *)
(* That no message follows a hide rests on the second lock: a session about*)
(* to insert holds the group row of a published group, and nobody changes  *)
(* the status under it.  That a room has one creator rests on the order of *)
(* the two inserts: only the session whose room was accepted is about to   *)
(* insert a creator, and it is the first to have been.                     *)
(*                                                                         *)
(* That a room has a creator, who leaves last, is true of one handler at a *)
(* time only, and the first part only if none dies between two commits;    *)
(* AloneInv is what the overlap of two, or a death, takes away.            *)
(***************************************************************************)
EXTENDS ChatRoom, TLAPS

\* The parameters a handler runs with are there when it needs them.
HandlerInv ==
  \A s \in Sessions :
    /\ sess[s].pc # "idle" => sess[s].user \in Users
    /\ sess[s].pc \in {"check", "lock", "insert"} => sess[s].msg \in Messages

\* About to insert a message, a session holds the row of a published group.
LockInv ==
  \A s \in Sessions : sess[s].pc = "insert" => groupLock = s /\ status = "PUBLISHED"

\* Before the room there is nobody in it and nobody past its creation.
RoomInv ==
  ~room => /\ \A u \in Users : role[u] = "NONE"
           /\ \A s \in Sessions : sess[s].pc \in {"idle", "create"}

\* One session at most is about to insert the creator, the first one.
CreatorInv ==
  /\ \A s \in Sessions : sess[s].pc = "creator" => \A u \in Users : role[u] # "CREATOR"
  /\ \A s, t \in Sessions : sess[s].pc = "creator" /\ sess[t].pc = "creator" => s = t

\* Past its check, a sender has a membership row.
SenderInv ==
  \A s \in Sessions : sess[s].pc \in {"lock", "insert"} => role[sess[s].user] # "NONE"

IInv == /\ TypeOK /\ HandlerInv /\ LockInv /\ RoomInv /\ CreatorInv /\ SenderInv
        /\ AtMostOneCreator /\ SendersAreMembers

-----------------------------------------------------------------------------
\* Letting go of the row is felt by its holder only.
LEMMA UnlockEffect ==
  ASSUME TypeOK, NEW s \in Sessions, Unlock(s)
  PROVE  /\ groupLock' \in Sessions \cup {None}
         /\ groupLock # s => groupLock' = groupLock
  BY DEF Unlock, TypeOK

\* What a move of one session to another step does.
LEMMA GotoEffect ==
  ASSUME TypeOK, NEW s \in Sessions, NEW pc \in PCs, Goto(s, pc)
  PROVE  /\ sess' \in [Sessions -> Session]
         /\ sess'[s].pc = pc /\ sess'[s].user = sess[s].user /\ sess'[s].msg = sess[s].msg
         /\ \A t \in Sessions : t # s => sess'[t] = sess[t]
  BY DEF Goto, TypeOK, Session

\* What ending a session does.
LEMMA FinishEffect ==
  ASSUME TypeOK, NEW s \in Sessions, Finish(s)
  PROVE  /\ sess' \in [Sessions -> Session]
         /\ sess'[s] = Idle
         /\ \A t \in Sessions : t # s => sess'[t] = sess[t]
         /\ groupLock' \in Sessions \cup {None}
         /\ groupLock # s => groupLock' = groupLock
  BY UnlockEffect DEF Finish, TypeOK, Session, Idle, PCs

\* What a commit of the resolving part does.
LEMMA CommittedEffect ==
  ASSUME TypeOK, NEW s \in Sessions, Committed(s)
  PROVE  /\ sess' \in [Sessions -> Session]
         /\ \A t \in Sessions : t # s => sess'[t] = sess[t]
         /\ \/ sess'[s] = Idle
            \/ /\ sess'[s].pc = "check" /\ sess'[s].user = sess[s].user
               /\ sess'[s].msg = sess[s].msg /\ sess[s].msg # None
         /\ groupLock' \in Sessions \cup {None}
         /\ groupLock # s => groupLock' = groupLock
<1>1. CASE sess[s].msg = None
  BY <1>1, FinishEffect DEF Committed
<1>2. CASE sess[s].msg # None
  BY <1>2, UnlockEffect, GotoEffect DEF Committed, PCs
<1>3. QED
  BY <1>1, <1>2

\* The steps a session may be sent to by the resolving part, and when.
LEMMA NextStepEffect ==
  ASSUME TypeOK, NEW u \in Users, NextStep(u) # "refused"
  PROVE  /\ NextStep(u) \in {"check", "create", "add", "rejoin"}
         /\ NextStep(u) # "create" => room
  BY DEF NextStep

\* The initial states satisfy the invariant.
LEMMA InitIInv == Init => IInv
<1> SUFFICES ASSUME Init PROVE IInv
  OBVIOUS
<1> USE DEF Init
<1>1. TypeOK
  BY DEF TypeOK, GroupStatus, MemberRole, Session, PCs, Idle
<1>2. HandlerInv /\ LockInv /\ RoomInv /\ CreatorInv /\ SenderInv
  BY DEF HandlerInv, LockInv, RoomInv, CreatorInv, SenderInv, Idle
<1>3. AtMostOneCreator /\ SendersAreMembers
  BY DEF AtMostOneCreator, SendersAreMembers
<1>4. QED
  BY <1>1, <1>2, <1>3 DEF IInv

-----------------------------------------------------------------------------
\* A session that starts, moves or ends without touching the tables preserves
\* the invariant, if the step it moves to is entitled to what it claims.
LEMMA MovePreserves ==
  ASSUME IInv, NEW s \in Sessions,
         UNCHANGED <<status, eligible, room, members, messages>>,
         sess' \in [Sessions -> Session],
         \A t \in Sessions : t # s => sess'[t] = sess[t],
         sess'[s].pc # "idle" => sess'[s].user \in Users,
         sess'[s].pc \in {"check", "lock", "insert"} => sess'[s].msg \in Messages,
         sess'[s].pc # "creator",
         sess'[s].pc \notin {"idle", "create"} => room,
         sess'[s].pc \in {"lock", "insert"} => role[sess'[s].user] # "NONE",
         sess'[s].pc = "insert" => groupLock' = s /\ status = "PUBLISHED",
         groupLock' \in Sessions \cup {None},
         \A t \in Sessions : t # s /\ groupLock = t => groupLock' = t
  PROVE  IInv'
<1>1. TypeOK'
  BY DEF IInv, TypeOK, members
<1>2. HandlerInv'
  BY DEF IInv, HandlerInv
<1>3. LockInv'
  BY DEF IInv, LockInv
<1>4. RoomInv' /\ CreatorInv'
  BY DEF IInv, RoomInv, CreatorInv, members
<1>5. SenderInv'
  BY DEF IInv, SenderInv, members
<1>6. AtMostOneCreator' /\ SendersAreMembers'
  BY DEF IInv, AtMostOneCreator, SendersAreMembers, members
<1>7. QED
  BY <1>1, <1>2, <1>3, <1>4, <1>5, <1>6 DEF IInv

\* Handlers that begin: a visit, a message, an invitation, a removal.
LEMMA BeginPreserves ==
  ASSUME IInv, NEW s \in Sessions, NEW caller \in Users, NEW u \in Users,
         \/ OpenRoom(s, u) \/ AddMemberRead(s, caller, u) \/ RemoveRead(s, caller, u)
         \/ \E m \in Messages : SendRead(s, u, m)
  PROVE  IInv'
<1> USE NoneIsFresh
<1>1. CASE OpenRoom(s, u)
  BY <1>1, NextStepEffect, MovePreserves DEF OpenRoom, IInv, TypeOK, Session, PCs
<1>2. CASE AddMemberRead(s, caller, u)
  <2>1. NextStep(u) \in {"create", "add", "rejoin"}
    BY <1>2 DEF AddMemberRead, NextStep
  <2>2. QED
    BY <1>2, <2>1, MovePreserves DEF AddMemberRead, IInv, TypeOK, Session, PCs
<1>3. CASE RemoveRead(s, caller, u)
  BY <1>3, MovePreserves DEF RemoveRead, IInv, TypeOK, Session, PCs
<1>4. ASSUME NEW m \in Messages, SendRead(s, u, m) PROVE IInv'
  BY <1>4, NextStepEffect, MovePreserves DEF SendRead, IInv, TypeOK, Session, PCs
<1>5. QED
  BY <1>1, <1>2, <1>3, <1>4

\* Steps of a handler that touch no table.
LEMMA AdvancePreserves ==
  ASSUME IInv, NEW s \in Sessions,
         InsertConflict(s) \/ Crash(s) \/ RequireActiveMember(s) \/ PersistLock(s)
  PROVE  IInv'
<1>1. TypeOK
  BY DEF IInv
<1>2. CASE InsertConflict(s) \/ Crash(s)
  BY <1>1, <1>2, FinishEffect, MovePreserves DEF InsertConflict, Crash, Idle
<1>3. CASE RequireActiveMember(s)
  <2>1. CASE Active(sess[s].user)
    <3>1. Goto(s, "lock") /\ groupLock' = groupLock
      BY <1>3, <2>1 DEF RequireActiveMember
    <3>2. room /\ sess[s].user \in Users /\ sess[s].msg \in Messages
      BY <1>3 DEF RequireActiveMember, IInv, RoomInv, HandlerInv
    <3>3. QED
      BY <1>1, <1>3, <2>1, <3>1, <3>2, GotoEffect, MovePreserves
         DEF RequireActiveMember, PCs, Active, TypeOK
  <2>2. CASE ~Active(sess[s].user)
    BY <1>1, <1>3, <2>2, FinishEffect, MovePreserves DEF RequireActiveMember, Idle
  <2>3. QED
    BY <2>1, <2>2
<1>4. CASE PersistLock(s)
  <2>1. CASE status = "PUBLISHED"
    <3>1. Goto(s, "insert") /\ groupLock' = s /\ groupLock \in {s, None}
      BY <1>4, <2>1 DEF PersistLock
    <3>2. room /\ sess[s].user \in Users /\ sess[s].msg \in Messages
          /\ role[sess[s].user] # "NONE"
      BY <1>4 DEF PersistLock, IInv, RoomInv, HandlerInv, SenderInv
    <3>3. QED
      BY <1>1, <1>4, <2>1, <3>1, <3>2, GotoEffect, MovePreserves, NoneIsFresh
         DEF PersistLock, PCs
  <2>2. CASE status # "PUBLISHED"
    BY <1>1, <1>4, <2>2, FinishEffect, MovePreserves DEF PersistLock, Idle
  <2>3. QED
    BY <2>1, <2>2
<1>5. QED
  BY <1>2, <1>3, <1>4

\* The room is inserted, and its creator is next.
LEMMA CreatePreserves ==
  ASSUME IInv, NEW s \in Sessions, CreateRoom(s)
  PROVE  IInv'
<1> USE DEF CreateRoom, RoomIndexAllows
<1>1. TypeOK /\ ~room /\ room'
  BY DEF IInv
<1>2. /\ sess' \in [Sessions -> Session]
      /\ sess'[s].pc = "creator" /\ sess'[s].user = sess[s].user
      /\ \A t \in Sessions : t # s => sess'[t] = sess[t]
      /\ groupLock' \in Sessions \cup {None}
      /\ groupLock # s => groupLock' = groupLock
  BY <1>1, GotoEffect, UnlockEffect DEF PCs
<1>3. /\ \A u \in Users : role[u] = "NONE"
      /\ \A t \in Sessions : sess[t].pc \in {"idle", "create"}
  BY <1>1 DEF IInv, RoomInv
<1>4. TypeOK'
  BY <1>1, <1>2 DEF TypeOK, members
<1>5. HandlerInv' /\ LockInv' /\ RoomInv' /\ SenderInv'
  BY <1>1, <1>2, <1>3 DEF IInv, HandlerInv, LockInv, RoomInv, SenderInv, members
<1>6. CreatorInv' /\ AtMostOneCreator' /\ SendersAreMembers'
  BY <1>1, <1>2, <1>3 DEF IInv, CreatorInv, AtMostOneCreator, SendersAreMembers, members
<1>7. QED
  BY <1>4, <1>5, <1>6 DEF IInv

\* A membership row is inserted, updated or ended.
LEMMA MembershipPreserves ==
  ASSUME IInv, NEW s \in Sessions, AddMember(s) \/ Rejoin(s) \/ Leave(s)
  PROVE  IInv'
<1>1. TypeOK /\ sess[s].user \in Users /\ room
  BY DEF IInv, HandlerInv, RoomInv, AddMember, Rejoin, Leave
<1>2. /\ sess' \in [Sessions -> Session]
      /\ \A t \in Sessions : t # s => sess'[t] = sess[t]
      /\ \/ sess'[s] = Idle
         \/ /\ sess'[s].pc = "check" /\ sess'[s].user = sess[s].user
            /\ sess'[s].msg = sess[s].msg /\ sess[s].msg # None
      /\ groupLock' \in Sessions \cup {None}
      /\ groupLock # s => groupLock' = groupLock
  BY <1>1, CommittedEffect, FinishEffect DEF AddMember, Rejoin, Leave
<1>3. /\ UNCHANGED <<status, eligible, room, messages>>
      /\ left' \subseteq Users
      /\ role' \in [Users -> MemberRole]
      /\ \A u \in Users : role[u] # "NONE" => role'[u] = role[u]
      /\ \A u \in Users : role'[u] = "CREATOR" =>
           role[u] = "CREATOR" \/ (u = sess[s].user /\ sess[s].pc = "creator")
  BY <1>1 DEF AddMember, Rejoin, Leave, TypeOK, MemberRole
<1>4. TypeOK'
  BY <1>1, <1>2, <1>3 DEF TypeOK
<1>5. HandlerInv'
  BY <1>1, <1>2 DEF IInv, HandlerInv, Idle, TypeOK, Session
<1>6. LockInv' /\ RoomInv'
  BY <1>1, <1>2, <1>3 DEF IInv, LockInv, RoomInv, Idle
<1>7. CreatorInv' /\ AtMostOneCreator'
  BY <1>1, <1>2, <1>3 DEF IInv, CreatorInv, AtMostOneCreator, Idle
<1>8. SenderInv'
  BY <1>2, <1>3 DEF IInv, SenderInv, HandlerInv, Idle
<1>9. SendersAreMembers'
  <2>1. \A m \in Messages : messages[m] # None => messages[m] \in Users
    BY <1>1 DEF TypeOK
  <2>2. QED
    BY <1>3, <2>1 DEF IInv, SendersAreMembers
<1>10. QED
  BY <1>4, <1>5, <1>6, <1>7, <1>8, <1>9 DEF IInv

\* A message is stored.
LEMMA InsertPreserves ==
  ASSUME IInv, NEW s \in Sessions, InsertMessage(s)
  PROVE  IInv'
<1> USE DEF InsertMessage
<1>1. /\ TypeOK /\ sess[s].user \in Users /\ sess[s].msg \in Messages
      /\ room /\ role[sess[s].user] # "NONE"
  BY DEF IInv, HandlerInv, RoomInv, SenderInv
<1>2. /\ sess' \in [Sessions -> Session]
      /\ sess'[s] = Idle
      /\ \A t \in Sessions : t # s => sess'[t] = sess[t]
      /\ groupLock' \in Sessions \cup {None}
      /\ groupLock # s => groupLock' = groupLock
  BY <1>1, FinishEffect
<1>3. TypeOK'
  BY <1>1, <1>2 DEF TypeOK, members
<1>4. HandlerInv' /\ LockInv' /\ RoomInv' /\ CreatorInv' /\ SenderInv'
  BY <1>2 DEF IInv, HandlerInv, LockInv, RoomInv, CreatorInv, SenderInv, members, Idle
<1>5. AtMostOneCreator' /\ SendersAreMembers'
  BY <1>1 DEF IInv, TypeOK, AtMostOneCreator, SendersAreMembers, members
<1>6. QED
  BY <1>3, <1>4, <1>5 DEF IInv

\* The group changes around the room.
LEMMA GroupPreserves ==
  ASSUME IInv, \/ \E new \in GroupStatus : ChangeStatus(new)
               \/ \E u \in Users : ChangeEligibility(u)
  PROVE  IInv'
<1>1. /\ status' \in GroupStatus /\ eligible' \subseteq Users
      /\ UNCHANGED <<groupLock, room, role, left, messages, sess>>
      /\ groupLock = None \/ status' = status
  BY DEF ChangeStatus, ChangeEligibility, members, IInv, TypeOK
<1>2. LockInv'
  BY <1>1, NoneIsFresh DEF IInv, LockInv
<1>3. QED
  BY <1>1, <1>2 DEF IInv, TypeOK, HandlerInv, RoomInv, CreatorInv, SenderInv,
                    AtMostOneCreator, SendersAreMembers

\* Every step preserves the invariant.
LEMMA NextIInv == IInv /\ [Next]_vars => IInv'
<1>1. ASSUME IInv, NEW s \in Sessions, Continue(s) \/ Crash(s) PROVE IInv'
  BY <1>1, AdvancePreserves, CreatePreserves, MembershipPreserves, InsertPreserves DEF Continue
<1>2. ASSUME IInv, UNCHANGED vars PROVE IInv'
  BY <1>2 DEF vars, members, IInv, TypeOK, HandlerInv, LockInv, RoomInv, CreatorInv,
              SenderInv, AtMostOneCreator, SendersAreMembers
<1>3. ASSUME IInv, NEW s \in Sessions, NEW u \in Users, OpenRoom(s, u) PROVE IInv'
  BY <1>3, BeginPreserves
<1>4. ASSUME IInv, NEW s \in Sessions, NEW u \in Users, NEW m \in Messages, SendRead(s, u, m)
      PROVE IInv'
  BY <1>4, BeginPreserves
<1>5. QED
  BY <1>1, <1>2, <1>3, <1>4, BeginPreserves, GroupPreserves DEF Next

\* Every reachable state satisfies the invariant.
THEOREM Invariance == Spec => []IInv
<1>1. Init => IInv
  BY InitIInv
<1>2. IInv /\ [Next]_vars => IInv'
  BY NextIInv
<1>3. QED
  BY <1>1, <1>2, PTL DEF Spec

\* Every variable always has its type.
THEOREM TypeCorrect == Spec => []TypeOK
<1>1. IInv => TypeOK
  BY DEF IInv
<1>2. QED
  BY <1>1, Invariance, PTL

\* However many visitors open the room of a group at the same time, it never
\* has two creators (resolve_or_create_group_room).
THEOREM OneCreator == Spec => []AtMostOneCreator
<1>1. IInv => AtMostOneCreator
  BY DEF IInv
<1>2. QED
  BY <1>1, Invariance, PTL

\* Every stored message is from somebody with a membership row in the room.
THEOREM SendersBelong == Spec => []SendersAreMembers
<1>1. IInv => SendersAreMembers
  BY DEF IInv
<1>2. QED
  BY <1>1, Invariance, PTL

\* No message is stored in a group that is hidden or deleted (_persist_message).
THEOREM NothingAfterHide == Spec => NoMessageAfterHide
<1>1. IInv /\ [Next]_vars => [messages' # messages => status = "PUBLISHED"]_vars
  <2>1. ASSUME IInv, NEW s \in Sessions, InsertMessage(s) PROVE status = "PUBLISHED"
    BY <2>1 DEF InsertMessage, IInv, LockInv
  <2>2. ASSUME NEW s \in Sessions, Continue(s) \/ Crash(s), ~InsertMessage(s)
        PROVE  messages' = messages
    BY <2>2 DEF Continue, Crash, CreateRoom, AddMember, InsertConflict, Rejoin, RequireActiveMember,
                PersistLock, Leave
  <2>3. ASSUME NEW s \in Sessions, NEW caller \in Users, NEW u \in Users,
               \/ OpenRoom(s, u) \/ AddMemberRead(s, caller, u) \/ RemoveRead(s, caller, u)
               \/ \E m \in Messages : SendRead(s, u, m)
        PROVE  messages' = messages
    BY <2>3 DEF OpenRoom, AddMemberRead, RemoveRead, SendRead
  <2>4. ASSUME \/ \E new \in GroupStatus : ChangeStatus(new)
               \/ \E u \in Users : ChangeEligibility(u)
        PROVE  messages' = messages
    BY <2>4 DEF ChangeStatus, ChangeEligibility
  <2>5. QED
    BY <2>1, <2>2, <2>3, <2>4 DEF Next
<1>2. QED
  BY <1>1, Invariance, PTL DEF Spec, NoMessageAfterHide

-----------------------------------------------------------------------------
(* One handler at a time.  RoomHasCreator and CreatorLeavesLast fail as soon   *)
(* as two overlap; alone, a handler finds what it checked when it writes.      *)
(* RoomHasCreator also fails when the one handler dies after its first commit. *)

OneHandler == \A s, t \in Sessions : s = t

\* The creator who is about to leave is the last; whoever is about to be made
\* the creator is the first; and afterwards there is one, if nobody died.
AloneInv ==
  /\ \A s \in Sessions :
       /\ sess[s].pc = "leave" /\ role[sess[s].user] = "CREATOR" => ActiveUsers = {sess[s].user}
       /\ sess[s].pc = "creator" => \A u \in Users : role[u] = "NONE"
  /\ (~MayCrash /\ room /\ \A s \in Sessions : sess[s].pc # "creator")
       => \E u \in Users : role[u] = "CREATOR"

\* A step that leaves room and members alone, to no step with a claim of its own.
LEMMA MoveKeepsAlone ==
  ASSUME IInv, AloneInv, OneHandler, NEW s \in Sessions, UNCHANGED <<room, role, left>>,
         sess[s].pc # "creator", sess'[s].pc # "creator",
         sess'[s].pc = "leave" /\ role[sess'[s].user] = "CREATOR" => ActiveUsers = {sess'[s].user}
  PROVE  AloneInv'
<1>1. \A t \in Sessions : t = s
  BY DEF OneHandler
<1>2. ActiveUsers' = ActiveUsers
  BY DEF ActiveUsers, Active
<1> QED BY <1>1, <1>2 DEF AloneInv

LEMMA BeginKeepsAlone ==
  ASSUME IInv, AloneInv, OneHandler, NEW s \in Sessions, NEW caller \in Users, NEW u \in Users,
         \/ OpenRoom(s, u) \/ AddMemberRead(s, caller, u) \/ RemoveRead(s, caller, u)
         \/ \E m \in Messages : SendRead(s, u, m)
  PROVE  AloneInv'
<1>1. NextStep(u) \notin {"creator", "leave"}
  BY DEF NextStep
<1>2. sess \in [Sessions -> Session]
  BY DEF IInv, TypeOK
<1>3. CASE RemoveRead(s, caller, u)
  <2>1. sess'[s].pc = "leave" /\ sess'[s].user = u /\ MayRemove(caller, u)
    BY <1>2, <1>3 DEF RemoveRead
  <2>2. role[u] = "CREATOR" => ActiveUsers = {u}
    BY <2>1 DEF MayRemove
  <2> QED BY <1>3, <2>1, <2>2, MoveKeepsAlone DEF RemoveRead, members
<1>4. CASE OpenRoom(s, u) \/ AddMemberRead(s, caller, u)
  <2>1. /\ sess[s].pc = "idle" /\ sess'[s].pc = NextStep(u)
        /\ UNCHANGED <<room, role, left>>
    BY <1>2, <1>4 DEF OpenRoom, AddMemberRead, members
  <2> QED BY <1>1, <2>1, MoveKeepsAlone
<1>5. ASSUME NEW m \in Messages, SendRead(s, u, m) PROVE AloneInv'
  <2>1. /\ sess[s].pc = "idle" /\ sess'[s].pc = NextStep(u)
        /\ UNCHANGED <<room, role, left>>
    BY <1>2, <1>5 DEF SendRead, members
  <2> QED BY <1>1, <2>1, MoveKeepsAlone
<1> QED BY <1>3, <1>4, <1>5

LEMMA ContinueKeepsAlone ==
  ASSUME IInv, AloneInv, OneHandler, NEW s \in Sessions, Continue(s)
  PROVE  AloneInv'
<1>0. TypeOK /\ sess \in [Sessions -> Session] /\ \A t \in Sessions : t = s
  BY DEF IInv, TypeOK, OneHandler
<1>1. CASE CreateRoom(s)
  <2>1. /\ sess[s].pc = "create" /\ ~room /\ room' /\ sess'[s].pc = "creator"
        /\ UNCHANGED <<role, left>>
    BY <1>0, <1>1, GotoEffect DEF CreateRoom, RoomIndexAllows, members, PCs
  <2>2. \A u \in Users : role[u] = "NONE"
    BY <2>1 DEF IInv, RoomInv
  <2> QED BY <1>0, <2>1, <2>2 DEF AloneInv
<1>2. CASE AddMember(s)
  <2>1. /\ sess[s].pc \in {"creator", "add"} /\ sess[s].user \in Users
        /\ role' = [role EXCEPT ![sess[s].user] =
                      IF sess[s].pc = "creator" THEN "CREATOR" ELSE "MEMBER"]
        /\ role[sess[s].user] = "NONE" /\ room' = room
    BY <1>2 DEF AddMember, IInv, HandlerInv
  <2>2. sess'[s].pc \in {"idle", "check"}
    BY <1>0, <1>2, <2>1, CommittedEffect DEF AddMember, Idle
  <2>3. ~MayCrash => \E u \in Users : role'[u] = "CREATOR"
    <3> SUFFICES ASSUME ~MayCrash PROVE \E u \in Users : role'[u] = "CREATOR"
      OBVIOUS
    <3>1. CASE sess[s].pc = "creator"
      BY <1>0, <2>1, <3>1 DEF TypeOK
    <3>2. CASE sess[s].pc = "add"
      <4>1. room
        BY <3>2 DEF IInv, RoomInv
      <4>2. PICK u \in Users : role[u] = "CREATOR"
        BY <1>0, <3>2, <4>1 DEF AloneInv
      <4> QED BY <1>0, <2>1, <4>2 DEF TypeOK
    <3> QED BY <2>1, <3>1, <3>2
  <2> QED BY <1>0, <2>2, <2>3 DEF AloneInv
<1>3. CASE InsertConflict(s)
  <2>1. /\ sess'[s] = Idle /\ UNCHANGED <<room, role, left>>
    BY <1>0, <1>3, FinishEffect DEF InsertConflict, members
  <2>2. sess[s].pc # "creator"
    <3> SUFFICES ASSUME sess[s].pc = "creator" PROVE FALSE
      OBVIOUS
    <3>1. sess[s].user \in Users
      BY DEF IInv, HandlerInv
    <3> QED BY <1>3, <3>1 DEF InsertConflict, AloneInv
  <2> QED BY <2>1, <2>2, MoveKeepsAlone DEF Idle
<1>4. CASE Rejoin(s)
  <2>1. sess[s].pc = "rejoin" /\ role' = role /\ room' = room
    BY <1>4 DEF Rejoin
  <2>2. sess'[s].pc \in {"idle", "check"}
    BY <1>0, <1>4, CommittedEffect DEF Rejoin, Idle
  <2> QED BY <1>0, <2>1, <2>2 DEF AloneInv
<1>5. CASE Leave(s)
  <2>1. sess[s].pc = "leave" /\ role' = role /\ room' = room /\ sess'[s].pc = "idle"
    BY <1>0, <1>5, FinishEffect DEF Leave, Idle
  <2> QED BY <1>0, <2>1 DEF AloneInv
<1>6. CASE RequireActiveMember(s) \/ PersistLock(s) \/ InsertMessage(s)
  <2>1. /\ sess[s].pc \in {"check", "lock", "insert"} /\ UNCHANGED <<room, role, left>>
        /\ Finish(s) \/ Goto(s, "lock") \/ Goto(s, "insert")
    BY <1>6 DEF RequireActiveMember, PersistLock, InsertMessage, members
  <2>2. sess'[s].pc \in {"idle", "lock", "insert"}
    BY <1>0, <2>1, FinishEffect, GotoEffect DEF Idle, PCs
  <2> QED BY <2>1, <2>2, MoveKeepsAlone
<1> QED BY <1>1, <1>2, <1>3, <1>4, <1>5, <1>6 DEF Continue

LEMMA CrashKeepsAlone ==
  ASSUME IInv, AloneInv, OneHandler, NEW s \in Sessions, Crash(s)
  PROVE  AloneInv'
<1>1. MayCrash /\ UNCHANGED <<room, role, left>> /\ \A t \in Sessions : t = s
  BY DEF Crash, members, OneHandler
<1>2. sess'[s] = Idle
  BY FinishEffect DEF Crash, IInv
<1> QED BY <1>1, <1>2 DEF AloneInv, Idle

\* The invariant of one handler at a time.
THEOREM AloneInvariance == ASSUME OneHandler PROVE Spec => [](IInv /\ AloneInv)
<1>1. Init => AloneInv
  BY DEF Init, AloneInv, Idle
<1>2. IInv /\ AloneInv /\ [Next]_vars => AloneInv'
  <2> SUFFICES ASSUME IInv, AloneInv, [Next]_vars PROVE AloneInv'
    OBVIOUS
  <2>1. ASSUME NEW s \in Sessions, NEW u \in Users,
               \/ OpenRoom(s, u)
               \/ \E m \in Messages : SendRead(s, u, m)
               \/ \E caller \in Users : AddMemberRead(s, caller, u) \/ RemoveRead(s, caller, u)
        PROVE  AloneInv'
    BY <2>1, BeginKeepsAlone
  <2>2. CASE \/ \E new \in GroupStatus : ChangeStatus(new)
             \/ \E u \in Users : ChangeEligibility(u)
             \/ UNCHANGED vars
    <3>1. UNCHANGED <<room, role, left, sess>>
      BY <2>2 DEF ChangeStatus, ChangeEligibility, members, vars
    <3> QED BY <3>1 DEF AloneInv, ActiveUsers, Active
  <2> QED BY <2>1, <2>2, ContinueKeepsAlone, CrashKeepsAlone DEF Next
<1> QED BY <1>1, <1>2, Invariance, PTL DEF Spec

\* A room that is opened by one visitor at a time gets its creator, unless that
\* visitor's handler dies between the two commits: only this, or a second visitor
\* between the same two, takes the role away (resolve_or_create_group_room).
THEOREM CreatorUnlessRacedOrCut ==
  ASSUME OneHandler, ~MayCrash
  PROVE  Spec => []RoomHasCreator
<1>1. AloneInv => RoomHasCreator
  BY DEF AloneInv, RoomHasCreator
<1> QED BY <1>1, AloneInvariance, PTL

\* The creator leaves last if nobody comes in between the check and the commit
\* (remove_room_member_service), wherever a handler dies.
THEOREM CreatorLastUnlessRaced == ASSUME OneHandler PROVE Spec => CreatorLeavesLast
<1> DEFINE Last == \A u \in Users :
                     (role[u] = "CREATOR" /\ Active(u) /\ ~Active(u)') => ActiveUsers' = {}
<1>1. IInv /\ AloneInv /\ [Next]_vars => [Last]_vars
  <2> SUFFICES ASSUME IInv, AloneInv, Next, NEW u \in Users,
                      role[u] = "CREATOR", Active(u), ~Active(u)'
               PROVE  ActiveUsers' = {}
    OBVIOUS
  <2>1. ASSUME NEW s \in Sessions, Leave(s) PROVE ActiveUsers' = {}
    <3>1. /\ left' = left \cup {sess[s].user} /\ role' = role /\ sess[s].pc = "leave"
      BY <2>1 DEF Leave
    <3>2. u = sess[s].user
      BY <3>1 DEF Active
    <3>3. ActiveUsers = {u}
      BY <3>1, <3>2 DEF AloneInv
    <3> QED BY <3>1, <3>2, <3>3 DEF ActiveUsers, Active
  <2>2. ASSUME NEW s \in Sessions, AddMember(s) PROVE FALSE
    <3>1. left' = left /\ role'[u] # "NONE"
      BY <2>2 DEF AddMember, IInv, TypeOK
    <3> QED BY <3>1 DEF Active
  <2>3. ASSUME NEW s \in Sessions, Rejoin(s) PROVE FALSE
    BY <2>3 DEF Rejoin, Active
  <2>4. \/ UNCHANGED <<role, left>>
        \/ \E s \in Sessions : Leave(s) \/ AddMember(s) \/ Rejoin(s)
    BY DEF Next, Continue, Crash, OpenRoom, SendRead, AddMemberRead, RemoveRead, CreateRoom,
      InsertConflict, RequireActiveMember, PersistLock, InsertMessage, ChangeStatus,
      ChangeEligibility, members
  <2>5. ~UNCHANGED <<role, left>>
    BY DEF Active
  <2> QED BY <2>1, <2>2, <2>3, <2>4, <2>5
<1> QED BY <1>1, AloneInvariance, PTL DEF Spec, CreatorLeavesLast
=============================================================================
