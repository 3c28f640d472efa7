------------------------------ MODULE ChatRoom ------------------------------
(***************************************************************************)
(* The chat room of one author group: how it comes into being with the     *)
(* first visitor, who is a member of it, and how a message is stored while *)
(* a moderator may be hiding or deleting the group.                        *)
(*                                                                         *)
(* A handler is split at each COMMIT, because a commit lets go of the      *)
(* group row that is_group_id_published(for_update=True) locked, and where *)
(* it waits for that row.                                                  *)
(***************************************************************************)
CONSTANTS Users,
          Messages,  \* ids of messages; bounds how many are sent
          Sessions,  \* handlers that may be in flight at the same time
          MayCrash,  \* whether a handler may die between two commits
          None

ASSUME NoneIsFresh == None \notin Users \cup Messages \cup Sessions
ASSUME CrashAssumption == MayCrash \in BOOLEAN

VARIABLES
  status,     \* of the author group
  eligible,   \* users who joined or follow the group
  groupLock,  \* session holding the group row FOR UPDATE
  room,       \* whether the chat_rooms row exists
  role,       \* chat_room_members.role of each user, or "NONE"
  left,       \* members whose left_at is set
  messages,   \* chat_messages: the sender of each stored message
  sess        \* the handler each session is running

members == <<role, left>>
vars == <<status, eligible, groupLock, room, role, left, messages, sess>>

GroupStatus == {"PUBLISHED", "HIDDEN", "DELETED"}
MemberRole == {"NONE", "MEMBER", "CREATOR"}
PCs == {"idle", "create", "creator", "add", "rejoin", "check", "lock", "insert", "leave"}
\* msg is the message to send, or None for a handler that only opens the room.
Session == [pc : PCs, user : Users \cup {None}, msg : Messages \cup {None}]

Idle == [pc |-> "idle", user |-> None, msg |-> None]

Init ==
  /\ status = "PUBLISHED"
  /\ eligible \in SUBSET Users
  /\ groupLock = None
  /\ room = FALSE
  /\ role = [u \in Users |-> "NONE"] /\ left = {}
  /\ messages = [m \in Messages |-> None]
  /\ sess = [s \in Sessions |-> Idle]

Active(u) == role[u] # "NONE" /\ u \notin left
ActiveUsers == {u \in Users : Active(u)}

Unlock(s) == groupLock' = IF groupLock = s THEN None ELSE groupLock
Goto(s, pc) == sess' = [sess EXCEPT ![s].pc = pc]
Finish(s) == Unlock(s) /\ sess' = [sess EXCEPT ![s] = Idle]

\* After a commit of the resolving part: on to the message, or done.
Committed(s) ==
  IF sess[s].msg = None THEN Finish(s) ELSE Unlock(s) /\ Goto(s, "check")

-----------------------------------------------------------------------------
(* resolve_or_create_group_room.  A sender locks the group row first; a     *)
(* reader of the room only looks at its status.                             *)

\* Mutant: who follows the group is taken for a member of its room.
NextStep_eligibleIsEnough(u) ==
  IF u \notin eligible THEN "refused"
  ELSE IF ~room THEN "create" ELSE "lock"

\* Where resolving goes on to; "refused" when the user may not enter.
NextStep(u) ==
  IF room /\ Active(u) THEN "check"
  ELSE IF u \notin eligible THEN "refused"
  ELSE IF ~room THEN "create"
  ELSE IF role[u] = "NONE" THEN "add" ELSE "rejoin"

\* A reader who is a member already finds the room and changes nothing.
OpenRoom(s, u) ==
  /\ sess[s].pc = "idle"
  /\ status = "PUBLISHED"
  /\ NextStep(u) \notin {"refused", "check"}
  /\ sess' = [sess EXCEPT ![s] = [pc |-> NextStep(u), user |-> u, msg |-> None]]
  /\ UNCHANGED <<status, eligible, groupLock, room, members, messages>>

SendRead(s, u, m) ==
  /\ sess[s].pc = "idle"
  /\ messages[m] = None /\ \A t \in Sessions : sess[t].msg # m
  /\ status = "PUBLISHED" /\ groupLock = None
  /\ NextStep(u) # "refused"
  /\ groupLock' = s
  /\ sess' = [sess EXCEPT ![s] = [pc |-> NextStep(u), user |-> u, msg |-> m]]
  /\ UNCHANGED <<status, eligible, room, members, messages>>

\* Mutant: nothing stops a second room for the group.
RoomIndexAllows_dropped == TRUE

\* uq_chat_rooms_group_id
RoomIndexAllows == ~room

CreateRoom(s) ==
  /\ sess[s].pc = "create"
  /\ RoomIndexAllows
  /\ room' = TRUE
  /\ Unlock(s) /\ Goto(s, "creator")
  /\ UNCHANGED <<status, eligible, members, messages>>

\* Mutant: a member enters with a role of the group instead of the room.
AddMember_groupRole(s) ==
  /\ sess[s].pc \in {"creator", "add"}
  /\ role[sess[s].user] = "NONE"
  /\ role' = [role EXCEPT ![sess[s].user] =
                IF sess[s].pc = "creator" THEN "OWNER" ELSE "MEMBER"]
  /\ Committed(s)
  /\ UNCHANGED <<status, eligible, room, left, messages>>

\* uq_chat_room_members_room_user allows one row for each user.
AddMember(s) ==
  /\ sess[s].pc \in {"creator", "add"}
  /\ role[sess[s].user] = "NONE"
  /\ role' = [role EXCEPT ![sess[s].user] =
                IF sess[s].pc = "creator" THEN "CREATOR" ELSE "MEMBER"]
  /\ Committed(s)
  /\ UNCHANGED <<status, eligible, room, left, messages>>

\* A unique index refuses the row another session inserted first: 500.
InsertConflict(s) ==
  /\ \/ sess[s].pc = "create" /\ ~RoomIndexAllows
     \/ sess[s].pc \in {"creator", "add"} /\ role[sess[s].user] # "NONE"
  /\ Finish(s)
  /\ UNCHANGED <<status, eligible, room, members, messages>>

Rejoin(s) ==
  /\ sess[s].pc = "rejoin"
  /\ left' = left \ {sess[s].user}
  /\ Committed(s)
  /\ UNCHANGED <<status, eligible, room, role, messages>>

-----------------------------------------------------------------------------
(* send_group_message_service after the room is resolved *)

RequireActiveMember(s) ==
  /\ sess[s].pc = "check"
  /\ IF Active(sess[s].user) THEN Goto(s, "lock") /\ UNCHANGED groupLock ELSE Finish(s)
  /\ UNCHANGED <<status, eligible, room, members, messages>>

\* Mutant: the check at the door is trusted, and no lock is taken again.
PersistLock_noRecheck(s) ==
  /\ sess[s].pc = "lock"
  /\ Goto(s, "insert")
  /\ UNCHANGED <<status, eligible, groupLock, room, members, messages>>

\* _persist_message locks the row anew, in the transaction of the INSERT.
PersistLock(s) ==
  /\ sess[s].pc = "lock"
  /\ groupLock \in {s, None}
  /\ IF status = "PUBLISHED"
     THEN groupLock' = s /\ Goto(s, "insert")
     ELSE Finish(s)
  /\ UNCHANGED <<status, eligible, room, members, messages>>

InsertMessage(s) ==
  /\ sess[s].pc = "insert"
  /\ messages' = [messages EXCEPT ![sess[s].msg] = sess[s].user]
  /\ Finish(s)
  /\ UNCHANGED <<status, eligible, room, members>>

-----------------------------------------------------------------------------
(* member_service *)

\* add_room_members_service, for one of the candidates.
AddMemberRead(s, caller, u) ==
  /\ sess[s].pc = "idle"
  /\ room /\ status = "PUBLISHED"
  /\ Active(caller) /\ role[caller] = "CREATOR"
  /\ u # caller /\ u \in eligible /\ ~Active(u)
  /\ sess' = [sess EXCEPT ![s] = [pc |-> NextStep(u), user |-> u, msg |-> None]]
  /\ UNCHANGED <<status, eligible, groupLock, room, members, messages>>

MayRemove(caller, u) ==
  /\ Active(caller) /\ Active(u)
  /\ u = caller \/ role[caller] = "CREATOR"
  /\ role[u] = "CREATOR" => ActiveUsers = {u}

RemoveRead(s, caller, u) ==
  /\ sess[s].pc = "idle"
  /\ room /\ status = "PUBLISHED"
  /\ MayRemove(caller, u)
  /\ sess' = [sess EXCEPT ![s] = [pc |-> "leave", user |-> u, msg |-> None]]
  /\ UNCHANGED <<status, eligible, groupLock, room, members, messages>>

Leave(s) ==
  /\ sess[s].pc = "leave"
  /\ left' = left \cup {sess[s].user}
  /\ Finish(s)
  /\ UNCHANGED <<status, eligible, room, role, messages>>

-----------------------------------------------------------------------------
(* The group around the room *)

\* update_group_status and delete_author_group wait for a sender that holds
\* the row.
ChangeStatus(new) ==
  /\ status # "DELETED" /\ status # new
  /\ groupLock = None
  /\ status' = new
  /\ UNCHANGED <<eligible, groupLock, room, members, messages, sess>>

\* follow_group, join_group, unfollow_group, leave_group.
ChangeEligibility(u) ==
  /\ eligible' = IF u \in eligible THEN eligible \ {u} ELSE eligible \cup {u}
  /\ UNCHANGED <<status, groupLock, room, members, messages, sess>>

\* The process dies, or the database is lost, before the handler's next commit.
Crash(s) ==
  /\ MayCrash /\ sess[s].pc # "idle"
  /\ Finish(s)
  /\ UNCHANGED <<status, eligible, room, members, messages>>

Continue(s) ==
  \/ CreateRoom(s) \/ AddMember(s) \/ InsertConflict(s) \/ Rejoin(s)
  \/ RequireActiveMember(s) \/ PersistLock(s) \/ InsertMessage(s)
  \/ Leave(s)

Next ==
  \/ \E s \in Sessions :
       \/ \E u \in Users : OpenRoom(s, u)
       \/ \E u \in Users, m \in Messages : SendRead(s, u, m)
       \/ \E caller, u \in Users : AddMemberRead(s, caller, u) \/ RemoveRead(s, caller, u)
       \/ Continue(s) \/ Crash(s)
  \/ \E new \in GroupStatus : ChangeStatus(new)
  \/ \E u \in Users : ChangeEligibility(u)

Spec == Init /\ [][Next]_vars

-----------------------------------------------------------------------------
(* Properties *)

\* Every variable has its type.
TypeOK ==
  /\ status \in GroupStatus
  /\ eligible \subseteq Users
  /\ groupLock \in Sessions \cup {None}
  /\ room \in BOOLEAN
  /\ role \in [Users -> MemberRole] /\ left \subseteq Users
  /\ messages \in [Messages -> Users \cup {None}]
  /\ sess \in [Sessions -> Session]

\* An in-flight send that already passed its status check "cannot commit a
\* message after this hide lands": a message is stored only in a state in which
\* the group is published, however many commits the send made before.
NoMessageAfterHide == [][messages' # messages => status = "PUBLISHED"]_vars

\* Concurrent first visitors never produce two creators.
AtMostOneCreator ==
  \A u, v \in Users : role[u] = "CREATOR" /\ role[v] = "CREATOR" => u = v

\* Whoever has a message stored has a membership row in the room.
SendersAreMembers ==
  \A m \in Messages : messages[m] # None => room /\ role[messages[m]] # "NONE"

\* A room was auto-created "with the caller as CREATOR": once its handlers are
\* done, some member carries that role.
RoomHasCreator ==
  (room /\ \A s \in Sessions : sess[s].pc = "idle") => \E u \in Users : role[u] = "CREATOR"

\* "Creator must remove all other members (or delete the room) before leaving":
\* the creator is the last to go.
CreatorLeavesLast ==
  [][\A u \in Users :
       (role[u] = "CREATOR" /\ Active(u) /\ ~Active(u)') => ActiveUsers' = {}]_vars
=============================================================================
