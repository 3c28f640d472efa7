-------------------------- MODULE GroupJoinProofs --------------------------
(***************************************************************************)
(* Proofs about GroupJoin, for any sets of users, moderators, requests     *)
(* and sessions, and about JoinRequestOutbox, for any requests and         *)
(* senders.                                                                *)
(*                                                                         *)
(* NoStrandedApplicant is not inductive: a submission that is about to     *)
(* insert must be known to hold the group lock over a private group, a     *)
(* review that is about to commit must be known to hold a row that is      *)
(* still pending, and a sweep to hold every pending row there is.  IInv    *)
(* adds all three, and the action properties follow from them; AdmitInv    *)
(* follows an applicant from the look-up to the commit.  Of the outbox,    *)
(* Decided says that a decision in hand is that of a *)
(* request a moderator decided.  ReviewerInv joins the two modules: the    *)
(* requests of the first move as the second takes them to.                 *)
(***************************************************************************)
EXTENDS GroupJoin, JoinRequestOutbox, TLAPS

SubmitPC == {"submit_lock", "submit_insert"}
ReviewLockPC == {"approve_lock", "reject_lock"}
ReviewHeldPC == {"approve_check", "approve_insert", "approve_commit", "reject_commit"}
SweepPC == {"sweep_look", "sweep_insert"}

\* The parameters a handler runs with are there when it needs them.
HandlerInv ==
  /\ \A s \in Sessions :
       /\ sess[s].pc \in {"join_insert"} \cup SubmitPC => sess[s].user \in Users
       /\ sess[s].pc \in SubmitPC \cup ReviewLockPC \cup ReviewHeldPC
            => sess[s].req \in Requests
  /\ \A r \in Requests : requests[r].status # "ABSENT" => requests[r].user \in Users

\* A submission owns a fresh id, and about to insert it holds the group lock
\* over a private, undeleted group in which its user has nothing pending.
SubmitInv ==
  \A s \in Sessions :
    /\ sess[s].pc \in SubmitPC =>
         /\ requests[sess[s].req].status = "ABSENT"
         /\ \A t \in Sessions : sess[t].req = sess[s].req => t = s
    /\ sess[s].pc = "submit_insert" =>
         /\ groupLock = s
         /\ ~isPublic /\ ~deleted
         /\ ~has_pending_join_request(sess[s].user)

\* A review past its lock holds a row that is pending.
ReviewInv ==
  \A s \in Sessions :
    sess[s].pc \in ReviewHeldPC => rowLock[sess[s].req] = s /\ Pending(sess[s].req)

\* A settings update past the group lock holds it, unless the group is deleted,
\* and a sweep past the row locks holds every request that is pending.
SweepInv ==
  \A s \in Sessions :
    /\ sess[s].pc \in {"settings_sweep"} \cup SweepPC => groupLock = s \/ deleted
    /\ sess[s].pc \in SweepPC => \A r \in Requests :
         /\ Pending(r) => rowLock[r] = s
         /\ r \in sess[s].todo => Pending(r)
    /\ sess[s].pc = "sweep_insert" => sess[s].req \in Requests /\ Pending(sess[s].req)

IInv == TypeOK /\ HandlerInv /\ SubmitInv /\ ReviewInv /\ SweepInv
          /\ NoStrandedApplicant /\ OnePendingPerUser

-----------------------------------------------------------------------------
\* What ending a session does to the three variables it touches.
LEMMA ReleaseEffect ==
  ASSUME TypeOK, NEW s \in Sessions, Release(s)
  PROVE  /\ groupLock' \in Sessions \cup {None}
         /\ groupLock # s => groupLock' = groupLock
         /\ rowLock' \in [Requests -> Sessions \cup {None}]
         /\ \A r \in Requests : rowLock[r] # s => rowLock'[r] = rowLock[r]
         /\ sess' \in [Sessions -> Session]
         /\ sess'[s] = Idle
         /\ \A t \in Sessions : t # s => sess'[t] = sess[t]
         /\ departed' \subseteq Requests
         /\ \A r \in Requests : r \in departed /\ rowLock[r] # s => r \in departed'
  BY DEF Release, TypeOK, Idle, Session, PCs

\* What moving a session to another step does.
LEMMA GotoEffect ==
  ASSUME TypeOK, NEW s \in Sessions, NEW pc \in PCs, Goto(s, pc)
  PROVE  /\ sess' \in [Sessions -> Session]
         /\ sess'[s].pc = pc
         /\ sess'[s].user = sess[s].user
         /\ sess'[s].req = sess[s].req
         /\ sess'[s].todo = sess[s].todo /\ sess'[s].admitted = sess[s].admitted
         /\ \A t \in Sessions : t # s => sess'[t] = sess[t]
  BY DEF Goto, TypeOK, Session

\* The initial states satisfy the invariant.
LEMMA InitIInv == Init => IInv
<1> SUFFICES ASSUME Init PROVE IInv
  OBVIOUS
<1> USE DEF Init
<1>1. TypeOK
  BY DEF TypeOK, JoinRequest, RequestStatus, Session, PCs, Idle
<1>2. HandlerInv /\ SubmitInv /\ ReviewInv /\ SweepInv
  BY DEF HandlerInv, SubmitInv, ReviewInv, SweepInv, Idle, SubmitPC, ReviewLockPC, ReviewHeldPC,
         SweepPC
<1>3. NoStrandedApplicant /\ OnePendingPerUser
  BY DEF NoStrandedApplicant, OnePendingPerUser, Pending
<1>4. QED
  BY <1>1, <1>2, <1>3 DEF IInv

\* Starting a handler preserves the invariant, whichever handler it is.
LEMMA BeginPreserves ==
  ASSUME IInv, NEW s \in Sessions, NEW h \in Session, Begin(s, h),
         h.pc \in {"join_insert", "submit_lock", "settings_lock"} \cup ReviewLockPC,
         h.pc \in {"join_insert", "submit_lock"} => h.user \in Users,
         h.pc \in {"submit_lock"} \cup ReviewLockPC => h.req \in Requests,
         h.pc \in {"join_insert", "settings_lock"} => h.req = None,
         h.pc = "submit_lock" => /\ requests[h.req].status = "ABSENT"
                                 /\ \A t \in Sessions : sess[t].req # h.req,
         h.pc \in ReviewLockPC => requests[h.req].status # "ABSENT"
  PROVE  IInv'
<1> USE NoneIsFresh
<1>1. /\ sess' \in [Sessions -> Session] /\ sess'[s] = h
      /\ \A t \in Sessions : t # s => sess'[t] = sess[t]
      /\ UNCHANGED <<isPublic, published, deleted, joins, requests, groupLock, rowLock, departed>>
  BY DEF Begin, IInv, TypeOK, group
<1>2. TypeOK'
  BY <1>1 DEF IInv, TypeOK
<1>3. HandlerInv'
  BY <1>1 DEF IInv, HandlerInv, SubmitPC, ReviewLockPC, ReviewHeldPC
<1>4. SubmitInv'
  BY <1>1 DEF IInv, TypeOK, HandlerInv, SubmitInv, SubmitPC, ReviewLockPC, Session,
              has_pending_join_request, Pending
<1>5. ReviewInv'
  BY <1>1 DEF IInv, ReviewInv, Pending, ReviewHeldPC, ReviewLockPC
<1>5a. SweepInv'
  BY <1>1 DEF IInv, SweepInv, Pending, SweepPC, ReviewLockPC
<1>6. NoStrandedApplicant' /\ OnePendingPerUser'
  BY <1>1 DEF IInv, NoStrandedApplicant, OnePendingPerUser, Pending
<1>7. QED
  BY <1>2, <1>3, <1>4, <1>5, <1>5a, <1>6 DEF IInv

\* Starting a handler changes nothing but the session: it keeps the invariant.
LEMMA StartPreserves ==
  ASSUME IInv, NEW s \in Sessions, Start(s)
  PROVE  IInv'
<1>1. ASSUME NEW u \in Users, JoinRead(s, u) PROVE IInv'
  <2> DEFINE h == [Idle EXCEPT !.pc = "join_insert", !.user = u]
  <2>1. h \in Session /\ h.pc = "join_insert" /\ h.user = u /\ h.req = None
    BY DEF Idle, Session, PCs
  <2>2. Begin(s, h)
    BY <1>1 DEF JoinRead
  <2> HIDE DEF h
  <2>3. QED
    BY <2>1, <2>2, BeginPreserves DEF ReviewLockPC
<1>2. ASSUME NEW u \in Users, NEW r \in Requests, SubmitRead(s, u, r) PROVE IInv'
  <2> DEFINE h == [Idle EXCEPT !.pc = "submit_lock", !.user = u, !.req = r]
  <2>1. h \in Session /\ h.pc = "submit_lock" /\ h.user = u /\ h.req = r
    BY DEF Idle, Session, PCs
  <2>2. Begin(s, h) /\ requests[r].status = "ABSENT" /\ \A t \in Sessions : sess[t].req # r
    BY <1>2 DEF SubmitRead
  <2> HIDE DEF h
  <2>3. QED
    BY <2>1, <2>2, BeginPreserves DEF ReviewLockPC
<1>3. ASSUME SettingsRead(s) PROVE IInv'
  <2> DEFINE h == [Idle EXCEPT !.pc = "settings_lock"]
  <2>1. h \in Session /\ h.pc = "settings_lock" /\ h.req = None
    BY DEF Idle, Session, PCs
  <2>2. Begin(s, h)
    BY <1>3 DEF SettingsRead
  <2> HIDE DEF h
  <2>3. QED
    BY <2>1, <2>2, BeginPreserves DEF ReviewLockPC
<1>4. ASSUME NEW m \in Moderators, NEW r \in Requests, NEW pc \in ReviewLockPC,
             ReviewRead(s, m, r, pc)
      PROVE  IInv'
  <2> DEFINE h == [Idle EXCEPT !.pc = pc, !.mod = m, !.req = r]
  <2>1. h \in Session /\ h.pc = pc /\ h.req = r
    BY DEF Idle, Session, PCs, ReviewLockPC
  <2>2. Begin(s, h) /\ requests[r].status # "ABSENT"
    BY <1>4 DEF ReviewRead
  <2> HIDE DEF h
  <2>3. QED
    BY <2>1, <2>2, BeginPreserves DEF ReviewLockPC
<1>5. QED
  BY <1>1, <1>2, <1>3, <1>4 DEF Start, ReviewLockPC

-----------------------------------------------------------------------------
\* A handler that ends without touching a request or the group, as a refusal,
\* an abort and a direct join do, preserves the invariant.
LEMMA EndPreserves ==
  ASSUME IInv, NEW s \in Sessions, Release(s), UNCHANGED <<group, requests>>,
         joins' \subseteq Users
  PROVE  IInv'
<1> USE NoneIsFresh, ReleaseEffect
<1>1. TypeOK'
  BY DEF IInv, TypeOK, group
<1>2. HandlerInv'
  BY DEF IInv, HandlerInv, Idle, SubmitPC, ReviewLockPC, ReviewHeldPC
<1>3. SubmitInv'
  BY DEF IInv, HandlerInv, SubmitInv, Idle, SubmitPC, has_pending_join_request, Pending, group
<1>4. ReviewInv'
  BY DEF IInv, HandlerInv, ReviewInv, Idle, ReviewHeldPC, Pending
<1>4a. SweepInv'
  BY DEF IInv, SweepInv, Idle, SweepPC, Pending, group
<1>5. NoStrandedApplicant' /\ OnePendingPerUser'
  BY DEF IInv, NoStrandedApplicant, OnePendingPerUser, Pending, group
<1>6. QED
  BY <1>1, <1>2, <1>3, <1>4, <1>4a, <1>5 DEF IInv

\* A moderator's decision preserves the invariant: it turns a pending request
\* that its session holds into a decided one.
LEMMA DecisionPreserves ==
  ASSUME IInv, NEW s \in Sessions, sess[s].pc \in ReviewHeldPC,
         NEW d \in {"APPROVED", "REJECTED"}, Decide(s, d), Release(s),
         UNCHANGED group, joins' \subseteq Users
  PROVE  IInv'
<1> USE NoneIsFresh, ReleaseEffect
<1> DEFINE q == sess[s].req
<1>1. /\ q \in Requests /\ rowLock[q] = s /\ Pending(q)
      /\ requests' \in [Requests -> JoinRequest]
      /\ requests'[q].status = d /\ requests'[q].user = requests[q].user
      /\ \A r \in Requests : r # q => requests'[r] = requests[r]
  BY DEF IInv, TypeOK, HandlerInv, ReviewInv, Decide, JoinRequest, RequestStatus, Session
<1> HIDE DEF q
<1>2. TypeOK'
  BY <1>1 DEF IInv, TypeOK, group
<1>3. HandlerInv'
  BY <1>1 DEF IInv, HandlerInv, Idle, SubmitPC, ReviewLockPC, ReviewHeldPC, Pending
<1>4. \A r \in Requests : Pending(r)' => Pending(r) /\ requests'[r] = requests[r]
  BY <1>1 DEF Pending
<1>5. SubmitInv'
  <2>1. \A t \in Sessions : sess'[t].pc \in SubmitPC =>
          /\ sess'[t] = sess[t] /\ sess[t].req # q /\ sess[t].req \in Requests
    BY <1>1 DEF IInv, HandlerInv, SubmitInv, SubmitPC, Idle, Pending
  <2>2. \A t \in Sessions : sess'[t].req = sess[t].req \/ sess'[t].req = None
    BY DEF Idle, IInv
  <2>3. \A t \in Sessions : sess'[t].pc = "submit_insert" =>
          t # s /\ groupLock = t /\ groupLock' = t
    BY <2>1 DEF IInv, SubmitInv, SubmitPC, Idle
  <2>5. \A t \in Sessions : sess'[t].pc \in SubmitPC =>
          /\ requests'[sess'[t].req].status = "ABSENT"
          /\ \A v \in Sessions : sess'[v].req = sess'[t].req => v = t
    BY <1>1, <2>1, <2>2 DEF IInv, SubmitInv
  <2>6. \A t \in Sessions : sess'[t].pc = "submit_insert" =>
          /\ groupLock' = t /\ ~isPublic' /\ ~deleted'
          /\ \A r \in Requests : Pending(r)' => requests'[r].user # sess'[t].user
    BY <1>4, <2>1, <2>3
       DEF IInv, SubmitInv, SubmitPC, group, has_pending_join_request
  <2>7. QED
    BY <2>5, <2>6 DEF SubmitInv, has_pending_join_request
<1>6. ReviewInv'
  <2>1. \A t \in Sessions : sess'[t].pc \in ReviewHeldPC =>
          /\ t # s /\ sess'[t] = sess[t] /\ sess[t].req \in Requests
          /\ rowLock[sess[t].req] = t /\ Pending(sess[t].req)
    BY DEF IInv, HandlerInv, ReviewInv, ReviewHeldPC, Idle
  <2>2. QED
    BY <1>1, <2>1 DEF IInv, ReviewInv, Pending
<1>6a. SweepInv'
  <2>1. \A t \in Sessions : sess[t].pc \notin SweepPC \/ t = s
    BY <1>1 DEF IInv, SweepInv
  <2>2. \A t \in Sessions : sess'[t].pc \in {"settings_sweep"} \cup SweepPC => t # s /\ sess'[t] = sess[t]
    BY DEF IInv, Idle, SweepPC
  <2>3. QED
    BY <2>1, <2>2 DEF IInv, SweepInv, group, SweepPC
<1>7. NoStrandedApplicant' /\ OnePendingPerUser'
  BY <1>4 DEF IInv, NoStrandedApplicant, OnePendingPerUser, group
<1>8. QED
  BY <1>2, <1>3, <1>5, <1>6, <1>6a, <1>7 DEF IInv

\* A submission that takes the group lock preserves the invariant.
LEMMA SubmitLockPreserves ==
  ASSUME IInv, NEW s \in Sessions, SubmitLock(s)
  PROVE  IInv'
<1> USE NoneIsFresh
<1>1. /\ sess' \in [Sessions -> Session]
      /\ sess'[s].pc = "submit_insert" /\ sess'[s].user = sess[s].user
      /\ sess'[s].req = sess[s].req
      /\ \A t \in Sessions : t # s => sess'[t] = sess[t]
  BY GotoEffect DEF SubmitLock, PCs, IInv
<1>2. /\ sess[s].pc = "submit_lock" /\ MayApply(sess[s].user)
      /\ groupLock = None /\ groupLock' = s
      /\ UNCHANGED <<isPublic, published, deleted, joins, requests, rowLock, departed>>
  BY DEF SubmitLock, group
<1>3. TypeOK'
  BY <1>1, <1>2 DEF IInv, TypeOK
<1>4. HandlerInv'
  BY <1>1, <1>2 DEF IInv, HandlerInv, SubmitPC, ReviewLockPC, ReviewHeldPC
<1>5. SubmitInv'
  BY <1>1, <1>2 DEF IInv, TypeOK, SubmitInv, SubmitPC, MayApply, has_pending_join_request,
                    Pending
<1>6. ReviewInv' /\ NoStrandedApplicant' /\ OnePendingPerUser'
  BY <1>1, <1>2 DEF IInv, ReviewInv, ReviewHeldPC, NoStrandedApplicant, OnePendingPerUser,
                    Pending
<1>6a. SweepInv'
  BY <1>1, <1>2 DEF IInv, SweepInv, SweepPC, Pending, MayApply
<1>7. QED
  BY <1>3, <1>4, <1>5, <1>6, <1>6a DEF IInv

\* The insert of a request preserves the invariant: the lock it holds keeps the
\* group private and its user without another pending request.
LEMMA SubmitInsertPreserves ==
  ASSUME IInv, NEW s \in Sessions, SubmitInsert(s)
  PROVE  IInv'
<1> USE NoneIsFresh
<1> DEFINE q == sess[s].req
           u == sess[s].user
<1>1. /\ sess[s].pc = "submit_insert" /\ q \in Requests /\ u \in Users
      /\ requests[q].status = "ABSENT"
      /\ groupLock = s /\ ~isPublic /\ ~deleted /\ ~has_pending_join_request(u)
      /\ \A t \in Sessions : sess[t].req = q => t = s
  BY DEF SubmitInsert, IInv, HandlerInv, SubmitInv, SubmitPC
<1>2. /\ requests' \in [Requests -> JoinRequest]
      /\ requests'[q].status = "PENDING" /\ requests'[q].user = u
      /\ \A r \in Requests : r # q => requests'[r] = requests[r]
      /\ Release(s) /\ UNCHANGED <<isPublic, published, deleted, joins>>
  BY <1>1 DEF SubmitInsert, IInv, TypeOK, JoinRequest, RequestStatus, group
<1>r. /\ groupLock' \in Sessions \cup {None}
      /\ rowLock' \in [Requests -> Sessions \cup {None}]
      /\ \A r \in Requests : rowLock[r] # s => rowLock'[r] = rowLock[r]
      /\ sess' \in [Sessions -> Session]
      /\ sess'[s] = Idle
      /\ \A t \in Sessions : t # s => sess'[t] = sess[t]
      /\ departed' \subseteq Requests
  BY <1>2, ReleaseEffect DEF IInv
<1> HIDE DEF q, u
<1>3. TypeOK'
  BY <1>2, <1>r DEF IInv, TypeOK
<1>4. HandlerInv'
  BY <1>1, <1>2, <1>r DEF IInv, HandlerInv, Idle, SubmitPC, ReviewLockPC, ReviewHeldPC
<1>5. SubmitInv'
  <2>1. \A t \in Sessions : sess'[t].pc # "submit_insert"
    BY <1>1, <1>r DEF IInv, SubmitInv, Idle
  <2>2. \A t \in Sessions : sess'[t].pc \in SubmitPC =>
          t # s /\ sess'[t] = sess[t] /\ sess[t].req # q /\ sess[t].req \in Requests
    BY <1>1, <1>r DEF IInv, HandlerInv, SubmitPC, Idle
  <2>3. \A t \in Sessions : sess'[t].req = sess[t].req \/ sess'[t].req = None
    BY <1>r DEF Idle
  <2>4. QED
    BY <1>2, <2>1, <2>2, <2>3 DEF IInv, SubmitInv
<1>6. ReviewInv'
  <2>1. \A t \in Sessions : sess'[t].pc \in ReviewHeldPC =>
          /\ t # s /\ sess'[t] = sess[t] /\ sess[t].req \in Requests
          /\ rowLock[sess[t].req] = t /\ Pending(sess[t].req)
    BY <1>r DEF IInv, HandlerInv, ReviewInv, ReviewHeldPC, Idle
  <2>2. QED
    BY <1>1, <1>2, <1>r, <2>1 DEF ReviewInv, Pending
<1>6a. SweepInv'
  <2>1. \A t \in Sessions : sess[t].pc \notin {"settings_sweep"} \cup SweepPC
    BY <1>1 DEF IInv, SweepInv, SweepPC
  <2>2. QED
    BY <1>r, <2>1 DEF SweepInv, SweepPC, Idle
<1>7. NoStrandedApplicant'
  BY <1>1, <1>2 DEF NoStrandedApplicant
<1>8. OnePendingPerUser'
  BY <1>1, <1>2 DEF IInv, OnePendingPerUser, has_pending_join_request, Pending
<1>9. QED
  BY <1>3, <1>4, <1>5, <1>6, <1>6a, <1>7, <1>8 DEF IInv

\* Taking or trying the group lock for a settings update preserves the invariant.
LEMMA SettingsLockPreserves ==
  ASSUME IInv, NEW s \in Sessions, SettingsLock(s)
  PROVE  IInv'
<1> USE NoneIsFresh
<1>1. /\ sess' \in [Sessions -> Session]
      /\ sess'[s].pc = "settings_sweep" /\ sess'[s].user = sess[s].user
      /\ sess'[s].req = sess[s].req
      /\ \A t \in Sessions : t # s => sess'[t] = sess[t]
  BY GotoEffect DEF SettingsLock, PCs, IInv
<1>2. /\ sess[s].pc = "settings_lock"
      /\ groupLock = None /\ groupLock' \in {None, s} /\ (groupLock' = s \/ deleted)
      /\ UNCHANGED <<isPublic, published, deleted, joins, requests, rowLock, departed>>
  BY DEF SettingsLock, group
<1>3. TypeOK'
  BY <1>1, <1>2 DEF IInv, TypeOK
<1>4. HandlerInv' /\ SubmitInv'
  BY <1>1, <1>2 DEF IInv, TypeOK, HandlerInv, SubmitInv, SubmitPC, ReviewLockPC, ReviewHeldPC,
                    has_pending_join_request, Pending
<1>5. ReviewInv' /\ NoStrandedApplicant' /\ OnePendingPerUser'
  BY <1>1, <1>2 DEF IInv, ReviewInv, ReviewHeldPC, NoStrandedApplicant, OnePendingPerUser,
                    Pending
<1>5a. SweepInv'
  BY <1>1, <1>2 DEF IInv, SweepInv, SweepPC, Pending
<1>6. QED
  BY <1>3, <1>4, <1>5, <1>5a DEF IInv

\* A sweep that takes the rows preserves the invariant: nobody held one of them.
LEMMA SweepLockPreserves ==
  ASSUME IInv, NEW s \in Sessions, SweepLock(s)
  PROVE  IInv'
<1> USE NoneIsFresh
<1>1. /\ sess[s].pc = "settings_sweep" /\ sess[s] \in Session
      /\ \A r \in Requests : Pending(r) => rowLock[r] = None
      /\ rowLock' \in [Requests -> Sessions \cup {None}]
      /\ \A r \in Requests : rowLock'[r] = IF Pending(r) THEN s ELSE rowLock[r]
      /\ UNCHANGED <<isPublic, published, deleted, joins, requests, groupLock, departed>>
  BY DEF SweepLock, IInv, TypeOK, group
<1>2. /\ sess' \in [Sessions -> Session]
      /\ sess'[s].pc = "sweep_look" /\ sess'[s].req = sess[s].req
      /\ sess'[s].todo = {r \in Requests : Pending(r)}
      /\ \A t \in Sessions : t # s => sess'[t] = sess[t]
  BY <1>1 DEF SweepLock, IInv, TypeOK, Session, PCs
<1>3. TypeOK' /\ HandlerInv'
  BY <1>1, <1>2 DEF IInv, TypeOK, HandlerInv, SubmitPC, ReviewLockPC, ReviewHeldPC
<1>4. SubmitInv'
  BY <1>1, <1>2 DEF IInv, SubmitInv, SubmitPC, has_pending_join_request, Pending
<1>5. ReviewInv'
  <2>1. \A t \in Sessions : sess[t].pc \notin ReviewHeldPC
    BY <1>1 DEF IInv, HandlerInv, ReviewInv, ReviewHeldPC
  <2>2. QED
    BY <1>2, <2>1 DEF ReviewInv, ReviewHeldPC
<1>6. SweepInv'
  <2>1. \A t \in Sessions : sess[t].pc \in SweepPC => \A r \in Requests : ~Pending(r)
    BY <1>1 DEF IInv, SweepInv
  <2>2. QED
    BY <1>1, <1>2, <2>1 DEF IInv, SweepInv, SweepPC, Pending
<1>7. NoStrandedApplicant' /\ OnePendingPerUser'
  BY <1>1 DEF IInv, NoStrandedApplicant, OnePendingPerUser, Pending
<1>8. QED
  BY <1>3, <1>4, <1>5, <1>6, <1>7 DEF IInv

\* A look-up and an insert of the sweep touch its own session and no other.
LEMMA SweepMoves ==
  ASSUME IInv, NEW s \in Sessions, NEW r \in Requests, SweepLook(s, r) \/ SweepInsert(s)
  PROVE  /\ sess[s].pc \in SweepPC
         /\ sess' \in [Sessions -> Session]
         /\ sess'[s].pc \in SweepPC
         /\ sess'[s].pc = "sweep_insert" => sess'[s].req = r /\ r \in sess[s].todo
         /\ sess'[s].todo \subseteq sess[s].todo
         /\ sess'[s].pc # "sweep_insert" => sess'[s].req = None
         /\ \A t \in Sessions : t # s => sess'[t] = sess[t]
         /\ UNCHANGED <<isPublic, published, deleted, joins, requests, groupLock, rowLock, departed>>
<1>1. sess[s] \in Session /\ sess \in [Sessions -> Session]
  BY DEF IInv, TypeOK
<1>2. CASE SweepLook(s, r)
  BY <1>1, <1>2 DEF SweepLook, Session, PCs, SweepPC, group
<1>3. CASE SweepInsert(s)
  <2>1. requests[sess[s].req].user \in Users
    BY <1>3 DEF SweepInsert, IInv, HandlerInv, SweepInv, Pending
  <2>2. QED
    BY <1>1, <1>3, <2>1 DEF SweepInsert, Session, PCs, SweepPC, group
<1>4. QED
  BY <1>2, <1>3

\* A sweep that goes from one applicant to the next preserves the invariant.
LEMMA SweepMovesPreserve ==
  ASSUME IInv, NEW s \in Sessions, NEW r \in Requests, SweepLook(s, r) \/ SweepInsert(s)
  PROVE  IInv'
<1> USE NoneIsFresh
<1>1. /\ sess[s].pc \in SweepPC
      /\ sess' \in [Sessions -> Session]
      /\ sess'[s].pc \in SweepPC
      /\ sess'[s].pc = "sweep_insert" => sess'[s].req \in Requests /\ Pending(sess'[s].req)
      /\ sess'[s].todo \subseteq sess[s].todo
      /\ sess'[s].pc # "sweep_insert" => sess'[s].req = None
      /\ \A t \in Sessions : t # s => sess'[t] = sess[t]
      /\ UNCHANGED <<isPublic, published, deleted, joins, requests, groupLock, rowLock, departed>>
  BY SweepMoves DEF IInv, SweepInv
<1>2. TypeOK' /\ HandlerInv'
  BY <1>1 DEF IInv, TypeOK, HandlerInv, SubmitPC, ReviewLockPC, ReviewHeldPC, SweepPC
<1>3. SubmitInv'
  BY <1>1 DEF IInv, HandlerInv, SubmitInv, SubmitPC, SweepPC, has_pending_join_request, Pending
<1>4. ReviewInv' /\ SweepInv'
  BY <1>1 DEF IInv, ReviewInv, ReviewHeldPC, SweepInv, SweepPC, Pending
<1>5. NoStrandedApplicant' /\ OnePendingPerUser'
  BY <1>1 DEF IInv, NoStrandedApplicant, OnePendingPerUser, Pending
<1>6. QED
  BY <1>2, <1>3, <1>4, <1>5 DEF IInv

\* The commit of a settings update preserves the invariant: it leaves no request
\* pending, and no submission is about to file one.
LEMMA SettingsCommitPreserves ==
  ASSUME IInv, NEW s \in Sessions, SettingsCommit(s)
  PROVE  IInv'
<1> USE NoneIsFresh
<1>1. /\ sess[s].pc = "sweep_look" /\ (groupLock = s \/ deleted)
      /\ \A r \in Requests : Pending(r) => rowLock[r] = s
      /\ requests' \in [Requests -> JoinRequest]
      /\ \A r \in Requests : /\ requests'[r].user = requests[r].user
                             /\ Pending(r) => requests'[r].status = "APPROVED"
                             /\ ~Pending(r) => requests'[r] = requests[r]
      /\ isPublic' = TRUE /\ UNCHANGED <<published, deleted>>
  BY DEF SettingsCommit, IInv, TypeOK, SweepInv, SweepPC, JoinRequest, RequestStatus
<1>2. joins' \subseteq Users
  BY DEF SettingsCommit, IInv, TypeOK, Session
<1>r. /\ groupLock' \in Sessions \cup {None}
      /\ \A t \in Sessions : t # s /\ groupLock = t => groupLock' = t
      /\ rowLock' \in [Requests -> Sessions \cup {None}]
      /\ sess' \in [Sessions -> Session]
      /\ sess'[s] = Idle
      /\ \A t \in Sessions : t # s => sess'[t] = sess[t]
      /\ departed' \subseteq Requests
  BY ReleaseEffect DEF IInv, SettingsCommit
<1>3. TypeOK'
  BY <1>1, <1>2, <1>r DEF IInv, TypeOK
<1>4. HandlerInv'
  BY <1>1, <1>r DEF IInv, HandlerInv, Idle, SubmitPC, ReviewLockPC, ReviewHeldPC, Pending
<1>5. SubmitInv'
  <2>1. \A t \in Sessions : sess'[t].pc # "submit_insert"
    BY <1>1, <1>r DEF IInv, SubmitInv, Idle
  <2>2. \A t \in Sessions : sess'[t].pc \in SubmitPC =>
          t # s /\ sess'[t] = sess[t] /\ sess[t].req \in Requests
          /\ requests[sess[t].req].status = "ABSENT"
    BY <1>r DEF IInv, HandlerInv, SubmitInv, SubmitPC, Idle
  <2>3. \A t \in Sessions : sess'[t].req = sess[t].req \/ sess'[t].req = None
    BY <1>r DEF Idle
  <2>4. QED
    BY <1>1, <2>1, <2>2, <2>3 DEF IInv, SubmitInv, Pending
<1>6. ReviewInv'
  <2>1. \A t \in Sessions : sess[t].pc \in ReviewHeldPC => t = s
    BY <1>1 DEF IInv, HandlerInv, ReviewInv
  <2>2. QED
    BY <1>r, <2>1 DEF ReviewInv, ReviewHeldPC, Idle
<1>7. SweepInv'
  <2>1. \A t \in Sessions : t # s /\ sess[t].pc \in SweepPC => \A r \in Requests : ~Pending(r)
    BY <1>1 DEF IInv, SweepInv
  <2>2. \A t \in Sessions : sess'[t].pc \in {"settings_sweep"} \cup SweepPC => t # s /\ sess'[t] = sess[t]
    BY <1>r DEF Idle, SweepPC
  <2>3. \A t \in Sessions : sess'[t].pc \in {"settings_sweep"} \cup SweepPC => groupLock' = t \/ deleted'
    BY <1>1, <1>r, <2>2 DEF IInv, SweepInv
  <2>4. \A r \in Requests : ~Pending(r)'
    BY <1>1 DEF Pending
  <2>5. \A t \in Sessions : sess'[t].pc \in SweepPC => sess'[t].todo = {} /\ sess'[t].pc # "sweep_insert"
    <3> SUFFICES ASSUME NEW t \in Sessions, sess'[t].pc \in SweepPC
                 PROVE  sess[t].todo = {} /\ sess[t].pc # "sweep_insert"
      BY <2>2
    <3>1. t # s /\ sess[t].pc \in SweepPC /\ sess[t] \in Session
      BY <2>2 DEF IInv, TypeOK
    <3> QED BY <2>1, <3>1 DEF IInv, SweepInv, Session
  <2> QED BY <2>3, <2>4, <2>5 DEF SweepInv, SweepPC
<1>8. NoStrandedApplicant' /\ OnePendingPerUser'
  BY <1>1 DEF NoStrandedApplicant, OnePendingPerUser, Pending
<1>9. QED
  BY <1>3, <1>4, <1>5, <1>6, <1>7, <1>8 DEF IInv

\* A review that takes the row of a pending request preserves the invariant.
LEMMA ReviewLockPreserves ==
  ASSUME IInv, NEW s \in Sessions, ReviewLock(s)
  PROVE  IInv'
<1> USE NoneIsFresh
<1> DEFINE q == sess[s].req
<1>1. /\ sess[s].pc \in ReviewLockPC /\ q \in Requests
      /\ rowLock[q] = None /\ Pending(q)
      /\ rowLock' \in [Requests -> Sessions \cup {None}]
      /\ rowLock'[q] = s
      /\ \A r \in Requests : r # q => rowLock'[r] = rowLock[r]
      /\ UNCHANGED <<isPublic, published, deleted, joins, requests, groupLock, departed>>
  BY DEF ReviewLock, ReviewLockPC, ReviewHeldPC, IInv, TypeOK, HandlerInv, group
<1>2. /\ sess' \in [Sessions -> Session]
      /\ sess'[s].pc \in ReviewHeldPC /\ sess'[s].req = q
      /\ \A t \in Sessions : t # s => sess'[t] = sess[t]
  BY GotoEffect DEF ReviewLock, PCs, IInv, ReviewHeldPC
<1> HIDE DEF q
<1>3. TypeOK'
  BY <1>1, <1>2 DEF IInv, TypeOK
<1>4. HandlerInv'
  BY <1>1, <1>2 DEF IInv, HandlerInv, SubmitPC, ReviewLockPC, ReviewHeldPC
<1>5. SubmitInv'
  <2>1. \A t \in Sessions : sess'[t].req = sess[t].req
    BY <1>2 DEF q
  <2>2. \A t \in Sessions : sess'[t].pc \in SubmitPC => t # s
    BY <1>2 DEF SubmitPC, ReviewHeldPC
  <2>3. QED
    BY <1>1, <1>2, <2>1, <2>2
       DEF IInv, SubmitInv, SubmitPC, has_pending_join_request, Pending
<1>6. ReviewInv'
  <2>1. \A t \in Sessions : sess'[t].pc \in ReviewHeldPC /\ t # s =>
          /\ sess[t].pc \in ReviewHeldPC /\ sess'[t] = sess[t]
          /\ sess[t].req \in Requests /\ sess[t].req # q
    BY <1>1, <1>2 DEF IInv, HandlerInv, ReviewInv
  <2>2. QED
    BY <1>1, <1>2, <2>1 DEF IInv, ReviewInv, Pending
<1>6a. SweepInv'
  <2>1. \A t \in Sessions : sess[t].pc \notin SweepPC
    BY <1>1 DEF IInv, SweepInv
  <2>2. QED
    BY <1>1, <1>2, <2>1 DEF IInv, SweepInv, SweepPC, ReviewHeldPC
<1>7. NoStrandedApplicant' /\ OnePendingPerUser'
  BY <1>1 DEF IInv, NoStrandedApplicant, OnePendingPerUser, Pending
<1>8. QED
  BY <1>3, <1>4, <1>5, <1>6, <1>6a, <1>7 DEF IInv

\* Going on from the look at the membership preserves the invariant.
LEMMA ApproveLookPreserves ==
  ASSUME IInv, NEW s \in Sessions, ApproveLook(s)
  PROVE  IInv'
<1> USE NoneIsFresh
<1>1. /\ sess' \in [Sessions -> Session]
      /\ sess'[s].pc \in {"approve_insert", "approve_commit"} /\ sess'[s].req = sess[s].req
      /\ \A t \in Sessions : t # s => sess'[t] = sess[t]
  BY GotoEffect DEF ApproveLook, PCs, IInv
<1>2. /\ sess[s].pc = "approve_check"
      /\ UNCHANGED <<isPublic, published, deleted, joins, requests, groupLock, rowLock, departed>>
  BY DEF ApproveLook, group
<1>3. TypeOK' /\ HandlerInv'
  BY <1>1, <1>2 DEF IInv, TypeOK, HandlerInv, SubmitPC, ReviewLockPC, ReviewHeldPC
<1>4. SubmitInv' /\ ReviewInv'
  BY <1>1, <1>2 DEF IInv, SubmitInv, ReviewInv, SubmitPC, ReviewHeldPC,
                    has_pending_join_request, Pending
<1>4a. SweepInv'
  BY <1>1, <1>2 DEF IInv, SweepInv, SweepPC, Pending
<1>5. NoStrandedApplicant' /\ OnePendingPerUser'
  BY <1>2 DEF IInv, NoStrandedApplicant, OnePendingPerUser, Pending
<1>6. QED
  BY <1>3, <1>4, <1>4a, <1>5 DEF IInv

\* A step that leaves requests, locks and sessions alone, and does not make the
\* group public or deleted under a holder of its lock, preserves the invariant.
LEMMA GroupStepPreserves ==
  ASSUME IInv, UNCHANGED <<requests, groupLock, rowLock, sess>>,
         isPublic' \in BOOLEAN, isPublic' => isPublic, published' \in BOOLEAN,
         joins' \subseteq Users,
         deleted' \in BOOLEAN, groupLock # None => deleted' = deleted, deleted => deleted',
         departed' \subseteq Requests
  PROVE  IInv'
<1> USE NoneIsFresh
<1>1. TypeOK' /\ HandlerInv'
  BY DEF IInv, TypeOK, HandlerInv
<1>2. SubmitInv' /\ ReviewInv' /\ SweepInv'
  BY DEF IInv, SubmitInv, ReviewInv, SweepInv, has_pending_join_request, Pending
<1>3. NoStrandedApplicant' /\ OnePendingPerUser'
  BY DEF IInv, NoStrandedApplicant, OnePendingPerUser, Pending
<1>4. QED
  BY <1>1, <1>2, <1>3 DEF IInv

-----------------------------------------------------------------------------
\* Every step of a handler preserves the invariant.
LEMMA ContinuePreserves ==
  ASSUME IInv, NEW s \in Sessions, Continue(s)
  PROVE  IInv'
<1>1. CASE JoinInsert(s)
  BY <1>1, EndPreserves DEF JoinInsert, IInv, TypeOK, HandlerInv
<1>2. CASE SubmitLock(s)
  BY <1>2, SubmitLockPreserves
<1>3. CASE SubmitRefused(s)
  BY <1>3, EndPreserves DEF SubmitRefused, IInv, TypeOK
<1>4. CASE SubmitInsert(s)
  BY <1>4, SubmitInsertPreserves
<1>5. CASE SettingsLock(s)
  BY <1>5, SettingsLockPreserves
<1>6. CASE SweepLock(s) \/ SettingsCommit(s)
  BY <1>6, SweepLockPreserves, SettingsCommitPreserves
<1>6a. ASSUME NEW r \in Requests, SweepLook(s, r) PROVE IInv'
  BY <1>6a, SweepMovesPreserve
<1>6b. CASE SweepInsert(s)
  <2>1. sess[s].req \in Requests
    BY <1>6b DEF SweepInsert, IInv, SweepInv
  <2> QED BY <1>6b, <2>1, SweepMovesPreserve
<1>6c. CASE SweepConflict(s)
  BY <1>6c, EndPreserves DEF SweepConflict, IInv, TypeOK
<1>7. CASE ReviewLock(s)
  BY <1>7, ReviewLockPreserves
<1>8. CASE ReviewRefused(s)
  BY <1>8, EndPreserves DEF ReviewRefused, IInv, TypeOK
<1>9. CASE ApproveMember(s)
  BY <1>9, DecisionPreserves DEF ApproveMember, IInv, TypeOK, ReviewHeldPC
<1>10. CASE ApproveLook(s)
  BY <1>10, ApproveLookPreserves
<1>11. CASE ApproveInsert(s)
  <2>1. sess[s].pc \in ReviewHeldPC
    BY <1>11 DEF ApproveInsert, ReviewHeldPC
  <2>2. joins' \subseteq Users
    BY <1>11, <2>1 DEF ApproveInsert, IInv, TypeOK, HandlerInv, ReviewInv, Pending
  <2>3. QED
    BY <1>11, <2>1, <2>2, DecisionPreserves DEF ApproveInsert
<1>12. CASE ApproveConflict(s)
  BY <1>12, EndPreserves DEF ApproveConflict, IInv, TypeOK
<1>13. CASE Reject(s)
  BY <1>13, DecisionPreserves DEF Reject, IInv, TypeOK, ReviewHeldPC
<1>14. QED
  BY <1>1, <1>2, <1>3, <1>4, <1>5, <1>6, <1>6a, <1>6b, <1>6c, <1>7, <1>8, <1>9, <1>10, <1>11, <1>12,
     <1>13 DEF Continue

\* IInv is inductive.
LEMMA NextPreserves == IInv /\ [Next]_vars => IInv'
<1> SUFFICES ASSUME IInv, [Next]_vars PROVE IInv'
  OBVIOUS
<1>1. ASSUME NEW s \in Sessions, Start(s) \/ Continue(s) PROVE IInv'
  BY <1>1, StartPreserves, ContinuePreserves
<1>2. CASE BreakDeadlock
  <2>1. PICK a \in Sessions, p \in Sessions, v \in Sessions : DeadlockAbort(a, p, v)
    BY <1>2 DEF BreakDeadlock
  <2>2. QED
    BY <2>1, EndPreserves DEF DeadlockAbort, IInv, TypeOK
<1>3. ASSUME NEW u \in Users, leave_group(u) PROVE IInv'
  BY <1>3, GroupStepPreserves DEF leave_group, group, IInv, TypeOK
<1>4. CASE MakePrivate
  BY <1>4, GroupStepPreserves DEF MakePrivate, IInv, TypeOK
<1>5. CASE update_group_status
  BY <1>5, GroupStepPreserves DEF update_group_status, IInv, TypeOK
<1>6. CASE delete_author_group
  BY <1>6, GroupStepPreserves DEF delete_author_group, IInv, TypeOK
<1>7. CASE UNCHANGED vars
  BY <1>7, GroupStepPreserves DEF vars, IInv, TypeOK
<1>8. QED
  BY <1>1, <1>2, <1>3, <1>4, <1>5, <1>6, <1>7 DEF Next

\* Every reachable state satisfies the invariant.
THEOREM Invariance == Spec => []IInv
  BY InitIInv, NextPreserves, PTL DEF Spec

\* The state of the group, its requests and its locks is well typed.
THEOREM TypeCorrect == Spec => []TypeOK
  BY Invariance, PTL DEF IInv

\* The publish sweep strands nobody: no state has a public group and a pending
\* request, whatever the sets of users, requests and concurrent handlers.
THEOREM NobodyStranded == Spec => []NoStrandedApplicant
  BY Invariance, PTL DEF IInv

\* One pending request per user, without the help of the unique index.
THEOREM OnePending == Spec => []OnePendingPerUser
  BY Invariance, PTL DEF IInv

\* A decided request never changes again.
THEOREM DecisionsAreFinal == Spec => ReviewedIsFinal
<1> DEFINE Final == \A r \in Requests :
                      requests[r].status \in {"APPROVED", "REJECTED"} => requests'[r] = requests[r]
<1>1. IInv /\ [Next]_vars => [Final]_vars
  <2> SUFFICES ASSUME IInv, Next, ~UNCHANGED requests, NEW r \in Requests,
                      requests[r].status \in {"APPROVED", "REJECTED"}
               PROVE  requests'[r] = requests[r]
    BY DEF vars
  <2>1. PICK s \in Sessions : Continue(s)
    BY DEF Next, Start, JoinRead, SubmitRead, SettingsRead, ReviewRead, Begin, BreakDeadlock,
           DeadlockAbort, leave_group, MakePrivate, update_group_status, delete_author_group
  <2>2. CASE SubmitInsert(s)
    BY <2>2 DEF SubmitInsert, IInv, SubmitInv, SubmitPC, TypeOK
  <2>3. CASE SettingsCommit(s)
    BY <2>3 DEF SettingsCommit, Pending
  <2>4. CASE ApproveMember(s) \/ ApproveInsert(s) \/ Reject(s)
    BY <2>4 DEF ApproveMember, ApproveInsert, Reject, Decide, IInv, ReviewInv, ReviewHeldPC,
                Pending, TypeOK
  <2>5. QED
    BY <2>1, <2>2, <2>3, <2>4 DEF Continue, JoinInsert, SubmitLock, SubmitRefused, SettingsLock, SweepLock, SweepLook,
       SweepInsert, SweepConflict, ReviewLock, ReviewRefused, ApproveLook, ApproveConflict
<1>2. QED
  BY <1>1, Invariance, PTL DEF Spec, ReviewedIsFinal

\* The steps that write a request.
LEMMA RequestWriters ==
  ASSUME IInv, Next, ~UNCHANGED requests
  PROVE  \E s \in Sessions :
           \/ SubmitInsert(s) \/ SettingsCommit(s)
           \/ ApproveMember(s) \/ ApproveInsert(s) \/ Reject(s)
  BY DEF Next, Start, JoinRead, SubmitRead, SettingsRead, ReviewRead, Begin, BreakDeadlock,
         DeadlockAbort, leave_group, MakePrivate, update_group_status, delete_author_group,
         Continue, JoinInsert, SubmitLock, SubmitRefused, SettingsLock, SweepLock,
         SweepLook, SweepInsert, SweepConflict, ReviewLock, ReviewRefused, ApproveLook, ApproveConflict

\* A request is filed in a private group that is not deleted, whatever happened
\* since the handler first read the group.
THEOREM FiledWhilePrivate == Spec => FiledOnlyWhenPrivate
<1> DEFINE Filed == \A r \in Requests : (~Pending(r) /\ Pending(r)') => (~isPublic' /\ ~deleted')
<1>1. IInv /\ [Next]_vars => [Filed]_vars
  <2> SUFFICES ASSUME IInv, Next, NEW r \in Requests, ~Pending(r), Pending(r)'
               PROVE  ~isPublic' /\ ~deleted'
    OBVIOUS
  <2>1. PICK s \in Sessions : \/ SubmitInsert(s) \/ SettingsCommit(s)
                              \/ ApproveMember(s) \/ ApproveInsert(s) \/ Reject(s)
    BY RequestWriters DEF Pending
  <2>2. CASE SubmitInsert(s)
    BY <2>2 DEF SubmitInsert, IInv, SubmitInv, group
  <2>3. CASE SettingsCommit(s)
    BY <2>3 DEF SettingsCommit, Pending
  <2>4. CASE ApproveMember(s) \/ ApproveInsert(s) \/ Reject(s)
    <3>1. requests'[r].status \in {"APPROVED", "REJECTED", requests[r].status}
      BY <2>4 DEF ApproveMember, ApproveInsert, Reject, Decide, IInv, TypeOK, JoinRequest
    <3> QED BY <3>1 DEF Pending
  <2> QED BY <2>1, <2>2, <2>3, <2>4
<1> QED BY <1>1, Invariance, PTL DEF Spec, FiledOnlyWhenPrivate

\* From the look-up to the commit: an applicant who is not a member, and for whom
\* no insert is due or done, has left in between.
AdmitInv ==
  \A s \in Sessions :
    /\ sess[s].pc = "approve_commit" =>
         requests[sess[s].req].user \in joins \/ sess[s].req \in departed
    /\ sess[s].pc \in SweepPC => \A r \in Requests : Pending(r) =>
         \/ r \in sess[s].todo
         \/ sess[s].pc = "sweep_insert" /\ r = sess[s].req
         \/ requests[r].user \in joins \cup sess[s].admitted
         \/ r \in departed

\* A session that does not move keeps what it knows of its applicants, if no
\* request it holds changes and nobody leaves unnoticed.
LEMMA AdmitKept ==
  ASSUME IInv, AdmitInv, NEW t \in Sessions, sess'[t] = sess[t],
         \A r \in Requests : rowLock[r] = t => /\ requests'[r] = requests[r]
                                               /\ r \in departed => r \in departed'
                                               /\ \/ requests[r].user \in joins => requests[r].user \in joins'
                                                  \/ r \in departed',
         sess[t].pc \in SweepPC => \A r \in Requests : Pending(r)' => Pending(r)
  PROVE  /\ sess'[t].pc = "approve_commit" =>
              requests'[sess'[t].req].user \in joins' \/ sess'[t].req \in departed'
         /\ sess'[t].pc \in SweepPC => \A r \in Requests : Pending(r)' =>
              \/ r \in sess'[t].todo
              \/ sess'[t].pc = "sweep_insert" /\ r = sess'[t].req
              \/ requests'[r].user \in joins' \cup sess'[t].admitted
              \/ r \in departed'
<1>1. CASE sess[t].pc = "approve_commit"
  <2>1. sess[t].req \in Requests /\ rowLock[sess[t].req] = t
    BY <1>1 DEF IInv, HandlerInv, ReviewInv, ReviewHeldPC
  <2>2. requests[sess[t].req].user \in joins \/ sess[t].req \in departed
    BY <1>1 DEF AdmitInv
  <2>3. sess'[t].pc \notin SweepPC
    BY <1>1 DEF SweepPC
  <2> QED BY <2>1, <2>2, <2>3
<1>2. CASE sess[t].pc \in SweepPC
  <2> SUFFICES ASSUME NEW r \in Requests, Pending(r)'
               PROVE  \/ r \in sess[t].todo
                      \/ sess[t].pc = "sweep_insert" /\ r = sess[t].req
                      \/ requests'[r].user \in joins' \cup sess[t].admitted
                      \/ r \in departed'
    BY <1>2 DEF SweepPC
  <2>1. Pending(r) /\ rowLock[r] = t
    BY <1>2 DEF IInv, SweepInv
  <2>2. \/ r \in sess[t].todo
        \/ sess[t].pc = "sweep_insert" /\ r = sess[t].req
        \/ requests[r].user \in joins \cup sess[t].admitted
        \/ r \in departed
    BY <1>2, <2>1 DEF AdmitInv
  <2> QED BY <2>1, <2>2
<1> QED BY <1>1, <1>2

\* Every step keeps AdmitInv.
LEMMA AdmitPreserved ==
  ASSUME IInv, AdmitInv, [Next]_vars
  PROVE  AdmitInv'
<1> USE NoneIsFresh
<1>0. TypeOK
  BY DEF IInv
\* A session that ends, if what others hold is untouched and nobody leaves.
<1>r. ASSUME NEW s \in Sessions, Release(s), joins \subseteq joins',
             \A r \in Requests : \/ requests'[r] = requests[r]
                                 \/ rowLock[r] = s /\ (Pending(r)' => Pending(r))
      PROVE  AdmitInv'
  <2> SUFFICES ASSUME NEW t \in Sessions, t # s
               PROVE  /\ sess'[t].pc = "approve_commit" =>
                           requests'[sess'[t].req].user \in joins' \/ sess'[t].req \in departed'
                      /\ sess'[t].pc \in SweepPC => \A r \in Requests : Pending(r)' =>
                           \/ r \in sess'[t].todo
                           \/ sess'[t].pc = "sweep_insert" /\ r = sess'[t].req
                           \/ requests'[r].user \in joins' \cup sess'[t].admitted
                           \/ r \in departed'
    <3>1. sess'[s] = Idle
      BY <1>r, <1>0, ReleaseEffect
    <3> QED BY <3>1 DEF AdmitInv, Idle, SweepPC
  <2>1. sess'[t] = sess[t] /\ \A r \in Requests : rowLock[r] = t /\ r \in departed => r \in departed'
    BY <1>r, <1>0, ReleaseEffect
  <2>2. \A r \in Requests : Pending(r)' => Pending(r)
    BY <1>r DEF Pending
  <2>3. \A r \in Requests : rowLock[r] = t => requests'[r] = requests[r]
    BY <1>r
  <2> QED BY <1>r, <2>1, <2>2, <2>3, AdmitKept
\* A session that moves on, when nothing is joined, left, or decided.
<1>g. ASSUME NEW s \in Sessions, \A t \in Sessions : t # s => sess'[t] = sess[t],
             UNCHANGED <<requests, joins, departed>>,
             sess'[s].pc = "approve_commit" =>
               requests[sess'[s].req].user \in joins \/ sess'[s].req \in departed,
             sess'[s].pc \in SweepPC => \A r \in Requests : Pending(r) =>
               \/ r \in sess'[s].todo
               \/ sess'[s].pc = "sweep_insert" /\ r = sess'[s].req
               \/ requests[r].user \in joins \cup sess'[s].admitted
               \/ r \in departed
      PROVE  AdmitInv'
  BY <1>g DEF AdmitInv, Pending
<1>1. ASSUME NEW s \in Sessions, NEW h, Begin(s, h), h.pc \notin {"approve_commit"} \cup SweepPC
      PROVE  AdmitInv'
  <2>1. sess'[s] = h /\ \A t \in Sessions : t # s => sess'[t] = sess[t]
    BY <1>0, <1>1 DEF Begin, TypeOK
  <2>2. UNCHANGED <<requests, joins, departed>>
    BY <1>1 DEF Begin
  <2> QED BY <1>1, <1>g, <2>1, <2>2
<1>2. ASSUME NEW s \in Sessions, Start(s)
      PROVE  AdmitInv'
  <2>1. ASSUME NEW u \in Users, JoinRead(s, u) PROVE AdmitInv'
    <3>1. [Idle EXCEPT !.pc = "join_insert", !.user = u].pc = "join_insert"
      BY DEF Idle
    <3> QED BY <1>1, <2>1, <3>1 DEF JoinRead, SweepPC
  <2>2. ASSUME NEW u \in Users, NEW r \in Requests, SubmitRead(s, u, r) PROVE AdmitInv'
    <3>1. [Idle EXCEPT !.pc = "submit_lock", !.user = u, !.req = r].pc = "submit_lock"
      BY DEF Idle
    <3> QED BY <1>1, <2>2, <3>1 DEF SubmitRead, SweepPC
  <2>3. CASE SettingsRead(s)
    <3>1. [Idle EXCEPT !.pc = "settings_lock"].pc = "settings_lock"
      BY DEF Idle
    <3> QED BY <1>1, <2>3, <3>1 DEF SettingsRead, SweepPC
  <2>4. ASSUME NEW m \in Moderators, NEW r \in Requests, NEW step \in ReviewLockPC,
               ReviewRead(s, m, r, step)
        PROVE  AdmitInv'
    <3>1. [Idle EXCEPT !.pc = step, !.mod = m, !.req = r].pc = step
      BY DEF Idle
    <3> QED BY <1>1, <2>4, <3>1 DEF ReviewRead, SweepPC, ReviewLockPC
  <2> QED BY <1>2, <2>1, <2>2, <2>3, <2>4 DEF Start, ReviewLockPC
<1>3. ASSUME NEW s \in Sessions, NEW pc \in PCs, Goto(s, pc),
             pc \notin {"approve_commit"} \cup SweepPC, UNCHANGED <<requests, joins, departed>>
      PROVE  AdmitInv'
  BY <1>0, <1>3, <1>g, GotoEffect
<1>4. ASSUME NEW s \in Sessions, Continue(s)
      PROVE  AdmitInv'
  <2>1. CASE SubmitLock(s) \/ SettingsLock(s) \/ ReviewLock(s)
    BY <1>3, <2>1 DEF SubmitLock, SettingsLock, ReviewLock, PCs, SweepPC
  <2>2. CASE JoinInsert(s) \/ SubmitRefused(s) \/ ReviewRefused(s) \/ ApproveConflict(s) \/ SweepConflict(s)
    BY <1>r, <2>2 DEF JoinInsert, SubmitRefused, ReviewRefused, ApproveConflict, SweepConflict
  <2>3. CASE SubmitInsert(s)
    <3>1. \A t \in Sessions : sess[t].pc \notin SweepPC
      BY <2>3 DEF SubmitInsert, IInv, SubmitInv, SweepInv, SweepPC
    <3>2. /\ Release(s) /\ joins' = joins /\ sess[s].req \in Requests
          /\ requests[sess[s].req].status = "ABSENT"
          /\ \A r \in Requests : r # sess[s].req => requests'[r] = requests[r]
      BY <1>0, <2>3 DEF SubmitInsert, IInv, HandlerInv, SubmitInv, SubmitPC, TypeOK
    <3>3. sess'[s] = Idle /\ \A t \in Sessions : t # s => sess'[t] = sess[t]
      BY <1>0, <3>2, ReleaseEffect
    <3> SUFFICES ASSUME NEW t \in Sessions, t # s, sess[t].pc = "approve_commit"
                 PROVE  requests'[sess[t].req].user \in joins' \/ sess[t].req \in departed'
      BY <3>1, <3>3 DEF AdmitInv, Idle, SweepPC
    <3>4. sess[t].req \in Requests /\ rowLock[sess[t].req] = t /\ sess[t].req # sess[s].req
      BY <3>2 DEF IInv, HandlerInv, ReviewInv, ReviewHeldPC, Pending
    <3>5. requests'[sess[t].req] = requests[sess[t].req]
      BY <3>2, <3>4
    <3>6. sess[t].req \in departed => sess[t].req \in departed'
      BY <1>0, <3>2, <3>4, ReleaseEffect
    <3> QED BY <3>2, <3>4, <3>5, <3>6 DEF AdmitInv
  <2>4. CASE SweepLock(s)
    <3>1. sess[s] \in Session
      BY <1>0 DEF TypeOK
    <3>2. /\ sess'[s].pc = "sweep_look" /\ sess'[s].todo = {r \in Requests : Pending(r)}
          /\ \A t \in Sessions : t # s => sess'[t] = sess[t]
          /\ UNCHANGED <<requests, joins, departed>>
      BY <1>0, <2>4, <3>1 DEF SweepLock, TypeOK, Session
    <3> QED BY <1>g, <3>2
  <2>5. ASSUME NEW r \in Requests, SweepLook(s, r) PROVE AdmitInv'
    <3>1. sess[s] \in Session
      BY <1>0 DEF TypeOK
    <3>2. /\ sess[s].pc = "sweep_look"
          /\ sess'[s].pc = IF requests[r].user \in joins THEN "sweep_look" ELSE "sweep_insert"
          /\ sess'[s].req = IF requests[r].user \in joins THEN None ELSE r
          /\ sess'[s].todo = sess[s].todo \ {r} /\ sess'[s].admitted = sess[s].admitted
          /\ \A t \in Sessions : t # s => sess'[t] = sess[t]
          /\ UNCHANGED <<requests, joins, departed>>
      BY <1>0, <2>5, <3>1 DEF SweepLook, TypeOK, Session
    <3>3. \A q \in Requests : Pending(q) => \/ q \in sess[s].todo
                                            \/ requests[q].user \in joins \cup sess[s].admitted
                                            \/ q \in departed
      BY <3>2 DEF AdmitInv, SweepPC
    <3> QED BY <1>g, <3>2, <3>3
  <2>6. CASE SweepInsert(s)
    <3>1. sess[s] \in Session
      BY <1>0 DEF TypeOK
    <3>2. /\ sess[s].pc = "sweep_insert" /\ sess'[s].pc = "sweep_look"
          /\ sess'[s].todo = sess[s].todo
          /\ sess'[s].admitted = sess[s].admitted \cup {requests[sess[s].req].user}
          /\ \A t \in Sessions : t # s => sess'[t] = sess[t]
          /\ UNCHANGED <<requests, joins, departed>>
      BY <1>0, <2>6, <3>1 DEF SweepInsert, TypeOK, Session
    <3>3. \A q \in Requests : Pending(q) => \/ q \in sess[s].todo \/ q = sess[s].req
                                            \/ requests[q].user \in joins \cup sess[s].admitted
                                            \/ q \in departed
      BY <3>2 DEF AdmitInv, SweepPC
    <3> QED BY <1>g, <3>2, <3>3
  <2>7. CASE SettingsCommit(s)
    <3>1. \A r \in Requests : \/ requests'[r] = requests[r]
                              \/ rowLock[r] = s /\ (Pending(r)' => Pending(r))
      BY <2>7 DEF SettingsCommit
    <3> QED BY <1>r, <2>7, <3>1 DEF SettingsCommit
  <2>8. CASE ApproveLook(s)
    <3>1. /\ UNCHANGED <<requests, joins, departed>>
          /\ sess'[s].req = sess[s].req /\ \A t \in Sessions : t # s => sess'[t] = sess[t]
          /\ sess'[s].pc = IF requests[sess[s].req].user \in joins THEN "approve_commit"
                                                                   ELSE "approve_insert"
      BY <1>0, <2>8, GotoEffect DEF ApproveLook, PCs
    <3> QED BY <1>g, <3>1 DEF SweepPC
  <2>9. CASE ApproveMember(s) \/ ApproveInsert(s) \/ Reject(s)
    <3>1. /\ Release(s) /\ joins \subseteq joins'
          /\ sess[s].req \in Requests /\ rowLock[sess[s].req] = s /\ Pending(sess[s].req)
      BY <2>9 DEF ApproveMember, ApproveInsert, Reject, IInv, HandlerInv, ReviewInv, ReviewHeldPC
    <3>2. \A r \in Requests : r # sess[s].req => requests'[r] = requests[r]
      BY <1>0, <2>9 DEF ApproveMember, ApproveInsert, Reject, Decide, TypeOK
    <3> QED BY <1>r, <3>1, <3>2
  <2> QED BY <1>4, <2>1, <2>2, <2>3, <2>4, <2>5, <2>6, <2>7, <2>8, <2>9 DEF Continue
<1>5. ASSUME BreakDeadlock
      PROVE  AdmitInv'
  BY <1>r, <1>5 DEF BreakDeadlock, DeadlockAbort
<1>6. ASSUME NEW u \in Users, leave_group(u)
      PROVE  AdmitInv'
  <2> USE <1>6 DEF leave_group
  <2>1. \A r \in Requests : rowLock[r] # None =>
          \/ requests[r].user \in joins => requests[r].user \in joins'
          \/ r \in departed'
    OBVIOUS
  <2>2. departed \subseteq departed' /\ sess' = sess /\ requests' = requests
    OBVIOUS
  <2> HIDE <1>6 DEF leave_group
  <2>3. \A r \in Requests : Pending(r)' => Pending(r)
    BY <2>2 DEF Pending
  <2>4. ASSUME NEW t \in Sessions
        PROVE  /\ sess'[t].pc = "approve_commit" =>
                    requests'[sess'[t].req].user \in joins' \/ sess'[t].req \in departed'
               /\ sess'[t].pc \in SweepPC => \A r \in Requests : Pending(r)' =>
                    \/ r \in sess'[t].todo
                    \/ sess'[t].pc = "sweep_insert" /\ r = sess'[t].req
                    \/ requests'[r].user \in joins' \cup sess'[t].admitted
                    \/ r \in departed'
    BY <2>1, <2>2, <2>3, AdmitKept
  <2> QED BY <2>4 DEF AdmitInv
<1>7. CASE UNCHANGED <<sess, requests, joins, departed>>
  BY <1>7 DEF AdmitInv, Pending
<1> QED BY <1>2, <1>4, <1>5, <1>6, <1>7
        DEF Next, vars, MakePrivate, update_group_status, delete_author_group

\* Whoever approves a request, its user is a member in the state that shows it
\* or has left while it was being decided.
THEOREM ApprovedAreMembers == Spec => ApprovalAdmits
<1> DEFINE Admits == \A r \in Requests :
                       (requests[r].status # "APPROVED" /\ requests'[r].status = "APPROVED")
                         => requests'[r].user \in joins' \/ r \in departed
<1>1. IInv /\ AdmitInv /\ [Next]_vars => [Admits]_vars
  <2> SUFFICES ASSUME IInv, AdmitInv, Next, NEW r \in Requests,
                      requests[r].status # "APPROVED", requests'[r].status = "APPROVED"
               PROVE  requests'[r].user \in joins' \/ r \in departed
    OBVIOUS
  <2>1. PICK s \in Sessions : \/ SubmitInsert(s) \/ SettingsCommit(s)
                              \/ ApproveMember(s) \/ ApproveInsert(s) \/ Reject(s)
    BY RequestWriters
  <2>2. ~SubmitInsert(s)
    BY DEF SubmitInsert, IInv, TypeOK
  <2>3. CASE SettingsCommit(s)
    <3>1. Pending(r) /\ requests'[r].user = requests[r].user
      BY <2>3 DEF SettingsCommit, IInv, TypeOK, JoinRequest
    <3>2. sess[s].pc = "sweep_look" /\ sess[s].todo = {} /\ joins' = joins \cup sess[s].admitted
      BY <2>3 DEF SettingsCommit
    <3>3. requests[r].user \in joins \cup sess[s].admitted \/ r \in departed
      BY <3>1, <3>2 DEF AdmitInv, SweepPC
    <3> QED BY <3>1, <3>2, <3>3
  <2>4. CASE ApproveMember(s) \/ ApproveInsert(s)
    <3>1. r = sess[s].req /\ requests'[r].user = requests[r].user
      BY <2>4 DEF ApproveMember, ApproveInsert, Decide, IInv, TypeOK, JoinRequest
    <3> QED BY <2>4, <3>1 DEF ApproveMember, ApproveInsert, AdmitInv
  <2>5. ~Reject(s)
    BY DEF Reject, Decide, IInv, TypeOK, JoinRequest
  <2> QED BY <2>1, <2>2, <2>3, <2>4, <2>5
<1>2. Init => AdmitInv
  BY DEF Init, AdmitInv, Idle, SweepPC
<1>3. IInv /\ AdmitInv /\ [Next]_vars => AdmitInv'
  BY AdmitPreserved
<1> QED BY <1>1, <1>2, <1>3, Invariance, PTL DEF Spec, ApprovalAdmits

-----------------------------------------------------------------------------
(* What the outbox takes for granted of a request.  It reads the row: who    *)
(* decided a request is told from reviewed_by, which the publish sweep       *)
(* leaves NULL.                                                              *)

\* Request r as JoinRequestOutbox has it in review.
ReviewOf(r) ==
  CASE requests[r].status = "ABSENT" -> "ABSENT"
    [] requests[r].status = "PENDING" -> "PENDING"
    [] requests[r].status \in {"APPROVED", "REJECTED"} ->
         IF requests[r].reviewedBy = None THEN "ADMITTED" ELSE "DECIDED"

\* A review is a moderator's, and a request nobody decided names nobody.
ReviewerKnown(h) == h.pc \in ReviewLockPC \cup ReviewHeldPC => h.mod \in Moderators
ReviewersInv == \A s \in Sessions : ReviewerKnown(sess[s])
UnreviewedInv == \A r \in Requests : Pending(r) => requests[r].reviewedBy = None
ReviewerInv == ReviewersInv /\ UnreviewedInv

\* The reviewer is known when a review starts and stays the same until it ends.
LEMMA ReviewersPreserved ==
  ASSUME TypeOK, ReviewersInv, [Next]_vars
  PROVE  ReviewersInv'
<1>b. ASSUME NEW s \in Sessions, NEW h, Begin(s, h), ReviewerKnown(h)
      PROVE  ReviewersInv'
  BY <1>b DEF Begin, TypeOK, ReviewersInv
<1>r. ASSUME NEW s \in Sessions, Release(s)
      PROVE  ReviewersInv'
  <2>1. ReviewerKnown(Idle)
    BY DEF ReviewerKnown, Idle, ReviewLockPC, ReviewHeldPC
  <2>2. \A t \in Sessions : sess'[t] = IF t = s THEN Idle ELSE sess[t]
    BY <1>r, ReleaseEffect
  <2> QED BY <2>1, <2>2 DEF ReviewersInv
<1>g. ASSUME NEW s \in Sessions, NEW pc, Goto(s, pc),
             pc \in ReviewHeldPC \cup ReviewLockPC => sess[s].pc \in ReviewLockPC \cup ReviewHeldPC
      PROVE  ReviewersInv'
  <2>1. sess[s] \in Session
    BY DEF TypeOK
  <2>2. [sess[s] EXCEPT !.pc = pc].pc = pc /\ [sess[s] EXCEPT !.pc = pc].mod = sess[s].mod
    BY <2>1 DEF Session
  <2>3. \A t \in Sessions : sess'[t] = IF t = s THEN [sess[s] EXCEPT !.pc = pc] ELSE sess[t]
    BY <1>g DEF Goto, TypeOK
  <2> QED BY <1>g, <2>2, <2>3 DEF ReviewersInv, ReviewerKnown
<1>1. ASSUME NEW s \in Sessions, Start(s)
      PROVE  ReviewersInv'
  <2>1. ASSUME NEW u \in Users, JoinRead(s, u)
        PROVE  ReviewersInv'
    <3>1. ReviewerKnown([Idle EXCEPT !.pc = "join_insert", !.user = u])
      BY DEF ReviewerKnown, Idle, ReviewLockPC, ReviewHeldPC
    <3> QED BY <1>b, <2>1, <3>1 DEF JoinRead
  <2>2. ASSUME NEW u \in Users, NEW r \in Requests, SubmitRead(s, u, r)
        PROVE  ReviewersInv'
    <3>1. ReviewerKnown([Idle EXCEPT !.pc = "submit_lock", !.user = u, !.req = r])
      BY DEF ReviewerKnown, Idle, ReviewLockPC, ReviewHeldPC
    <3> QED BY <1>b, <2>2, <3>1 DEF SubmitRead
  <2>3. CASE SettingsRead(s)
    <3>1. ReviewerKnown([Idle EXCEPT !.pc = "settings_lock"])
      BY DEF ReviewerKnown, Idle, ReviewLockPC, ReviewHeldPC
    <3> QED BY <1>b, <2>3, <3>1 DEF SettingsRead
  <2>4. ASSUME NEW m \in Moderators, NEW r \in Requests, NEW step, ReviewRead(s, m, r, step)
        PROVE  ReviewersInv'
    <3>1. ReviewerKnown([Idle EXCEPT !.pc = step, !.mod = m, !.req = r])
      BY DEF ReviewerKnown, Idle
    <3> QED BY <1>b, <2>4, <3>1 DEF ReviewRead
  <2> QED BY <1>1, <2>1, <2>2, <2>3, <2>4 DEF Start
<1>2. ASSUME NEW s \in Sessions, Continue(s)
      PROVE  ReviewersInv'
  <2>s. CASE SweepLock(s) \/ (\E r \in Requests : SweepLook(s, r)) \/ SweepInsert(s)
    <3>0. sess[s] \in Session /\ sess \in [Sessions -> Session]
      BY DEF TypeOK
    <3>a. ASSUME SweepLock(s)
          PROVE  sess'[s].pc \in SweepPC /\ \A t \in Sessions : t # s => sess'[t] = sess[t]
      BY <3>0, <3>a DEF SweepLock, Session, SweepPC
    <3>b. ASSUME NEW r \in Requests, SweepLook(s, r)
          PROVE  sess'[s].pc \in SweepPC /\ \A t \in Sessions : t # s => sess'[t] = sess[t]
      BY <3>0, <3>b DEF SweepLook, Session, SweepPC
    <3>c. ASSUME SweepInsert(s)
          PROVE  sess'[s].pc \in SweepPC /\ \A t \in Sessions : t # s => sess'[t] = sess[t]
      BY <3>0, <3>c DEF SweepInsert, Session, SweepPC
    <3>1. sess'[s].pc \in SweepPC /\ \A t \in Sessions : t # s => sess'[t] = sess[t]
      BY <2>s, <3>a, <3>b, <3>c
    <3>2. ReviewerKnown(sess'[s])
      BY <3>1 DEF ReviewerKnown, SweepPC, ReviewLockPC, ReviewHeldPC
    <3> QED BY <3>1, <3>2 DEF ReviewersInv
  <2>1. ASSUME NEW pc, Goto(s, pc),
               pc \in ReviewHeldPC \cup ReviewLockPC => sess[s].pc \in ReviewLockPC \cup ReviewHeldPC
        PROVE  ReviewersInv'
    BY <1>g, <2>1
  <2>2. ASSUME ~(SweepLock(s) \/ (\E r \in Requests : SweepLook(s, r)) \/ SweepInsert(s))
        PROVE  Release(s) \/ \E pc : /\ Goto(s, pc)
                                     /\ pc \in ReviewHeldPC \cup ReviewLockPC
                                          => sess[s].pc \in ReviewLockPC \cup ReviewHeldPC
    BY <1>2, <2>2 DEF Continue, JoinInsert, SubmitLock, SubmitRefused, SubmitInsert, SettingsLock,
       SweepConflict, SettingsCommit, ReviewLock, ReviewRefused, ApproveLook, ApproveMember,
       ApproveInsert, ApproveConflict, Reject, ReviewLockPC, ReviewHeldPC
  <2> QED BY <1>r, <2>s, <2>1, <2>2
<1>3. ASSUME BreakDeadlock
      PROVE  ReviewersInv'
  BY <1>r, <1>3 DEF BreakDeadlock, DeadlockAbort
<1>4. ASSUME UNCHANGED sess
      PROVE  ReviewersInv'
  BY <1>4 DEF ReviewersInv
<1> QED BY <1>1, <1>2, <1>3, <1>4 DEF Next, vars, leave_group, MakePrivate, update_group_status,
                                      delete_author_group

\* No step but a review names a reviewer.
LEMMA UnreviewedPreserved ==
  ASSUME IInv, UnreviewedInv, [Next]_vars
  PROVE  UnreviewedInv'
<1>0. TypeOK
  BY DEF IInv
<1>1. CASE UNCHANGED requests
  BY <1>1 DEF UnreviewedInv, Pending
<1>2. CASE ~UNCHANGED requests
  <2>1. PICK s \in Sessions : \/ SubmitInsert(s) \/ SettingsCommit(s)
                              \/ ApproveMember(s) \/ ApproveInsert(s) \/ Reject(s)
    BY <1>2, RequestWriters DEF vars
  <2>2. CASE SubmitInsert(s)
    <3>1. \A r \in Requests : requests'[r] = requests[r] \/ requests'[r].reviewedBy = None
      BY <1>0, <2>2 DEF SubmitInsert, TypeOK
    <3> QED BY <3>1 DEF UnreviewedInv, Pending
  <2>3. CASE SettingsCommit(s)
    <3>1. \A r \in Requests : requests'[r] = requests[r] \/ requests'[r].status = "APPROVED"
      BY <1>0, <2>3 DEF SettingsCommit, TypeOK, JoinRequest
    <3> QED BY <3>1 DEF UnreviewedInv, Pending
  <2>4. CASE ApproveMember(s) \/ ApproveInsert(s) \/ Reject(s)
    <3>1. \A r \in Requests : \/ requests'[r] = requests[r]
                              \/ requests'[r].status \in {"APPROVED", "REJECTED"}
      BY <1>0, <2>4 DEF ApproveMember, ApproveInsert, Reject, Decide, TypeOK, JoinRequest
    <3> QED BY <3>1 DEF UnreviewedInv, Pending
  <2> QED BY <2>1, <2>2, <2>3, <2>4
<1> QED BY <1>1, <1>2

\* Requests move as the outbox takes them to move, once and for all: filed, then
\* decided by the moderator who holds the row, whom the row names, or admitted by
\* the sweep that makes the group public, which names nobody.
THEOREM OutboxSeesReviews ==
  Spec => [][\A r \in Requests :
               \/ UNCHANGED ReviewOf(r)
               \/ ReviewOf(r) = "ABSENT" /\ ReviewOf(r)' = "PENDING"
               \/ /\ ReviewOf(r) = "PENDING" /\ ReviewOf(r)' = "DECIDED"
                  /\ \E s \in Sessions : rowLock[r] = s /\ requests'[r].reviewedBy = sess[s].mod
               \/ ReviewOf(r) = "PENDING" /\ ReviewOf(r)' = "ADMITTED" /\ isPublic']_vars
<1> DEFINE Moves(r) ==
             \/ UNCHANGED ReviewOf(r)
             \/ ReviewOf(r) = "ABSENT" /\ ReviewOf(r)' = "PENDING"
             \/ /\ ReviewOf(r) = "PENDING" /\ ReviewOf(r)' = "DECIDED"
                /\ \E s \in Sessions : rowLock[r] = s /\ requests'[r].reviewedBy = sess[s].mod
             \/ ReviewOf(r) = "PENDING" /\ ReviewOf(r)' = "ADMITTED" /\ isPublic'
<1>1. Init => ReviewerInv
  BY DEF Init, ReviewerInv, ReviewersInv, ReviewerKnown, UnreviewedInv, Pending, Idle, ReviewLockPC,
         ReviewHeldPC
<1>2. IInv /\ ReviewerInv /\ [Next]_vars => [\A r \in Requests : Moves(r)]_vars
  <2> SUFFICES ASSUME IInv, ReviewerInv, Next, ~UNCHANGED requests, NEW r \in Requests PROVE Moves(r)
    BY DEF vars, ReviewOf
  <2>0. TypeOK /\ requests[r] \in JoinRequest
    BY DEF IInv, TypeOK
  <2>1. PICK s \in Sessions : \/ SubmitInsert(s) \/ SettingsCommit(s)
                              \/ ApproveMember(s) \/ ApproveInsert(s) \/ Reject(s)
    BY RequestWriters
  <2>2. CASE SubmitInsert(s)
    <3>1. requests[sess[s].req].status = "ABSENT"
      BY <2>2 DEF SubmitInsert, IInv, SubmitInv, SubmitPC
    <3>2. \/ requests'[r] = requests[r]
          \/ requests[r].status = "ABSENT" /\ requests'[r].status = "PENDING"
      BY <2>0, <2>2, <3>1 DEF SubmitInsert, TypeOK
    <3> QED BY <3>2 DEF ReviewOf
  <2>3. CASE SettingsCommit(s)
    <3>1. CASE Pending(r)
      <4>1. requests'[r] = [requests[r] EXCEPT !.status = "APPROVED"] /\ isPublic'
        BY <2>3, <3>1 DEF SettingsCommit, IInv, SweepInv, SweepPC
      <4>2. requests'[r].status = "APPROVED" /\ requests'[r].reviewedBy = None
        BY <2>0, <3>1, <4>1 DEF JoinRequest, ReviewerInv, UnreviewedInv
      <4>3. ReviewOf(r)' = "ADMITTED"
        BY <4>2 DEF ReviewOf
      <4> QED BY <3>1, <4>1, <4>3 DEF ReviewOf, Pending
    <3>2. CASE ~Pending(r)
      BY <2>3, <3>2 DEF SettingsCommit, ReviewOf
    <3> QED BY <3>1, <3>2
  <2>4. CASE ApproveMember(s) \/ ApproveInsert(s) \/ Reject(s)
    <3>1. /\ Pending(sess[s].req) /\ rowLock[sess[s].req] = s /\ sess[s].mod \in Moderators
      BY <2>4 DEF ApproveMember, ApproveInsert, Reject, IInv, ReviewInv, ReviewHeldPC, ReviewerInv,
                  ReviewersInv, ReviewerKnown
    <3>2. CASE r = sess[s].req
      <4>1. requests'[r].status \in {"APPROVED", "REJECTED"} /\ requests'[r].reviewedBy = sess[s].mod
        BY <2>0, <2>4, <3>2 DEF ApproveMember, ApproveInsert, Reject, Decide, TypeOK, JoinRequest
      <4>2. ReviewOf(r)' = "DECIDED"
        BY <3>1, <4>1, NoneIsFresh DEF ReviewOf
      <4>3. ReviewOf(r) = "PENDING"
        BY <3>1, <3>2 DEF ReviewOf, Pending
      <4> QED BY <3>1, <3>2, <4>1, <4>2, <4>3
    <3>3. CASE r # sess[s].req
      <4>1. requests'[r] = requests[r]
        BY <2>0, <2>4, <3>3 DEF ApproveMember, ApproveInsert, Reject, Decide, TypeOK
      <4> QED BY <4>1 DEF ReviewOf
    <3> QED BY <3>2, <3>3
  <2> QED BY <2>1, <2>2, <2>3, <2>4
<1>3. IInv /\ ReviewerInv /\ [Next]_vars => ReviewerInv'
  BY ReviewersPreserved, UnreviewedPreserved DEF ReviewerInv, IInv
<1> QED BY <1>1, <1>2, <1>3, InitIInv, NextPreserves, PTL DEF Spec

-----------------------------------------------------------------------------
(* The outbox.                                                             *)

\* What a thread is sending, or a reconcile run has listed, is a notification
\* of a request that exists, and a decision only if a moderator took it.
Decided == \A r \in Requests :
  /\ \A s \in Senders : (sender[s].event = "DECIDED" /\ sender[s].req = r)
                           => review[r] = "DECIDED"
  /\ <<"DECIDED", r>> \in listed => review[r] = "DECIDED"
  /\ <<"DECIDED", r>> \in sent => review[r] = "DECIDED"

\* A thread that is not idle has a notification in hand.
HasNotification ==
  \A s \in Senders : sender[s].pc # "idle" => sender[s].event \in Events /\ sender[s].req \in Requests

\* A thread records an id only after the send that returned it.
MarkedWasSent == \A s \in Senders : sender[s].pc = "mark" => Notification(s) \in sent

OutboxInv == OutboxTypeOK /\ HasNotification /\ Decided /\ MarkedWasSent /\ RecordedWasSent

\* The invariant holds before the first request is filed.
LEMMA InitOutboxInv == OutboxInit => OutboxInv
BY OutboxAssumption
   DEF OutboxInit, OutboxInv, OutboxTypeOK, HasNotification, Decided, MarkedWasSent, RecordedWasSent,
       IdleSender, Sender, Review, Notifications, Events, Notification

\* Filing and reviewing a request preserve the invariant.
LEMMA FilingPreserves ==
  ASSUME OutboxInv, NEW s \in Senders, NEW r \in Requests,
         submit_group_join_request(s, r) \/ ReviewRequest(s, r)
  PROVE  OutboxInv'
<1> USE OutboxAssumption DEF OutboxInv
<1>1. CASE submit_group_join_request(s, r)
  <2> USE <1>1 DEF submit_group_join_request
  <2>1. OutboxTypeOK' BY DEF OutboxTypeOK, Sending, Sender, Review, Events
  <2>2. HasNotification' BY DEF OutboxTypeOK, HasNotification, Sending, Events, Sender
  <2>3. Decided' BY DEF OutboxTypeOK, Decided, Sending, Sender
  <2>4. MarkedWasSent' /\ RecordedWasSent'
    BY DEF OutboxTypeOK, MarkedWasSent, RecordedWasSent, Notification, Sending, Sender
  <2> QED BY <2>1, <2>2, <2>3, <2>4
<1>2. CASE ReviewRequest(s, r)
  <2> USE <1>2 DEF ReviewRequest
  <2>1. OutboxTypeOK' BY DEF OutboxTypeOK, Sending, Sender, Review, Events
  <2>2. HasNotification' BY DEF OutboxTypeOK, HasNotification, Sending, Events, Sender
  <2>3. Decided' BY DEF OutboxTypeOK, Decided, Sending, Sender
  <2>4. MarkedWasSent' /\ RecordedWasSent'
    BY DEF OutboxTypeOK, MarkedWasSent, RecordedWasSent, Notification, Sending, Sender
  <2> QED BY <2>1, <2>2, <2>3, <2>4
<1> QED BY <1>1, <1>2

\* Admitting on publish, and the passing of time, preserve the invariant.
LEMMA AdmissionPreserves ==
  ASSUME OutboxInv, NEW r \in Requests, Admit(r) \/ GraceEnds(r)
  PROVE  OutboxInv'
<1> USE OutboxAssumption DEF OutboxInv
<1>1. CASE Admit(r)
  <2> USE <1>1 DEF Admit
  <2>1. OutboxTypeOK' BY DEF OutboxTypeOK, Review
  <2>2. HasNotification' BY DEF HasNotification
  <2>3. Decided' BY DEF OutboxTypeOK, Decided
  <2>4. MarkedWasSent' /\ RecordedWasSent' BY DEF MarkedWasSent, RecordedWasSent, Notification
  <2> QED BY <2>1, <2>2, <2>3, <2>4
<1>2. CASE GraceEnds(r)
  BY <1>2 DEF GraceEnds, OutboxTypeOK, HasNotification, Decided, MarkedWasSent, RecordedWasSent,
              Notification
<1> QED BY <1>1, <1>2

\* Sending, recording and giving up preserve the invariant.
LEMMA SendersPreserve ==
  ASSUME OutboxInv, NEW s \in Senders, Send(s) \/ Mark(s) \/ GiveUp(s)
  PROVE  OutboxInv'
<1> USE OutboxAssumption DEF OutboxInv
<1>1. CASE Send(s)
  <2> USE <1>1 DEF Send
  <2>1. Notification(s) \in Notifications
    BY DEF HasNotification, Notification, Notifications
  <2>2. OutboxTypeOK' BY <2>1 DEF OutboxTypeOK, Sender
  <2>3. HasNotification' BY DEF OutboxTypeOK, HasNotification, Sender
  <2>4. Decided' BY DEF OutboxTypeOK, Decided, Notification, Sender
  <2>5. MarkedWasSent' /\ RecordedWasSent'
    BY DEF OutboxTypeOK, MarkedWasSent, RecordedWasSent, Notification, Sender
  <2> QED BY <2>2, <2>3, <2>4, <2>5
<1>2. CASE Mark(s)
  <2> USE <1>2 DEF Mark
  <2>1. Notification(s) \in Notifications
    BY DEF HasNotification, Notification, Notifications
  <2>2. OutboxTypeOK' BY <2>1 DEF OutboxTypeOK, Sender, IdleSender
  <2>3. HasNotification' BY DEF OutboxTypeOK, HasNotification, Sender, IdleSender
  <2>4. Decided' BY DEF OutboxTypeOK, Decided, Sender, IdleSender
  <2>5. MarkedWasSent' /\ RecordedWasSent'
    BY DEF OutboxTypeOK, MarkedWasSent, RecordedWasSent, Notification, Sender, IdleSender
  <2> QED BY <2>2, <2>3, <2>4, <2>5
<1>3. CASE GiveUp(s)
  <2> USE <1>3 DEF GiveUp
  <2>1. Notification(s) \in Notifications
    BY DEF HasNotification, Notification, Notifications
  <2>2. /\ sent \subseteq sent' /\ sent' \subseteq sent \cup {Notification(s)}
        /\ sender' = [sender EXCEPT ![s] = IdleSender]
    OBVIOUS
  <2>3. OutboxTypeOK' BY <2>1, <2>2 DEF OutboxTypeOK, Sender, IdleSender
  <2>4. HasNotification' BY <2>2 DEF OutboxTypeOK, HasNotification, Sender, IdleSender
  <2>5. Decided'
    <3>1. ASSUME NEW q \in Requests, NEW t \in Senders,
                 sender'[t].event = "DECIDED", sender'[t].req = q
          PROVE  review'[q] = "DECIDED"
      <4>1. t # s
        BY <2>2, <3>1 DEF OutboxTypeOK, IdleSender
      <4>2. sender[t].event = "DECIDED" /\ sender[t].req = q
        BY <2>2, <3>1, <4>1 DEF OutboxTypeOK
      <4> QED BY <4>2 DEF Decided
    <3>2. ASSUME NEW q \in Requests, <<"DECIDED", q>> \in sent'
          PROVE  review'[q] = "DECIDED"
      BY <2>2, <3>2 DEF Decided, Notification
    <3>3. listed' = listed /\ review' = review OBVIOUS
    <3> QED BY <3>1, <3>2, <3>3 DEF Decided
  <2>6. MarkedWasSent' /\ RecordedWasSent'
    BY <2>2 DEF OutboxTypeOK, MarkedWasSent, RecordedWasSent, Notification, Sender, IdleSender
  <2> QED BY <2>3, <2>4, <2>5, <2>6
<1> QED BY <1>1, <1>2, <1>3

\* Listing, working the list off and dying over it preserve the invariant.
LEMMA ReconcilePreserves ==
  ASSUME OutboxInv,
         \/ List \/ ReconcileDies
         \/ \E s \in Senders, e \in Events, r \in Requests : Requeue(s, e, r)
  PROVE  OutboxInv'
<1> USE OutboxAssumption DEF OutboxInv
<1>1. CASE List
  <2> USE <1>1 DEF List
  <2>1. OutboxTypeOK'
    BY DEF OutboxTypeOK, UndispatchedCreated, UndispatchedDecided, Notifications, Events
  <2>2. Decided' BY DEF Decided, UndispatchedDecided, UndispatchedCreated
  <2>3. HasNotification' /\ MarkedWasSent' /\ RecordedWasSent'
    BY DEF HasNotification, MarkedWasSent, RecordedWasSent, Notification
  <2> QED BY <2>1, <2>2, <2>3
<1>2. CASE ReconcileDies
  BY <1>2 DEF ReconcileDies, OutboxTypeOK, HasNotification, Decided, MarkedWasSent, RecordedWasSent,
              Notification
<1>3. ASSUME NEW s \in Senders, NEW e \in Events, NEW r \in Requests, Requeue(s, e, r)
      PROVE  OutboxInv'
  <2> USE <1>3 DEF Requeue
  <2>1. OutboxTypeOK' BY DEF OutboxTypeOK, Sending, Sender
  <2>2. HasNotification' BY DEF OutboxTypeOK, HasNotification, Sending, Sender
  <2>3. Decided' BY DEF OutboxTypeOK, Decided, Sending, Sender
  <2>4. MarkedWasSent' /\ RecordedWasSent'
    BY DEF OutboxTypeOK, MarkedWasSent, RecordedWasSent, Notification, Sending, Sender
  <2> QED BY <2>1, <2>2, <2>3, <2>4
<1> QED BY <1>1, <1>2, <1>3

\* A step that changes nothing preserves the invariant.
LEMMA OutboxStutter == ASSUME OutboxInv, UNCHANGED outboxVars PROVE OutboxInv'
BY DEF OutboxInv, outboxVars, OutboxTypeOK, HasNotification, Decided, MarkedWasSent, RecordedWasSent, Notification

\* The inductive invariant holds in every reachable state.
THEOREM OutboxInvariance == OutboxSpec => []OutboxInv
<1>1. OutboxInv /\ [OutboxNext]_outboxVars => OutboxInv'
  BY FilingPreserves, AdmissionPreserves, SendersPreserve, ReconcilePreserves, OutboxStutter DEF OutboxNext
<1> QED BY InitOutboxInv, <1>1, PTL DEF OutboxSpec

\* Every variable keeps its type.
THEOREM OutboxTypeCorrect == OutboxSpec => []OutboxTypeOK
BY OutboxInvariance, PTL DEF OutboxInv

\* No handler and no reconcile run tells a member whom the publish sweep
\* admitted of a decision: whatever is in hand, listed or sent was decided.
THEOREM SilentAdmission == OutboxSpec => []AdmittedSilently
<1>1. OutboxInv => AdmittedSilently BY DEF OutboxInv, Decided, AdmittedSilently
<1> QED BY OutboxInvariance, <1>1, PTL

\* A recorded message id vouches for a message the queue accepted.
THEOREM RecordsAreTrue == OutboxSpec => []RecordedWasSent
BY OutboxInvariance, PTL DEF OutboxInv
=============================================================================
