------------------------ MODULE EventReminderProofs ------------------------
(***************************************************************************)
(* Proofs about EventReminder, for any number of pollers, reconcilers and  *)
(* editing handlers, any start dates, and with crashes; for edits that do  *)
(* not overlap, that the reminder follows its event; however the event is   *)
(* moved, that only a stale claim makes a reminder early; and for dates    *)
(* that stay as they are, that nothing is given up before it was sent.     *)
(***************************************************************************)
EXTENDS EventReminder, TLAPS

\* A poller has claimed the row and not yet sent.
Holds(p) == dispatcher[p].pc \in {"recheck", "send"}
\* The row is there and announces what p listed.
RowIs(p) == row.exists /\ row.fireAt = dispatcher[p].fireAt

\* The row, and every dispatcher at work, has a fire time.
Dated ==
  /\ row.exists => row.fireAt \in FireAt
  /\ \A d \in Dispatchers : dispatcher[d].pc # "idle" => dispatcher[d].fireAt \in FireAt
\* A poller works on a reminder whose time had come.
Listed == \A p \in Pollers : dispatcher[p].pc # "idle" => dispatcher[p].fireAt <= now
\* As long as the row a poller claimed is not replaced, it stays claimed.
ClaimLasts == \A p \in Pollers : Holds(p) /\ RowIs(p) => row.dispatched # "no"
\* If two pollers claimed for the same time, the row was replaced in between.
ClaimedTwiceIsReplaced ==
  \A p, q \in Pollers :
    (p # q /\ Holds(p) /\ Holds(q) /\ dispatcher[p].fireAt = dispatcher[q].fireAt) => ~RowIs(p)

IInv == TypeOK /\ Dated /\ Listed /\ ClaimLasts /\ ClaimedTwiceIsReplaced /\ OnePollerSends

\* Fire times are integers, one for each start.
LEMMA FireTimes ==
  /\ \A f \in FireAt : f \in Int
  /\ \A s \in Starts : s - Lead \in FireAt
BY ReminderAssumption DEF FireAt

\* A new or rescheduled row is one for a later time, not claimed; otherwise the
\* row keeps its time and its claim.
LEMMA ScheduleRow ==
  ASSUME NEW r \in Row, NEW start \in Starts, now \in Int
  PROVE  /\ schedule(r, start) \in Row
         /\ \/ schedule(r, start) = r
            \/ schedule(r, start).fireAt \in FireAt /\ schedule(r, start).fireAt > now
BY FireTimes, ReminderAssumption DEF schedule, Fresh, NoRow, Row

\* Every event is created without a claim.
LEMMA InitIInv == Init => IInv
<1> SUFFICES ASSUME Init PROVE IInv OBVIOUS
<1>1. NoRow \in Row BY DEF NoRow, Row
<1>2. row \in Row BY <1>1, ScheduleRow DEF Init
<1>3. TypeOK
  BY <1>2, ReminderAssumption
     DEF Init, TypeOK, Event, Dispatcher, Updater, Idle, Away
<1>4. Dated
  BY FireTimes DEF Init, Dated, schedule, Fresh, NoRow, Idle
<1>5. Listed /\ ClaimLasts /\ ClaimedTwiceIsReplaced /\ OnePollerSends
  BY ReminderAssumption
     DEF Init, Listed, ClaimLasts, ClaimedTwiceIsReplaced, OnePollerSends, Holds, Idle, Dispatchers
<1> QED BY <1>3, <1>4, <1>5 DEF IInv

\* Replacing the row for a later time, dropping it, canceling it and dating its
\* claim back leave every claim as good as it was.
LEMMA RowChange ==
  ASSUME IInv, UNCHANGED dispatcher, now' \in Int, now <= now',
         \/ ~row'.exists
         \/ row'.fireAt \in FireAt /\ row'.fireAt > now
         \/ /\ row'.exists = row.exists /\ row'.fireAt = row.fireAt
            /\ (row'.dispatched = "no" <=> row.dispatched = "no")
  PROVE  (Dated /\ Listed /\ ClaimLasts /\ ClaimedTwiceIsReplaced /\ OnePollerSends)'
<1> USE DEF IInv
<1>0. now \in Int /\ \A p \in Pollers : dispatcher[p].pc # "idle" => dispatcher[p].fireAt \in Int
  BY FireTimes, ReminderAssumption DEF TypeOK, Dated, Dispatchers
<1>d. Dated' BY DEF Dated
<1>1. Listed' BY <1>0 DEF Listed
<1>2. \A p \in Pollers : Holds(p) /\ RowIs(p)' => RowIs(p) /\ (row'.dispatched = "no" <=> row.dispatched = "no")
  <2> SUFFICES ASSUME NEW p \in Pollers, Holds(p), RowIs(p)'
               PROVE  RowIs(p) /\ (row'.dispatched = "no" <=> row.dispatched = "no")
    OBVIOUS
  <2>1. dispatcher[p].fireAt \in Int /\ dispatcher[p].fireAt <= now
    BY <1>0 DEF Holds, Listed
  <2>2. row'.exists /\ row'.fireAt = dispatcher[p].fireAt
    BY DEF RowIs
  <2>3. ~(row'.fireAt \in FireAt /\ row'.fireAt > now)
    BY <1>0, <2>1, <2>2
  <2> QED BY <2>2, <2>3 DEF RowIs
<1>3. ClaimLasts' BY <1>2 DEF ClaimLasts, Holds
<1>4. ClaimedTwiceIsReplaced' BY <1>2 DEF ClaimedTwiceIsReplaced, Holds
<1>5. OnePollerSends' BY DEF OnePollerSends
<1> QED BY <1>d, <1>1, <1>3, <1>4, <1>5

\* Editing and deleting the event preserve the invariant.
LEMMA EditPreserves ==
  ASSUME IInv,
         \/ delete_event
         \/ \E u \in Updaters : \/ UpdateRead(u) \/ UpdateFails(u)
                                \/ \E s \in Starts : UpdateDates(u, s) \/ MakeRecurring(u, s)
  PROVE  IInv'
<1> USE ReminderAssumption DEF IInv
<1>0. now \in Int /\ row \in Row /\ event \in Event BY DEF TypeOK
<1>1. CASE delete_event
  <2> USE <1>1 DEF delete_event
  <2>1. TypeOK' BY DEF TypeOK, Event, NoRow, Row
  <2>2. ~row'.exists BY DEF NoRow
  <2> QED BY <1>0, <2>1, <2>2, RowChange
<1>2. ASSUME NEW u \in Updaters, UpdateRead(u) \/ UpdateFails(u)
      PROVE  IInv'
  <2>1. updater' \in [Updaters -> Updater] /\ UNCHANGED <<now, event, row, dispatcher, queue, delivered, misclaimed>>
    <3>1. CASE UpdateRead(u) BY <1>0, <3>1 DEF UpdateRead, TypeOK, Event, Updater
    <3>2. CASE UpdateFails(u) BY <1>0, <3>2 DEF UpdateFails, TypeOK, Updater, Away
    <3> QED BY <1>2, <3>1, <3>2
  <2>2. TypeOK' BY <2>1 DEF TypeOK
  <2> QED BY <1>0, <2>1, <2>2, RowChange
<1>3. ASSUME NEW u \in Updaters, NEW s \in Starts, UpdateDates(u, s)
      PROVE  IInv'
  <2>1. PICK c : /\ c \in Row /\ c.exists = row.exists /\ c.fireAt = row.fireAt
                 /\ c.dispatched = row.dispatched
                 /\ row' = row \/ row' = schedule(c, s)
    <3> DEFINE c == cancel_reminders_for_event(row)
    <3>1. /\ c \in Row /\ c.exists = row.exists /\ c.fireAt = row.fireAt
          /\ c.dispatched = row.dispatched
      BY <1>0 DEF cancel_reminders_for_event, Row
    <3>2. row' = row \/ row' = schedule(c, s)
      BY <1>3 DEF UpdateDates, reschedule_event_reminders
    <3> QED BY <3>1, <3>2
  <2>2. /\ schedule(c, s) \in Row
        /\ \/ schedule(c, s) = c
           \/ schedule(c, s).fireAt \in FireAt /\ schedule(c, s).fireAt > now
    BY <1>0, <2>1, ScheduleRow
  <2>3. TypeOK' BY <1>0, <1>3, <2>1, <2>2 DEF UpdateDates, TypeOK, Event, Updater, Away
  <2>4. dispatcher' = dispatcher /\ now' = now BY <1>3 DEF UpdateDates
  <2> QED BY <1>0, <2>1, <2>2, <2>3, <2>4, RowChange
<1>4. ASSUME NEW u \in Updaters, NEW s \in Starts, MakeRecurring(u, s)
      PROVE  IInv'
  <2>1. TypeOK'
    BY <1>0, <1>4 DEF MakeRecurring, cancel_reminders_for_event, TypeOK, Event, Row, Updater, Away
  <2>2. /\ row'.exists = row.exists /\ row'.fireAt = row.fireAt
        /\ row'.dispatched = row.dispatched
    BY <1>0, <1>4 DEF MakeRecurring, cancel_reminders_for_event, Row
  <2>3. dispatcher' = dispatcher /\ now' = now BY <1>4 DEF MakeRecurring
  <2> QED BY <1>0, <2>1, <2>2, <2>3, RowChange
<1> QED BY <1>1, <1>2, <1>3, <1>4

\* A dispatcher that stops, or a reconciler that goes on, holds no claim of a
\* poller, and the row keeps its time and whether it is claimed.
LEMMA HoldsLess ==
  ASSUME IInv, now' = now, row'.exists = row.exists, row'.fireAt = row.fireAt,
         (row'.dispatched = "no" <=> row.dispatched = "no"),
         \A p \in Pollers :
           \/ dispatcher'[p] = dispatcher[p] \/ dispatcher'[p].pc = "idle"
           \/ /\ dispatcher'[p].pc = "mark" /\ dispatcher[p].pc # "idle"
              /\ dispatcher'[p].fireAt = dispatcher[p].fireAt
  PROVE  (Listed /\ ClaimLasts /\ ClaimedTwiceIsReplaced /\ OnePollerSends)'
<1> USE DEF IInv, Holds
<1>1. Listed' BY DEF Listed
<1>2. ClaimLasts' BY DEF ClaimLasts, RowIs
<1>3. ClaimedTwiceIsReplaced' BY DEF ClaimedTwiceIsReplaced, RowIs
<1>4. OnePollerSends' BY DEF OnePollerSends
<1> QED BY <1>1, <1>2, <1>3, <1>4

\* The steps of pollers and reconcilers preserve the invariant.
LEMMA DispatchPreserves ==
  ASSUME IInv, NEW d \in Dispatchers,
         \/ d \in Pollers /\ (list_due_reminders(d) \/ Claim(d))
         \/ d \in Reconcilers /\ list_undispatched_reminders_missing_sqs_id(d)
         \/ Dispatch(d)
  PROVE  IInv'
<1> USE ReminderAssumption DEF IInv
<1>0. now \in Int /\ row \in Row /\ dispatcher \in [Dispatchers -> Dispatcher]
      /\ dispatcher[d] \in Dispatcher /\ Pollers \subseteq Dispatchers
  BY DEF TypeOK, Dispatchers
<1>1. CASE d \in Pollers /\ list_due_reminders(d)
  <2> USE <1>1 DEF list_due_reminders
  <2>1. row.fireAt \in FireAt /\ row.fireAt <= now BY DEF Dated, Due, Active
  <2>2. TypeOK' BY <1>0, <2>1 DEF TypeOK, Dispatcher
  <2>3. Dated' /\ Listed' BY <1>0, <2>1 DEF Dated, Listed
  <2>4. ClaimLasts' /\ ClaimedTwiceIsReplaced'
    BY <1>0 DEF ClaimLasts, ClaimedTwiceIsReplaced, RowIs, Holds
  <2>5. OnePollerSends' BY <1>0 DEF OnePollerSends
  <2> QED BY <2>2, <2>3, <2>4, <2>5
<1>2. CASE d \in Pollers /\ Claim(d)
  <2>1. CASE Claimable
    <3> USE <1>2, <2>1 DEF Claim, Goto, Claimable, Active
    <3>1. TypeOK' BY <1>0 DEF TypeOK, Row, Dispatcher, Dated
    <3>2. row'.dispatched = "fresh" /\ row'.exists = row.exists /\ row'.fireAt = row.fireAt
      BY <1>0 DEF Row
    <3>3. /\ \A p \in Dispatchers : dispatcher'[p].fireAt = dispatcher[p].fireAt
          /\ \A p \in Dispatchers \ {d} : dispatcher'[p] = dispatcher[p]
          /\ dispatcher'[d].pc = "recheck" /\ dispatcher[d].pc = "claim"
      BY <1>0 DEF Dispatcher
    <3>4. Dated' /\ Listed' BY <1>0, <3>2, <3>3 DEF Dated, Listed
    <3>5. ClaimLasts' BY <3>2 DEF ClaimLasts
    <3>6. \A q \in Pollers \ {d} : Holds(q) => ~RowIs(q)
      BY DEF ClaimLasts
    <3>7. ClaimedTwiceIsReplaced'
      BY <1>0, <3>2, <3>3, <3>6 DEF ClaimedTwiceIsReplaced, RowIs, Holds
    <3>8. OnePollerSends' BY <1>0, <3>3 DEF OnePollerSends
    <3> QED BY <3>1, <3>4, <3>5, <3>7, <3>8
  <2>2. CASE ~Claimable
    <3> USE <1>2, <2>2 DEF Claim, Stop
    <3>1. TypeOK' BY <1>0 DEF TypeOK, Dispatcher, Idle
    <3>2. \A p \in Dispatchers : dispatcher'[p] = dispatcher[p] \/ dispatcher'[p].pc = "idle"
      BY <1>0 DEF Idle
    <3>3. Dated' BY <3>2 DEF Dated
    <3> QED BY <1>0, <3>1, <3>2, <3>3, HoldsLess
  <2> QED BY <2>1, <2>2
<1>3. CASE d \in Reconcilers /\ list_undispatched_reminders_missing_sqs_id(d)
  <2> USE <1>3 DEF list_undispatched_reminders_missing_sqs_id
  <2>1. TypeOK' BY <1>0 DEF TypeOK, Dispatcher, Row
  <2>2. Dated' BY <1>0 DEF Dated, Stuck, Active
  <2>3. \A p \in Pollers : dispatcher'[p] = dispatcher[p] BY <1>0, ReminderAssumption
  <2> QED BY <1>0, <2>1, <2>2, <2>3, HoldsLess
<1>4. CASE Recheck(d)
  <2>1. CASE _reminder_still_due(d)
    <3> USE <1>4, <2>1 DEF Recheck, Goto, _reminder_still_due, Active
    <3>1. TypeOK' BY <1>0 DEF TypeOK, Dispatcher
    <3>2. /\ \A p \in Dispatchers : dispatcher'[p].fireAt = dispatcher[p].fireAt
          /\ \A p \in Dispatchers \ {d} : dispatcher'[p] = dispatcher[p]
          /\ dispatcher'[d].pc = "send" /\ dispatcher[d].pc = "recheck"
      BY <1>0 DEF Dispatcher
    <3>3. Dated' /\ Listed' BY <1>0, <3>2 DEF Dated, Listed
    <3>4. ClaimLasts' BY <1>0, <3>2 DEF ClaimLasts, RowIs, Holds
    <3>5. ClaimedTwiceIsReplaced' BY <1>0, <3>2 DEF ClaimedTwiceIsReplaced, RowIs, Holds
    <3>6. OnePollerSends' BY <1>0, <3>2 DEF OnePollerSends, ClaimedTwiceIsReplaced, RowIs, Holds
    <3> QED BY <3>1, <3>3, <3>4, <3>5, <3>6
  <2>2. CASE ~_reminder_still_due(d)
    <3> USE <1>4, <2>2 DEF Recheck, Stop
    <3>1. TypeOK' BY <1>0 DEF TypeOK, Dispatcher, Idle
    <3>2. \A p \in Dispatchers : dispatcher'[p] = dispatcher[p] \/ dispatcher'[p].pc = "idle"
      BY <1>0 DEF Idle
    <3>3. Dated' BY <3>2 DEF Dated
    <3> QED BY <1>0, <3>1, <3>2, <3>3, HoldsLess
  <2> QED BY <2>1, <2>2
<1>5. CASE Send(d)
  <2> USE <1>5 DEF Send, Goto
  <2>1. dispatcher[d].fireAt \in FireAt BY DEF Dated
  <2>2. TypeOK' BY <1>0, <2>1 DEF TypeOK, Dispatcher
  <2>3. /\ \A p \in Dispatchers : dispatcher'[p].fireAt = dispatcher[p].fireAt
        /\ \A p \in Dispatchers \ {d} : dispatcher'[p] = dispatcher[p]
        /\ dispatcher'[d].pc = "mark" /\ dispatcher[d].pc = "send"
    BY <1>0 DEF Dispatcher
  <2>4. Dated' BY <2>3 DEF Dated
  <2>5. \A p \in Pollers :
          \/ dispatcher'[p] = dispatcher[p]
          \/ /\ dispatcher'[p].pc = "mark" /\ dispatcher[p].pc # "idle"
             /\ dispatcher'[p].fireAt = dispatcher[p].fireAt
    BY <1>0, <2>3
  <2> QED BY <1>0, <2>2, <2>4, <2>5, HoldsLess
<1>6. CASE Mark(d)
  <2> USE <1>6 DEF Mark, Stop
  <2>1. TypeOK' BY <1>0 DEF TypeOK, Row, Dispatcher, Idle
  <2>2. /\ row'.exists = row.exists /\ row'.fireAt = row.fireAt
        /\ row'.dispatched = row.dispatched
    BY <1>0 DEF Row
  <2>3. \A p \in Dispatchers : dispatcher'[p] = dispatcher[p] \/ dispatcher'[p].pc = "idle"
    BY <1>0 DEF Idle
  <2>4. Dated' BY <2>2, <2>3 DEF Dated
  <2> QED BY <1>0, <2>1, <2>2, <2>3, <2>4, HoldsLess
<1>7. CASE Crash(d)
  <2> USE <1>7 DEF Crash, Stop
  <2>1. TypeOK' BY <1>0 DEF TypeOK, Dispatcher, Idle
  <2>2. \A p \in Dispatchers : dispatcher'[p] = dispatcher[p] \/ dispatcher'[p].pc = "idle"
    BY <1>0 DEF Idle
  <2>3. Dated' BY <2>2 DEF Dated
  <2> QED BY <1>0, <2>1, <2>2, <2>3, HoldsLess
<1> QED BY <1>1, <1>2, <1>3, <1>4, <1>5, <1>6, <1>7 DEF Dispatch

\* Time, the worker, and a step of something else preserve the invariant.
LEMMA OthersPreserve ==
  ASSUME IInv, Tick \/ GraceEnds \/ UNCHANGED vars \/ \E f \in FireAt : Deliver(f)
  PROVE  IInv'
<1> USE ReminderAssumption DEF IInv
<1>0. now \in Int /\ EndOfTime \in Int /\ row \in Row BY DEF TypeOK
<1>1. CASE Tick
  <2>1. UNCHANGED <<event, row, dispatcher, updater, queue, delivered>> /\ now' = now + 1
    BY <1>1 DEF Tick
  <2>2. TypeOK' BY <1>1, <2>1 DEF Tick, TypeOK
  <2> QED BY <1>0, <2>1, <2>2, RowChange
<1>2. CASE GraceEnds
  <2> USE <1>2 DEF GraceEnds
  <2>1. TypeOK' BY <1>0 DEF TypeOK, Row
  <2>2. /\ row'.exists = row.exists /\ row'.fireAt = row.fireAt
        /\ row'.dispatched # "no" /\ row.dispatched # "no"
    BY <1>0 DEF Row
  <2> QED BY <1>0, <2>1, <2>2, RowChange
<1>3. CASE UNCHANGED vars
  <2>1. TypeOK' BY <1>3 DEF TypeOK, vars
  <2> QED BY <1>0, <1>3, <2>1, RowChange DEF vars
<1>4. ASSUME NEW f \in FireAt, Deliver(f)
      PROVE  IInv'
  <2> USE <1>4 DEF Deliver
  <2>1. TypeOK' BY DEF TypeOK
  <2> QED BY <1>0, <2>1, RowChange
<1> QED BY <1>1, <1>2, <1>3, <1>4

\* The inductive invariant holds in every reachable state.
THEOREM Invariance == Spec => []IInv
<1>1. IInv /\ [Next]_vars => IInv'
  BY EditPreserves, DispatchPreserves, OthersPreserve DEF Next, Dispatchers
<1> QED BY InitIInv, <1>1, PTL DEF Spec

\* Every variable keeps its type.
THEOREM TypeCorrect == Spec => []TypeOK
BY Invariance, PTL DEF IInv

\* Of the pollers of all replicas at most one sends an occurrence, although
\* each claims the row by its id and the event may be rescheduled in between.
THEOREM OneSender == Spec => []OnePollerSends
BY Invariance, PTL DEF IInv
-----------------------------------------------------------------------------
(* With one edit at a time the reminder follows its event.  (Two edits that *)
(* load the event at the same time can leave it with a stale reminder.)     *)

\* What the one handler in flight has loaded is what the event still is.
LoadedIsCurrent ==
  \A u \in Updaters :
    (updater[u].editing /\ event.exists)
      => updater[u].start = event.start /\ updater[u].recurring = event.recurring

MatchInv == RowMatchesEvent /\ NoReminderWhenRecurring /\ LoadedIsCurrent

\* A scheduled row, if it is a new one, announces the start it was given.
LEMMA ScheduledMatches ==
  ASSUME NEW r, NEW start \in Starts, r.canceled = TRUE \/ ~r.exists,
         schedule(r, start).exists, ~schedule(r, start).canceled
  PROVE  schedule(r, start).fireAt = start - Lead
BY DEF schedule, Fresh, NoRow

\* An edit that runs alone leaves the reminder in step with the event.
LEMMA EditMatches ==
  ASSUME TypeOK, MatchInv, NEW u \in Updaters, \A v \in Updaters : v = u,
         \/ UpdateRead(u) \/ UpdateFails(u)
         \/ \E s \in Starts : UpdateDates(u, s) \/ MakeRecurring(u, s)
  PROVE  MatchInv'
<1> USE DEF MatchInv
<1>0. /\ event \in Event /\ row \in Row
      /\ event.exists \in BOOLEAN /\ event.recurring \in BOOLEAN
      /\ row.exists \in BOOLEAN /\ row.canceled \in BOOLEAN
  BY DEF TypeOK, Event, Row
<1>1. CASE UpdateRead(u)
  <2>1. UNCHANGED <<event, row>> BY <1>1 DEF UpdateRead
  <2>2. LoadedIsCurrent' BY <1>1 DEF UpdateRead, LoadedIsCurrent, TypeOK
  <2> QED BY <2>1, <2>2 DEF RowMatchesEvent, NoReminderWhenRecurring, Active
<1>a. ASSUME updater' = [updater EXCEPT ![u] = Away] PROVE LoadedIsCurrent'
  BY <1>a DEF LoadedIsCurrent, TypeOK, Away
<1>2. CASE UpdateFails(u)
  <2>1. UNCHANGED <<event, row>> BY <1>2 DEF UpdateFails
  <2> QED BY <1>2, <1>a, <2>1 DEF UpdateFails, RowMatchesEvent, NoReminderWhenRecurring, Active
<1>3. ASSUME NEW s \in Starts, UpdateDates(u, s)
      PROVE  MatchInv'
  <2>1. /\ updater[u].start = event.start /\ updater[u].recurring = event.recurring
        /\ event.exists /\ LoadedIsCurrent'
    BY <1>3, <1>a DEF UpdateDates, LoadedIsCurrent
  <2>2. CASE s = event.start
    <3>1. UNCHANGED <<event, row>> BY <1>3, <2>1, <2>2 DEF UpdateDates
    <3> QED BY <2>1, <3>1 DEF RowMatchesEvent, NoReminderWhenRecurring, Active
  <2>3. CASE s # event.start
    <3>1. event' = [event EXCEPT !.start = s] BY <1>3, <2>1, <2>3 DEF UpdateDates
    <3>2. /\ event'.start = s /\ event'.exists = event.exists
          /\ event'.recurring = event.recurring
      BY <1>0, <3>1 DEF Event
    <3>3. CASE event.recurring
      <4>1. ~Active /\ row' = row
        BY <1>3, <2>1, <2>3, <3>3 DEF UpdateDates, NoReminderWhenRecurring
      <4> QED BY <2>1, <4>1 DEF RowMatchesEvent, NoReminderWhenRecurring, Active
    <3>4. CASE ~event.recurring
      <4> DEFINE c == cancel_reminders_for_event(row)
      <4>1. row' = schedule(c, s)
        BY <1>3, <2>1, <2>3, <3>4 DEF UpdateDates, reschedule_event_reminders
      <4>2. c.canceled = TRUE \/ ~c.exists
        BY <1>0 DEF cancel_reminders_for_event, Row
      <4>3. Active' => row'.fireAt = s - Lead
        BY <4>1, <4>2, ScheduledMatches DEF Active
      <4> QED BY <2>1, <3>2, <3>4, <4>3 DEF RowMatchesEvent, NoReminderWhenRecurring
    <3> QED BY <3>3, <3>4
  <2> QED BY <2>2, <2>3
<1>4. ASSUME NEW s \in Starts, MakeRecurring(u, s)
      PROVE  MatchInv'
  <2>1. ~Active'
    BY <1>0, <1>4 DEF MakeRecurring, cancel_reminders_for_event, Active, Row
  <2>2. LoadedIsCurrent' BY <1>4, <1>a DEF MakeRecurring
  <2> QED BY <2>1, <2>2 DEF RowMatchesEvent, NoReminderWhenRecurring
<1> QED BY <1>1, <1>2, <1>3, <1>4

\* Everybody else leaves the event and what the row announces as they are, or
\* takes both away.
LEMMA OthersMatch ==
  ASSUME TypeOK, MatchInv,
         \/ delete_event
         \/ \E p \in Pollers : list_due_reminders(p) \/ Claim(p)
         \/ \E r \in Reconcilers : list_undispatched_reminders_missing_sqs_id(r)
         \/ \E d \in Dispatchers : Dispatch(d)
         \/ \E f \in FireAt : Deliver(f)
         \/ Tick \/ GraceEnds \/ UNCHANGED vars
  PROVE  MatchInv'
<1> USE DEF MatchInv
<1>0. /\ row \in Row /\ event \in Event
      /\ row.exists \in BOOLEAN /\ row.canceled \in BOOLEAN
  BY DEF TypeOK, Row, Event
<1>1. CASE delete_event
  <2>1. ~Active' /\ ~event'.exists
    BY <1>0, <1>1 DEF delete_event, Active, NoRow, Event
  <2> QED BY <2>1 DEF RowMatchesEvent, NoReminderWhenRecurring, LoadedIsCurrent
<1>2. ASSUME UNCHANGED <<event, updater>>,
             row'.exists \in BOOLEAN, row'.canceled = row.canceled,
             row'.exists = row.exists, row'.fireAt = row.fireAt
      PROVE  MatchInv'
  BY <1>2 DEF RowMatchesEvent, NoReminderWhenRecurring, LoadedIsCurrent, Active
<1>3. ASSUME UNCHANGED <<event, updater, row>> PROVE MatchInv'
  BY <1>0, <1>2, <1>3
<1>4. ASSUME NEW p \in Pollers, list_due_reminders(p) \/ Claim(p) PROVE MatchInv'
  <2>1. CASE list_due_reminders(p) BY <1>3, <2>1 DEF list_due_reminders
  <2>2. CASE Claim(p) /\ ~Claimable BY <1>3, <2>2 DEF Claim
  <2>3. CASE Claim(p) /\ Claimable BY <1>0, <1>2, <2>3 DEF Claim, Row
  <2> QED BY <1>4, <2>1, <2>2, <2>3
<1>5. ASSUME NEW d \in Dispatchers, Dispatch(d) PROVE MatchInv'
  <2>1. CASE Recheck(d) BY <1>3, <2>1 DEF Recheck
  <2>2. CASE Send(d) BY <1>3, <2>2 DEF Send
  <2>3. CASE Mark(d) BY <1>0, <1>2, <2>3 DEF Mark, Row
  <2>4. CASE Crash(d) BY <1>3, <2>4 DEF Crash
  <2> QED BY <1>5, <2>1, <2>2, <2>3, <2>4 DEF Dispatch
<1>6. CASE GraceEnds BY <1>0, <1>2, <1>6 DEF GraceEnds, Row
<1>7. CASE \/ \E r \in Reconcilers : list_undispatched_reminders_missing_sqs_id(r)
           \/ \E f \in FireAt : Deliver(f)
           \/ Tick \/ UNCHANGED vars
  BY <1>3, <1>7 DEF list_undispatched_reminders_missing_sqs_id, Deliver, Tick, vars
<1> QED BY <1>1, <1>4, <1>5, <1>6, <1>7

\* As long as edits do not overlap, the reminder, the event and what a worker
\* was given stay in step.
THEOREM ReminderMatches ==
  ASSUME \A u, v \in Updaters : u = v
  PROVE  Spec => []MatchInv
<1>1. Init => MatchInv
  <2> SUFFICES ASSUME Init PROVE MatchInv OBVIOUS
  <2>1. PICK s \in Starts : /\ event = [exists |-> TRUE, start |-> s, recurring |-> FALSE]
                            /\ row = schedule(NoRow, s)
    BY DEF Init
  <2>2. Active => row.fireAt = s - Lead
    BY <2>1, ScheduledMatches DEF Active, NoRow
  <2>3. LoadedIsCurrent BY DEF Init, LoadedIsCurrent, Away
  <2> QED BY <2>1, <2>2, <2>3 DEF MatchInv, RowMatchesEvent, NoReminderWhenRecurring
<1>2. TypeOK /\ MatchInv /\ [Next]_vars => MatchInv'
  BY EditMatches, OthersMatch DEF Next
<1> QED BY TypeCorrect, <1>1, <1>2, PTL DEF Spec

\* An active reminder announces the start its event has.
THEOREM RowFollowsEvent ==
  ASSUME \A u, v \in Updaters : u = v
  PROVE  Spec => []RowMatchesEvent
BY ReminderMatches, PTL DEF MatchInv

\* An event that has become recurring has no active reminder.
THEOREM RecurringHasNone ==
  ASSUME \A u, v \in Updaters : u = v
  PROVE  Spec => []NoReminderWhenRecurring
BY ReminderMatches, PTL DEF MatchInv

\* However late a message is read, its targets are handed out only for the
\* start the event has at that moment.
THEOREM DeliveryIsCurrent ==
  ASSUME \A u, v \in Updaters : u = v
  PROVE  Spec => DeliveredIsCurrent
<1> DEFINE Current == \A f \in FireAt :
             (f \notin delivered /\ f \in delivered') => event.exists /\ event.start - Lead = f
<1>1. MatchInv /\ [Next]_vars => Current
  <2> SUFFICES ASSUME MatchInv, [Next]_vars, NEW f \in FireAt, f \notin delivered, f \in delivered'
               PROVE  event.exists /\ event.start - Lead = f
    OBVIOUS
  <2>1. Deliver(f)
    BY DEF Next, vars, Deliver, UpdateRead, UpdateFails, UpdateDates, MakeRecurring, delete_event,
           list_due_reminders, Claim, list_undispatched_reminders_missing_sqs_id, Dispatch,
           Recheck, Send, Mark, Crash, Tick, GraceEnds
  <2> QED BY <2>1 DEF Deliver, _reminder_superseded, MatchInv, RowMatchesEvent
<1>2. MatchInv /\ [Next]_vars => [Current]_vars
  BY <1>1
<1> QED BY ReminderMatches, <1>2, PTL DEF Spec, DeliveredIsCurrent
-----------------------------------------------------------------------------
(* However the event is moved and whoever dies, what is sent early was       *)
(* claimed by a poller that had listed the row before it was moved.          *)

\* The time of the occurrence has come, or its row was claimed by mistake.
Timely(f) == f <= now \/ f \in misclaimed

\* Every dispatcher works on a timely occurrence, and so is a row that was claimed.
EarlyInv ==
  /\ \A d \in Dispatchers : dispatcher[d].pc # "idle" => Timely(dispatcher[d].fireAt)
  /\ row.exists /\ row.dispatched # "no" => Timely(row.fireAt)

\* An occurrence stays timely.
TimelyNext(f) == f <= now' \/ f \in misclaimed'

LEMMA StaysTimely ==
  ASSUME IInv, [Next]_vars
  PROVE  \A f \in FireAt : Timely(f) => TimelyNext(f)
<1>1. now \in Int /\ \A f \in FireAt : f \in Int
  BY FireTimes, ReminderAssumption DEF IInv, TypeOK
<1>2. now' = now \/ now' = now + 1
  BY DEF Next, vars, UpdateRead, UpdateFails, UpdateDates, MakeRecurring, delete_event,
         list_due_reminders, Claim, list_undispatched_reminders_missing_sqs_id, Dispatch,
         Recheck, Send, Mark, Crash, Deliver, Tick, GraceEnds
<1>3. misclaimed \subseteq misclaimed'
  BY DEF Next, vars, UpdateRead, UpdateFails, UpdateDates, MakeRecurring, delete_event,
         list_due_reminders, Claim, list_undispatched_reminders_missing_sqs_id, Dispatch,
         Recheck, Send, Mark, Crash, Deliver, Tick, GraceEnds
<1> QED BY <1>1, <1>2, <1>3 DEF Timely, TimelyNext

\* A row that is claimed after a step was claimed before it, for the same time,
\* unless a poller claims it now.
LEMMA RowClaimed ==
  ASSUME IInv, [Next]_vars, row'.exists, row'.dispatched # "no"
  PROVE  \/ row.exists /\ row.dispatched # "no" /\ row'.fireAt = row.fireAt
         \/ \E p \in Pollers : Claim(p) /\ Claimable
<1>0. row \in Row
  BY DEF IInv, TypeOK
<1>1. ASSUME NEW r \in Row, NEW start \in Starts, row' = schedule(r, start),
             r.exists = row.exists, r.fireAt = row.fireAt, r.dispatched = row.dispatched
      PROVE  row.exists /\ row.dispatched # "no" /\ row'.fireAt = row.fireAt
  BY <1>1 DEF schedule, Fresh, NoRow
<1>2. ASSUME NEW u \in Updaters,
             \/ UpdateRead(u) \/ UpdateFails(u)
             \/ \E s \in Starts : UpdateDates(u, s) \/ MakeRecurring(u, s)
      PROVE  row.exists /\ row.dispatched # "no" /\ row'.fireAt = row.fireAt
  <2>1. LET c == cancel_reminders_for_event(row)
        IN  /\ c \in Row /\ c.exists = row.exists /\ c.fireAt = row.fireAt
            /\ c.dispatched = row.dispatched
    BY <1>0 DEF cancel_reminders_for_event, Row
  <2>2. \/ row' \in {row, cancel_reminders_for_event(row)}
        \/ \E s \in Starts : row' = schedule(cancel_reminders_for_event(row), s)
    BY <1>2 DEF UpdateRead, UpdateFails, UpdateDates, MakeRecurring, reschedule_event_reminders
  <2> QED BY <1>1, <2>1, <2>2
<1>3. CASE delete_event \/ Tick \/ GraceEnds \/ UNCHANGED vars \/ \E f \in FireAt : Deliver(f)
  <2>1. CASE delete_event
    BY <2>1 DEF delete_event, NoRow
  <2>2. CASE GraceEnds
    BY <1>0, <2>2 DEF GraceEnds, Row
  <2>3. CASE Tick \/ UNCHANGED vars \/ \E f \in FireAt : Deliver(f)
    BY <2>3 DEF Tick, vars, Deliver
  <2> QED BY <1>3, <2>1, <2>2, <2>3
<1>4. ASSUME NEW d \in Dispatchers,
             \/ list_due_reminders(d) \/ list_undispatched_reminders_missing_sqs_id(d)
             \/ Dispatch(d)
      PROVE  row.exists /\ row.dispatched # "no" /\ row'.fireAt = row.fireAt
  <2>1. row' = row \/ row' = [row EXCEPT !.recorded = row.exists]
    BY <1>4 DEF list_due_reminders, list_undispatched_reminders_missing_sqs_id, Dispatch,
                Recheck, Send, Mark, Crash
  <2> QED BY <1>0, <2>1 DEF Row
<1>5. ASSUME NEW p \in Pollers, Claim(p), ~Claimable
      PROVE  row' = row
  BY <1>5 DEF Claim
<1> QED
  <2>1. Next \/ UNCHANGED vars
    OBVIOUS
  <2> QED BY <2>1, <1>2, <1>3, <1>4, <1>5 DEF Next, Dispatchers

\* A dispatcher at work was at work on the same occurrence before the step,
\* unless it has listed the row just now.
LEMMA DispatcherListed ==
  ASSUME IInv, [Next]_vars, NEW d \in Dispatchers, dispatcher'[d].pc # "idle"
  PROVE  \/ dispatcher[d].pc # "idle" /\ dispatcher'[d].fireAt = dispatcher[d].fireAt
         \/ list_due_reminders(d) /\ dispatcher'[d].fireAt = row.fireAt
         \/ list_undispatched_reminders_missing_sqs_id(d) /\ dispatcher'[d].fireAt = row.fireAt
<1>0. dispatcher \in [Dispatchers -> Dispatcher] /\ dispatcher[d] \in Dispatcher
  BY DEF IInv, TypeOK
<1>1. CASE UNCHANGED dispatcher
  BY <1>1
<1>2. ASSUME NEW c \in Dispatchers,
             list_due_reminders(c) \/ list_undispatched_reminders_missing_sqs_id(c)
      PROVE  \/ dispatcher[d].pc # "idle" /\ dispatcher'[d].fireAt = dispatcher[d].fireAt
             \/ c = d /\ dispatcher'[d].fireAt = row.fireAt
  BY <1>0, <1>2 DEF list_due_reminders, list_undispatched_reminders_missing_sqs_id
<1>3. ASSUME NEW c \in Dispatchers, Claim(c) \/ Dispatch(c)
      PROVE  dispatcher[d].pc # "idle" /\ dispatcher'[d].fireAt = dispatcher[d].fireAt
  <2>1. dispatcher[c].pc # "idle" /\ (Stop(c) \/ \E pc : Goto(c, pc))
    BY <1>3 DEF Claim, Dispatch, Recheck, Send, Mark, Crash
  <2>2. CASE Stop(c)
    BY <1>0, <2>1, <2>2 DEF Stop, Idle
  <2>3. ASSUME NEW pc, Goto(c, pc)
        PROVE  dispatcher[d].pc # "idle" /\ dispatcher'[d].fireAt = dispatcher[d].fireAt
    <3>1. dispatcher' = [dispatcher EXCEPT ![c] = [dispatcher[c] EXCEPT !.pc = pc]]
      BY <2>3 DEF Goto
    <3>2. [dispatcher[d] EXCEPT !.pc = pc].fireAt = dispatcher[d].fireAt
      BY <1>0 DEF Dispatcher
    <3>3. c = d \/ dispatcher'[d] = dispatcher[d]
      BY <1>0, <3>1
    <3> QED BY <1>0, <2>1, <3>1, <3>2, <3>3
  <2> QED BY <2>1, <2>2, <2>3
<1> QED
  <2>1. \/ UNCHANGED dispatcher
        \/ \E c \in Dispatchers : \/ list_due_reminders(c) \/ Claim(c) \/ Dispatch(c)
                                   \/ list_undispatched_reminders_missing_sqs_id(c)
    BY DEF Next, vars, UpdateRead, UpdateFails, UpdateDates, MakeRecurring, delete_event,
           Deliver, Tick, GraceEnds, Dispatchers
  <2> QED BY <2>1, <1>1, <1>2, <1>3

LEMMA StepKeepsEarly ==
  ASSUME IInv, EarlyInv, [Next]_vars
  PROVE  EarlyInv'
<1>1. ASSUME NEW d \in Dispatchers, dispatcher'[d].pc # "idle"
      PROVE  TimelyNext(dispatcher'[d].fireAt)
  <2>1. CASE dispatcher[d].pc # "idle" /\ dispatcher'[d].fireAt = dispatcher[d].fireAt
    BY <2>1, StaysTimely DEF IInv, Dated, EarlyInv
  <2>2. CASE list_due_reminders(d) /\ dispatcher'[d].fireAt = row.fireAt
    BY <2>2, StaysTimely DEF list_due_reminders, Due, Active, IInv, Dated, Timely
  <2>3. CASE list_undispatched_reminders_missing_sqs_id(d) /\ dispatcher'[d].fireAt = row.fireAt
    BY <2>3, StaysTimely
       DEF list_undispatched_reminders_missing_sqs_id, Stuck, Active, IInv, Dated, EarlyInv
  <2> QED BY <1>1, <2>1, <2>2, <2>3, DispatcherListed
<1>2. ASSUME row'.exists, row'.dispatched # "no"
      PROVE  TimelyNext(row'.fireAt)
  <2>1. CASE row.exists /\ row.dispatched # "no" /\ row'.fireAt = row.fireAt
    BY <2>1, StaysTimely DEF IInv, Dated, EarlyInv
  <2>2. ASSUME NEW p \in Pollers, Claim(p), Claimable
        PROVE  TimelyNext(row'.fireAt)
    <3>1. /\ row'.fireAt = row.fireAt /\ row.fireAt \in FireAt
          /\ misclaimed' = misclaimed \cup ({row.fireAt} \ {dispatcher[p].fireAt})
          /\ dispatcher[p].pc # "idle"
      BY <2>2 DEF Claim, Claimable, Active, IInv, TypeOK, Dated, Row
    <3>2. CASE row.fireAt = dispatcher[p].fireAt
      BY <3>1, <3>2, StaysTimely DEF EarlyInv, Dispatchers
    <3>3. CASE row.fireAt # dispatcher[p].fireAt
      BY <3>1, <3>3 DEF TimelyNext
    <3> QED BY <3>2, <3>3
  <2> QED BY <1>2, <2>1, <2>2, RowClaimed
<1> QED BY <1>1, <1>2 DEF EarlyInv, Timely, TimelyNext

\* However the event is moved and whoever dies, an occurrence is announced before
\* its time only if a poller claimed its row that had listed another occurrence.
THEOREM EarlySends == Spec => EarlyOnlyByStaleClaim
<1> DEFINE Known == \A f \in FireAt : SendsEarly(f) => f \in misclaimed
<1>1. Init => EarlyInv
  BY DEF Init, EarlyInv, Idle, schedule, Fresh, NoRow
<1>2. IInv /\ EarlyInv /\ [Next]_vars => EarlyInv'
  BY StepKeepsEarly
<1>3. IInv /\ EarlyInv /\ [Next]_vars => [Known]_vars
  <2> SUFFICES ASSUME IInv, EarlyInv, Next PROVE Known OBVIOUS
  <2>1. UNCHANGED queue \/ \E d \in Dispatchers : Send(d)
    BY DEF Next, UpdateRead, UpdateFails, UpdateDates, MakeRecurring, delete_event,
           list_due_reminders, Claim, list_undispatched_reminders_missing_sqs_id,
           Dispatch, Recheck, Mark, Crash, Deliver, Tick, GraceEnds
  <2>2. now \in Int /\ \A f \in FireAt : f \in Int
    BY FireTimes, ReminderAssumption DEF IInv, TypeOK
  <2> QED BY <2>1, <2>2 DEF Send, EarlyInv, Timely, SendsEarly
<1> QED BY Invariance, <1>1, <1>2, <1>3, PTL DEF Spec, EarlyOnlyByStaleClaim

-----------------------------------------------------------------------------
(* Where the dates of the event stay as they are, every dispatcher works on  *)
(* the occurrence of the row.                                                *)

\* Every dispatcher works on an occurrence whose time has come, which is that of
\* the row as long as there is one; and so is a row that was claimed.
Come ==
  /\ \A d \in Dispatchers : dispatcher[d].pc # "idle" =>
       /\ dispatcher[d].fireAt <= now
       /\ row.exists => dispatcher[d].fireAt = row.fireAt
  /\ row.exists /\ row.dispatched # "no" => row.fireAt <= now

\* Time passing, the loss of the row and a change of its other columns keep Come.
LEMMA RowStaysCome ==
  ASSUME IInv, Come, UNCHANGED dispatcher, now' \in Int, now <= now',
         row'.exists => row.exists /\ row'.fireAt = row.fireAt
                        /\ (row'.dispatched = "no" <=> row.dispatched = "no")
  PROVE  Come'
<1>1. now \in Int
  BY ReminderAssumption DEF IInv, TypeOK
<1>2. row.exists => row.fireAt \in Int
  BY FireTimes DEF IInv, Dated
<1>3. \A d \in Dispatchers : dispatcher[d].pc # "idle" => dispatcher[d].fireAt \in Int
  BY FireTimes DEF IInv, Dated
<1> QED BY <1>1, <1>2, <1>3 DEF Come

\* One dispatcher takes a step, on what it already works on or on the row.
LEMMA DispatcherComes ==
  ASSUME IInv, Come, NEW d \in Dispatchers, now' = now,
         row'.exists = row.exists, row'.fireAt = row.fireAt,
         row'.dispatched # "no" => row.dispatched # "no" \/ dispatcher[d].pc # "idle",
         NEW e, dispatcher' = [dispatcher EXCEPT ![d] = e],
         \/ e.pc = "idle"
         \/ dispatcher[d].pc # "idle" /\ e.fireAt = dispatcher[d].fireAt
         \/ row.exists /\ row.fireAt <= now /\ e.fireAt = row.fireAt
  PROVE  Come'
<1>1. \A c \in Dispatchers : dispatcher'[c] = IF c = d THEN e ELSE dispatcher[c]
  BY DEF IInv, TypeOK
<1> QED BY <1>1 DEF Come

LEMMA StepComes ==
  ASSUME IInv, Come, ~MayReschedule, [Next]_vars
  PROVE  Come'
<1>0. now \in Int /\ EndOfTime \in Int /\ row \in Row
  BY ReminderAssumption DEF IInv, TypeOK
<1>1. ASSUME NEW u \in Updaters,
             \/ UpdateRead(u) \/ UpdateFails(u)
             \/ \E s \in Starts : UpdateDates(u, s) \/ MakeRecurring(u, s)
      PROVE  Come'
  <2>1. UNCHANGED <<now, dispatcher>> /\ row' \in {row, cancel_reminders_for_event(row)}
    BY <1>1 DEF UpdateRead, UpdateFails, UpdateDates, MakeRecurring
  <2> QED BY <1>0, <2>1, RowStaysCome DEF cancel_reminders_for_event, Row
<1>2. CASE delete_event \/ Tick \/ GraceEnds \/ UNCHANGED vars \/ \E f \in FireAt : Deliver(f)
  <2>1. /\ UNCHANGED dispatcher /\ now' \in {now, now + 1}
        /\ \/ row' = row \/ row' = NoRow
           \/ row.dispatched = "fresh" /\ row' = [row EXCEPT !.dispatched = "old"]
    BY <1>2 DEF delete_event, Tick, GraceEnds, vars, Deliver
  <2> QED BY <1>0, <2>1, RowStaysCome DEF NoRow, Row
<1>3. ASSUME NEW d \in Dispatchers,
             \/ list_due_reminders(d) \/ Claim(d)
             \/ list_undispatched_reminders_missing_sqs_id(d)
             \/ Dispatch(d)
      PROVE  Come'
  <2>1. CASE list_due_reminders(d)
    BY <2>1, <1>0, DispatcherComes DEF list_due_reminders, Due, Active
  <2>2. CASE list_undispatched_reminders_missing_sqs_id(d)
    BY <2>2, <1>0, DispatcherComes DEF list_undispatched_reminders_missing_sqs_id, Stuck, Active, Come
  <2>3. dispatcher[d] \in Dispatcher
    BY DEF IInv, TypeOK
  <2>4. CASE Claim(d) \/ Dispatch(d)
    <3>1. dispatcher[d].pc # "idle" /\ now' = now
      BY <2>4 DEF Claim, Dispatch, Recheck, Send, Mark, Crash
    <3>2. row'.exists = row.exists /\ row'.fireAt = row.fireAt
      BY <1>0, <2>4 DEF Claim, Dispatch, Recheck, Send, Mark, Crash, Row
    <3>3. PICK pc : dispatcher' \in {[dispatcher EXCEPT ![d] = Idle],
                                     [dispatcher EXCEPT ![d].pc = pc]}
      BY <2>4 DEF Claim, Dispatch, Recheck, Send, Mark, Crash, Goto, Stop
    <3>4. CASE dispatcher' = [dispatcher EXCEPT ![d] = Idle]
      BY <3>1, <3>2, <3>4, DispatcherComes DEF Idle
    <3>5. CASE dispatcher' = [dispatcher EXCEPT ![d].pc = pc]
      <4>1. dispatcher' = [dispatcher EXCEPT ![d] = [dispatcher[d] EXCEPT !.pc = pc]]
        BY <3>5
      <4>2. [dispatcher[d] EXCEPT !.pc = pc].fireAt = dispatcher[d].fireAt
        BY <2>3 DEF Dispatcher
      <4> QED BY <3>1, <3>2, <4>1, <4>2, DispatcherComes
    <3> QED BY <3>3, <3>4, <3>5
  <2> QED BY <1>3, <2>1, <2>2, <2>4
<1> QED
  <2>1. Next \/ UNCHANGED vars
    OBVIOUS
  <2> QED BY <2>1, <1>1, <1>2, <1>3 DEF Next, Dispatchers

\* Come holds in every reachable state.
THEOREM ComeInvariance == ASSUME ~MayReschedule PROVE Spec => []Come
<1>1. Init => Come
  <2> SUFFICES ASSUME Init PROVE Come OBVIOUS
  <2>1. row.dispatched = "no"
    BY DEF Init, schedule, Fresh, NoRow
  <2> QED BY <2>1 DEF Init, Come, Idle
<1>2. IInv /\ Come /\ [Next]_vars => Come'
  BY StepComes
<1> QED BY <1>1, <1>2, Invariance, PTL DEF Spec

-----------------------------------------------------------------------------
(* What DueIsSent rests on: nothing stops the retries before the reminder is  *)
(* sent.                                                                       *)

\* A dispatcher that is about to record an id has sent; and an id in the row of a
\* reminder is that of a message for its occurrence.
SentInv ==
  /\ \A d \in Dispatchers : dispatcher[d].pc = "mark" => dispatcher[d].fireAt \in queue
  /\ row.exists /\ row.recorded => row.fireAt \in queue

LEMMA RowStaysSent ==
  ASSUME SentInv, UNCHANGED <<dispatcher, queue>>,
         row'.exists => row.exists /\ row'.fireAt = row.fireAt /\ row'.recorded = row.recorded
  PROVE  SentInv'
  BY DEF SentInv

LEMMA StepKeepsSent ==
  ASSUME IInv, Come, SentInv, ~MayReschedule, [Next]_vars
  PROVE  SentInv'
<1>0. row \in Row /\ dispatcher \in [Dispatchers -> Dispatcher]
  BY DEF IInv, TypeOK
<1>1. ASSUME NEW u \in Updaters,
             \/ UpdateRead(u) \/ UpdateFails(u)
             \/ \E s \in Starts : UpdateDates(u, s) \/ MakeRecurring(u, s)
      PROVE  SentInv'
  <2>1. UNCHANGED <<dispatcher, queue>> /\ row' \in {row, cancel_reminders_for_event(row)}
    BY <1>1 DEF UpdateRead, UpdateFails, UpdateDates, MakeRecurring
  <2> QED BY <1>0, <2>1, RowStaysSent DEF cancel_reminders_for_event, Row
<1>2. CASE delete_event \/ Tick \/ GraceEnds \/ UNCHANGED vars \/ \E f \in FireAt : Deliver(f)
  <2>1. /\ UNCHANGED <<dispatcher, queue>>
        /\ row' \in {row, NoRow, [row EXCEPT !.dispatched = "old"]}
    BY <1>2 DEF delete_event, Tick, GraceEnds, vars, Deliver
  <2> QED BY <1>0, <2>1, RowStaysSent DEF NoRow, Row
<1>3. ASSUME NEW d \in Dispatchers,
             \/ list_due_reminders(d) \/ list_undispatched_reminders_missing_sqs_id(d)
             \/ Claim(d) \/ Recheck(d) \/ Crash(d)
      PROVE  SentInv'
  <2>1. /\ queue' = queue /\ row' \in {row, [row EXCEPT !.dispatched = "fresh"]}
    BY <1>3 DEF list_due_reminders, list_undispatched_reminders_missing_sqs_id, Claim,
                Recheck, Crash
  <2>2. \A c \in Dispatchers : dispatcher'[c].pc = "mark" => dispatcher'[c] = dispatcher[c]
    <3>1. dispatcher[d] \in Dispatcher
      BY <1>0
    <3>2. \A pc \in {"recheck", "send"} : [dispatcher[d] EXCEPT !.pc = pc].pc # "mark"
      BY <3>1 DEF Dispatcher
    <3>3. \/ Stop(d) \/ \E pc \in {"recheck", "send"} : Goto(d, pc)
          \/ \E pc \in {"claim", "recheck"} :
               dispatcher' = [dispatcher EXCEPT ![d] = [pc |-> pc, fireAt |-> row.fireAt]]
      BY <1>3 DEF list_due_reminders, list_undispatched_reminders_missing_sqs_id, Claim,
                  Recheck, Crash
    <3>4. dispatcher'[d].pc # "mark" /\ \A c \in Dispatchers \ {d} : dispatcher'[c] = dispatcher[c]
      <4>1. CASE Stop(d)
        BY <1>0, <4>1 DEF Stop, Idle
      <4>2. ASSUME NEW pc \in {"recheck", "send"}, Goto(d, pc)
            PROVE  /\ dispatcher'[d].pc # "mark"
                   /\ \A c \in Dispatchers \ {d} : dispatcher'[c] = dispatcher[c]
        <5>1. dispatcher' = [dispatcher EXCEPT ![d] = [dispatcher[d] EXCEPT !.pc = pc]]
          BY <4>2 DEF Goto
        <5> QED BY <1>0, <3>2, <5>1
      <4>3. ASSUME NEW pc \in {"claim", "recheck"},
                   dispatcher' = [dispatcher EXCEPT ![d] = [pc |-> pc, fireAt |-> row.fireAt]]
            PROVE  /\ dispatcher'[d].pc # "mark"
                   /\ \A c \in Dispatchers \ {d} : dispatcher'[c] = dispatcher[c]
        BY <1>0, <4>3
      <4> QED BY <3>3, <4>1, <4>2, <4>3
    <3> QED BY <3>4
  <2>3. row'.exists = row.exists /\ row'.fireAt = row.fireAt /\ row'.recorded = row.recorded
    BY <1>0, <2>1 DEF Row
  <2> QED BY <2>1, <2>2, <2>3 DEF SentInv
<1>4. ASSUME NEW d \in Dispatchers, Send(d) PROVE SentInv'
  <2>1. dispatcher[d] \in Dispatcher
    BY <1>0
  <2>2. /\ queue' = queue \cup {dispatcher[d].fireAt} /\ row' = row
        /\ \A c \in Dispatchers : dispatcher'[c] =
             IF c = d THEN [dispatcher[d] EXCEPT !.pc = "mark"] ELSE dispatcher[c]
    BY <1>0, <1>4 DEF Send, Goto
  <2>3. [dispatcher[d] EXCEPT !.pc = "mark"].fireAt = dispatcher[d].fireAt
    BY <2>1 DEF Dispatcher
  <2> QED BY <2>2, <2>3 DEF SentInv
<1>5. ASSUME NEW d \in Dispatchers, Mark(d) PROVE SentInv'
  <2>1. /\ dispatcher[d].pc = "mark" /\ queue' = queue
        /\ row'.exists = row.exists /\ row'.fireAt = row.fireAt
        /\ \A c \in Dispatchers : dispatcher'[c].pc = "mark" => dispatcher'[c] = dispatcher[c]
    BY <1>0, <1>5 DEF Mark, Stop, Idle, Row
  <2>2. row.exists => row.fireAt \in queue
    BY <2>1 DEF Come, SentInv
  <2> QED BY <2>1, <2>2 DEF SentInv
<1> QED
  <2>1. Next \/ UNCHANGED vars
    OBVIOUS
  <2> QED BY <2>1, <1>1, <1>2, <1>3, <1>4, <1>5 DEF Next, Dispatch, Dispatchers

\* No reminder of an event whose dates stay as they are is given up before it was
\* sent: the message id, which ends the retries of the reconcile, is there only when
\* the message reached SQS, wherever a dispatcher died.  (Once the event is moved, the
\* id of the old occurrence may land on the new row.)
THEOREM NeverGivenUp ==
  ASSUME ~MayReschedule
  PROVE  Spec => [](row.exists /\ row.recorded => row.fireAt \in queue)
<1>1. Init => SentInv
  BY DEF Init, SentInv, Idle, schedule, Fresh, NoRow
<1>2. IInv /\ Come /\ SentInv /\ [Next]_vars => SentInv'
  BY StepKeepsSent
<1>3. SentInv => (row.exists /\ row.recorded => row.fireAt \in queue)
  BY DEF SentInv
<1> QED BY <1>1, <1>2, <1>3, Invariance, ComeInvariance, PTL DEF Spec
=============================================================================
