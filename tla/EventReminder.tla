--------------------------- MODULE EventReminder ---------------------------
(***************************************************************************)
(* One reminder of one event: the row (event_id, reminder_type) of         *)
(* event_reminders, from the event that schedules it to the targets handed *)
(* to the push worker.  The two reminder types have a row each and differ  *)
(* only in Lead.                                                           *)
(*                                                                         *)
(* Pollers (dispatch_due_event_reminders, in the scheduler of each replica)*)
(* list a due row, claim it, look at it again, send to SQS and record the  *)
(* message id, each in a transaction of its own.  Reconcilers come back to *)
(* a claim that has no message id after the grace period.  Meanwhile the   *)
(* event is edited, and its reminder canceled or rescheduled.              *)
(***************************************************************************)
EXTENDS Integers

CONSTANTS Pollers, Reconcilers,
          Updaters,   \* handlers editing the event at the same time
          Lead,       \* how long before its start the event is announced
          Starts,     \* the start dates an author may choose
          EndOfTime,  \* bounds the clock
          MayReschedule, MayCrash,
          None

ASSUME ReminderAssumption ==
  /\ Lead \in Nat /\ EndOfTime \in Nat /\ Starts \subseteq Nat
  /\ Pollers \cap Reconcilers = {}
  /\ MayReschedule \in BOOLEAN /\ MayCrash \in BOOLEAN
  /\ None \notin Int

VARIABLES
  now,
  event,      \* the events row
  row,        \* the event_reminders row
  dispatcher, \* where each poller and reconciler stands
  updater,    \* what each editing handler loaded
  queue,      \* fire_at of every message that reached SQS
  delivered,  \* fire_at of every message whose targets were handed out
  misclaimed  \* history: fire_at of every row claimed by a poller that had listed another

vars == <<now, event, row, dispatcher, updater, queue, delivered, misclaimed>>

Dispatchers == Pollers \cup Reconcilers
FireAt == {s - Lead : s \in Starts}
Event == [exists : BOOLEAN, start : Starts, recurring : BOOLEAN]
\* dispatched_at: not set, or set less or more than the grace period ago.
Row == [exists : BOOLEAN, fireAt : FireAt \cup {None}, dispatched : {"no", "fresh", "old"},
        recorded : BOOLEAN, canceled : BOOLEAN]
Dispatcher == [pc : {"idle", "claim", "recheck", "send", "mark"}, fireAt : FireAt \cup {None}]
Updater == [editing : BOOLEAN, start : Starts \cup {None}, recurring : BOOLEAN]

NoRow == [exists |-> FALSE, fireAt |-> None, dispatched |-> "no",
          recorded |-> FALSE, canceled |-> FALSE]
Idle == [pc |-> "idle", fireAt |-> None]
Away == [editing |-> FALSE, start |-> None, recurring |-> FALSE]

Fresh(fireAt) == [NoRow EXCEPT !.exists = TRUE, !.fireAt = fireAt]
Active == row.exists /\ ~row.canceled

\* schedule_event_reminders: a fire time that has passed creates nothing.
schedule(r, start) == IF start - Lead > now THEN Fresh(start - Lead) ELSE r

\* create_event_service, for an event that does not recur.
Init ==
  /\ now = 0
  /\ \E s \in Starts : /\ event = [exists |-> TRUE, start |-> s, recurring |-> FALSE]
                       /\ row = schedule(NoRow, s)
  /\ dispatcher = [d \in Dispatchers |-> Idle]
  /\ updater = [u \in Updaters |-> Away]
  /\ queue = {} /\ delivered = {} /\ misclaimed = {}

-----------------------------------------------------------------------------
(* Editing the event.  The handler loads it, and writes the event and its   *)
(* reminder in one transaction; the ORM writes a column only when it        *)
(* differs from what was loaded.                                            *)

\* Mutant: a canceled row forgets when it would have fired.
cancel_reminders_for_event_clearing(r) == [r EXCEPT !.canceled = r.exists, !.fireAt = now - 1]

cancel_reminders_for_event(r) == [r EXCEPT !.canceled = r.exists]

\* Mutant: the old row is not canceled first.
reschedule_event_reminders_noCancel(r, start) == schedule(r, start)

reschedule_event_reminders(r, start) == schedule(cancel_reminders_for_event(r), start)

UpdateRead(u) ==
  /\ ~updater[u].editing /\ event.exists
  /\ updater' = [updater EXCEPT ![u] = [editing |-> TRUE, start |-> event.start,
                                        recurring |-> event.recurring]]
  /\ UNCHANGED <<now, event, row, dispatcher, queue, delivered, misclaimed>>

\* _apply_date_only_update and _sync_event_reminders.
UpdateDates(u, start) ==
  /\ updater[u].editing /\ event.exists
  /\ MayReschedule \/ start = updater[u].start
  /\ event' = IF start = updater[u].start THEN event ELSE [event EXCEPT !.start = start]
  /\ row' = IF start # updater[u].start /\ ~updater[u].recurring
            THEN reschedule_event_reminders(row, start) ELSE row
  /\ updater' = [updater EXCEPT ![u] = Away]
  /\ UNCHANGED <<now, dispatcher, queue, delivered, misclaimed>>

\* Mutant: the reminder of the event is left as it is.
MakeRecurring_keepsReminder(u, start) ==
  /\ updater[u].editing /\ event.exists
  /\ event' = [event EXCEPT !.recurring = TRUE,
                            !.start = IF start = updater[u].start THEN @ ELSE start]
  /\ updater' = [updater EXCEPT ![u] = Away]
  /\ UNCHANGED <<now, row, dispatcher, queue, delivered, misclaimed>>

\* _apply_recurrence_update: the next occurrence becomes the start.
MakeRecurring(u, start) ==
  /\ updater[u].editing /\ event.exists
  /\ event' = [event EXCEPT !.recurring = TRUE,
                            !.start = IF start = updater[u].start THEN @ ELSE start]
  /\ row' = cancel_reminders_for_event(row)
  /\ updater' = [updater EXCEPT ![u] = Away]
  /\ UNCHANGED <<now, dispatcher, queue, delivered, misclaimed>>

\* The event was deleted under the handler, or its transaction is refused.
UpdateFails(u) ==
  /\ updater[u].editing
  /\ updater' = [updater EXCEPT ![u] = Away]
  /\ UNCHANGED <<now, event, row, dispatcher, queue, delivered, misclaimed>>

\* The reminder goes with its event (ON DELETE CASCADE).
delete_event ==
  /\ event.exists
  /\ event' = [event EXCEPT !.exists = FALSE]
  /\ row' = NoRow
  /\ UNCHANGED <<now, dispatcher, updater, queue, delivered, misclaimed>>

-----------------------------------------------------------------------------
(* Dispatching *)

Goto(d, pc) == dispatcher' = [dispatcher EXCEPT ![d].pc = pc]
Stop(d) == dispatcher' = [dispatcher EXCEPT ![d] = Idle]

\* Mutant: the fire time is not looked at.
Due_anyTime == Active /\ row.dispatched = "no"

Due == Active /\ row.dispatched = "no" /\ row.fireAt <= now

list_due_reminders(p) ==
  /\ dispatcher[p].pc = "idle" /\ Due
  /\ dispatcher' = [dispatcher EXCEPT ![p] = [pc |-> "claim", fireAt |-> row.fireAt]]
  /\ UNCHANGED <<now, event, row, updater, queue, delivered, misclaimed>>

\* Mutant: a row that is claimed may be claimed again.
Claimable_again == Active

Claimable == Active /\ row.dispatched = "no"

\* claim_reminder_for_dispatch goes by the id of the row, whatever its fire_at
\* has become since it was listed.
Claim(p) ==
  /\ dispatcher[p].pc = "claim"
  /\ IF Claimable THEN /\ row' = [row EXCEPT !.dispatched = "fresh"]
                       /\ misclaimed' = misclaimed \cup ({row.fireAt} \ {dispatcher[p].fireAt})
                       /\ Goto(p, "recheck")
                  ELSE Stop(p) /\ UNCHANGED <<row, misclaimed>>
  /\ UNCHANGED <<now, event, updater, queue, delivered>>

\* Mutant: only a claim that was never made is picked up.
Stuck_unclaimed == Active /\ row.dispatched = "no" /\ ~row.recorded

Stuck == Active /\ row.dispatched = "old" /\ ~row.recorded

list_undispatched_reminders_missing_sqs_id(r) ==
  /\ dispatcher[r].pc = "idle" /\ Stuck
  /\ dispatcher' = [dispatcher EXCEPT ![r] = [pc |-> "recheck", fireAt |-> row.fireAt]]
  /\ UNCHANGED <<now, event, row, updater, queue, delivered, misclaimed>>

_reminder_still_due(d) == Active /\ row.fireAt = dispatcher[d].fireAt

Recheck(d) ==
  /\ dispatcher[d].pc = "recheck"
  /\ IF _reminder_still_due(d) THEN Goto(d, "send") ELSE Stop(d)
  /\ UNCHANGED <<now, event, row, updater, queue, delivered, misclaimed>>

Send(d) ==
  /\ dispatcher[d].pc = "send"
  /\ queue' = queue \cup {dispatcher[d].fireAt}
  /\ Goto(d, "mark")
  /\ UNCHANGED <<now, event, row, updater, delivered, misclaimed>>

\* mark_reminder_sqs_message_id goes by the id of the row, too.
Mark(d) ==
  /\ dispatcher[d].pc = "mark"
  /\ row' = [row EXCEPT !.recorded = row.exists]
  /\ Stop(d)
  /\ UNCHANGED <<now, event, updater, queue, delivered, misclaimed>>

\* SQS refuses the message, or the process dies.
Crash(d) ==
  /\ MayCrash /\ dispatcher[d].pc # "idle"
  /\ Stop(d)
  /\ UNCHANGED <<now, event, row, updater, queue, delivered, misclaimed>>

-----------------------------------------------------------------------------
(* The worker asks for the targets of a message it received, any number of  *)
(* times (get_event_reminder_targets).                                      *)

\* Mutant: only a canceled reminder counts as superseded.
_reminder_superseded_ifCanceled(fireAt) == ~Active

_reminder_superseded(fireAt) == ~Active \/ row.fireAt # fireAt

Deliver(fireAt) ==
  /\ fireAt \in queue /\ event.exists
  /\ ~_reminder_superseded(fireAt)
  /\ delivered' = delivered \cup {fireAt}
  /\ UNCHANGED <<now, event, row, dispatcher, updater, queue, misclaimed>>

-----------------------------------------------------------------------------
Tick ==
  /\ now < EndOfTime
  /\ now' = now + 1
  /\ UNCHANGED <<event, row, dispatcher, updater, queue, delivered, misclaimed>>

GraceEnds ==
  /\ row.dispatched = "fresh"
  /\ row' = [row EXCEPT !.dispatched = "old"]
  /\ UNCHANGED <<now, event, dispatcher, updater, queue, delivered, misclaimed>>

Dispatch(d) == Recheck(d) \/ Send(d) \/ Mark(d) \/ Crash(d)

Next ==
  \/ \E u \in Updaters :
       \/ UpdateRead(u) \/ UpdateFails(u)
       \/ \E s \in Starts : UpdateDates(u, s) \/ MakeRecurring(u, s)
  \/ delete_event
  \/ \E p \in Pollers : list_due_reminders(p) \/ Claim(p)
  \/ \E r \in Reconcilers : list_undispatched_reminders_missing_sqs_id(r)
  \/ \E d \in Dispatchers : Dispatch(d)
  \/ \E f \in FireAt : Deliver(f)
  \/ Tick \/ GraceEnds

Spec == Init /\ [][Next]_vars

(* Time passes, the scheduler runs both jobs on every interval, and a run   *)
(* goes on until it is done or dies.  SQS takes a message that is offered   *)
(* again and again (SF of Send).  Nobody is obliged to edit the event, nor  *)
(* the worker to ask.                                                       *)
Fairness ==
  /\ WF_vars(Tick) /\ WF_vars(GraceEnds)
  /\ \A p \in Pollers : WF_vars(list_due_reminders(p)) /\ SF_vars(Claim(p))
  /\ \A r \in Reconcilers : WF_vars(list_undispatched_reminders_missing_sqs_id(r))
  /\ \A d \in Dispatchers : WF_vars(Dispatch(d)) /\ SF_vars(Send(d)) /\ SF_vars(Recheck(d))
FairSpec == Spec /\ Fairness

-----------------------------------------------------------------------------
(* Properties *)

\* Every variable has its type.
TypeOK ==
  /\ now \in 0 .. EndOfTime
  /\ event \in Event /\ row \in Row
  /\ dispatcher \in [Dispatchers -> Dispatcher]
  /\ updater \in [Updaters -> Updater]
  /\ queue \subseteq FireAt /\ delivered \subseteq FireAt /\ misclaimed \subseteq FireAt

\* An active reminder announces the start its event has now.
RowMatchesEvent == Active => event.exists /\ row.fireAt = event.start - Lead

\* "Reminders are out of scope for recurring events": they have no active one.
NoReminderWhenRecurring == Active => ~event.recurring

\* "Overlapping poll cycles across replicas don't double-enqueue": two pollers
\* are never about to send the same occurrence.
OnePollerSends ==
  \A p, q \in Pollers :
    (/\ dispatcher[p].pc = "send" /\ dispatcher[q].pc = "send"
     /\ dispatcher[p].fireAt = dispatcher[q].fireAt) => p = q

\* Targets are handed out only for the occurrence the event is scheduled for
\* at that moment, however long the message was queued.
DeliveredIsCurrent ==
  [][\A f \in FireAt :
       (f \notin delivered /\ f \in delivered')
         => event.exists /\ event.start - Lead = f]_vars

\* The poll is for "reminders whose fire_at has passed", and a rescheduled one
\* waits for "its own next due poll": nothing is sent before its time.  (A
\* reminder moved to a later date under a stale claim is.)
SendsEarly(f) == f \notin queue /\ f \in queue' /\ f > now
NeverEarly == [][\A f \in FireAt : ~SendsEarly(f)]_vars

\* However the event is moved and whoever dies, there is one way for an
\* occurrence to be announced early: a poller that had listed another occurrence
\* claimed the row after it was moved, which leaves the row to the reconcilers.
EarlyOnlyByStaleClaim == [][\A f \in FireAt : SendsEarly(f) => f \in misclaimed]_vars

\* A scheduled reminder is sent, unless the event is edited or deleted first,
\* whichever step of the dispatch a crash interrupts.
DueIsSent ==
  \A f \in FireAt : (Active /\ row.fireAt = f) ~> (f \in queue \/ ~Active \/ row.fireAt # f)
=============================================================================
