# A TLA+ verification of the WeBuddhist backend

This directory holds TLA+ models of the parts of `src/pecha_api` in which
several actors meet (HTTP handlers in several replicas, scheduler jobs, queue
consumers, PostgreSQL row locks), the TLC configurations that check them on
small instances, and TLAPS proofs about them for instances of every size.

1. [The system](#1-the-system)
2. [What is modelled](#2-what-is-modelled)
3. [The runs](#3-the-runs)
4. [Disagreements between the code and its texts](#4-disagreements-between-the-code-and-its-texts)
5. [The proofs](#5-the-proofs)
6. [Not modelled, and the plan](#6-not-modelled-and-the-plan)

To check everything, parse each module with SANY, run TLC with each row of the
table in section 3, and run `tlapm` on each `*Proofs.tla`:

    tlc -workers 2 -config GroupJoin.cfg GroupJoin
    tlapm GroupJoinProofs.tla

## 1. The system

A FastAPI application that is run in several replicas
(`event_reminder_dispatch_service.py:71`). A replica serves routes written `def`
in threads, so two of them interleave anywhere; routes written `async def` (the
accumulators, for instance) give way to each other at every `await`, and to
those of another replica anywhere. Each handler has SQLAlchemy sessions of its
own (`db/database.py`: no autoflush, PostgreSQL's READ COMMITTED), and every
replica runs the same APScheduler jobs (`scheduler.py`). Push notifications and
audio generation are done by workers outside the repository, which consume SQS
queues and call back over internal endpoints. Redis caches reads and keeps chat
presence, S3 keeps files, MongoDB keeps texts.

| Part | State | Operations | Meets whom | What makes it correct |
|---|---|---|---|---|
| Group governance (`plans/groups`) | `author_group_members`, `author_group_invites` | change a role, transfer ownership, remove or leave, invite, accept, reject, revoke | other handlers on the same group, without locks | one owner, never none; an ADMIN cannot touch peers; an invitation is answered once |
| Group membership (`plans/groups`) | visibility and status of the group, `author_group_joins`, `author_group_join_requests` | join, leave, request, approve, reject, make public or private, publish, hide, delete | moderators, applicants and settings updates, through two kinds of row locks | no applicant left pending in a public group; decisions are final and land with their membership |
| Notification outboxes (join requests, chat, posts, events) | an SQS message id per row | send after commit, record the id, reconcile | handler, scheduler jobs, SQS | a committed fact is told at least once |
| Chat (`chat`) | room, members, messages, reactions, reports; sockets of the process | open, join, add, remove, leave, send, edit, delete, report | first visitors, senders, moderators of the group | one room and one creator; no message after a hide |
| Audio jobs (`plans/audio`) | `audio_jobs` | enqueue, reconcile, claim, complete, fail | SQS, workers, scheduler | one worker to a job; ends are final; none forgotten |
| Day and plan audio (`plans/audio`) | S3 keys of days and plans | upload, assign, delete | authors | an object in use is not deleted |
| Events (`events`) | event, recurrence, participants, locations | create, update, delete | reminders | dates and recurrence agree |
| Event reminders (`events`) | `event_reminders` | schedule, cancel, reschedule, poll, claim, send, record, reconcile, hand out targets | pollers of all replicas, editing authors, workers | sent once, at the time of the event as it is now |
| Content transfers (`plans/transfers`) | `content_transfer_requests`, the group of plans and series | request, accept, reject, revoke | authors of two groups; editors of plans and series | status and content move together; one pending transfer each; plans stay with their series |
| Plan progress (`plans/users`) | completions of sub-tasks, tasks, days; enrolments in plans and series | enrol, complete, sync siblings, undo, unenrol | the same user on two devices | done means done below; a plan whose days are all done is completed and leads to the next |
| Accumulators (`group_accumulator`, `accumulator`, `mantra`, `timers`) | participations, counts, histories, cached statistics | join, submit an absolute count, reset, create, update, delete | the same user on two devices; readers of the statistics | what a device was told is counted is; histories cover counts; the cache follows |
| Plan authoring (`plans/cms`, `items`, `tasks`, `series`) | plans, days, tasks, their order and status | create, reorder, publish, delete | authors | orders are permutations |
| Accounts (`auth`, `users`, `plans/auth`, `plans/authors`) | users, authors, tokens | register, sign in, verify, reset | clients, Auth0 | tokens expire and are used once |
| Push devices, routines, daily log, bookmarks, follows | rows of one user | upsert, delete | the same user on two devices | uniqueness |
| Posts, recitations, poems, verse of the day, feed | content and likes | CRUD | readers | uniqueness of likes |
| Texts, search, sheets, collections, languages, share, calendar, caches | documents, indices | queries, uploads | readers | freshness of caches |

`PROJECT.json` lists every component with its sources, and under `hazards`
every place in which an interleaving, a crash, a delay or a long sequence of
calls can go wrong, with the line at which it bites.

**Hard behaviours.** (1) Handlers that check and then write without a lock.
(2) Two row locks taken in opposite orders. (3) Several commits in one handler,
with a crash between them. (4) At-least-once queues and jobs that run in every
replica. (5) Rows that are reused (a rescheduled reminder keeps its id) while
somebody works on their previous content. (6) Conditions that are checked when
something is requested and no longer when it is granted. (7) Derived flags
(task, day, plan, series) that are kept by cascades of commits. (8) Deltas
against a total that was read before. (9) A cache that is invalidated before
the commit it is about.

## 2. What is modelled

The grain is the same everywhere: a handler is split into steps exactly where
another session can get in between: after an unlocked read, where it waits for
a row lock, and at each COMMIT. What lies between is one atomic action. A
handler that refuses before it has written anything is no step, unless it was
waiting for a lock when it found out. Names follow the code, so
`MarkInvite`, `_reminder_superseded` or `mark_audio_job_failed` can be looked up
in it; `map` in `PROJECT.json` gives the lines.

| Module | Models | State and code |
|---|---|---|
| `GroupGovernance` | roles, ownership, removal, invitations | `members[a]` is `AuthorGroupMember.role` or `"NONE"`; `invites[i].live` is `expires_at > now`; `sess` holds what a handler loaded |
| `GroupJoin` | joining, requests, reviews, the publish sweep | `groupLock` and `rowLock` are `SELECT ... FOR UPDATE` on the group and on requests |
| `JoinRequests` | the ids both modules around it name | |
| `JoinRequestOutbox` | the two notifications of a join request | `recorded` are the rows with an SQS id; `expired` those older than the grace period |
| `ChatRoom` | the room of a group, its members, sending | `groupLock` is `is_group_id_published(for_update=True)`; `left` are members with `left_at` |
| `JobLifecycle` | abstract: what the status of an audio job promises | |
| `AudioJob` | audio jobs; implements `JobLifecycle` | `enqueuer` is the program counter of `enqueue_plan_audio_job`, `worker` the external consumers |
| `EventReminder` | one reminder row and everybody at work on it | `dispatched = "old"` is `dispatched_at` older than the grace period; `queue` and `delivered` are occurrences, by fire time |
| `ContentCustody` | abstract: what groups may rely on about the content they own | |
| `ContentTransfer` | transfers, and what moves plans between series; implements `ContentCustody` | `planGroup`, `planSeries` are `plans.group_id` and `series_id`; `sess` holds what a handler checked and will write |
| `PlanProgress` | one user, one series: completion, enrolment, undoing | `doneSub`, `doneTask`, `doneDay` are the rows of three tables; `sess.pc` is the place in the cascade of `check_day_completion` |
| `Accumulators` | one user's participation in a group accumulator, own accumulators, the cached statistics | `parts[i].count`, `accs[i].total` and `total_accumulated` are sums of history rows (of a participation, an accumulator, the user); `cache` is the cached `total_accumulated` |
| `MC*` | symmetry, and the shape of one series with its starting states | |
| `*Proofs` | inductive invariants and theorems | |

`GroupJoin` and `JoinRequestOutbox` meet in the join request: the filing, the
decision and the silent admission of the first are the three steps the second
starts from. Theorem `OutboxSeesReviews` shows that the requests of the first
move as the second takes them to move. `GroupJoin` and `ChatRoom` meet in the
group row: both handlers that change its status are steps of both modules.
`ContentTransfer` composes the transfers with the handlers of series and plans
that write the same rows, and `Accumulators` the counting with the statistics
that read it.

Abstractions a reader should know of:

* **Roles.** AUTHOR and VIEWER are one class, `PlainRoles`: no modelled handler
  tells them apart. Invitations are addressed to authors instead of e-mail
  addresses.
* **Rows that go away.** A row deleted under a handler and added again has
  another id. `GroupGovernance` keeps, for each handler, the authors whose row
  it loaded and lost (`gone`); a write to such a row is an error 500.
* **ORM writes.** SQLAlchemy writes only columns whose value differs from the
  loaded one. `RoleWrite`, `UpdateDates` and the settings update rely on it.
* **Settings updates.** A request that also replaces the group's metadata
  flushes, and so locks the group row, earlier than `SettingsLock`; it then
  waits there instead. A change of visibility to private, a change of status
  and a deletion write one row in one commit, whose effect does not depend on
  what was loaded: they are single steps that wait for the row.
* **The unique index on pending requests** is left out of `GroupJoin` on
  purpose: `OnePendingPerUser` shows that the checks under the lock suffice.
* **One room, one group, one reminder.** Each module models one instance of
  its aggregate; instances share no rows. The two reminders of an event have
  rows of their own and differ in `Lead` only.
* **One user.** The tables of `PlanProgress` and `Accumulators` are keyed by
  user, so one user with several devices stands for all. `current_plan_id`, the
  partner group of an enrolment and the images and targets of accumulators are
  left out: nothing that is modelled reads them.
* **Content.** Transfers, series and plans are modelled with all the handlers
  that write `group_id`, `series_id` or `deleted_at` of existing plans and
  series, and cloning a series into another language, whose copies start in its
  slots (`unused` plans become them). A plan created inside a series, a series
  cloned as a whole, and status changes are left out: they touch rows of their
  own or other columns.
* **Refused inserts.** A unique index refuses a second completion, enrolment or
  membership row. The handler then ends with an error and what it would have
  done next is not done; `aborted` remembers that in `PlanProgress`.
* **History variables** (`departed`, `entered`, `torn`, `misclaimed`, `crashed`,
  `aborted`, `due`, `owed`, `claimed`, `raced`, `overtaken`, `tainted`) record
  what happened; no guard of a handler reads them.
* **Time.** A real clock appears only in `EventReminder` (`now`, up to
  `EndOfTime`), because fire times are compared with it. Elsewhere an expiry or
  a grace period is a step that happens some time after it began.
* **Failures.** `Crash`, `EnqueuerDies`, `GiveUp`, `ReconcileDies` and
  `WorkerDies` may strike between any two commits. A send that raised may or may
  not have reached SQS. Redis may fail to drop a cached value, which
  `delete_cache` swallows (`invalidate_user_stats_cache`). Messages may be
  delivered any number of times and in any order: queues are sets that never
  shrink.

## 3. The runs

| Run | Module, cfg | Shows | Bounds |
|---|---|---|---|
| `group_join` | `GroupJoin`, `GroupJoin.cfg` | `NoStrandedApplicant`, `OnePendingPerUser`, `FiledOnlyWhenPrivate`, `ReviewedIsFinal`, `ApprovalAdmits`; `HandlersFinish` | 2 users, 1 moderator, 2 requests, 2 sessions |
| `governance_sequential` | `MCGroupGovernance`, `GroupGovernance_sequential.cfg` | `OwnerRemains`, `OnePendingInvite`, `AdminsAreProtected` | 2 authors and a super admin, 2 invitations, 1 session, no crash |
| `governance_concurrent` | `MCGroupGovernance`, `GroupGovernance_concurrent.cfg` | `AtMostOneOwner`, `OwnerLostOnlyByStaleCheck`, `ChangedByName`, `EntersOnce` | 3 authors, 1 invitation, 2 sessions, crashes |
| `chat_safety` | `MCChatRoom`, `ChatRoom_safety.cfg` | `AtMostOneCreator`, `SendersAreMembers`, `NoMessageAfterHide` | 3 users, 2 messages, 2 sessions |
| `audio_job` | `MCAudioJob`, `AudioJob.cfg` | `OneGenerator`, `ImplementsLifecycle`, `ReconcileSparesWorkers`; `PendingIsResolved` | 2 jobs, 2 workers, batches of 1 |
| `reminder_safety` | `MCEventReminder`, `EventReminder_safety.cfg` | `RowMatchesEvent`, `NoReminderWhenRecurring`, `OnePollerSends`, `DeliveredIsCurrent`, `EarlyOnlyByStaleClaim` | 2 pollers, 1 reconciler, 1 editor, 3 start dates, crashes |
| `reminder_fixed` | `MCEventReminder`, `EventReminder_fixed.cfg` | `DueIsSent` | 2 pollers, 1 reconciler, dates fixed, crashes |
| `join_request_outbox` | `JoinRequestOutbox`, `JoinRequestOutbox.cfg` | `AdmittedSilently`, `RecordedWasSent`; `DecisionIsSent`, `CreationIsSent` | 1 request, 2 senders, failures |
| `content_transfer` | `MCContentTransfer`, `ContentTransfer.cfg` | `OnePendingTransfer`, `StraysByTransferOrCopy`, `OwnerIsPartner`, `ImplementsCustody` | 2 plans, 1 series, 2 groups, 2 transfers, 1 session, crashes |
| `plan_progress` | `MCPlanProgress`, `PlanProgress.cfg` | `DoneDaysAreDone`, `NothingLeftBehind`, `CompletedInFull` | 3 plans of 4 days in one series, 2 sessions, 4 calls from any progress, crashes |
| `accumulators` | `MCAccumulators`, `Accumulators.cfg` | `SubmittedIsCounted`, `HistoryCoversCount`, `StatsAreFresh` | 2 sessions, counts up to 2, 4 calls, crashes |
| `content_transfer_stray` | `MCContentTransfer`, `ContentTransfer_stray.cfg` | violates `PlansFollowSeries` | 2 plans, 1 series, 2 groups, 2 transfers, 1 session, no crash |

The type invariants (`TypeOK` in each module) are proved (section 5) and are no
property of a run. Each property of a passing run has a mutant: a plausible
mistake in one definition of the model, kept beside it as
`<definition>_<mistake>`, that TLC finds to violate the property under the same
configuration.

**Why the bounds are enough.** Every race found or excluded here is one of two
handlers on one row; two sessions and two of each row give all of them, and a
third participant (users of the room, authors of the group) is there where a
handler names two others. Two pollers and one reconciler give two dispatchers of
the same kind and two of different kinds. Three start dates give a reschedule
forward, backward, and to a time too near to announce. A second join request
shares nothing with the first in the outbox but the sending threads and the list
of the reconcile, and the batch size of the code is larger than the number of
requests modelled. Sessions, requests, messages and invitations bound how much
happens; none is consumed by a guard the code does not have. `ContentTransfer`
runs one handler at a time on purpose: what its checks promise is lost as soon
as two overlap (section 1, hazards), and holds over sequences of calls of any
length. Its two transfers cover a transfer of a plan that is pending while its
series is transferred, and a transfer there and back. The series of
`MCPlanProgress` has what the cascade can meet: a plan of two days, its sibling
in another language with only the first of them (so the sync completes the
sibling before the plan itself), a day whose task has two sub-tasks, and a plan
that follows. `MCInit` starts from every consistent progress, so four calls go
as far as many more from nothing. Counts up to 2 give `Accumulators` a first and
a later count, equal and lower ones; four calls give two overlapping pairs. What
the bounds hide is taken up by the proofs, which have none.

**Fairness.** Nobody is ever obliged to send a request, to review one, to edit
an event, or to file a job. Assumed is only that

* a handler or a scheduler run that can take its next step does take it or dies
  (weak fairness);
* the scheduler starts its jobs on every interval, and time passes (weak);
* what is tried again on every interval succeeds in the end: a reconcile that
  does not die every time, an SQS that does not refuse every time (strong
  fairness of `Send`, `Requeue`, `Recheck`, `ReconcileFail`);
* a poller that lists the same reminder again and again gets to claim it
  (strong fairness of `Claim` in `EventReminder`);
* SQS delivers a message until some worker has claimed it (strong fairness of
  `Claim` in `AudioJob`);
* PostgreSQL serves waiters for a row lock in their order (strong fairness of
  `Continue` in `GroupJoin`) and resolves a deadlock (weak fairness of
  `BreakDeadlock`).

Deadlock checking is off where the system really may come to rest: a deleted
group whose members have left, an event that is over, jobs that have all ended,
content that is deleted, a user who makes no more calls.

**Liveness is claimed only as far as the code goes.** `PendingIsResolved` stops
at the claim: nothing takes a `PROCESSING` job back from a worker that died.
`CreationIsSent` allows a request to be reviewed first: the reconcile then
leaves its creation untold. `DueIsSent` is claimed where no edit interferes.
`ContentTransfer`, `PlanProgress` and `Accumulators` state no liveness: their
handlers wait for nobody, nothing retries them, and a user may stop at any time.
What has to follow in the end is stated as a safety property of the quiet states
instead (`NothingLeftBehind`, and `ImplementsCustody` for an accepted transfer).

## 4. Disagreements between the code and its texts

One is a run of the manifest:

1. **A plan leaves the group of its series** (`content_transfer_stray`). "Plan and
   series must belong to the same group" (`cms_plans_service.py:447`); "Plans
   already in this series inherit the series group"
   (`series_service.py:927`). A transfer of a plan is requested while the plan is
   free; the plan is attached to a series of its own group, which no check
   forbids; the transfer is accepted, which looks at the plan's transfer
   and not at its series (`transfer_service.py:404`). The plan is then part of a
   series of another group. One handler at a time is enough.
   `StraysByTransferOrCopy` says that this is the only way, besides the copies
   such a plan leaves in its series when that is cloned into another language
   (`series_repository.py:469`).

More configurations are kept for the same kind of question and are no rows of
the manifest. TLC finds each violated; four of them (`RoomHasCreator`,
`CreatorLeavesLast`, `OneActiveAccumulator`, `ResetAlwaysToZero`) are proved to
hold as long as the handlers in question do not overlap, the first if none dies
either (section 5):

| cfg (module `MC...`, of the first row `GroupJoin`) | Property | Text it disagrees with | What happens |
|---|---|---|---|
| `GroupJoin_approval.cfg` | `ApprovedTogether` | "the row lock taken above must hold until both the membership and the APPROVED status are committed together" (`groups_service.py:1844`) | the applicant is a member already, and leaves between the look-up of the membership and the commit; the row lock is that of the request. `ApprovalAdmits` says that there is no other way |
| `GroupGovernance_ownerLost.cfg` | `OwnerRemains` | "At least one OWNER must always remain" (`groups_service.py:2293`, `2309`) | a role change or removal loads its target as ADMIN; a transfer makes the target the owner; then the first handler writes. `OwnerLostOnlyByStaleCheck` says that this and a transfer cut short are the only ways |
| `ChatRoom_creator.cfg` | `RoomHasCreator` | "auto-creating it (with the caller as CREATOR)" (`chat/service.py:216`) | the first visitor opens the room twice; the second request finds it between the two commits of the first and joins as MEMBER |
| `ChatRoom_creatorCrash.cfg` | `RoomHasCreator` | as above | the process dies between the two commits (`chat/service.py:258`, `259`); whoever comes next joins as MEMBER |
| `AudioJob_reconcile.cfg` | `OnlyUnrecordedFailed` | "Mark pending jobs that never recorded an SQS MessageId as failed" (`audio_job_service.py:153`) | the id is recorded after the reconcile has listed the job |
| `EventReminder_lost.cfg` | `DueIsSent` | "any superseded reminder is re-created fresh and will be dispatched on its own next due poll" (`event_reminder_dispatch_service.py:31`) | a claim and a message id meant for the old occurrence land on the row of the new one |
| `PlanProgress_clash.cfg` | `CompletedAfterLastDay` | "Check if plan is completed after a day completion and trigger series progression if needed" (`plan_users_service.py:619`) | two devices finish a day and its sibling; the sync of one inserts what the other has just inserted, is refused as a whole, and the plan is never checked |
| `Accumulators_create.cfg` | `OneActiveAccumulator` | "A user has at most one active accumulator per preset, so a duplicate create is rejected" (`accumulator_service.py:386`) | two creates look before either has committed |
| `Accumulators_reset.cfg` | `ResetAlwaysToZero` | "Soft-deletes the user's current session so their progress resets to zero" (`group_accumulator_service.py:473`) | two joins open two participations; resetting the newer brings the older one back |
| `GroupGovernance_transferCrash.cfg` | `OwnerRemains` | as above | the process dies between the two commits of a transfer |
| `GroupGovernance_revoke.cfg` | `OnlyPendingRevoked` | | an invitation is revoked after its recipient accepted, by a handler that loaded it before |
| `ChatRoom_leave.cfg` | `CreatorLeavesLast` | | a member comes in between the creator's check and leaving |
| `EventReminder_early.cfg` | `NeverEarly` | | a stale claim and the reconcile send a reminder moved to a later date. `EarlyOnlyByStaleClaim` says that there is no other way |
| `EventReminder_recurring.cfg` | `NoReminderWhenRecurring` | | two editors loaded the event; one makes it recurring, the other moves it |

Seen while modelling, and stated by no text of the repository:

* A series whose slots hold plans in two languages is completed only by a user
  who is enrolled in all of them: `is_series_completed_for_user` asks for every
  plan, the sync completes days and not plans of siblings.
* A plan whose last day was ticked off before its enrolment is never completed,
  and a plan finished while `auto_enroll_next` is off never completes its series.
* Undoing a task of a completed plan leaves the plan completed.
* Every update of statistics invalidates the key of the time zone UTC only; the
  key of any other time zone stays until it expires.
* Accumulated counts are accepted from a user who has left the group, whose
  participation stays active.
* A transfer nobody answers blocks its content for ever, past its expiry.

## 5. The proofs

All theorems hold for every value of the constants that meets the assumptions
of the module (`NoneIsFresh`, `OutboxAssumption`, `GovernanceAssumption`,
`Structure`, `NoneIsNoRow`, `CountsAreNatural`, ...): distinctness of the model
values, and types. None bounds a set. What else a theorem assumes is in
parentheses.

| Module | Theorem | Property |
|---|---|---|
| `GroupJoinProofs` | `TypeCorrect`, `NobodyStranded`, `OnePending`, `DecisionsAreFinal`, `FiledWhilePrivate`, `ApprovedAreMembers` | `TypeOK`, `NoStrandedApplicant`, `OnePendingPerUser`, `ReviewedIsFinal`, `FiledOnlyWhenPrivate`, `ApprovalAdmits` |
| | `OutboxTypeCorrect`, `SilentAdmission`, `RecordsAreTrue` (of `JoinRequestOutbox`) | `OutboxTypeOK`, `AdmittedSilently`, `RecordedWasSent` |
| | `OutboxSeesReviews` | the requests of `GroupJoin` move as those of `JoinRequestOutbox` |
| `GroupGovernanceProofs` | `TypeCorrect`, `OneOwner`, `NamedChange`, `OwnerLoss`, `EntryIsOnce` | `TypeOK`, `AtMostOneOwner`, `ChangedByName`, `OwnerLostOnlyByStaleCheck`, `EntersOnce` |
| | `OwnerStays` (one handler at a time, no crash), `OneInvite`, `PeersAreSafe` (one handler at a time) | `OwnerRemains`, `OnePendingInvite`, `AdminsAreProtected` |
| `ChatRoomProofs` | `TypeCorrect`, `OneCreator`, `SendersBelong`, `NothingAfterHide` | `TypeOK`, `AtMostOneCreator`, `SendersAreMembers`, `NoMessageAfterHide` |
| | `CreatorUnlessRacedOrCut` (one handler at a time, no crash), `CreatorLastUnlessRaced` (one handler at a time) | `RoomHasCreator`, `CreatorLeavesLast` |
| `AudioJobProofs` | `TypeCorrect`, `OneWorkerPerJob`, `Refinement`, `WorkersAreSpared` | `TypeOK`, `OneGenerator`, `ImplementsLifecycle`, `ReconcileSparesWorkers` |
| | `PendingIsInReach` | what `PendingIsResolved` rests on |
| `EventReminderProofs` | `TypeCorrect`, `OneSender`, `EarlySends` | `TypeOK`, `OnePollerSends`, `EarlyOnlyByStaleClaim` |
| | `RowFollowsEvent`, `RecurringHasNone`, `DeliveryIsCurrent` (edits do not overlap) | `RowMatchesEvent`, `NoReminderWhenRecurring`, `DeliveredIsCurrent` |

| | `NeverGivenUp` (no edit moves the event) | what `DueIsSent` rests on |
| `ContentTransferProofs` | `TypeCorrect` | `TypeOK` |
| | `PendingIsUnique`, `OwnerStaysPartner`, `StraysMovedOrCopied`, `KeepsCustody` (one handler at a time) | `OnePendingTransfer`, `OwnerIsPartner`, `StraysByTransferOrCopy`, `ImplementsCustody` |
| `AccumulatorsProofs` | `CountIsCovered`, `SubmissionsCount`, `CachedTotalIsFresh` | `HistoryCoversCount`, `SubmittedIsCounted`, `StatsAreFresh` |
| | `OneActiveUnlessCreatesRace` (in states before two creations overlap), `ResetsToZeroUnlessJoinsRace` (in steps before two joins or resets overlap) | `OneActiveAccumulator`, `ResetAlwaysToZero` |
| `PlanProgressProofs` | `TypeCorrect`, `DoneDaysHaveTheirTasks`, `CompletionsAreWhole`, `NothingIsLeftBehind` | `TypeOK`, `DoneDaysAreDone`, `CompletedInFull`, `NothingLeftBehind` |

Each module has an inductive invariant (`IInv`, and more where properties need
different ones), a lemma that `Init` implies it, a lemma for each group of
actions that they preserve it, and a theorem `Invariance`. What the invariants
add to the properties:

* **GroupJoin.** `NoStrandedApplicant` is not inductive: a submission inserts a
  request long after it looked at the visibility. `SubmitInv` says that a
  session about to insert holds the group row, that the group is private as
  long as it does, and that its user has no pending request. `ReviewInv` says
  that a reviewer past its lock holds a request that is still pending, so
  that no sweep can have taken it; `SweepInv` that a sweep holds every pending
  request. `FiledOnlyWhenPrivate` follows from the first: the step that files is
  taken under the lock. `ApprovalAdmits` needs more, because no lock keeps a
  membership: the look-up of `upsert_group_join`, its insert and the commit are
  three steps, and `leave_group` may delete the row between any two. `AdmitInv`
  says that an applicant under decision who is no member, and for whom no insert
  is due, has left since (`departed`).
* **GroupGovernance.** The unique index is a guard of `TransferPromote` only, so
  that nobody else makes an owner has to be shown: `OwnerNotAssigned` (no
  request names OWNER). `TargetWasNoOwner` (what a role change loaded was not
  the owner, since the only owner is the last one) gives `OwnerLoss`.
  `OwnerStays` assumes one session and no crash, and uses that what the handler
  read still holds (`ReadStillHolds`) and that only the middle of a transfer has
  no owner. The same assumption gives the rest: an invitation about to be
  inserted has no pending one (`InviteInv`), and the rights the handler checked
  still hold when it writes (`RightsInv`). `EntryIsOnce` assumes nothing:
  `EntryInv` says that an invitation whose acceptances neither overlapped nor
  were cut short (`torn`) has let its recipient in only if it is answered or its
  only handler is about to mark it.
* **ChatRoom.** `LockInv`: a session about to insert a message holds the row of
  a published group. `RoomInv` and `CreatorInv`: before the room nobody is in it
  or past its creation, so one session at most is about to insert a creator.
  `AloneInv`, for one handler at a time: who is about to be made the creator is
  the first, and a creator about to leave is the last; a room without creator
  has one in the making, unless handlers may die.
* **AudioJob.** `WorkerInv` and `AttemptInv`: a job somebody is on has left
  PENDING for good, and a PENDING job was not attempted; a claim thus never
  meets another worker. The refinement maps every step of `AudioJob` to one
  step of `JobLifecycle` or to none, `status` and `attempts` being the same
  variables. `ReconcileSparesWorkers` needs only that `ReconcileFail` looks at
  the status again. `SentInv` (an id is recorded after the message was sent)
  gives `PendingIsInReach`: a pending job is in the queue, or has no id and so
  stays in sight of the reconcile.
* **EventReminder.** Claims go by id, so two pollers can hold one. They cannot
  hold it for the same occurrence: a poller works on a time that had come
  (`Listed`), rescheduling sets a time to come (`ScheduleRow`), so a row that
  was claimed twice is a row that was replaced (`ClaimedTwiceIsReplaced`), and
  the second look stops all but one. `RowFollowsEvent`, `RecurringHasNone` and
  `DeliveryIsCurrent` assume that edits do not overlap
  (`\A u, v \in Updaters : u = v`); otherwise they fail, as section 4 shows for
  one. `EarlySends` assumes nothing: `EarlyInv` says that whoever is at work, and
  a row that was claimed, is on an occurrence whose time has come, or whose row
  was claimed by a poller that had listed another (`misclaimed`). Where no edit
  moves the event (`~MayReschedule`), `Come` puts everybody on the occurrence of
  the row, and `SentInv` shows that a message id, which ends the retries, is that of
  a message for the row's own occurrence (`NeverGivenUp`).
* **JoinRequestOutbox.** `Decided`: a decision in hand, listed or sent is that of
  a request a moderator decided. That the outbox may go by `reviewed_by` to tell
  a decision from an admission is `ReviewerInv`, an invariant of `GroupJoin`: a
  reviewer past its look-up is a moderator, and a pending request names none.
* **ContentTransfer.** `TInv` is the type invariant with what a handler carries:
  the transfer it answers names the content it moves. `RequestInv`: a request
  about to be made is the only one for its content. `OwnInv`: the partner about
  to be removed is not the owner, and a series on the move is the one whose
  partner was just added. `StrayInv` adds what the handler in flight goes by
  (`Knows`: a transfer that is applied was accepted, what it will move is what
  its content held, what it will copy is what the series held) and that a plan
  is in no series nobody created; all steps but the two exceptions are shown to
  make no plan stray (`NoNewStray`). The
  refinement adds `PlaceInv`: a live plan is in no deleted series, a deleted
  series was once created, and what the handler has read is still there
  (`Sees`). Under it a request, an answer that accepts, an answer that closes,
  an edit and a deletion are each one step of `ContentCustody`, and every other
  step is none; a transfer's two commits are one step of custody, which the
  mapping shows as not yet accepted while its handler applies it. All but
  `TypeCorrect` assume that one handler runs at a time (`OneHandler`), because
  two handlers do falsify them; the refinement assumes that the value for
  nothing is no offer.
* **Accumulators.** `SeenIsCovered`: the count an update has read is covered by
  the history it will write to, since the history only grows. `PartsInv`: until
  two creations overlap a user has one live participation; what a submission has
  read is what the participation it will add to holds, unless that was reset
  between its two look-ups (`torn`) or another submission came in between; and
  whoever finds its participation reset finds nothing counted in the new one.
  `FreshInv`: what a computation has read stays the total until it is cached,
  unless an update overtakes it (`overtaken`), and when an update adds to the
  history the cache is empty, or marked (`tainted`): Redis kept the value, or a
  computation wrote it that was overtaken or met an update past its
  invalidation. `CreateInv`: until two creations overlap, one that is under way
  has found no active accumulator.
* **PlanProgress.** `TInv` is the type invariant with what the step a handler is
  at needs. `WholeInv`: ticking off only adds rows and an undoing handler is
  alone (or the state is `torn`), so what a handler has read (`Relies`) is still
  there when it writes; a done day lacks a task only while that task is just
  being taken back. `AheadInv` carries `NothingLeftBehind` and needs nothing of
  `WholeInv`: a plan that is due has a handler that will check it (`WillCheck`)
  and whose check will find it ripe, a plan that is owed one that will enrol the
  user (`WillEnroll`) into a slot nobody has entered, and no step of another
  handler takes either away. When all is quiet no handler has anything ahead of
  it, so nothing is due or owed.

Left to TLC is what is beyond the prover, liveness under fairness:
`HandlersFinish`, `PendingIsResolved`, `DueIsSent`, `DecisionIsSent` and
`CreationIsSent`. Every other property of a passing run is a theorem. No module
declares a recursive operator.

## 6. Not modelled, and the plan

In the order of what matters; each with the abstract promise worth stating.

1. What surrounds the modelled core: creating a plan inside a series, cloning a
   whole series, status changes and the order of the plans; the partner group
   and the current plan of an enrolment; private rooms, editing and deleting
   messages and reports in `ChatRoom`.
2. A general `Outbox` that join requests, chat, posts, events and reminders
   instantiate, with liveness checked once and the differences in each instance.
3. `PlanAudioKeys`: S3 objects and the rows that refer to them.
   `WebSocketPresence`: the registry of a process. `PushDevices`.
4. Pure algorithms against a reference definition: reordering of days, tasks
   and series; the merge of an event's recurrence window; pagination of tables
   of contents.
5. Accounts: verification and reset tokens, author approval.
6. Proofs: the properties of new modules as they come.

Left out for good: generated code (`external_clients`), static data and almanacs
(`languages`, `traditions`, `calendar`, `share`), adapters of Redis, S3, MongoDB
and Elasticsearch, e-mail, images and observability: I/O and queries with no
protocol of their own. Listings and counts are queries of what is modelled. The
push and audio workers are outside the repository; they appear as the
environment, with no more behaviour than the endpoints allow them.
