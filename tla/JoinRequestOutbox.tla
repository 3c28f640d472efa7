------------------------- MODULE JoinRequestOutbox -------------------------
(***************************************************************************)
(* The two notifications of a join request: CREATED to the moderators when *)
(* it is filed, DECIDED to the applicant when a moderator reviews it.      *)
(*                                                                         *)
(* The handler commits the request, then sends to SQS, then records the    *)
(* message id in a third step; it swallows every failure.  A reconcile job *)
(* sends again whatever has no message id.  The filing and the review of a *)
(* request are steps of module GroupJoin; here only what the outbox reads  *)
(* of them is kept.                                                        *)
(***************************************************************************)
EXTENDS JoinRequests

CONSTANTS Senders, \* threads that send: handlers and reconcile runs
          MayFail  \* whether a send fails or its process dies

ASSUME OutboxAssumption == None \notin Requests /\ MayFail \in BOOLEAN

VARIABLES
  review,   \* how the request stands: who decided it, if it was decided
  recorded, \* notifications whose SQS message id is in the row
  expired,  \* decisions older than the grace period
  listed,   \* notifications a reconcile run has listed and not come to yet
  sender,   \* what each thread is sending
  sent      \* notifications SQS has accepted, once or more often

outboxVars == <<review, recorded, expired, listed, sender, sent>>

Events == {"CREATED", "DECIDED"}
Notifications == Events \X Requests
\* ADMITTED by the publish sweep: reviewed_at is set and reviewed_by NULL.
Review == {"ABSENT", "PENDING", "DECIDED", "ADMITTED"}
Sender == [pc : {"idle", "send", "mark"}, event : Events \cup {None},
           req : Requests \cup {None}]
IdleSender == [pc |-> "idle", event |-> None, req |-> None]
Sending(e, r) == [pc |-> "send", event |-> e, req |-> r]
Notification(s) == <<sender[s].event, sender[s].req>>

OutboxInit ==
  /\ review = [r \in Requests |-> "ABSENT"]
  /\ recorded = {} /\ expired = {} /\ listed = {} /\ sent = {}
  /\ sender = [s \in Senders |-> IdleSender]

-----------------------------------------------------------------------------
(* The handlers commit and go on to send.                                   *)

submit_group_join_request(s, r) ==
  /\ sender[s].pc = "idle" /\ review[r] = "ABSENT"
  /\ review' = [review EXCEPT ![r] = "PENDING"]
  /\ sender' = [sender EXCEPT ![s] = Sending("CREATED", r)]
  /\ UNCHANGED <<recorded, expired, listed, sent>>

\* approve_group_join_request and reject_group_join_request.
ReviewRequest(s, r) ==
  /\ sender[s].pc = "idle" /\ review[r] = "PENDING"
  /\ review' = [review EXCEPT ![r] = "DECIDED"]
  /\ sender' = [sender EXCEPT ![s] = Sending("DECIDED", r)]
  /\ UNCHANGED <<recorded, expired, listed, sent>>

\* Mutant: the sweep clears the status of the requests it admits.
Admit_clearsStatus(r) ==
  /\ review[r] = "PENDING"
  /\ review' = [review EXCEPT ![r] = None]
  /\ UNCHANGED <<recorded, expired, listed, sender, sent>>

\* _approve_pending_join_requests_on_publish sends nothing, by design.
Admit(r) ==
  /\ review[r] = "PENDING"
  /\ review' = [review EXCEPT ![r] = "ADMITTED"]
  /\ UNCHANGED <<recorded, expired, listed, sender, sent>>

-----------------------------------------------------------------------------
(* _enqueue                                                                 *)

Send(s) ==
  /\ sender[s].pc = "send"
  /\ sent' = sent \cup {Notification(s)}
  /\ sender' = [sender EXCEPT ![s].pc = "mark"]
  /\ UNCHANGED <<review, recorded, expired, listed>>

\* Mutant: the id is recorded under the other of the two notifications.
Mark_otherMarker(s) ==
  /\ sender[s].pc = "mark"
  /\ recorded' = recorded \cup {<<e, sender[s].req>> : e \in Events}
  /\ sender' = [sender EXCEPT ![s] = IdleSender]
  /\ UNCHANGED <<review, expired, listed, sent>>

\* mark_join_request_notification_dispatched
Mark(s) ==
  /\ sender[s].pc = "mark"
  /\ recorded' = recorded \cup {Notification(s)}
  /\ sender' = [sender EXCEPT ![s] = IdleSender]
  /\ UNCHANGED <<review, expired, listed, sent>>

\* The process dies, or the failure is logged and swallowed; a send that
\* raised may have been accepted.
GiveUp(s) ==
  /\ MayFail /\ sender[s].pc # "idle"
  /\ sent' \in IF sender[s].pc = "send" THEN {sent, sent \cup {Notification(s)}} ELSE {sent}
  /\ sender' = [sender EXCEPT ![s] = IdleSender]
  /\ UNCHANGED <<review, recorded, expired, listed>>

-----------------------------------------------------------------------------
(* reconcile_undispatched_join_request_notifications, one run at a time; a  *)
(* second replica's run would only send duplicates.                         *)

\* Mutant: the sweep for new requests takes the reviewed ones.
UndispatchedCreated_reviewed ==
  {r \in Requests : review[r] = "DECIDED" /\ <<"CREATED", r>> \notin recorded}

\* created_at is a default evaluated when the module is imported, so a new
\* request is older than the grace period from the start.
UndispatchedCreated == {r \in Requests : review[r] = "PENDING" /\ <<"CREATED", r>> \notin recorded}

\* Mutant: reviewed_by is not looked at.
UndispatchedDecided_anyReview ==
  {r \in expired : review[r] \in {"DECIDED", "ADMITTED"} /\ <<"DECIDED", r>> \notin recorded}

\* reviewed_by is NULL for the publish sweep only.
UndispatchedDecided == {r \in expired : review[r] = "DECIDED" /\ <<"DECIDED", r>> \notin recorded}

List ==
  /\ listed = {}
  /\ listed' = ({"CREATED"} \X UndispatchedCreated) \cup ({"DECIDED"} \X UndispatchedDecided)
  /\ listed' # {}
  /\ UNCHANGED <<review, recorded, expired, sender, sent>>

\* A run works off its list: what was created first, then what was decided.
Requeue(s, e, r) ==
  /\ sender[s].pc = "idle" /\ <<e, r>> \in listed
  /\ e = "DECIDED" => \A q \in Requests : <<"CREATED", q>> \notin listed
  /\ listed' = listed \ {<<e, r>>}
  /\ sender' = [sender EXCEPT ![s] = Sending(e, r)]
  /\ UNCHANGED <<review, recorded, expired, sent>>

ReconcileDies ==
  /\ MayFail /\ listed # {}
  /\ listed' = {}
  /\ UNCHANGED <<review, recorded, expired, sender, sent>>

GraceEnds(r) ==
  /\ review[r] \in {"DECIDED", "ADMITTED"} /\ r \notin expired
  /\ expired' = expired \cup {r}
  /\ UNCHANGED <<review, recorded, listed, sender, sent>>

-----------------------------------------------------------------------------
OutboxNext ==
  \/ \E s \in Senders :
       \/ \E r \in Requests : submit_group_join_request(s, r) \/ ReviewRequest(s, r)
       \/ \E e \in Events, r \in Requests : Requeue(s, e, r)
       \/ Send(s) \/ Mark(s) \/ GiveUp(s)
  \/ \E r \in Requests : Admit(r) \/ GraceEnds(r)
  \/ List \/ ReconcileDies

OutboxSpec == OutboxInit /\ [][OutboxNext]_outboxVars

(* Time passes; the scheduler runs the job on every interval, and a run     *)
(* that keeps dying, or a queue that keeps failing, recovers in the end     *)
(* (the strong fairness).  Nobody is obliged to file or review a request.   *)
OutboxFairness ==
  /\ WF_outboxVars(List)
  /\ \A r \in Requests :
       /\ WF_outboxVars(GraceEnds(r))
       /\ \A e \in Events : SF_outboxVars(\E s \in Senders : Requeue(s, e, r))
  /\ \A s \in Senders : SF_outboxVars(Send(s)) /\ WF_outboxVars(Send(s) \/ Mark(s))
FairOutboxSpec == OutboxSpec /\ OutboxFairness

-----------------------------------------------------------------------------
(* Properties *)

\* Every variable has its type.
OutboxTypeOK ==
  /\ review \in [Requests -> Review]
  /\ recorded \subseteq Notifications /\ listed \subseteq Notifications
  /\ sent \subseteq Notifications
  /\ expired \subseteq Requests
  /\ sender \in [Senders -> Sender]

\* Whoever is admitted by making the group public is never told of a decision
\* nobody took, neither by a handler nor by the sweep that recovers decisions.
AdmittedSilently == \A r \in Requests : review[r] = "ADMITTED" => <<"DECIDED", r>> \notin sent

\* A message id in the row means that very notification did reach the queue,
\* so that the reconcile never gives up on one that did not.
RecordedWasSent == recorded \subseteq sent

\* The applicant hears of a moderator's decision, whichever step of sending it
\* was lost: "commit-before-send crash window" or failed send.
DecisionIsSent == \A r \in Requests : review[r] = "DECIDED" ~> <<"DECIDED", r>> \in sent

\* The moderators hear of a request unless it is reviewed first: the sweep for
\* new requests leaves a reviewed one to the sweep for decisions.
CreationIsSent ==
  \A r \in Requests : review[r] = "PENDING" ~> (<<"CREATED", r>> \in sent \/ review[r] # "PENDING")
=============================================================================
