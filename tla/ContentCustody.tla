--------------------------- MODULE ContentCustody ---------------------------
(***************************************************************************)
(* What the groups may rely on about the content they own: plans and       *)
(* series.  Content has one home, a plan may live inside a series of the   *)
(* same home or be copied there, and content changes its home only by an   *)
(* offer that is accepted: in that step it moves, a series with all it     *)
(* holds.                                                                  *)
(***************************************************************************)
CONSTANTS Plans, Series, Groups, Transfers, None

VARIABLES
  home,   \* the group that owns each piece of content, None if there is none
  within, \* the series a plan lives in, or None
  offer   \* the offers made: content, the group it is offered to, and state

vars == <<home, within, offer>>

Content == Plans \cup Series

Init ==
  /\ home \in [Content -> Groups \cup {None}]
  /\ within = [p \in Plans |-> None]
  /\ offer = [t \in Transfers |-> None]

Open(c) == {t \in Transfers : offer[t] # None /\ offer[t].content = c /\ offer[t].state = "OPEN"}

Request(t, c, g) ==
  /\ offer[t] = None /\ Open(c) = {}
  /\ home[c] \notin {None, g}
  /\ c \in Plans => within[c] = None
  /\ offer' = [offer EXCEPT ![t] = [content |-> c, to |-> g, state |-> "OPEN"]]
  /\ UNCHANGED <<home, within>>

Answered(t, answer) ==
  /\ offer[t] # None /\ offer[t].state = "OPEN"
  /\ offer' = [offer EXCEPT ![t].state = answer]

Close(t) == Answered(t, "CLOSED") /\ UNCHANGED <<home, within>>

\* What moves with c.  Deleted content has no home any more and gets none.
Carried(c) == {d \in Content : home[d] # None /\ (d = c \/ (d \in Plans /\ within[d] = c))}

Accept(t) ==
  /\ Answered(t, "ACCEPTED")
  /\ home' = [d \in Content |-> IF d \in Carried(offer[t].content) THEN offer[t].to ELSE home[d]]
  /\ UNCHANGED within

\* Plans leave a series freely, and enter one of their own group.
Arrange ==
  /\ \A p \in Plans : within'[p] \in {within[p], None} \/ home'[p] = home'[within'[p]]
  /\ UNCHANGED offer

Rearrange == Arrange /\ UNCHANGED home
Found(x) == home[x] = None /\ (\E g \in Groups : home' = [home EXCEPT ![x] = g]) /\ Arrange
Discard(c) == home' = [home EXCEPT ![c] = None] /\ Arrange

\* Series x gains plans that were not there, each with the home of one it holds.
Copy(x) ==
  LET new == {p \in Plans : home'[p] # home[p]} IN
  /\ \A p \in new : /\ home[p] = None /\ within'[p] = x
                   /\ \E q \in Plans : within[q] = x /\ home[q] = home'[p]
  /\ home' = [c \in Content |-> IF c \in new THEN home'[c] ELSE home[c]]
  /\ within' = [p \in Plans |-> IF p \in new THEN x ELSE within[p]]
  /\ UNCHANGED offer

Next ==
  \/ \E t \in Transfers :
       Close(t) \/ Accept(t) \/ \E c \in Content, g \in Groups : Request(t, c, g)
  \/ Rearrange
  \/ \E x \in Series : Found(x) \/ Copy(x)
  \/ \E c \in Content : Discard(c)

Spec == Init /\ [][Next]_vars
=============================================================================
