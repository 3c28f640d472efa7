---------------------------- MODULE Accumulators ----------------------------
(***************************************************************************)
(* What one user has counted: in an accumulator of a group the user takes  *)
(* part in, and in an accumulator of the user's own made from a preset.    *)
(* A device sends the absolute count it shows; the server reads what it    *)
(* has on record and adds the difference to a history.  Resetting starts a *)
(* new participation.  The statistics of the user are cached.              *)
(*                                                                         *)
(* Nothing is locked and no index keeps participations or accumulators     *)
(* apart.  A handler is split at every commit, every await, and between a  *)
(* read and the commit that relies on it.  The tables are keyed by user.   *)
(* Of a group there is one accumulator and of presets one.                 *)
(***************************************************************************)
EXTENDS Naturals, Sequences, FiniteSets, FiniteSetsExt

CONSTANTS Sessions, \* handlers that may be in flight at the same time
          MaxCount, \* bound on the count a device shows
          MaxCalls, \* bound on the calls that count, join, reset or create
          None

ASSUME CountsAreNatural == MaxCount \in Nat /\ MaxCalls \in Nat /\ None \notin Nat

VARIABLES
  public,  \* the group may be joined without a request
  open,    \* the group accumulator is not deleted
  member,  \* the user has joined the group
  joined,  \* the user has joined the group accumulator
  parts,   \* user_group_accumulators, oldest first, with their history summed;
           \* claimed and torn are history: the highest count a device was told
           \* is taken, and that a submission read the count of another one
  preset,  \* the preset is not deleted
  accs,    \* accumulators of the user, with their history summed
  total_accumulated, \* accumulator_history, summed over all the user's rows
  cache,   \* the cached total_accumulated of the user, or None
  tainted, \* history: the cached total may be stale, see StatsAreFresh
  overtaken, \* history: who has read a total that an update has added to since
  sess,    \* the handler each session is running
  calls,   \* how many calls were made
  raced    \* history: kinds of handlers that overlapped

group == <<public, open, member, joined, parts>>
own == <<preset, accs, total_accumulated, cache, tainted, overtaken>>
vars == <<group, own, sess, calls, raced>>

Part == [live : BOOLEAN, count : Nat, claimed : Nat, torn : BOOLEAN]
Acc == [live : BOOLEAN, current : Nat, total : Nat]
Joining == {"joinGroup", "joinSeen", "joinSave", "part", "partSave", "reset"}
Submitting == {"count", "add"}
Updating == {"invalidate", "update"}
PCs == {"idle", "create", "stats", "statsSave"} \cup Joining \cup Submitting \cup Updating
Races == {"joining", "submitting", "creating"}
\* at: the row the handler has read; value: the count it was sent; seen: the
\* count it has read; missing: a row it has found missing.
Session == [pc : PCs, at : Nat, value : Nat, seen : Nat, missing : BOOLEAN]
Idle == [pc |-> "idle", at |-> 0, value |-> 0, seen |-> 0, missing |-> FALSE]

Init ==
  /\ public \in BOOLEAN /\ member \in BOOLEAN
  /\ open = TRUE /\ joined = FALSE /\ parts = <<>>
  /\ preset = TRUE /\ accs = <<>> /\ total_accumulated = 0
  /\ cache = None /\ tainted = FALSE /\ overtaken = {}
  /\ sess = [s \in Sessions |-> Idle] /\ calls = 0 /\ raced = {}

LiveParts == {i \in DOMAIN parts : parts[i].live}
LiveAccs == {i \in DOMAIN accs : accs[i].live}
\* get_active_user_group_accumulator takes the newest; 0 when there is none.
Active == Max(LiveParts \cup {0})
\* get_user_group_accumulator_count
ActiveCount == IF Active = 0 THEN 0 ELSE parts[Active].count
Above(v, n) == IF v > n THEN v - n ELSE 0

Busy(pcs) == \E t \in Sessions : sess[t].pc \in pcs
Goto(s, r) == sess' = [sess EXCEPT ![s] = r] /\ UNCHANGED <<calls, raced>>
Finish(s) == Goto(s, Idle)
\* A call comes in; one of a kind races with the handlers that are its rivals.
Begin(s, r) ==
  /\ sess[s].pc = "idle" /\ calls < MaxCalls
  /\ calls' = calls + 1
  /\ sess' = [sess EXCEPT ![s] = r]
Arrive(s, r, kind, rivals) ==
  /\ Begin(s, r)
  /\ raced' = IF Busy(rivals) THEN raced \cup {kind} ELSE raced

-----------------------------------------------------------------------------
(* join_group_accumulator_service: four commits at most *)

JoinGroupAccumulator(s) ==
  /\ open /\ (public \/ member)
  /\ Arrive(s, [Idle EXCEPT !.pc = "joinGroup", !.missing = ~member], "joining", Joining)
  /\ UNCHANGED <<group, own>>

\* A second row of the same key is refused, and the handler fails.
upsert_group_join(s) ==
  /\ sess[s].pc = "joinGroup"
  /\ IF sess[s].missing /\ member THEN Finish(s) /\ UNCHANGED member
     ELSE /\ member' = (member \/ sess[s].missing)
          /\ Goto(s, [Idle EXCEPT !.pc = "joinSeen"])
  /\ UNCHANGED <<public, open, joined, parts, own>>

JoinSeen(s) ==
  /\ sess[s].pc = "joinSeen"
  /\ Goto(s, [Idle EXCEPT !.pc = IF joined THEN "part" ELSE "joinSave"])
  /\ UNCHANGED <<group, own>>

upsert_group_accumulator_join(s) ==
  /\ sess[s].pc = "joinSave"
  /\ joined' = TRUE
  /\ IF joined THEN Finish(s) ELSE Goto(s, [Idle EXCEPT !.pc = "part"])
  /\ UNCHANGED <<public, open, member, parts, own>>

\* get_or_create_active_user_group_accumulator, and the row it creates.
GetOrCreate(s) ==
  /\ sess[s].pc = "part"
  /\ IF Active # 0 THEN Finish(s) ELSE Goto(s, [Idle EXCEPT !.pc = "partSave"])
  /\ UNCHANGED <<group, own>>

create_user_group_accumulator(s) ==
  /\ sess[s].pc = "partSave"
  /\ parts' = Append(parts, [live |-> TRUE, count |-> 0, claimed |-> 0, torn |-> FALSE])
  /\ Finish(s)
  /\ UNCHANGED <<public, open, member, joined, own>>

-----------------------------------------------------------------------------
(* delete_group_accumulator_user_service, which resets *)

Reset(s) ==
  /\ open /\ member /\ Active # 0
  /\ Arrive(s, [Idle EXCEPT !.pc = "reset", !.at = Active], "joining", Joining)
  /\ UNCHANGED <<group, own>>

soft_delete_user_group_accumulator(s) ==
  /\ sess[s].pc = "reset"
  /\ parts' = [parts EXCEPT ![sess[s].at].live = FALSE]
  /\ Goto(s, [Idle EXCEPT !.pc = "part"])
  /\ UNCHANGED <<public, open, member, joined, own>>

-----------------------------------------------------------------------------
(* submit_group_count_service *)

SubmitGroupCount(s, v) ==
  /\ open /\ Active # 0
  /\ Arrive(s, [Idle EXCEPT !.pc = "count", !.at = Active, !.value = v],
            "submitting", Submitting)
  /\ UNCHANGED <<group, own>>

\* get_user_group_accumulator_count looks the active participation up once more,
\* and that may be another one.
ReadCount(s) ==
  /\ sess[s].pc = "count"
  /\ Goto(s, [sess[s] EXCEPT !.pc = "add", !.seen = ActiveCount])
  /\ parts' = [parts EXCEPT ![sess[s].at].torn = @ \/ Active # sess[s].at]
  /\ UNCHANGED <<public, open, member, joined, own>>

\* Mutant: what the device shows is added, not what it has more.
add_group_history_row_absolute(s) ==
  LET h == sess[s] IN
  /\ h.pc = "add"
  /\ parts' = [parts EXCEPT ![h.at].count = @ + h.value,
                            ![h.at].claimed = Max({@, h.value})]
  /\ Finish(s)
  /\ UNCHANGED <<public, open, member, joined, own>>

add_group_history_row(s) ==
  LET h == sess[s] IN
  /\ h.pc = "add"
  /\ parts' = [parts EXCEPT ![h.at].count = @ + Above(h.value, h.seen),
                            ![h.at].claimed = Max({@, h.value})]
  /\ Finish(s)
  /\ UNCHANGED <<public, open, member, joined, own>>

\* leave_group; the participations stay.  delete_group_accumulator and the
\* visibility are the authors' doing.
leave_group ==
  /\ member' = FALSE /\ joined' = FALSE
  /\ UNCHANGED <<public, open, parts, own, sess, calls, raced>>
delete_group_accumulator ==
  /\ open /\ open' = FALSE
  /\ UNCHANGED <<public, member, joined, parts, own, sess, calls, raced>>
set_visibility ==
  /\ public' = ~public
  /\ UNCHANGED <<open, member, joined, parts, own, sess, calls, raced>>

-----------------------------------------------------------------------------
(* Accumulators of the user's own *)

\* create_accumulator_service, or opening the preset for the first time.
CreateAccumulator(s) ==
  /\ preset /\ LiveAccs = {}
  /\ Arrive(s, [Idle EXCEPT !.pc = "create"], "creating", {"create"})
  /\ UNCHANGED <<group, own>>

_create_accumulator_from_preset(s) ==
  /\ sess[s].pc = "create"
  /\ accs' = Append(accs, [live |-> TRUE, current |-> 0, total |-> 0])
  /\ Finish(s)
  /\ UNCHANGED <<group, preset, total_accumulated, cache, tainted, overtaken>>

UpdateAccumulator(s, i, v) ==
  /\ accs[i].live
  /\ Begin(s, [Idle EXCEPT !.pc = IF v > accs[i].current THEN "invalidate" ELSE "update",
                           !.at = i, !.value = v, !.seen = accs[i].current])
  /\ UNCHANGED <<group, own, raced>>

\* Mutant: nothing is invalidated.
invalidate_user_stats_cache_never(s) ==
  /\ sess[s].pc = "invalidate"
  /\ Goto(s, [sess[s] EXCEPT !.pc = "update"])
  /\ UNCHANGED <<group, own>>

\* The handler awaits the cache before it commits.  delete_cache swallows every
\* error of the cache, and the handler goes on.
invalidate_user_stats_cache(s) ==
  /\ sess[s].pc = "invalidate"
  /\ \/ cache' = None /\ tainted' = FALSE
     \/ cache' = cache /\ tainted' = (cache # None)
  /\ Goto(s, [sess[s] EXCEPT !.pc = "update"])
  /\ UNCHANGED <<group, preset, accs, total_accumulated, overtaken>>

Adds(h) == h.pc = "update" /\ h.value > h.seen
Readers == {t \in Sessions : sess[t].pc = "statsSave"}

\* Mutant: the difference is taken to all that the user ever counted.
update_accumulator_lifetime(s) ==
  LET h == sess[s] IN
  /\ h.pc = "update"
  /\ accs' = [accs EXCEPT ![h.at].current = IF h.value = h.seen THEN @ ELSE h.value,
                          ![h.at].total = @ + Above(h.value, total_accumulated)]
  /\ total_accumulated' = total_accumulated + Above(h.value, total_accumulated)
  /\ overtaken' = IF Adds(h) THEN Readers ELSE overtaken
  /\ Finish(s)
  /\ UNCHANGED <<group, preset, cache, tainted>>

\* A count equal to the one that was read is not written.
update_accumulator(s) ==
  LET h == sess[s] IN
  /\ h.pc = "update"
  /\ accs' = [accs EXCEPT ![h.at].current = IF h.value = h.seen THEN @ ELSE h.value,
                          ![h.at].total = @ + Above(h.value, h.seen)]
  /\ total_accumulated' = total_accumulated + Above(h.value, h.seen)
  /\ overtaken' = IF Adds(h) THEN Readers ELSE overtaken
  /\ Finish(s)
  /\ UNCHANGED <<group, preset, cache, tainted>>

delete_accumulator(i) ==
  /\ accs[i].live
  /\ accs' = [accs EXCEPT ![i].live = FALSE]
  /\ UNCHANGED <<group, preset, total_accumulated, cache, tainted, overtaken, sess, calls, raced>>

delete_preset ==
  /\ preset /\ preset' = FALSE
  /\ UNCHANGED <<group, accs, total_accumulated, cache, tainted, overtaken, sess, calls, raced>>

-----------------------------------------------------------------------------
(* get_user_stats_service, in the time zone that updates invalidate; the cached
   value expires after five minutes, and other handlers invalidate it, too *)

\* A value that is cached may still count as missing: get_cache_data swallows
\* errors.
GetUserStats(s) ==
  /\ sess[s].pc = "idle"
  /\ Goto(s, [Idle EXCEPT !.pc = "stats"])
  /\ UNCHANGED <<group, own>>

get_user_activity_totals(s) ==
  /\ sess[s].pc = "stats"
  /\ Goto(s, [sess[s] EXCEPT !.pc = "statsSave", !.seen = total_accumulated])
  /\ UNCHANGED <<group, own>>

set_user_stats_cache(s) ==
  /\ sess[s].pc = "statsSave"
  /\ cache' = sess[s].seen
  /\ tainted' = (s \in overtaken \/ \E t \in Sessions : Adds(sess[t]))
  /\ overtaken' = overtaken \ {s}
  /\ Finish(s)
  /\ UNCHANGED <<group, preset, accs, total_accumulated>>

Expire ==
  /\ cache # None /\ cache' = None /\ tainted' = FALSE
  /\ UNCHANGED <<group, preset, accs, total_accumulated, overtaken, sess, calls, raced>>

\* Also of a computation whose result the cache refuses.
Crash(s) ==
  /\ sess[s].pc # "idle"
  /\ overtaken' = overtaken \ {s}
  /\ Finish(s)
  /\ UNCHANGED <<group, preset, accs, total_accumulated, cache, tainted>>

-----------------------------------------------------------------------------
Join(s) ==
  \/ JoinGroupAccumulator(s) \/ upsert_group_join(s) \/ JoinSeen(s)
  \/ upsert_group_accumulator_join(s) \/ GetOrCreate(s) \/ create_user_group_accumulator(s)
StartOver(s) == Reset(s) \/ soft_delete_user_group_accumulator(s)
Submit(s) ==
  \/ \E v \in 1..MaxCount : SubmitGroupCount(s, v)
  \/ ReadCount(s) \/ add_group_history_row(s)
Own(s) ==
  \/ CreateAccumulator(s) \/ _create_accumulator_from_preset(s)
  \/ \E i \in DOMAIN accs, v \in 0..MaxCount : UpdateAccumulator(s, i, v)
  \/ invalidate_user_stats_cache(s) \/ update_accumulator(s)
Stats(s) == GetUserStats(s) \/ get_user_activity_totals(s) \/ set_user_stats_cache(s)
Authors == delete_group_accumulator \/ set_visibility \/ delete_preset

Next ==
  \/ \E s \in Sessions : Join(s) \/ StartOver(s) \/ Submit(s) \/ Own(s) \/ Stats(s) \/ Crash(s)
  \/ leave_group \/ Authors \/ Expire
  \/ \E i \in DOMAIN accs : delete_accumulator(i)

Spec == Init /\ [][Next]_vars

-----------------------------------------------------------------------------
\* Every variable has its type.
TypeOK ==
  /\ public \in BOOLEAN /\ open \in BOOLEAN /\ member \in BOOLEAN /\ joined \in BOOLEAN
  /\ parts \in Seq(Part)
  /\ preset \in BOOLEAN /\ accs \in Seq(Acc) /\ total_accumulated \in Nat
  /\ cache \in Nat \cup {None} /\ tainted \in BOOLEAN /\ overtaken \subseteq Sessions
  /\ sess \in [Sessions -> Session] /\ calls \in Nat /\ raced \subseteq Races

\* What a device was told is counted is counted in the participation it was told
\* of, also when that is reset meanwhile, and nothing more is.  More is counted
\* only when two submissions overlapped, or when a submission found the
\* participation reset between its two look-ups; less only when both are so.  Two
\* handlers that create participations at once put this out of joint.
SubmittedIsCounted ==
  "joining" \notin raced =>
    \A i \in DOMAIN parts : LET p == parts[i] IN
      /\ p.count >= p.claimed \/ ("submitting" \in raced /\ p.torn)
      /\ p.count = p.claimed \/ "submitting" \in raced \/ p.torn

\* The count of an accumulator never exceeds what its history adds up to, also
\* when devices overwrite each other's counts.
HistoryCoversCount == \A i \in DOMAIN accs : accs[i].current <= accs[i].total

\* The cached total is the total, also while updates are under way, with two
\* exceptions: the cache failed when an update invalidated it, or the total was
\* read before an update committed and cached after that update invalidated.
StatsAreFresh == cache # None /\ ~tainted => cache = total_accumulated

\* "A user has at most one active accumulator per preset, so a duplicate create is
\* rejected."
OneActiveAccumulator == Cardinality(LiveAccs) <= 1

\* "Soft-deletes the user's current session so their progress resets to zero"
ResetAlwaysToZero == [][ActiveCount' >= ActiveCount \/ ActiveCount' = 0]_vars
=============================================================================
