--------------------------- MODULE ShareDelivery ---------------------------
(***************************************************************************)
(* Delivery of one encrypted share to the helpers, over its durable        *)
(* journal (share.rs, storage/queries/share_delegations.rs and             *)
(* share_tracking/).                                                       *)
(*                                                                         *)
(* The journal row says for every helper whether a POST to it may have     *)
(* been sent (attempting), ended without an answer (unknown) or was        *)
(* accepted.  It is written by initial delivery (Deliverer) and by tracking *)
(* passes (Tracker), which exclude each other by a process-wide lock per   *)
(* share, and it may be deleted under them when the round is cleared.      *)
(* Every update reads the row, computes and writes it back only if the     *)
(* columns it read are unchanged; the two steps are separate here.         *)
(***************************************************************************)
EXTENDS Integers, Sequences, FiniteSets

CONSTANTS Helper,     \* the configured fleet
          Planned,    \* the helpers of the immutable plan
          Faulty,     \* helpers whose answers mean nothing
          Gen,        \* share generations, identified by their nullifier
          NoGen,
          Deliverer,  \* initial delivery operations
          Tracker,    \* tracking operations
          Target,     \* the plan's target_count
          MaxClock,   \* how far time goes: 2 overdue, 3 past the cutoff
          MaxFaults,  \* crashes and failed storage operations
          Cancels     \* whether operations are cancelled or run out of time

ASSUME ShareAssumption ==
  /\ Planned \subseteq Helper /\ Planned # {} /\ Faulty \subseteq Helper
  /\ Target \in 1..Cardinality(Helper)
  /\ MaxClock \in 0..3 /\ MaxFaults \in Nat /\ Cancels \in BOOLEAN
  /\ NoGen \notin Gen /\ Deliverer \cap Tracker = {}
  /\ "none" \notin Deliverer \cup Tracker

ASSUME FleetAssumption == IsFiniteSet(Helper)

VARIABLES
  vote,      \* the generation of the stored commitment
  vc,        \* whether its position in the commitment tree is recorded
  row,       \* the journal row
  lock,      \* the task that holds the share's operation lock
  job,       \* the local state of the tasks
  net,       \* POSTs under way
  held,      \* <<helper, generation>>: the helper took the share
  revealed,  \* generations whose reveal is on chain
  clock,     \* 0 scheduled, 1 ready for a status check, 2 overdue, 3 cutoff
  used,      \* generations stored so far
  faults

vars == <<vote, vc, row, lock, job, net, held, revealed, clock, used, faults>>
journal == <<vote, vc, row, used>>
world == <<net, held, revealed, clock>>

Task == Deliverer \cup Tracker
NoTask == "none"
NoHelper == "nobody"

Evidence == {"none", "attempting", "unknown", "accepted"}

\* The row that is not there.
Absent == [gen |-> NoGen, st |-> [h \in Helper |-> "none"], target |-> 0,
           confirmed |-> FALSE, reset |-> FALSE]

Least(a, b) == IF a <= b THEN a ELSE b

In(r, evidence) == {h \in Helper : r.st[h] = evidence}

Idle == [pc |-> "idle", gen |-> NoGen, goal |-> 0, acc |-> {}, amb |-> {},
         intr |-> {}, left |-> {}, wave |-> <<>>,
         out |-> [h \in Helper |-> "none"], h |-> NoHelper, seen |-> Absent,
         over |-> FALSE, full |-> TRUE, cap |-> FALSE]

-----------------------------------------------------------------------------
(* ShareDeliveryState: accepted is stronger than outcome-unknown, which is *)
(* stronger than in-flight.                                                *)

mark_accepted(st, h) == [st EXCEPT ![h] = "accepted"]

mark_outcome_unknown(st, h) ==
  IF st[h] = "accepted" THEN st ELSE [st EXCEPT ![h] = "unknown"]

mark_definite_failure(st, h) ==
  IF st[h] = "attempting" THEN [st EXCEPT ![h] = "none"] ELSE st

\* The columns an update compares before it writes.
WritesBlindly(r, s) == TRUE

same_row(r, s) ==
  r.gen = s.gen /\ r.st = s.st /\ r.confirmed = s.confirmed

\* Preparing the delivery again never lowers the row's placement target.
SummedTarget(target) == target + Target

raised_target(target) == IF target < Target THEN Target ELSE target

\* The answer of add_attempting_server_for_generation to what it read.
reservation(s, g, h, goal, allow) ==
  IF s.gen # g THEN "StaleGeneration"
  ELSE IF s.confirmed \/ s.st[h] # "none" THEN "AlreadyRecorded"
  ELSE IF ~allow /\ Cardinality(In(s, "accepted") \cup In(s, "attempting")) >= goal
  THEN "PlacementCapacityReached" ELSE "Started"

\* The evidence resolve_delivery_attempt_for_generation writes.
resolved(s, h, effect, reset) ==
  CASE effect = "Accepted" ->
         [s EXCEPT !.st = mark_accepted(s.st, h), !.reset = @ \/ reset]
    [] effect = "Ambiguous" -> [s EXCEPT !.st = mark_outcome_unknown(s.st, h)]
    [] effect = "DefiniteFailure" ->
         [s EXCEPT !.st = mark_definite_failure(s.st, h)]
    [] OTHER -> s

\* The write behind the comparison: the lists computed from what was read.
Store(r, s) == row' = [r EXCEPT !.st = s.st, !.reset = @ \/ s.reset]

\* The share's operation lock is a mutex of the process.
NoLock == TRUE

LockFree == lock = NoTask

\* Leaves the operation and its lock.
Leave(t) ==
  /\ job' = [job EXCEPT ![t] = Idle]
  /\ lock' = IF lock = t THEN NoTask ELSE lock

\* What a task read and the helper it is at are local to one attempt.
Tidy(j) ==
  [j EXCEPT !.seen = IF j.pc \in {"reserve", "resolve"} THEN @ ELSE Absent,
            !.h = IF j.pc \in {"wave", "post", "call", "pick"}
                  THEN NoHelper ELSE @]

Goto(t, r) == job' = [job EXCEPT ![t] = Tidy(r)]

-----------------------------------------------------------------------------
(* The vote the share belongs to.                                          *)

\* A new commitment; one whose position is known is never replaced.
store_vote(g) ==
  /\ ~vc /\ g \notin used
  /\ vote' = g /\ used' = used \cup {g}
  /\ row' = Absent
  /\ UNCHANGED <<vc, lock, job, world, faults>>

record_vc_position ==
  /\ vote # NoGen /\ ~vc
  /\ vc' = TRUE
  /\ UNCHANGED <<vote, row, used, lock, job, world, faults>>

clear_round ==
  /\ vote # NoGen
  /\ vote' = NoGen /\ vc' = FALSE /\ row' = Absent
  /\ UNCHANGED <<used, lock, job, world, faults>>

-----------------------------------------------------------------------------
(* Initial delivery.                                                       *)

\* The row is created, or its target raised, in one transaction that requires
\* the commitment the payload was built from.  No lock is held.
prepare_committed_share_delivery(t) ==
  /\ job[t].pc = "idle"
  /\ vote # NoGen /\ vc
  /\ row.gen \in {NoGen, vote}
  /\ row' = [row EXCEPT !.gen = vote, !.target = raised_target(@)]
  /\ Goto(t, [Idle EXCEPT !.pc = "prepared", !.gen = vote])
  /\ UNCHANGED <<vote, vc, used, lock, world, faults>>

\* What a delivery that got the lock starts from.
DeliversToAll(t) ==
  [job[t] EXCEPT !.pc = "wave", !.acc = In(row, "accepted"),
                 !.left = In(row, "none"), !.goal = Cardinality(Helper)]

load_current_delivery_state(t) ==
  LET acc == In(row, "accepted")
      left == In(row, "none")
  IN [job[t] EXCEPT !.pc = "wave", !.acc = acc, !.left = left,
        !.goal = Least(Target, Cardinality(acc) + Cardinality(left))]

lock_delivery(t) ==
  /\ job[t].pc = "prepared" /\ LockFree
  /\ IF row.gen = job[t].gen
     THEN Goto(t, load_current_delivery_state(t)) /\ lock' = t
     ELSE Leave(t)
  /\ UNCHANGED <<journal, world, faults>>

\* A cancelled delivery stops waiting for the lock.
cancel_lock_wait(t) ==
  /\ Cancels /\ job[t].pc = "prepared"
  /\ Leave(t)
  /\ UNCHANGED <<journal, world, faults>>

NeedsMore(j) == j.left # {} /\ Cardinality(j.acc) < j.goal

active_group(j) ==
  IF j.left \cap Planned # {} THEN j.left \cap Planned ELSE j.left

reserve_read(t, h) ==
  /\ job[t].pc = "wave" /\ NeedsMore(job[t])
  /\ Len(job[t].wave) < job[t].goal - Cardinality(job[t].acc)
  /\ h \in active_group(job[t])
  /\ Goto(t, [job[t] EXCEPT !.pc = "reserve", !.h = h, !.seen = row])
  /\ UNCHANGED <<journal, lock, world, faults>>

\* The read row is stale when the write compares it: read again.
Reread(t) == Goto(t, [job[t] EXCEPT !.seen = row])

\* The posts of a wave wait for their permits; an empty wave ends the delivery.
StartPosts(t) ==
  IF job[t].wave = <<>> THEN Leave(t)
  ELSE /\ Goto(t, [job[t] EXCEPT !.pc = "post",
                    !.out = [h \in Helper |->
                               IF \E i \in DOMAIN job[t].wave : job[t].wave[i] = h
                               THEN "queued" ELSE "none"]])
       /\ UNCHANGED lock

begin_delivery_attempt(t) ==
  LET j == job[t]
      answer == reservation(j.seen, j.gen, j.h, j.goal, FALSE)
  IN /\ t \in Deliverer /\ j.pc = "reserve"
     /\ \/ /\ answer = "Started" /\ same_row(row, j.seen)
           /\ row' = [row EXCEPT !.st = [j.seen.st EXCEPT ![j.h] = "attempting"]]
           /\ Goto(t, [j EXCEPT !.pc = "wave", !.left = @ \ {j.h},
                                !.wave = Append(@, j.h)])
           /\ UNCHANGED lock
        \/ /\ answer = "Started" /\ ~same_row(row, j.seen)
           /\ Reread(t) /\ UNCHANGED <<row, lock>>
        \/ /\ answer = "AlreadyRecorded"
           /\ Goto(t, [j EXCEPT !.pc = "wave", !.left = @ \ {j.h}])
           /\ UNCHANGED <<row, lock>>
        \/ /\ answer = "PlacementCapacityReached"
           /\ StartPosts(t) /\ UNCHANGED row
        \/ /\ answer = "StaleGeneration"
           /\ Leave(t) /\ UNCHANGED row
     /\ UNCHANGED <<vote, vc, used, world, faults>>

\* The wave is full, the candidates are used up, or the operation is stopping.
end_wave(t) ==
  LET j == job[t]
  IN /\ j.pc = "wave"
     /\ ~NeedsMore(j) \/ Cancels \/ Len(j.wave) = j.goal - Cardinality(j.acc)
     /\ StartPosts(t)
     /\ UNCHANGED <<journal, world, faults>>

\* A permit is refused when the operation is cancelled or out of time.
post_capacity_refused(t, h) ==
  /\ Cancels
  /\ job[t].pc = "post" /\ job[t].out[h] = "queued"
  /\ Goto(t, [job[t] EXCEPT !.out[h] = "failed"])
  /\ UNCHANGED <<journal, lock, world, faults>>

\* With a permit the journal is read again before the request goes out.
post_share(t, h) ==
  /\ job[t].pc = "post" /\ job[t].out[h] = "queued"
  /\ IF row.gen = job[t].gen /\ row.st[h] = "attempting"
     THEN /\ net' = net \cup {[h |-> h, g |-> job[t].gen, by |-> t]}
          /\ Goto(t, [job[t] EXCEPT !.out[h] = "sent"])
     ELSE Goto(t, [job[t] EXCEPT !.out[h] = "stale"]) /\ UNCHANGED net
  /\ UNCHANGED <<journal, lock, held, revealed, clock, faults>>

Joined(j) == \A h \in Helper : j.out[h] \notin {"queued", "sent"}

\* When all posts of the wave have ended, their outcomes are applied in the
\* order of the wave.
apply_read(t) ==
  LET j == job[t]
      h == Head(j.wave)
  IN /\ j.pc = "post" /\ Joined(j)
     /\ IF j.out[h] = "stale" THEN Leave(t)
        ELSE /\ Goto(t, [j EXCEPT !.pc = "resolve", !.h = h, !.seen = row])
             /\ UNCHANGED lock
     /\ UNCHANGED <<journal, world, faults>>

Effect(out) ==
  CASE out = "accepted"  -> "Accepted"
    [] out = "ambiguous" -> "Ambiguous"
    [] OTHER             -> "DefiniteFailure"

resolve_delivery_attempt(t) ==
  LET j == job[t]
  IN /\ t \in Deliverer /\ j.pc = "resolve"
     /\ \/ /\ j.seen.gen # j.gen /\ Leave(t) /\ UNCHANGED row
        \/ /\ j.seen.gen = j.gen /\ ~same_row(row, j.seen)
           /\ Reread(t) /\ UNCHANGED <<row, lock>>
        \/ /\ j.seen.gen = j.gen /\ same_row(row, j.seen)
           /\ Store(row, resolved(j.seen, j.h, Effect(j.out[j.h]), FALSE))
           /\ Goto(t, [j EXCEPT !.pc = IF Len(j.wave) = 1 THEN "wave" ELSE "post",
                         !.wave = Tail(@), !.out[j.h] = "none",
                         !.acc = IF j.out[j.h] = "accepted"
                                 THEN @ \cup {j.h} ELSE @])
           /\ UNCHANGED lock
     /\ UNCHANGED <<vote, vc, used, world, faults>>

-----------------------------------------------------------------------------
(* A tracking pass over the share.                                         *)

Ready == clock >= 1
Overdue == clock = 2
WindowOpen == clock < 3

\* How many helpers have to say that the share is on chain.
AnyHelper == 1

Quorum == Least(2, Cardinality(Helper))

\* Too few helpers misreport to make a quorum of their own.
ASSUME QuorumAssumption ==
  Cardinality(Faulty) < Least(2, Cardinality(Helper))

\* The unconfirmed row is read again under the lock; a share with nothing due
\* is passed over.
walk_pending_shares(t) ==
  LET acc == In(row, "accepted")
      intr == In(row, "attempting")
      goal == Least(row.target, Cardinality(Helper))
  IN /\ t \in Tracker /\ job[t].pc = "idle" /\ LockFree
     /\ row.gen # NoGen /\ ~row.confirmed
     /\ Ready \/ Cardinality(acc) < goal \/ intr # {}
     /\ lock' = t
     /\ Goto(t, [Idle EXCEPT !.pc = IF Ready THEN "poll" ELSE "decide",
                   !.gen = row.gen, !.goal = goal, !.acc = acc,
                   !.amb = In(row, "unknown"), !.intr = intr])
     /\ UNCHANGED <<journal, world, faults>>

\* The helpers that say the reveal is on chain.
Confirming(g) == {h \in Helper : g \in revealed \/ h \in Faulty}

\* The status poll ends with a quorum of confirmations or without one.
poll_share_helpers(t) ==
  /\ job[t].pc = "poll"
  /\ \/ /\ Cardinality(Confirming(job[t].gen)) >= Quorum
        /\ Goto(t, [job[t] EXCEPT !.pc = "confirm"])
     \/ Goto(t, [job[t] EXCEPT !.pc = "decide"])
  /\ UNCHANGED <<journal, lock, world, faults>>

\* Only the row of the polled generation is marked.
mark_share_confirmed(t) ==
  /\ job[t].pc = "confirm"
  /\ row' = IF row.gen = job[t].gen THEN [row EXCEPT !.confirmed = TRUE] ELSE row
  /\ Leave(t)
  /\ UNCHANGED <<vote, vc, used, world, faults>>

\* The clock is read again after the poll.
decide_recovery(t) ==
  LET under == Cardinality(job[t].acc) < job[t].goal
  IN /\ job[t].pc = "decide"
     /\ IF WindowOpen /\ (Overdue \/ under \/ job[t].intr # {})
        THEN /\ Goto(t, [job[t] EXCEPT !.pc = "call", !.over = Overdue,
                           !.full = Overdue \/ under, !.left = Helper])
             /\ UNCHANGED lock
        ELSE Leave(t)
     /\ UNCHANGED <<journal, world, faults>>

\* Every call starts from the recovery material, which must be complete and
\* of the tracked generation.
recovery_material(t) ==
  /\ job[t].pc = "call"
  /\ IF vote = job[t].gen /\ vc
     THEN /\ Goto(t, [job[t] EXCEPT !.pc = "pick", !.cap = FALSE])
          /\ UNCHANGED lock
     ELSE Leave(t)
  /\ UNCHANGED <<journal, world, faults>>

\* Helpers not yet contacted in this pass, in the order of recovery: untried,
\* interrupted, and only when overdue unknown and accepted ones.
UntriedOnly(j) == <<j.left \ (j.amb \cup j.intr \cup j.acc), {}, {}, {}>>

recovery_order(j) ==
  LET untried == IF j.full THEN j.left \ (j.amb \cup j.intr \cup j.acc) ELSE {}
      interrupted == (j.left \cap j.intr) \ j.acc
      ambiguous == IF j.over THEN (j.left \cap j.amb) \ j.acc ELSE {}
      accepted == IF j.over THEN (j.left \cap j.acc) \ (j.amb \cup j.intr) ELSE {}
  IN <<untried, interrupted, ambiguous, accepted>>

\* The helpers that come next: the first group with any.
Foremost(j) ==
  {h \in Helper : \E i \in 1..4 : /\ h \in recovery_order(j)[i]
                                 /\ \A k \in 1..i - 1 : recovery_order(j)[k] = {}}

Fresh(j, h) == h \notin j.amb \cup j.intr \cup j.acc

\* The next helper: a fresh one is journalled first, any other is contacted
\* again if the share is not confirmed meanwhile.
next_helper(t, h) ==
  LET j == [job[t] EXCEPT !.left = @ \ {h}, !.h = h]
  IN /\ job[t].pc = "pick" /\ WindowOpen
     /\ h \in Foremost(job[t])
     /\ \/ /\ Fresh(j, h) /\ ~j.cap
           /\ Goto(t, [j EXCEPT !.pc = "reserve", !.seen = row])
           /\ UNCHANGED lock
        \/ Fresh(j, h) /\ j.cap /\ Goto(t, j) /\ UNCHANGED lock
        \/ /\ ~Fresh(j, h) /\ row.gen = j.gen
           /\ Goto(t, [j EXCEPT !.pc = IF row.confirmed THEN "pick" ELSE "dispatch"])
           /\ UNCHANGED lock
        \/ ~Fresh(j, h) /\ row.gen # j.gen /\ Leave(t)
     /\ UNCHANGED <<journal, world, faults>>

\* No helper is left, the cutoff has passed, or the pass is cancelled.
end_pass(t) ==
  /\ job[t].pc \in {"pick", "poll"}
  /\ \/ job[t].pc = "pick" /\ Foremost(job[t]) = {}
     \/ job[t].pc = "pick" /\ ~WindowOpen
     \/ Cancels
  /\ Leave(t)
  /\ UNCHANGED <<journal, world, faults>>

begin_existing_delivery_attempt(t) ==
  LET j == job[t]
      answer == reservation(j.seen, j.gen, j.h, j.goal, j.over \/ j.intr # {})
  IN /\ t \in Tracker /\ j.pc = "reserve"
     /\ \/ /\ answer = "Started" /\ same_row(row, j.seen)
           /\ row' = [row EXCEPT !.st = [j.seen.st EXCEPT ![j.h] = "attempting"]]
           /\ Goto(t, [j EXCEPT !.pc = "dispatch"]) /\ UNCHANGED lock
        \/ /\ answer = "Started" /\ ~same_row(row, j.seen)
           /\ Reread(t) /\ UNCHANGED <<row, lock>>
        \/ /\ answer \in {"AlreadyRecorded", "PlacementCapacityReached"}
           /\ Goto(t, [j EXCEPT !.pc = "pick",
                         !.cap = @ \/ answer = "PlacementCapacityReached"])
           /\ UNCHANGED <<row, lock>>
        \/ /\ answer = "StaleGeneration"
           /\ Leave(t) /\ UNCHANGED row
     /\ UNCHANGED <<vote, vc, used, world, faults>>

\* The client checks cancellation once more before the request goes out.
resubmit_share(t) ==
  LET j == job[t]
  IN /\ j.pc = "dispatch"
     /\ \/ /\ net' = net \cup {[h |-> j.h, g |-> j.gen, by |-> t]}
           /\ Goto(t, [j EXCEPT !.pc = "settle", !.out[j.h] = "sent"])
        \/ /\ Cancels
           /\ Goto(t, [j EXCEPT !.pc = "settle", !.out[j.h] = "cancelled"])
           /\ UNCHANGED net
     /\ UNCHANGED <<journal, lock, held, revealed, clock, faults>>

\* What the outcome of a contact writes: a re-POST that fails says nothing
\* about the earlier POST to the same helper.
RetryFailureIsDefinite(j) ==
  CASE j.out[j.h] = "accepted" -> "Accepted"
    [] j.out[j.h] = "ambiguous" -> IF j.h \in j.acc THEN "nothing" ELSE "Ambiguous"
    [] OTHER -> "DefiniteFailure"

RecoveryEffect(j) ==
  LET out == j.out[j.h]
  IN CASE out = "accepted" -> "Accepted"
       [] out = "cancelled" -> IF Fresh(j, j.h) THEN "DefiniteFailure" ELSE "nothing"
       [] out = "ambiguous" -> IF j.h \in j.acc THEN "nothing" ELSE "Ambiguous"
       [] OTHER -> IF j.h \in j.intr THEN "Ambiguous"
                   ELSE IF j.h \in j.amb THEN "nothing" ELSE "DefiniteFailure"

\* Where the pass goes on: an acceptance ends it when the target is reached or
\* the helper had accepted before.
AfterContact(t) ==
  LET j == job[t]
      acc == j.acc \cup {j.h}
  IN CASE j.out[j.h] = "cancelled" -> Leave(t)
       [] j.out[j.h] = "accepted" ->
            IF j.full /\ (Cardinality(acc) >= j.goal \/ j.h \in j.acc)
            THEN Leave(t)
            ELSE /\ Goto(t, [j EXCEPT !.pc = "call", !.acc = acc,
                                       !.out[j.h] = "none"])
                 /\ UNCHANGED lock
       [] OTHER -> /\ Goto(t, [j EXCEPT !.pc = "pick", !.out[j.h] = "none"])
                   /\ UNCHANGED lock

settle_read(t) ==
  /\ job[t].pc = "settle" /\ job[t].out[job[t].h] # "sent"
  /\ IF RecoveryEffect(job[t]) = "nothing" THEN AfterContact(t)
     ELSE /\ Goto(t, [job[t] EXCEPT !.pc = "resolve", !.seen = row])
          /\ UNCHANGED lock
  /\ UNCHANGED <<journal, world, faults>>

resolve_recovery_attempt(t) ==
  LET j == job[t]
  IN /\ t \in Tracker /\ j.pc = "resolve"
     /\ \/ /\ j.seen.gen # j.gen /\ Leave(t) /\ UNCHANGED row
        \/ /\ j.seen.gen = j.gen /\ ~same_row(row, j.seen)
           /\ Reread(t) /\ UNCHANGED <<row, lock>>
        \/ /\ j.seen.gen = j.gen /\ same_row(row, j.seen)
           /\ Store(row, resolved(j.seen, j.h, RecoveryEffect(j), j.over))
           /\ AfterContact(t)
     /\ UNCHANGED <<vote, vc, used, world, faults>>

-----------------------------------------------------------------------------
(* The helpers, the network and the process.                               *)

Arrive(m) ==
  /\ m \in net
  /\ net' = net \ {m}
  /\ held' = held \cup {<<m.h, m.g>>}
  /\ UNCHANGED <<journal, lock, job, revealed, clock, faults>>

Lose(m) ==
  /\ m \in net
  /\ net' = net \ {m}
  /\ UNCHANGED <<journal, lock, job, held, revealed, clock, faults>>

Mine(t, h) == [h |-> h, g |-> job[t].gen, by |-> t]

\* Requests nobody waits for any more.
Orphaned(m) == [m EXCEPT !.by = NoTask]

Accepts(t, h) ==
  /\ job[t].out[h] = "sent"
  /\ h \in Faulty \/ <<h, job[t].gen>> \in held
  /\ Goto(t, [job[t] EXCEPT !.out[h] = "accepted"])
  /\ net' = net \ {Mine(t, h)}
  /\ UNCHANGED <<journal, lock, held, revealed, clock, faults>>

\* The request was refused or never reached the helper, and the client knows.
Refused(t, h) ==
  /\ job[t].out[h] = "sent" /\ Mine(t, h) \in net
  /\ net' = net \ {Mine(t, h)}
  /\ Goto(t, [job[t] EXCEPT !.out[h] = "failed"])
  /\ UNCHANGED <<journal, lock, held, revealed, clock, faults>>

\* A timeout, a 5xx or an unusable answer: the request may still arrive.
Unknown(t, h) ==
  /\ job[t].out[h] = "sent"
  /\ net' = {IF m = Mine(t, h) THEN Orphaned(m) ELSE m : m \in net}
  /\ Goto(t, [job[t] EXCEPT !.out[h] = "ambiguous"])
  /\ UNCHANGED <<journal, lock, held, revealed, clock, faults>>

\* A helper that holds the share reveals it on chain when it is due.
Reveal(h, g) ==
  /\ <<h, g>> \in held /\ h \notin Faulty /\ Ready /\ g \notin revealed
  /\ revealed' = revealed \cup {g}
  /\ UNCHANGED <<journal, lock, job, net, held, clock, faults>>

Tick ==
  /\ clock < MaxClock
  /\ clock' = clock + 1
  /\ UNCHANGED <<journal, lock, job, net, held, revealed, faults>>

Crash ==
  /\ faults < MaxFaults
  /\ job' = [t \in Task |-> Idle] /\ lock' = NoTask
  /\ net' = {Orphaned(m) : m \in net}
  /\ faults' = faults + 1
  /\ UNCHANGED <<journal, held, revealed, clock>>

\* A storage operation of the task fails; the error ends the operation.
StoreFails(t) ==
  /\ faults < MaxFaults
  /\ job[t].pc \in {"reserve", "resolve", "confirm"}
  /\ Leave(t)
  /\ faults' = faults + 1
  /\ UNCHANGED <<journal, world>>

-----------------------------------------------------------------------------
Init ==
  /\ vote = NoGen /\ vc = FALSE /\ row = Absent /\ used = {}
  /\ lock = NoTask /\ job = [t \in Task |-> Idle]
  /\ net = {} /\ held = {} /\ revealed = {} /\ clock = 0 /\ faults = 0

DelivererStep(t) ==
  \/ prepare_committed_share_delivery(t) \/ lock_delivery(t)
  \/ cancel_lock_wait(t)
  \/ begin_delivery_attempt(t) \/ end_wave(t)
  \/ apply_read(t) \/ resolve_delivery_attempt(t)
  \/ \E h \in Helper : \/ reserve_read(t, h) \/ post_share(t, h)
                        \/ post_capacity_refused(t, h)

TrackerStep(t) ==
  \/ walk_pending_shares(t) \/ poll_share_helpers(t) \/ mark_share_confirmed(t)
  \/ decide_recovery(t) \/ recovery_material(t) \/ end_pass(t)
  \/ begin_existing_delivery_attempt(t) \/ resubmit_share(t)
  \/ settle_read(t) \/ resolve_recovery_attempt(t)
  \/ \E h \in Helper : next_helper(t, h)

HelperStep ==
  \/ \E m \in net : Arrive(m) \/ Lose(m)
  \/ \E t \in Task, h \in Helper :
       Accepts(t, h) \/ Refused(t, h) \/ Unknown(t, h)
  \/ \E h \in Helper, g \in Gen : Reveal(h, g)

Next ==
  \/ \E g \in Gen : store_vote(g)
  \/ record_vc_position \/ clear_round
  \/ \E t \in Deliverer : DelivererStep(t)
  \/ \E t \in Tracker : TrackerStep(t)
  \/ HelperStep
  \/ Tick \/ Crash \/ \E t \in Task : StoreFails(t)

Spec == Init /\ [][Next]_vars

\* Passes recur and helpers work, if not always: the share's lock is a FIFO
\* mutex, so a pass that keeps asking gets it; an honest helper that is asked
\* again and again answers at last, and a poll that could see a quorum at every
\* pass sees it at last.
Fairness ==
  /\ WF_vars(Tick)
  /\ \A t \in Deliverer : WF_vars(DelivererStep(t))
  /\ \A t \in Tracker :
       /\ WF_vars(TrackerStep(t)) /\ SF_vars(walk_pending_shares(t))
       /\ SF_vars(poll_share_helpers(t) /\ job'[t].pc = "confirm")
  /\ \A t \in Task, h \in Helper : WF_vars(Unknown(t, h))
  /\ \A t \in Tracker, h \in Helper \ Faulty : SF_vars(Arrive(Mine(t, h)))
  /\ \A h \in Helper, g \in Gen : WF_vars(Reveal(h, g))

LiveSpec == Spec /\ Fairness

-----------------------------------------------------------------------------
Outcomes == {"none", "queued", "sent", "accepted", "ambiguous", "failed",
             "stale", "cancelled"}

RowType == [gen : Gen \cup {NoGen}, st : [Helper -> Evidence],
            target : 0..Cardinality(Helper), confirmed : BOOLEAN,
            reset : BOOLEAN]

Pcs == {"idle", "prepared", "wave", "reserve", "post", "resolve", "poll",
        "confirm", "decide", "call", "pick", "dispatch", "settle"}

JobType == [pc : Pcs, gen : Gen \cup {NoGen}, goal : Nat, acc : SUBSET Helper,
            amb : SUBSET Helper, intr : SUBSET Helper, left : SUBSET Helper,
            wave : Seq(Helper), out : [Helper -> Outcomes],
            h : Helper \cup {NoHelper}, seen : RowType, over : BOOLEAN,
            full : BOOLEAN, cap : BOOLEAN]

\* The journal, the tasks and the requests keep their shape.
TypeOK ==
  /\ vote \in Gen \cup {NoGen} /\ vc \in BOOLEAN /\ used \subseteq Gen
  /\ row \in RowType
  /\ lock \in Task \cup {NoTask} /\ job \in [Task -> JobType]
  /\ net \subseteq [h : Helper, g : Gen, by : Task \cup {NoTask}]
  /\ held \subseteq Helper \X Gen /\ revealed \subseteq Gen
  /\ clock \in 0..MaxClock /\ faults \in 0..MaxFaults

\* The helpers that have the share or may still get it.
Reach == held \cup {<<m.h, m.g>> : m \in net}

\* A helper that may have the current share is in the journal, over lost
\* answers, crashes, failed storage and passes that retry: it is asked only
\* after its marker is durable (add_attempting_server_for_generation), and the
\* marker is removed only for a request known to have failed.
NothingForgotten ==
  \A h \in Helper : <<h, row.gen>> \in Reach => row.st[h] # "none"

\* An honest helper in sent_to_urls has the share of this very generation:
\* an answer to a request of a replaced generation never enters the new row.
AcceptedIsHeld ==
  \A h \in Helper \ Faulty :
    row.st[h] = "accepted" => <<h, row.gen>> \in held

\* A confirmed row's reveal is on chain although some helper misreports.
ConfirmedIsRevealed == row.confirmed => row.gen \in revealed

\* Before a share is overdue, and without a fault that leaves an interrupted
\* attempt behind, initial delivery and replenishment together never place
\* the share at more helpers than its target.
PlacementBound ==
  clock < 2 /\ faults = 0 =>
    Cardinality(In(row, "accepted") \cup In(row, "attempting")) <= row.target

\* Nothing is sent for a share the journal says is confirmed.
NoPostOnceConfirmed ==
  [][ \A m \in net' \ net :
        m.by # NoTask /\ m.g = row.gen => ~row.confirmed ]_vars

\* Every step of delivery, tracking and cleanup is a step of the ledger.
Ledger == INSTANCE ShareLedger
            WITH gen <- row.gen, evidence <- row.st,
                 confirmed <- row.confirmed, reach <- Reach,
                 public <- revealed

\* The journal keeps the promise of ShareLedger.
KeepsLedger == Ledger!LedgerSpec

\* A share whose row stays in place is confirmed at last when time does not
\* run out: lost answers, crashes and ambiguous outcomes only delay it.
EventuallyConfirmed ==
  <>[](row.gen # NoGen /\ vc) => <>(row.confirmed)
=============================================================================
