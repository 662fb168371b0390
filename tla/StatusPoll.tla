----------------------------- MODULE StatusPoll -----------------------------
(***************************************************************************)
(* One status poll of a helper share (share_tracking/confirmation.rs and   *)
(* the entry points of share_tracking/mod.rs that call it).                *)
(*                                                                         *)
(* The caller loads the share row, takes the share's lock, reloads the row *)
(* and asks the configured helpers, a few at a time and under one budget,  *)
(* whether the share is confirmed on chain.  Requests complete on their    *)
(* own, the caller may cancel and the budget may run out at any moment,    *)
(* and the row may be replaced by one of another generation while the poll *)
(* runs.  Two distinct confirmations (one, of a single-helper fleet) are   *)
(* written back to the row of the generation that was polled.              *)
(***************************************************************************)
EXTENDS Naturals, Sequences, FiniteSets

CONSTANTS PollFleets,     \* the candidate lists: configured helpers, healthy ones first
          MaxPolls,       \* SHARE_STATUS_MAX_CONCURRENT_POLLS
          PollGens        \* generations (nullifiers) the share row can have

VARIABLES poll,           \* the poll: its fleet, place in the loop and tallies
          request,        \* the state of the status request to each helper
          shareRow,       \* the durable row: its generation, and whether confirmed
          pollCancelled,  \* the caller asked to stop
          pollExpired,    \* the budget has run out
          degraded        \* helpers this poll recorded as failing

pollVars == <<poll, request, shareRow, pollCancelled, pollExpired, degraded>>

RequiredConfirmations == 2

NoRow == [gen |-> "none", confirmed |-> FALSE]

Rows == {NoRow} \cup [gen : PollGens, confirmed : BOOLEAN]

\* The helpers of a candidate list.  A configured fleet names each helper once
\* (ConfiguredHelperFleet).
Asked(urls) == {urls[i] : i \in DOMAIN urls}

ASSUME PollAssumption ==
  /\ MaxPolls \in Nat
  /\ \A f \in PollFleets :
       f \in Seq(Asked(f)) /\ \A i, k \in DOMAIN f : f[i] = f[k] => i = k

\* What is known of one request: never sent, running, finished and not yet
\* joined (with what it answered), joined, or aborted before it finished.
Answers == {"confirmed", "pending", "error"}

RequestStates == [at : {"unsent", "running", "aborted"}, said : {"nothing"}]
                   \cup [at : {"finished", "joined"}, said : Answers]

Unsent == [at |-> "unsent", said |-> "nothing"]

AtState(s) == {h \in DOMAIN request : request[h].at = s}

Confirming == {h \in DOMAIN request : request[h].said = "confirmed"}

PollInit ==
  /\ \E fleet \in PollFleets, row \in {r \in Rows : r.gen # "none"} :
       /\ poll = [fleet |-> fleet, at |-> "load", gen |-> "none", left |-> fleet,
                  inFlight |-> {}, confirmations |-> 0, outcome |-> "none",
                  report |-> "none"]
       /\ request = [h \in Asked(fleet) |-> Unsent]
       /\ shareRow = row
  /\ pollCancelled = FALSE
  /\ pollExpired = FALSE
  /\ degraded = {}

Needed == IF Len(poll.fleet) < RequiredConfirmations THEN Len(poll.fleet)
                                                     ELSE RequiredConfirmations

Report(how) == [poll EXCEPT !.at = "reported", !.report = how]

(***************************************************************************)
(* observe_confirm_pending_share: load, lock (or be cancelled), reload and *)
(* carry on only with the row of the generation first loaded.              *)
(***************************************************************************)
load_share ==
  /\ poll.at = "load"
  /\ poll' = IF shareRow = NoRow THEN Report("missing")
                                 ELSE [poll EXCEPT !.at = "lock", !.gen = shareRow.gen]
  /\ UNCHANGED <<request, shareRow, pollCancelled, pollExpired, degraded>>

lock_share_operation_or_cancel ==
  /\ poll.at = "lock"
  /\ \/ pollCancelled /\ poll' = Report("cancelled")
     \/ poll' = IF shareRow.gen # poll.gen THEN Report("pending")
                ELSE IF shareRow.confirmed THEN Report("confirmed")
                ELSE IF poll.fleet = <<>> THEN Report("pending")
                ELSE [poll EXCEPT !.at = "drain"]
  /\ UNCHANGED <<request, shareRow, pollCancelled, pollExpired, degraded>>

\* A finished request leaves the in-flight set and counts when it confirms.
Joined(p, h) ==
  LET confirms == IF request[h].said = "confirmed" THEN 1 ELSE 0
  IN [p EXCEPT !.inFlight = p.inFlight \ {h}, !.confirmations = p.confirmations + confirms]

Ends(p, how) == [p EXCEPT !.at = "settle", !.outcome = how]

Aborted == [h \in DOMAIN request |->
              IF request[h].at = "running" THEN [at |-> "aborted", said |-> "nothing"]
                                           ELSE request[h]]

record_completed_poll(h) ==
  /\ request[h].at = "finished"
  /\ LET p == Joined(poll, h)
     IN IF p.confirmations = Needed
        THEN /\ poll' = Ends(p, "quorum")
             /\ request' = [Aborted EXCEPT ![h].at = "joined"]
        ELSE /\ poll' = [p EXCEPT !.at = "drain"]
             /\ request' = [request EXCEPT ![h].at = "joined"]

(***************************************************************************)
(* The loop of poll_share_helpers_with_budget.  What has finished is       *)
(* joined first; only then are cancellation and the deadline looked at.    *)
(***************************************************************************)
drain_completed ==
  /\ poll.at = "drain"
  /\ \/ \E h \in DOMAIN request : record_completed_poll(h)
     \/ /\ AtState("finished") = {}
        /\ poll' = IF AtState("running") = {} /\ poll.left = <<>>
                   THEN Ends(poll, "noQuorum") ELSE [poll EXCEPT !.at = "check"]
        /\ UNCHANGED request
  /\ UNCHANGED <<shareRow, pollCancelled, pollExpired, degraded>>

\* A mistake: what finished before the abort is thrown away with the rest.
ExpiresAtOnce ==
  /\ poll' = Ends([poll EXCEPT !.inFlight = {}], "noQuorum")
  /\ request' = Aborted
  /\ degraded' = degraded \cup poll.inFlight

\* Aborts first and joins what finished before the abort; only what really was
\* aborted is degraded, and only when the late answers make no quorum.
finish_expired_polls ==
  LET late    == AtState("finished")
      found   == poll.confirmations + Cardinality(late \cap Confirming) >= Needed
      aborted == poll.inFlight \ late
  IN /\ poll' = Ends([poll EXCEPT !.inFlight = IF found THEN aborted ELSE {}],
                     IF found THEN "quorum" ELSE "noQuorum")
     /\ request' = [h \in DOMAIN request |-> IF h \in late THEN [request[h] EXCEPT !.at = "joined"]
                                                           ELSE Aborted[h]]
     /\ degraded' = IF found THEN degraded ELSE degraded \cup aborted

\* A mistake: every helper is asked at once.
SpawnsAll == poll.left

\* As many further requests as fit beside those not joined yet.
Spawned == LET unjoined == Cardinality(AtState("running") \cup AtState("finished"))
               room     == IF unjoined >= MaxPolls THEN 0 ELSE MaxPolls - unjoined
           IN SubSeq(poll.left, 1, IF room < Len(poll.left) THEN room ELSE Len(poll.left))

check_and_spawn ==
  /\ poll.at = "check"
  /\ CASE pollCancelled ->
            /\ poll' = Ends(poll, "cancelled")
            /\ request' = Aborted
            /\ UNCHANGED degraded
       [] pollExpired /\ ~pollCancelled -> finish_expired_polls
       [] OTHER ->
            /\ poll' = [poll EXCEPT !.at = "wait",
                                    !.left = SubSeq(@, Len(Spawned) + 1, Len(@)),
                                    !.inFlight = @ \cup Asked(Spawned)]
            /\ request' = [h \in DOMAIN request |->
                             IF h \in Asked(Spawned) THEN [at |-> "running", said |-> "nothing"]
                                                     ELSE request[h]]
            /\ UNCHANGED degraded
  /\ UNCHANGED <<shareRow, pollCancelled, pollExpired>>

\* The wait ends with a finished request, which wins, or with the short timer
\* after which cancellation and the deadline are looked at again.
wait_join_or_tick ==
  /\ poll.at = "wait"
  /\ \/ \E h \in DOMAIN request : record_completed_poll(h)
     \/ /\ AtState("finished") = {}
        /\ pollCancelled \/ pollExpired
        /\ poll' = [poll EXCEPT !.at = "drain"]
        /\ UNCHANGED request
  /\ UNCHANGED <<shareRow, pollCancelled, pollExpired, degraded>>

(***************************************************************************)
(* poll_and_confirm_share: a quorum confirms the row if it still is of the *)
(* polled generation; anything else leaves the row alone.                  *)
(***************************************************************************)
confirm_polled_share ==
  /\ poll.at = "settle"
  /\ LET writes == poll.outcome = "quorum" /\ shareRow.gen = poll.gen
     IN /\ shareRow' = IF writes THEN [shareRow EXCEPT !.confirmed = TRUE] ELSE shareRow
        /\ poll' = Report(IF writes THEN "confirmed"
                          ELSE IF poll.outcome = "cancelled" THEN "cancelled" ELSE "pending")
  /\ UNCHANGED <<request, pollCancelled, pollExpired, degraded>>

\* The world around the poll.
share_status(h) ==
  /\ request[h].at = "running"
  /\ \E a \in Answers : request' = [request EXCEPT ![h] = [at |-> "finished", said |-> a]]
  /\ UNCHANGED <<poll, shareRow, pollCancelled, pollExpired, degraded>>

cancel_poll ==
  /\ ~pollCancelled
  /\ poll.at # "reported"
  /\ pollCancelled' = TRUE
  /\ UNCHANGED <<poll, request, shareRow, pollExpired, degraded>>

poll_budget_runs_out ==
  /\ ~pollExpired
  /\ poll.at \in {"drain", "check", "wait"}
  /\ pollExpired' = TRUE
  /\ UNCHANGED <<poll, request, shareRow, pollCancelled, degraded>>

replace_share_row ==
  /\ poll.at # "reported"
  /\ shareRow' \in {NoRow} \cup {[gen |-> g, confirmed |-> FALSE] :
                                   g \in PollGens \ {shareRow.gen, poll.gen}}
  /\ shareRow' # shareRow
  /\ UNCHANGED <<poll, request, pollCancelled, pollExpired, degraded>>

PollNext == \/ load_share \/ lock_share_operation_or_cancel \/ drain_completed
            \/ check_and_spawn \/ wait_join_or_tick \/ confirm_polled_share
            \/ \E h \in DOMAIN request : share_status(h)
            \/ cancel_poll \/ poll_budget_runs_out \/ replace_share_row

PollSpec == PollInit /\ [][PollNext]_pollVars

-----------------------------------------------------------------------------
\* The poll, its requests and the row have their shapes.
PollTypes ==
  /\ poll.fleet \in PollFleets
  /\ poll.at \in {"load", "lock", "drain", "check", "wait", "settle", "reported"}
  /\ poll.confirmations \in 0..RequiredConfirmations
  /\ request \in [Asked(poll.fleet) -> RequestStates]
  /\ shareRow \in Rows
  /\ Cardinality(AtState("running")) <= MaxPolls

\* A poll of the helpers decides by all the evidence that had arrived: it finds a
\* quorum only when that many distinct helpers said the share is confirmed, it
\* reports none only when fewer than that ever answered so (the answers that
\* finished just as the budget ran out included), it degrades only helpers whose
\* request it had to abort, and it confirms no row of a generation it did not poll.
PollDecidesByEvidence ==
  /\ poll.outcome = "quorum"    => Cardinality(Confirming) >= Needed
  /\ poll.outcome = "noQuorum" => Cardinality(Confirming) < Needed
  /\ degraded \subseteq AtState("aborted")
  /\ poll.report = "confirmed" /\ poll.outcome # "none" =>
       /\ shareRow.gen # poll.gen => ~shareRow.confirmed
       /\ Cardinality(Confirming) >= Needed
=============================================================================
