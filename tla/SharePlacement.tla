--------------------------- MODULE SharePlacement ---------------------------
(***************************************************************************)
(* Which helpers each share of a commitment is first sent to               *)
(* (share_policy/initial_placement.rs, share_policy/server_order.rs).      *)
(*                                                                         *)
(* Shares are placed one after the other; each takes the least used of the *)
(* planning servers, ties broken by a fresh random order.  The random      *)
(* order is any order.                                                     *)
(***************************************************************************)
EXTENDS SharePolicy, SequencesExt

CONSTANTS ServerCounts,  \* sizes of the configured fleet
          ShareCounts,   \* sizes of the batches
          VoteWindows    \* start and end of voting, as pairs

VARIABLES batch

-----------------------------------------------------------------------------
(* plan_share_submissions_with_preferred_servers.                          *)

\* A mistake: the pool is the ready helpers, if they reach the target.
ReadyPool(n, preferred, complete) ==
  Min({n, Max({preferred, share_submission_target_count(n)})})

planning_server_count(n, preferred, complete) ==
  Min({n, Max({preferred, IF complete THEN min_server_count(n) ELSE share_submission_target_count(n)})})

NoBatch == [pc |-> "idle", n |-> 0, pool |-> 0, shares |-> 0, quota |-> 0,
            done |-> 0, usage |-> <<>>, last |-> {}, when |-> <<>>]

plan_share_submissions ==
  /\ batch.pc = "idle"
  /\ \E n \in ServerCounts, count \in ShareCounts, single \in BOOLEAN :
       \E preferred \in 0..n + 1 :
         LET complete == count = VOTE_COMMITMENT_SHARE_COUNT /\ ~single
             invalid == \/ single /\ count # 1
                        \/ n = 0 \/ preferred > n
                        \/ complete /\ min_server_count(n) > n
             pool == planning_server_count(n, preferred, complete)
         IN batch' = IF count = 0 /\ ~single THEN [batch EXCEPT !.pc = "done"]
              ELSE IF invalid THEN [batch EXCEPT !.pc = "invalid"]
              ELSE [pc |-> "planning", n |-> n, pool |-> pool, shares |-> count,
                    quota |-> IF complete /\ pool > 1
                                THEN MAX_INITIAL_SHARES_PER_SERVER ELSE count,
                    done |-> 0, usage |-> [i \in 1..pool |-> 0], last |-> {}, when |-> <<>>]

\* The servers below the quota, ranked by usage and then at random.
select_batch_share_submission_targets ==
  LET below == {i \in 1..batch.pool : batch.usage[i] < batch.quota}
      target == share_submission_target_count(batch.n)
  IN /\ batch.pc = "planning" /\ batch.done < batch.shares
     /\ \/ /\ Cardinality(below) < target
           /\ batch' = [batch EXCEPT !.pc = "no_quota"]
        \/ \E S \in kSubset(target, below) :
             /\ \A i \in S, j \in below \ S : batch.usage[i] <= batch.usage[j]
             /\ batch' = [batch EXCEPT
                  !.usage = [i \in 1..batch.pool |-> IF i \in S THEN @[i] + 1 ELSE @[i]],
                  !.done = @ + 1, !.last = S,
                  !.pc = IF batch.done + 1 = batch.shares THEN "done" ELSE @]

\* A share planned at time now is sent at submit: 0 stands for at once.
plan_share_submission ==
  /\ batch.pc = "idle"
  /\ \E w \in VoteWindows, now \in 0..MaxSeconds, single \in BOOLEAN :
       \E submit \in scheduled_share_submit_at(now, w[2], last_moment_buffer_seconds(w[1], w[2]), single) :
         batch' = [batch EXCEPT !.pc = "scheduled", !.when = <<now, submit, w, single>>]

PlacementInit == batch = NoBatch
PlacementNext == plan_share_submissions \/ plan_share_submission \/ select_batch_share_submission_targets

-----------------------------------------------------------------------------
(* Properties.                                                             *)

\* The shape of a batch under way.
PlacementTypes ==
  /\ batch.pc \in {"idle", "invalid", "planning", "no_quota", "done", "scheduled"}
  /\ batch.done \in 0..batch.shares /\ batch.pool <= batch.n

\* The placement contract of a commitment.  A fleet of any size has enough
\* helpers for a complete batch, whatever part of it is ready; no share of it
\* ever finds too few helpers below the quota, no helper of several gets more
\* than three quarters of the shares, and the load of the planning servers never
\* differs by more than one share.  Every order of a fleet is the shuffle of
\* exactly one vector of samples, so no order is preferred.  A submission that is
\* put off never falls into the last moment of the voting, or before it was
\* planned; and one that could be put off is.
PlacementKeepsContract ==
  /\ batch.pc # "no_quota"
  /\ batch.pc = "planning" /\ batch.done > 0 =>
       Cardinality(batch.last) = share_submission_target_count(batch.n)
  /\ \A i, j \in DOMAIN batch.usage :
       /\ batch.usage[i] - batch.usage[j] <= 1
       /\ batch.shares = VOTE_COMMITMENT_SHARE_COUNT /\ batch.n > 1
            => batch.usage[i] <= MAX_INITIAL_SHARES_PER_SERVER
  /\ batch.pc = "scheduled" =>
       LET now == batch.when[1]
           submit == batch.when[2]
           start == batch.when[3][1]
           end == batch.when[3][2]
       IN IF submit = 0 /\ now > 0
            THEN batch.when[4] \/ end <= start \/ now >= last_moment_deadline_seconds(start, end)
            ELSE /\ now <= submit /\ submit < end /\ ~is_last_moment(submit, start, end)
                 /\ submit - now < DelayMax
  /\ batch.pc = "invalid" =>   \* (facts of the policy alone: evaluated once)
       /\ \A n \in 1..25 : min_server_count(n) <= n
       /\ \A n \in 1..4 :
            LET fleet == [i \in 1..n |-> i] IN
            /\ {shuffled_share_server_order(fleet, f) : f \in Samples(n)} = SetToSeqs(1..n)
            /\ \A f, g \in Samples(n) : shuffled_share_server_order(fleet, f) = shuffled_share_server_order(fleet, g) => f = g
=============================================================================
