--------------------------- MODULE VoteCompletion ---------------------------
(***************************************************************************)
(* Completing a vote unit (vote_work/vote_completion.rs) and the bounded   *)
(* queue that delivers the shares of its confirmed votes                   *)
(* (vote/share_delivery/).                                                 *)
(*                                                                         *)
(* A step makes the helper plans of the unit durable, advances the chain,  *)
(* and once the unit is confirmed delivers the shares of all its votes     *)
(* through one queue whose jobs finish in any order.  Any await may be     *)
(* followed by an interruption, a planning or storage call may fail, and   *)
(* the process may stop anywhere; the next step then starts from what is   *)
(* durable.                                                                *)
(***************************************************************************)
EXTENDS Naturals, Sequences, FiniteSets, FiniteSetsExt

CONSTANTS VoteIn,        \* positions of the unit's votes, 1..n
          Payload,       \* positions of one vote's shares, 1..m
          MaxActive,     \* MAX_CONCURRENT_SHARE_DELIVERIES
          Permits,       \* SHARE_HELPER_MAX_CONCURRENT_POSTS
          TargetOf,      \* the target count a vote's plan gives each share
          MinimumCharge, \* MINIMUM_SHARE_CHARGE
          MaxSteps       \* bound: steps taken for the unit

ASSUME CompletionAssumption ==
  /\ IsFiniteSet(VoteIn) /\ VoteIn # {} /\ VoteIn = 1..Cardinality(VoteIn)
  /\ MaxSteps \in Nat
  /\ TargetOf \in [Payload -> Nat]
  /\ \A s \in Payload : TargetOf[s] <= Permits
  /\ MinimumCharge <= Permits

VARIABLES unit,       \* durable: its kind, the plans, the dispatch, the tree positions
          held,       \* what the helpers hold of each share
          step,       \* the running step
          jobs,       \* the delivery queue's jobs
          results,    \* per vote: the single delivery report, once final
          elsewhere   \* permits deliveries of other wallets hold

completionVars == <<unit, held, step, jobs, results, elsewhere>>

Job == VoteIn \X Payload

JobOrder(j) == (j[1] - 1) * Cardinality(Payload) + j[2]

NoResult == [final |-> FALSE, error |-> "none", delivered |-> <<>>, pending |-> {},
             cancelled |-> FALSE]

IdleStep == [at |-> "idle", votes |-> <<>>, advance |-> FALSE, plansFirst |-> FALSE,
             fleet |-> FALSE, next |-> 1, ready |-> {}, errors |-> {},
             interrupted |-> FALSE, disposition |-> "none", taken |-> 0]

NoJobs == [j \in Job |-> [at |-> "none", got |-> "nothing"]]

CompletionInit ==
  /\ \E kind \in {"legacy", "standalone", "combined"} :
       unit = [kind |-> kind, dispatched |-> kind = "legacy", plans |-> {}, positions |-> {}]
  /\ held = [j \in Job |-> "nothing"]
  /\ step = IdleStep
  /\ jobs = NoJobs
  /\ results = [v \in VoteIn |-> NoResult]
  /\ elsewhere = 0

Finish(s, how) == [s EXCEPT !.at = "done", !.disposition = how]

(***************************************************************************)
(* run_cast_votes, run_reconcile_chain and run_deliver hand a unit over:   *)
(* the whole unit while it is not confirmed, one vote once it is.  Plans   *)
(* come before the broadcast exactly when nothing was dispatched yet.      *)
(***************************************************************************)
\* A mistake: a resumed unit makes its plans just before delivery.
PlansLate == FALSE

PlansFirst == ~unit.dispatched

begin_completion ==
  /\ step.at = "idle"
  /\ step.taken < MaxSteps
  /\ IF unit.positions = {}
     THEN step' = [IdleStep EXCEPT !.at = "enter", !.advance = TRUE, !.plansFirst = PlansFirst,
                                   !.votes = [i \in 1..Cardinality(VoteIn) |-> i],
                                   !.taken = step.taken + 1]
     ELSE \E v \in VoteIn :
            step' = [IdleStep EXCEPT !.at = "enter", !.votes = <<v>>, !.taken = step.taken + 1]
  /\ jobs' = NoJobs
  /\ results' = [v \in VoteIn |-> NoResult]
  /\ UNCHANGED <<unit, held, elsewhere>>

enter_completion ==
  /\ step.at = "enter"
  /\ step' = IF step.interrupted THEN Finish(step, "cancelled")
             ELSE [step EXCEPT !.at = IF step.plansFirst THEN "preflight"
                                      ELSE IF step.advance THEN "chain" ELSE "recover"]
  /\ UNCHANGED <<unit, held, jobs, results, elsewhere>>

\* preflight_fleet fails on a bad fleet; otherwise the host may have left meanwhile.
preflight_fleet ==
  /\ step.at = "preflight"
  /\ \/ step' = Finish(step, "failed")
     \/ step' = IF step.interrupted THEN Finish(step, "cancelled")
                ELSE [step EXCEPT !.fleet = TRUE, !.at = "prepare"]
  /\ UNCHANGED <<unit, held, jobs, results, elsewhere>>

\* Each plan is its own transaction; a failure keeps the plans already written.
prepare_share_delivery ==
  /\ step.at = "prepare"
  /\ \/ step' = Finish(step, "failed") /\ UNCHANGED unit
     \/ /\ unit' = [unit EXCEPT !.plans = @ \cup {step.votes[step.next]}]
        /\ step' = IF step.next = Len(step.votes)
                   THEN [step EXCEPT !.next = 1, !.at = "chain"]
                   ELSE [step EXCEPT !.next = @ + 1]
  /\ UNCHANGED <<held, jobs, results, elsewhere>>

\* The POST is reserved durably before anything else can happen to the unit; the
\* chain then confirms it, keeps it pending, rejects it, or the call stops early.
\* A combined unit that is refused at its first POST, or committed as failed later, is
\* retired, its plans included, and is cast afresh.
advance_until_terminal ==
  /\ step.at = "chain"
  /\ \/ /\ UNCHANGED unit
        /\ step' \in {Finish(step, "failed")}
             \cup (IF step.interrupted THEN {Finish(step, "cancelled")} ELSE {})
     \/ /\ unit' = [unit EXCEPT !.dispatched = TRUE]
        /\ step' \in {Finish(step, d) : d \in {"pending", "terminal", "failed"}}
             \cup (IF step.interrupted THEN {Finish(step, "cancelled")} ELSE {})
     \/ /\ unit.kind = "combined" /\ unit.positions = {}
        /\ unit' = [unit EXCEPT !.dispatched = FALSE, !.plans = {}]
        /\ step' = Finish(step, "terminal")
     \/ /\ unit' = [unit EXCEPT !.dispatched = TRUE, !.positions = VoteIn]
        /\ step' = [step EXCEPT !.at = "recover"]
  /\ UNCHANGED <<held, jobs, results, elsewhere>>

(***************************************************************************)
(* After confirmation every vote is recovered afresh; a resumed unit also  *)
(* loads or makes its plan now.  A vote's error is kept and its siblings   *)
(* go on; an interruption ends the loop.                                   *)
(***************************************************************************)
Skip(s, v) == [s EXCEPT !.errors = @ \cup {v}, !.next = @ + 1]

recover_vote ==
  /\ step.at = "recover"
  /\ IF step.interrupted \/ step.next > Len(step.votes)
     THEN step' = [step EXCEPT !.at = "submit"] /\ UNCHANGED unit
     ELSE LET v == step.votes[step.next]
          IN \/ step' = Skip(step, v) /\ UNCHANGED unit
             \/ /\ ~step.plansFirst /\ ~step.fleet
                /\ step' = [step EXCEPT !.at = "latePreflight"]
                /\ UNCHANGED unit
             \/ /\ step.plansFirst \/ step.fleet
                /\ unit' = IF step.plansFirst THEN unit ELSE [unit EXCEPT !.plans = @ \cup {v}]
                /\ step' = [step EXCEPT !.ready = @ \cup {v}, !.next = @ + 1]
  /\ UNCHANGED <<held, jobs, results, elsewhere>>

late_preflight_fleet ==
  /\ step.at = "latePreflight"
  /\ step' \in {Finish(step, "failed"),
                IF step.interrupted THEN [step EXCEPT !.at = "submit"]
                                    ELSE [step EXCEPT !.fleet = TRUE, !.at = "recover"]}
  /\ UNCHANGED <<unit, held, jobs, results, elsewhere>>

(***************************************************************************)
(* submit_votes: every commitment is validated whole (its persisted plan   *)
(* of this very generation, and a tree position) before a job of it is     *)
(* queued; one that fails gets its final result at once.                   *)
(***************************************************************************)
Unprepared == [NoResult EXCEPT !.final = TRUE, !.error = "preparation", !.pending = Payload]

submit_votes ==
  /\ step.at = "submit"
  /\ \E bad \in {b \in SUBSET step.ready : Cardinality(b) <= 1} :
       LET unprepared == bad \cup (step.ready \ unit.plans)
       IN /\ results' = [v \in VoteIn |-> IF v \in unprepared THEN Unprepared ELSE NoResult]
          /\ jobs' = [j \in Job |-> [NoJobs[j] EXCEPT !.at =
                        IF j[1] \in step.ready \ unprepared THEN "queued" ELSE "none"]]
  /\ step' = [step EXCEPT !.at = "deliver"]
  /\ UNCHANGED <<unit, held, elsewhere>>

JobsAt(s) == {j \in Job : jobs[j].at = s}

\* The stream holds the first MaxActive jobs, in queue order, not yet recorded.
Streaming(j) ==
  Cardinality({k \in Job : JobOrder(k) < JobOrder(j)
                          /\ jobs[k].at \in {"queued", "active", "delivered"}}) < MaxActive

Charge(s) == IF TargetOf[s] > MinimumCharge THEN TargetOf[s] ELSE MinimumCharge

InUse == elsewhere + MapThenSumSet(LAMBDA j : Charge(j[2]), JobsAt("active"))

\* Admission takes the share's whole charge at once, or is cancelled.
acquire(j) ==
  /\ step.at = "deliver"
  /\ jobs[j].at = "queued"
  /\ Streaming(j)
  /\ IF step.interrupted
     THEN jobs' = [jobs EXCEPT ![j] = [at |-> "delivered", got |-> "skipped"]]
     ELSE /\ InUse + Charge(j[2]) <= Permits
          /\ jobs' = [jobs EXCEPT ![j].at = "active"]
  /\ UNCHANGED <<unit, held, step, results, elsewhere>>

\* An admitted share runs to its end whatever its siblings or the host do.  What a
\* helper accepted stays accepted; an error may come before or after the effect.
deliver(j) ==
  /\ step.at = "deliver"
  /\ jobs[j].at = "active"
  /\ \E got \in {"accepted", "ambiguous", "nowhere", "error"} :
       /\ jobs' = [jobs EXCEPT ![j] = [at |-> "delivered", got |-> got]]
       /\ held' = [held EXCEPT ![j] =
            IF @ = "accepted" \/ got \in {"nowhere", "error"} THEN @ ELSE got]
  /\ UNCHANGED <<unit, step, results, elsewhere>>

\* The outcome of each share that has one, every share without one pending, and whether one failed.
batch_delivery_report(v, js) ==
  LET got(s)    == js[<<v, s>>].got
      failed    == {s \in Payload : got(s) = "error"}
      completed == {s \in Payload : got(s) \in {"accepted", "ambiguous", "nowhere"}}
  IN [final |-> TRUE, error |-> IF failed = {} THEN "none" ELSE "share",
      delivered |-> [s \in completed |-> got(s)],
      pending |-> Payload \ completed, cancelled |-> step.interrupted]

\* The queue records one completion and, at a vote's last one, finalizes it.
record_and_finish(j) ==
  /\ step.at = "deliver"
  /\ jobs[j].at = "delivered"
  /\ LET js   == [jobs EXCEPT ![j].at = "recorded"]
         last == \A s \in Payload : js[<<j[1], s>>].at = "recorded"
     IN /\ jobs' = js
        /\ results' = IF last THEN [results EXCEPT ![j[1]] = batch_delivery_report(j[1], js)]
                              ELSE results
  /\ UNCHANGED <<unit, held, step, elsewhere>>

\* A mistake: a share some helper may hold counts as placed.
AnyReach(r) ==
  IF r.pending # {} \/ (\E s \in DOMAIN r.delivered : r.delivered[s] = "nowhere")
  THEN "incomplete" ELSE "complete"

\* What a report says of the shares it covers.
delivery_progress(r) ==
  LET some(got) == \E s \in DOMAIN r.delivered : r.delivered[s] = got
  IN IF r.pending # {} \/ some("nowhere") THEN "incomplete"
     ELSE IF some("ambiguous") THEN "awaiting" ELSE "complete"

\* The step's end: an error first, then cancellation, then what is still owed.
settle_completion ==
  /\ step.at = "deliver"
  /\ JobsAt("queued") \cup JobsAt("active") \cup JobsAt("delivered") = {}
  /\ LET covered  == {results[v] : v \in step.ready}
         failing  == step.errors \cup
                       {v \in step.ready : results[v].error # "none"}
         progress == {delivery_progress(r) : r \in covered}
         how      == IF failing # {} THEN "failed"
                     ELSE IF step.interrupted \/ \E r \in covered : r.cancelled
                     THEN "cancelled"
                     ELSE IF "incomplete" \in progress THEN "incomplete"
                     ELSE IF "awaiting" \in progress THEN "pending" ELSE "advanced"
     IN step' = Finish(step, how)
  /\ UNCHANGED <<unit, held, jobs, results, elsewhere>>

\* The world around the step.
interrupt_step ==
  /\ step.at \notin {"idle", "done"}
  /\ ~step.interrupted
  /\ step' = [step EXCEPT !.interrupted = TRUE]
  /\ UNCHANGED <<unit, held, jobs, results, elsewhere>>

\* The host takes the outcome, or the process stops: only durable state is left.
leave_step ==
  /\ step.at # "idle"
  /\ step' = [IdleStep EXCEPT !.taken = step.taken]
  /\ jobs' = NoJobs
  /\ results' = [v \in VoteIn |-> NoResult]
  /\ UNCHANGED <<unit, held, elsewhere>>

\* A re-sign of a unit nobody dispatched replaces its votes and drops their plans.
resign_unit ==
  /\ step.at = "idle"
  /\ ~unit.dispatched
  /\ unit.plans # {}
  /\ unit' = [unit EXCEPT !.plans = {}]
  /\ UNCHANGED <<held, step, jobs, results, elsewhere>>

other_wallet_delivers ==
  /\ step.at = "deliver"
  /\ elsewhere' \in {0, MinimumCharge}
  /\ elsewhere' # elsewhere
  /\ elsewhere' > elsewhere => InUse + MinimumCharge <= Permits
  /\ UNCHANGED <<unit, held, step, jobs, results>>

CompletionNext ==
  \/ begin_completion \/ enter_completion \/ preflight_fleet \/ prepare_share_delivery
  \/ advance_until_terminal \/ recover_vote \/ late_preflight_fleet \/ submit_votes
  \/ \E j \in Job : acquire(j) \/ deliver(j) \/ record_and_finish(j)
  \/ settle_completion \/ interrupt_step \/ leave_step \/ resign_unit
  \/ other_wallet_delivers

CompletionSpec == CompletionInit /\ [][CompletionNext]_completionVars

-----------------------------------------------------------------------------
\* The unit, what is held of it, the step and its jobs have their shapes.
CompletionTypes ==
  /\ unit.plans \subseteq VoteIn /\ unit.positions \in {{}, VoteIn}
  /\ held \in [Job -> {"nothing", "ambiguous", "accepted"}]
  /\ step.taken \in 0..MaxSteps
  /\ \A j \in Job : jobs[j].at \in {"none", "queued", "active", "delivered", "recorded"}
  /\ InUse <= Permits

\* A unit whose votes are on chain has the durable helper plans its shares are
\* delivered by, wherever a step failed, was interrupted or the process stopped;
\* only a unit dispatched before plans existed gets its plans later.
ConfirmedUnitHasPlans == unit.positions # {} => unit.kind = "legacy" \/ unit.plans = VoteIn

\* A step reports a unit advanced only when some helper definitely holds every share
\* of every vote the step covered, and each vote's one final report accounts for each
\* share once: with the outcome its job had, or as still pending.
AdvancedMeansHeld ==
  /\ step.disposition = "advanced" =>
       \A i \in 1..Len(step.votes), s \in Payload : held[<<step.votes[i], s>>] = "accepted"
  /\ \A v \in VoteIn : results[v].final =>
       LET told == results[v].delivered
       IN /\ DOMAIN told \cap results[v].pending = {}
          /\ DOMAIN told \cup results[v].pending = Payload
          /\ \A s \in DOMAIN told :
               /\ jobs[<<v, s>>] = [at |-> "recorded", got |-> told[s]]
               /\ told[s] = "accepted" => held[<<v, s>>] = "accepted"
=============================================================================
