# A TLA+ model of zcash_voting

`zcash_voting` is the client side of shielded coin voting on Zcash. A wallet
splits its notes into bundles, delegates each bundle's voting power to a voting
hotkey (a transaction that puts a *VAN*, a vote authority note, into the vote
chain's commitment tree), and casts votes that spend the current VAN and create
the next one. Each vote also hands encrypted shares to helper servers, which
reveal them on chain later. All of this has to survive lost replies, cancelled
calls and process deaths without voting twice and without losing track of a vote
or a share.

Paths below are relative to `src/zcash_voting/src/`. `PROJECT.json` lists every
part of the system with its status, the lines each definition stands for, and the
hazards at the lines where they bite.

## The system and its modules

Three groups of parts are modelled.

**Chain submission** (`chain_submission/`, with the writers of the same rows in
`vote.rs`, `session.rs`, `delegate_and_vote_batch/` and `storage/`): one row per
submission identity; passes that admit, POST, look a hash up, scan the tree,
retry and settle; signing, retiring and discarding beside them.

**Helper shares** (`share.rs`, `share_tracking/`, `share_tracking_drive/`,
`share_policy/`, `helper/`, `vote/share_delivery/`,
`vote_work/vote_completion.rs`): a delivery journal per share, written by initial
delivery and by tracking passes; the policy that places and schedules shares; the
client that talks to helpers.

**Rounds** (`round_planning/`, `round_drive/`, `vote_work/`): what a round owes,
as a function of its rows, and the run that carries it out.

| Module | Models |
|---|---|
| `SubmissionState` | the submission row and `apply_submission_observation` (state.rs) |
| `SubmissionLedger` | the database and the chain alone: which rows, signed material and VAN positions may follow one another. It is the abstract specification, and holds the store's transactions |
| `ChainSubmission` | extends the ledger by passes, leases, replies, interruptions, crashes and the network, and implements it |
| `ShareLedger` | what the journal of a share promises: an abstract specification |
| `ShareDelivery` | initial delivery, tracking, recovery and confirmation of one share over its journal and a fleet of helpers; implements `ShareLedger` |
| `HelperClient` | requests with their retries, and the health table they share |
| `SharePolicy`, `SharePlacement` | timing, schedule and placement as operators |
| `HelperPreflight` | the readiness race over a fleet |
| `ShareTrackingDrive` | the driver of tracking passes over a round: claim, waits, budget, report |
| `StatusPoll` | one poll of the helpers for a quorum of confirmations |
| `VoteCompletion` | completing a vote unit, with the bounded delivery queue |
| `ShareDesignation` | ballot, plans and the round's one immediate share |
| `RoundStore`, `RoundPlanning`, `RoundDrive`, `Rounds` | the rows of a round, their classification and steps, a run over them, and what is asked of the three |
| `MCChainSubmission`, `MCShareDelivery`, `MCHelpers`, `MCRounds` | the instances TLC runs |
| `ChainSubmissionInvariant`, `ChainSubmissionTheorems` | proofs about chain submission and its ledger |
| `ShareDeliveryProofs` | proofs about the journal of a share, and that it implements `ShareLedger` |
| `PlacementProofs` | proof that a share is placed at no more helpers than its target |
| `EvidenceProofs` | proofs about `ShareLedger`, `StatusPoll` and `HelperClient` |
| `ShareWorkProofs` | proofs about `VoteCompletion`, `ShareDesignation` and `ShareTrackingDrive` |
| `RoundProofs`, `RoundReportProofs` | proofs about rounds: what is voted, what is planned, what a run reports |

The parts meet in the rows. `RoundDrive` takes a chain episode as one reservation
and one outcome (its passes are `ChainSubmission`) and the delivery of a unit as
one step (`VoteCompletion`); `VoteCompletion` takes the delivery of one share as
one outcome (`ShareDelivery`); `ShareTrackingDrive` takes a pass over a share as
what it does to one helper (`ShareDelivery` and `StatusPoll`).

### Chain submission

| Variable | Code |
|---|---|
| `row[g]` | the `chain_submissions` row of generation `g`: state, candidate hash, diagnostic kind, committed POST reservations. The candidate also stands for `confirmed_transaction_hash`. |
| `material[g]` | whether the setup, vote recovery or authorization from which `g` is derived is stored (`signed`), not yet (`unsigned`) or not any more (`retired`) |
| `spends[g]` | the leaf of the VAN a signed vote spends |
| `van[b]` | `bundles.van_leaf_position` |
| `streak[b]` | `combined_cast_rejections.consecutive_rejections` |
| `task[t]` | one call of `advance_in_epoch`, with the locals that live across an await |
| `late`, `pool`, `committed`, `leaf`, `size` | external: POSTed copies under way, mempool, block inclusion, commitment tree |

A *generation* is a submission identity together with its generation digest: one
semantic transaction. Several hashes can carry one generation, because the
SpendAuth signature of a delegation is outside the digest.

A pass is cut where the code awaits: between two awaits it runs as one step, and
each store call is one transaction. `Admission` covers `admit` and the branch
`advance_in_epoch` takes on its answer; `Posting` the outcome of one POST in
`submit_reserved_attempts` or `submit_recovery_retry`; `Retrying` the backoffs;
`Lookup` the status lookup in `reconcile_existing`; `Scan` the exact-tree scan,
the authorized retry and the settlement after "nullifier already spent" (code 2).
`Interrupt` sets what `interruption()` reads; the step that reads it is a step of
its own, so an interruption can fall before or after a dispatch. `StoreFails` is a
transaction that rolls back, `Crash` the death of the process: both lose the
answer of a POST in flight, and its copy keeps travelling. `Ballot` holds the
other writers: delegation setup and replacement, signing, changed and cleared
intents, roster retirement, discarding a delegation, lifting a rejection streak.
`Network` is the chain: copies arrive late or never, are evicted, or are included
with success (only while their nullifiers are unspent) or failure.

Abstractions and assumptions:

- Cancellation and a changed epoch are one flag; whether a tracking window has
  expired is a choice at each lookup; the diagnostic a lookup stores beside a
  Tracking row is left out, because nothing reads it.
- A tree scan sees a snapshot that may lag: no match is always possible, a match
  only for a landed generation.
- A hash that was committed is never included again, and this database is the only
  one that spends its notes: without that, code 2 would prove nothing
  (coordinator.rs:1158 draws the same conclusion).
- An endpoint may answer with a hash of another kind of transaction
  (`Misreports`), not with a hash whose committed events would also match
  (`EndpointAssumption`): `validate_hash_confirmation` cannot tell two singleton
  votes of a round apart, and the code trusts the endpoint there.
- An imported delegation is POSTed by the delegator's wallet: its copy starts
  under way, and a bundle has it or a delegation of its own, not both
  (`GenerationAssumption`).
- A votes row outlives the retirement of its recovery, so any generation that was
  ever signed is broadcast evidence of its bundle.

### Helper shares

`ShareDelivery` has the journal row (`row`: its generation, the evidence about
each helper, the placement target, whether it is confirmed), the commitment it
belongs to (`vote`, `vc`), the tasks (`job[t]`: a deliverer or a tracker with its
locals, cut at every await, and the row as it was last read), the share's lock,
and, external, the requests under way (`net`), what helpers hold (`held`) and the
reveals on chain (`revealed`). Every update of the row reads it, computes and
writes back only if the columns it read are unchanged; the two halves are separate
steps, so the round may be cleared and the vote committed anew between them. A
request may arrive after its caller has given up, or never; a faulty helper
answers anything. `clock` has the three phases the code tells apart (not due, due,
overdue) and the end of voting. Generations are drawn from `Gen`, each at most
once: a nullifier does not come back.

`StatusPoll`, `VoteCompletion`, `HelperClient`, `HelperPreflight`,
`ShareTrackingDrive` and `ShareDesignation` each have one component's own state,
with its environment (answers, deadlines, cancellation, host edits, the rows other
parts write) as actions of their own. `SharePolicy` and `SharePlacement` are
functions of their inputs, with seconds that saturate at `MaxSeconds` as u64 does
in the code; random orders are any order.

### Rounds

`RoundStore` has the rows as planning reads them, a vote and its chain row being
one record, and the host's edits. `RoundPlanning` is a function of one snapshot:
obligations, ordered steps, and the summary a host sees. `RoundDrive` has the run
(`run`), one job per bundle (`job`), and the proving threads (`prover`), which
keep their lock and finish even when the host drops the run.

## Properties

Each property is stated in words, with the code it is about, where it is defined.

**Chain submission** (`SubmissionLedger`, `ChainSubmission`)

- `NeverForgotten`: a generation without a row has no copy that is on chain or
  could get there. Rows are removed on three paths (definitely unsent, interrupted
  before dispatch, retirement of a rejected batch); each must be sure.
- `OneSpender`, `SignedWorkStaysViable`: two generations over the same notes or the
  same VAN are never both able to land, and what a signed vote spends is spent by
  nobody else.
- `SettledIsTrue`: Confirmed and SubmittedWithoutHash generations are on chain;
  Rejected ones are not and cannot get there.
- `UniqueCandidate`, `RecoveryMaterialKept`, `VanNeverBehind`: no hash belongs to
  two rows, the material of a stored row stays, and a bundle's VAN position is not
  behind a confirmed generation's.
- `ReservedBeforePost`, `NoIllegalTransition`: every POST runs under its committed
  reservation, and no pass applies an observation the state machine refuses.
- `CancelledHidesNothing`, `CandidateDroppedWithCause` (steps): "cancelled" leaves
  no row behind, and a candidate leaves its row only for a cause the code gives.
- `LedgerSpec`: the whole implements the abstract ledger.
- `LandedIsSettled` (liveness).

**Helper shares**

- `AcceptedIsHeld`, `ConfirmedIsRevealed`: an honest helper the journal lists as
  accepted has the share of the row's own generation; a confirmed row's reveal is
  on chain while fewer helpers than the quorum misreport.
- `PlacementBound`: delivery and replenishment together do not place a share at
  more helpers than its target, before it is overdue and without a fault.
- `NoPostOnceConfirmed` (steps): nothing is sent for a confirmed row.
- `KeepsLedger`: the journal implements `ShareLedger`, whose `NothingForgotten`
  says that a helper that may have the share is in the journal.
- `EventuallyConfirmed` (liveness).
- `PollDecidesByEvidence`: a poll reports a quorum or its absence as the answers
  say, degrades only helpers it aborted, and confirms no row of another generation.
- `OutcomesAreTrue`, `DemotionIsFair`: one call puts a share into a helper's queue
  at most once, and a failure booked as definite is of a POST that never arrives; a
  helper is demoted only after a run of failures, for the whole cooldown.
- `PlacementKeepsContract`, `PreflightIsPatient`: placement is even, shuffles
  prefer no order, no planned time is outside its window; a slow helper is not
  taken for an absent one.
- `RunReportIsTrue`, `RoundIsHandedOver`, `OverdueIsCaught`: a tracking run reports
  what its passes did, one run has a round at a time, and no wait skips the window
  in which an overdue share is retried.
- `ConfirmedUnitHasPlans`, `AdvancedMeansHeld`: a unit on chain has its delivery
  plans, and is reported advanced only when helpers hold every share.
- `OneImmediateShare`: at most one share of a round is marked immediate, and the
  designation of a vote that may be on chain stays.

**Rounds**

- `VotedAsDecided`: a vote that may be on chain says what the ballot says, however
  edits fall between signing, planning and dispatch.
- `PlanIsSound`: planning refuses nothing the program can reach; what it counts as
  voted is on chain or handed over; what it shows as done has no work left.
- `ReportIsTrue`: the reason a run stops with is true of the round as long as
  nothing was written since the plan it read.
- `OneTryPerShare`: a run spends at most one dispatch on a share.
- `RunEnds` (liveness).

## Runs

| Run | Instance | Distinct states | Asks |
|---|---|---|---|
| `Combined` | a delegation and two combined batches over the same notes | 96,502 | one spender, nothing forgotten by retirement, refinement of the ledger |
| `Resigned` | a delegation with two hashes, two votes | 880,696 | settled rows are true; candidates go only with cause; VAN positions |
| `Mixed` | two bundles, an imported delegation, an endpoint that confuses hashes | 621,022 | no hash has two owners; nothing imported is POSTed |
| `Passes` | a delegation, a batch, two concurrent passes | 183,714 | the lease suffices: no refused transition |
| `Settles` | a delegation with two hashes, with fairness | 3,488 | what landed is settled in the end |
| `Rejected` | one delegation | stops at the violation | the first finding |
| `Share` | two helpers, two generations, cancellation | 1,509,620 | a row replaced between a read and its write |
| `ShareFleet` | three helpers, one of them faulty | 684,481 | quorum, placement, no POST once confirmed |
| `ShareLive` | two helpers, one fault, with fairness | 122,567 | a share is confirmed in the end; refinement of `ShareLedger` |
| `Helpers` | eight components, one per behaviour | 636,837 | the helper side, a component at a time |
| `Designation` | two bundles, two proposals | stops at the violation | the second finding |
| `Rounds` | two bundles, two proposals, five starting points | 199,146 | a run against edits, cancellation and abandoned proving threads |

Each property of a passing run has a mutant, a plausible fault in one definition
under which TLC finds the property violated; the faulty definitions stand before
the ones they replace.

`Helpers` has the components side by side without products: `part` says which one a
behaviour is about. Deadlock is checked in the chain runs. The other runs may stop:
a share is confirmed or its window closes, a step is reported, a round has no work.

### Bounds

- `MaxAttempts` (8 in the code) is 2: a first, a last and a repeated attempt exist.
  `MaxReservations` stands for the `i64::MAX` at which reserving fails and is small
  enough to be met. `Task` is one pass, two in `Passes`. Generations and hashes are
  fixed per run.
- In the share runs `Target`, `Planned` and the fleet are chosen so that a delivery
  can fall short, replenishment has an untried helper, and (`ShareFleet`) a faulty
  helper is a minority of the quorum. `MaxClock = 2` stops the clock at overdue;
  the cutoff before the end of voting only takes steps away. `MaxFaults` counts
  crashes and failed transactions.
- `MaxPolls` 2 of up to 3 helpers, so that a poll has one waiting to be asked.
  `MaxActive` 2 and `Permits` 4, so that jobs wait for capacity. `MaxSteps` 2: a
  step and its repetition. `Threshold` 2 and `Cooldown` 2 within `MaxInstant` 4:
  demotion and readmission both happen.
- `MaxSeconds` 40 with small timing constants: saturation at the top, and windows
  that are empty, shorter than the buffer, and long.
- `MaxChanges` 2 edits of ballot or roster, `MaxDispatches` 3 as the run's budget,
  `MaxConcurrency` 2 for two bundles.

The proofs have none of these bounds: they are about every value of the constants
that the assumptions allow.

### Fairness

- `LandedIsSettled` (`FairSpec`): the host keeps calling advance with exact-tree
  recovery until the row is settled (`advance_until_terminal` is built to be called
  so), a running pass goes on (every wait of the code has a timeout), a tracking
  window runs out in the end, and lookups and scans that undisturbed passes make
  again and again are answered in the end. The latter are strong fairness, because
  interruptions, crashes and store failures disable the step again and again.
  Nothing is assumed of POSTs, of the chain or of failing stores.
- `EventuallyConfirmed` (`LiveSpec`): time passes; tasks go on between awaits; an
  attempt without an answer times out; a pass that keeps asking gets the share's
  lock, a FIFO mutex; an honest helper that is asked again and again takes the
  share, and reveals what it holds; a poll that could see a quorum at every pass
  sees one. The property is about shares whose row stays in place.
- `RunEnds` (`Fair`): the driver, the jobs of the bundles and the proving threads
  go on. Nothing is assumed of the host.

### Findings

`state.rs:64` and `docs/chain_submission_invariants.md:630` say that a row with the
diagnostic ChainRejected spent nothing. An authorized recovery retry POSTs such a
row under a reservation that keeps the diagnostic; if the process dies before the
answer is classified, the copy can land and the row still says ChainRejected
(`Rejected`). The consequence is small: a later code 2 is reported as an error
instead of settling the row, and an exact-tree pass still confirms it.

`docs/helper_submission_invariants.md:979` says that a repeat call returns the exact
stored plan. The key of the round's immediate share is derived anew at each call,
and can move onto a vote that was planned while a higher bundle (pruned since) or a
lower proposal (skipped since) had it; the stored plan is then refused
(`Designation`, delivery_plan.rs:427).

## Proofs

The theorems hold for every value of the constants that satisfies the named
assumptions: any number of generations, bundles, hashes, passes, helpers, shares,
proposals and runs, and any bounds. Fleets, shares, bundles and proposals are
finite.

| Assumption | Says |
|---|---|
| `NoHashAssumption`, `ConstantsAssumption`, `LedgerAssumption` | shapes of constants |
| `GenerationAssumption`, `EndpointAssumption` | which hashes a generation has, and what an endpoint may misreport (see above) |
| `ShareAssumption`, `FleetAssumption` | a finite fleet, planned helpers in it, a target it can meet |
| `QuorumAssumption` | fewer faulty helpers than confirmations needed |
| `PollAssumption`, `HelperAssumption`, `DriveAssumption`, `TimingAssumption`, `CompletionAssumption` | shapes of lists, timings and capacities; a fleet names a helper once, and no share asks for more permits than there are |
| `RoundAssumption`, `IndexAssumption` | options are not the markers of an undecided proposal; rows are indexed by numbers |

None of the invariants is inductive as a run states it. What each proof adds:

- **`Inv`** (`Invariance`): `OnePassPerBundle`, the lease, without which another
  pass could rewrite the row between a reservation and its answer; `RowSound`, with
  `NeverForgotten`; `PassSound`, that a pass at an await has its row in the state
  its locals claim; `ChainSound`, how hashes move from the mempool into blocks.
- **`LedgerInv`** of `SubmissionLedger` (`LedgerKeepsPromises`): who may be signed
  beside whom (`OneSetup`, `CombinedAlone`, `VotesApart`), that leaves are apart,
  and that each row is true of the chain. It is proved of the abstract ledger and
  reaches the coordinator by the refinement.
- **`Safe`** (`Safety`): both, with `Ready`, what a pass has established at each
  place it waits. From it follow the refinement (`ImplementsLedger`) and the
  remaining chain properties. The network is part of the refinement: an inclusion
  is a step of the ledger, a copy under way a stutter.
- **`ShareInv`** (`ShareSafety`): `Works`, what the holder of a share's lock knows,
  as long as its row is in place, of the requests that can have reached a helper;
  `Owns`, that only the holder writes; `JournalInv`, that generations do not come
  back. A task whose row was replaced knows nothing and must write nothing: that is
  the compare-and-write of the code. The refinement of `ShareLedger` follows.
- **`PlaceInv`** (`PlacementIsBounded`), on top of `ShareInv`: the bound on accepted
  and attempted helpers does not say that an open attempt belongs to a running job,
  that a job stops at a goal that is no more than the row's target, or that a pass
  without faults finds nothing interrupted and, before the share is overdue, asks
  only helpers its own reading of the journal does not list. Each is needed, and so
  is that a job whose last read found another generation never finds its own again.
- **`LedgerInv`** of `ShareLedger`: a row that is not there is empty.
- **`PollInv`**: the tally is the number of helpers whose confirmation was joined,
  and the requests in flight are those not joined. `PollStaysInBounds` follows.
- **`RequestInv`**, **`HealthInv`**: before a retry nothing was sent; the failures a
  helper had in a row are never fewer than its score.
- **`CompletionInv`**: which plans, results and jobs each stage of a step relies on.
- **`MarkInv`**: the mark on a plan and the designation are written together.
- **`DriveInv`**: the two books of a tracking run add up, and a pass visits each
  share of its worklist once.
- **`RoundInv`**: which rows a job, a proving thread and a bundle's lock stand for,
  so that an edit cannot reach a vote between its plan and its dispatch.
- **`DelegationInv`**, **`ReportInv`**: a combined batch is signed for a proved
  delegation and leaves it so until the chain has it; the plan a run decides by
  tells the truth as long as nothing is written. `PlansAreComplete` is the fact
  about the ordering of steps they rest on: sorting loses none.

Each invariant has one lemma per action, or per group of actions that change the
same fields, over a small set of lemmas that say what a step of that shape keeps.
The invariants were model-checked on the instances before they were proved.

Only model-checked:

- `LandedIsSettled`, `EventuallyConfirmed`, `RunEnds`: liveness under fairness is
  out of the prover's reach.
- `PlacementKeepsContract` (what a shuffle makes of its samples, and loads over a batch) and
  `OverdueIsCaught` (a sum of waits over the passes of a run) need induction over
  data.
- `PreflightIsPatient`, `RoundTypes`, `OneTryPerShare`: the ranking and the wave of
  a run are filtered sequences (`SelectSeq`), about which the provers have no facts.
  What `PlanIsSound`, `VotedAsDecided` and `ReportIsTrue` need of the types is in
  `RoundInv`.
- `HelperTypes`: the conjunction over the components; the invariants above hold the
  types of the components they are about. It also says that the delivery queue
  stays within its permits, a sum over a set of jobs (`MapThenSumSet`) that would
  take an induction.

## Not modelled

- The page walk of the exact-tree scan (its answers are choices), the episode loop
  of the submission client, the lock registries and the account lease.
- Tree synchronisation and the commitment tree crate: a cache over a library of
  hashes.
- Note bundling, selection, round and configuration parsing: functions without
  steps of their own.
- Single flight of delegation proofs: `RoundDrive` has what the threads leave
  behind.
- Wallet cleanup and schema migrations.
- Wire forms and codecs, HTTP, PIR and lightwalletd (their outcomes are choices of
  the modelled callers), cryptography, observability, benches, the conformance
  harness and the example wallet.
