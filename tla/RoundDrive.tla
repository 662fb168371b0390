----------------------------- MODULE RoundDrive -----------------------------
(***************************************************************************)
(* A run of the round driver (round_drive/) over the step executor         *)
(* (vote_work/): plan, admit a wave, dispatch it, fold the results, repeat *)
(* until only the host can go on.                                          *)
(*                                                                         *)
(* Each step takes its lock, plans again under it and carries out the one  *)
(* obligation it resolves to.  Proving happens on a thread of its own that *)
(* keeps the lock, and finishes even when the host drops the run.  A chain *)
(* episode is one reservation and one outcome (ChainSubmission has its     *)
(* passes); the delivery of a unit's shares is one step (VoteCompletion).  *)
(***************************************************************************)
EXTENDS RoundPlanning

CONSTANTS
    MaxDispatches,   \* RoundDrivePolicy::max_dispatches
    MaxConcurrency   \* RoundDrivePolicy::max_bundle_concurrency

VARIABLES
    host,     \* its failure isolation and the signer its contexts offer
    run,      \* the run: position, ledger and last report
    job,      \* per bundle: the dispatched step's future
    prover,   \* per bundle: the proving thread
    left,     \* the host cancelled or moved to another epoch
    calm      \* nothing was written since the run last read the plan

driveVars == <<host, run, job, prover, left, calm>>

NoPlan == [steps |-> <<>>, tracked |-> {}, signing |-> {}, quiet |-> "none"]
NoJob == [at |-> "none", step |-> NoPlan, ps |-> {}, draft |-> <<>>, how |-> "none"]
NoProver == [kind |-> "none", ps |-> {}, draft |-> <<>>, seen |-> <<>>]
NoRun == [pc |-> "idle", plan |-> NoPlan,
          wave |-> <<>>, await |-> <<>>, repoll |-> <<>>, skipped |-> {}, failed |-> FALSE,
          dispatches |-> 0, tried |-> {}, twice |-> FALSE, quiescence |-> "none", owed |-> {}]

DriveTypes ==
    /\ host \in [isolation: {"SkipBundle", "StopRound"}, signer: {"self", "stored", "absent"}]
    /\ run.pc \in {"idle", "loop", "unreadable", "decide", "contexts", "wave", "refresh", "sleep"}
    /\ run.dispatches \in 0 .. MaxDispatches /\ run.skipped \subseteq Bundles
    /\ Len(run.wave) <= MaxConcurrency
    /\ \A b \in Bundles :
         /\ job[b].at \in {"none", "lock", "work", "proving", "plans", "reserve", "episode",
                           "deliver", "done"}
         /\ prover[b].kind \in {"none", "delegate", "cast", "combined"}
         /\ prover[b].ps \subseteq Proposals

----------------------------------------------------------------------------
(* Locks.  bundle_scope: proving and advancing a local delegation locks    *)
(* the bundle, everything else the round.                                  *)

BundleScoped(s) == s.kind \in {"Delegate", "AdvanceDelegation"}

Holding(b) == job[b].at \notin {"none", "lock", "done"}

LockFree(s) ==
    IF BundleScoped(s)
    THEN prover[s.b].kind # "delegate"
    ELSE \A b \in Bundles : /\ prover[b].kind \notin {"cast", "combined"}
                            /\ Holding(b) => BundleScoped(job[b].step)

----------------------------------------------------------------------------
(* The run loop.                                                           *)

StoreKept == UNCHANGED storeVars
Observed == calm' = (calm /\ storeVars' = storeVars)

\* Run::finish; the next run starts from nothing.
Finish(q, owed) ==
    run' = [NoRun EXCEPT !.quiescence = IF left THEN "Cancelled" ELSE q, !.owed = owed]

StartRun ==
    /\ run.pc = "idle"
    /\ run' = [NoRun EXCEPT !.pc = "loop"]
    /\ left' = FALSE
    /\ UNCHANGED <<job, prover, calm>> /\ StoreKept

\* quiesce_before_dispatch, without the run's own failures.
QuietReason ==
    CASE BlockingRecovery -> "PersistedChainTerminal"
      [] ~BlockingRecovery /\ NeedsBundleSetup -> "NeedsBundleSetup"
      [] ~BlockingRecovery /\ ~NeedsBundleSetup /\ ~RosterIsTerminal -> "NeedsBallot"
      [] OTHER -> IF NextSteps # <<>> THEN "BackgroundShareWorkOnly" ELSE "NoWorkLeft"

\* The one plan a pass selects from; the read may fail.
ReadPlan ==
    /\ run.pc = "loop"
    /\ \/ left /\ Finish("Cancelled", {}) /\ UNCHANGED calm
       \/ ~left /\ run' = [run EXCEPT !.pc = "unreadable"] /\ UNCHANGED calm
       \/ /\ ~left /\ ~PlanRefused
          /\ run' = [run EXCEPT !.pc = "decide", !.plan =
                [steps |-> NextSteps, tracked |-> {s \in Range(NextSteps) : Tracked(s)},
                 signing |-> SigningBundles, quiet |-> QuietReason]]
          /\ calm' = TRUE
    /\ UNCHANGED <<job, prover, left>> /\ StoreKept

\* The failed read may have spanned an interruption.
PlanUnreadable ==
    /\ run.pc = "unreadable"
    /\ Finish("Failures", {})
    /\ UNCHANGED <<job, prover, left, calm>> /\ StoreKept

\* Mutant: shares the tracker owns stay in the stream.
PollsTracked(plan) == plan.steps

Dispatchable(plan) == SelectSeq(plan.steps, LAMBDA s : s \notin plan.tracked)

\* next_dispatches: re-polled steps lead, a step under the round lock goes
\* alone, and bundle work up to the first of those goes in a bounded wave.
Wave(steps) ==
    LET mine(s) == s.b \notin run.skipped
        again   == SelectSeq(run.await, LAMBDA s : s \in Range(steps) /\ mine(s))
        ordered == again \o SelectSeq(steps, LAMBDA s : mine(s) /\ s \notin Range(again))
        bounds  == {Len(ordered), MaxConcurrency, MaxDispatches - run.dispatches}
                     \cup {i - 1 : i \in {j \in DOMAIN ordered : ~BundleScoped(ordered[j])}}
        limit   == CHOOSE n \in bounds : \A m \in bounds : n <= m
    IN  IF ordered = <<>> THEN <<>>
        ELSE IF BundleScoped(ordered[1]) /\ host.isolation = "SkipBundle"
             THEN SubSeq(ordered, 1, limit) ELSE <<ordered[1]>>

\* Mutant: the interruption that fell into the read is not looked for.
ReportsTheRound(q) == run' = [NoRun EXCEPT !.quiescence = q]

FinishBeforeDispatch(q) == Finish(q, {})

\* After the read and the host's callback: stop, or pick a wave.
Decide ==
    /\ run.pc = "decide"
    /\ LET steps == Dispatchable(run.plan)
           wave  == Wave(steps)
           handoff == \A s \in Range(run.plan.steps) : s.b \in run.skipped \/ s \in run.plan.tracked
       IN  IF left \/ handoff \/ run.dispatches >= MaxDispatches \/ wave = <<>>
           THEN FinishBeforeDispatch(
                  CASE handoff -> IF run.failed THEN "Failures" ELSE run.plan.quiet
                    [] ~handoff /\ run.dispatches >= MaxDispatches -> "PassBudgetExhausted"
                    [] OTHER -> "Failures")
           ELSE run' = [run EXCEPT !.pc = "contexts", !.wave = wave,
                   !.await = SelectSeq(@, LAMBDA s : s \in Range(steps) \ Range(wave)
                                                     /\ s.b \notin run.skipped)]
    /\ UNCHANGED <<job, prover, left, calm>> /\ StoreKept

\* missing_signer_bundles, the host offering host.signer in every context:
\* "self" signs within the step, "stored" needs a stored signature for every
\* bundle still to be delegated, "absent" cannot sign what the wave admits.
MissingSigners(stored) ==
    LET owed == run.plan.signing \ run.skipped
        admitted == {b \in owed : \E s \in Range(run.wave) :
                       s.b = b /\ s.kind \in {"Delegate", "CastVote", "AdvanceDelegation"}}
    IN  CASE admitted = {} \/ host.signer = "self" -> {}
          [] admitted # {} /\ host.signer = "absent" -> admitted
          [] OTHER -> owed \ stored

\* Mutant: a step that is dispatched again is not charged again.
ChargesOnce(n) == IF run.dispatches > 0 THEN run.dispatches ELSE n

\* Mutant: a dispatch is charged when it is selected and when it is made.
ChargesTwice(n) == run.dispatches + 2 * n

Charged(n) == run.dispatches + n

\* Contexts were built and stored signatures read, which may fail; the last
\* look at the control before anything is dispatched.
Dispatch ==
    /\ run.pc = "contexts"
    /\ \/ Finish("Failures", {}) /\ UNCHANGED job
       \/ \E stored \in {{}, Bundles} :
            IF left \/ MissingSigners(stored) # {}
            THEN Finish("NeedsDelegationSignatures", MissingSigners(stored)) /\ UNCHANGED job
            ELSE LET helper == {<<s.b, s.p>> : s \in {w \in Range(run.wave) :
                                                w.kind \in {"ConfirmShare", "SubmitShares"}}}
                     of(b) == {s \in Range(run.wave) : s.b = b}
                 IN  /\ run' = [run EXCEPT !.pc = "wave", !.dispatches = Charged(Len(run.wave)),
                                           !.plan = NoPlan, !.tried = @ \cup helper,
                                           !.twice = @ \/ helper \cap run.tried # {}]
                     /\ job' = [b \in Bundles |-> IF of(b) = {} THEN NoJob
                            ELSE [NoJob EXCEPT !.at = "lock", !.step = CHOOSE s \in of(b) : TRUE]]
    /\ UNCHANGED <<prover, left, calm>> /\ StoreKept

\* record_outcome and record_failure: why a result ends the run.
Ends(how) == CASE how = "Cancelled" -> "Cancelled"
               [] how = "ChainTerminal" -> "ChainTerminal"
               [] how = "Stalled" -> "ChainRecoveryStalled"
               [] how = "Failed" /\ host.isolation = "StopRound" -> "Failures"
               [] OTHER -> "none"

\* The results of a drained wave in dispatch order: the first that ends the
\* run names the reason.
Fold ==
    /\ run.pc = "wave"
    /\ \A s \in Range(run.wave) : job[s.b].at = "done"
    /\ LET failing == {s.b : s \in {w \in Range(run.wave) : job[w.b].how = "Failed"}}
           ending  == SelectSeq(run.wave, LAMBDA s : Ends(job[s.b].how) # "none")
           spent   == run.dispatches >= MaxDispatches
           repolls == SelectSeq(run.wave, LAMBDA s : job[s.b].how = "Pending")
       IN  IF left
           THEN Finish("Cancelled", {})
           ELSE run' = [run EXCEPT
                  !.skipped = IF host.isolation = "SkipBundle" THEN @ \cup failing ELSE @,
                  !.failed = @ \/ failing # {},
                  !.repoll = IF ending # <<>> \/ spent THEN <<>> ELSE repolls,
                  !.wave = <<>>,
                  !.quiescence = IF ending = <<>> THEN "none" ELSE Ends(job[ending[1].b].how),
                  !.pc = CASE ending # <<>> -> "refresh"
                           [] ending = <<>> /\ ~spent /\ repolls # <<>> -> "sleep"
                           [] OTHER -> "loop"]
    /\ job' = [b \in Bundles |-> NoJob]
    /\ UNCHANGED <<prover, left, calm>> /\ StoreKept

\* refresh_progress reads the plan for the report, and the control is looked
\* at once more.
Refresh ==
    /\ run.pc = "refresh"
    /\ Finish(run.quiescence, {})
    /\ UNCHANGED <<job, prover, left, calm>> /\ StoreKept

\* sleep_until_interrupted; the steps that waited lead the next selection.
Sleep ==
    /\ run.pc = "sleep"
    /\ IF left THEN Finish("Cancelled", {})
       ELSE run' = [run EXCEPT !.pc = "loop", !.await = @ \o run.repoll, !.repoll = <<>>]
    /\ UNCHANGED <<job, prover, left, calm>> /\ StoreKept

DriverStep == ReadPlan \/ PlanUnreadable \/ Decide \/ Dispatch \/ Fold \/ Refresh \/ Sleep

----------------------------------------------------------------------------
(* One dispatched step.  A result also carries a fresh plan, whose read    *)
(* may fail.                                                               *)

Done(b, how) == \E h \in {how, "Failed"} : job' = [job EXCEPT ![b] = [@ EXCEPT !.at = "done", !.how = h]]
Goto(b, at) == job' = [job EXCEPT ![b].at = at]
Unit(b) == job[b].ps

\* advance_step_under: the lock, the plan under it, and what the step still
\* stands for.
AcquireLock(b) ==
    /\ job[b].at = "lock"
    /\ LET s == job[b].step IN
       \/ left /\ Done(b, "Cancelled")
       \/ /\ LockFree(s)
          /\ CASE PlanRefused -> Done(b, "Failed")
               [] ~PlanRefused /\ Resolve(s) = {} -> Done(b, "NoWork")
               [] ~PlanRefused /\ Resolve(s) # {} /\ Prerequisite(s) -> Done(b, "Failed")
               [] OTHER -> IF left THEN Done(b, "Cancelled")
                           ELSE LET o == CHOOSE x \in Resolve(s) : TRUE
                                IN  job' = [job EXCEPT ![b] = [@ EXCEPT !.at = "work", !.ps = o.ps,
                                                      !.draft = [p \in o.ps |-> intent[p]]]]
    /\ UNCHANGED <<run, prover, left, calm>> /\ StoreKept

Kind(b, ks) == job[b].at = "work" /\ job[b].step.kind \in ks
NoSigner == host.signer = "absent"

\* run_delegate
StartDelegate(b) ==
    /\ Kind(b, {"Delegate"})
    /\ IF NoSigner THEN Done(b, "Failed") /\ UNCHANGED prover
       ELSE /\ prover' = [prover EXCEPT ![b] = [NoProver EXCEPT !.kind = "delegate"]]
            /\ Goto(b, "proving")
    /\ UNCHANGED <<run, left, calm>> /\ StoreKept

\* The delegation thread proves and persists; its future may be gone.
ProveDelegation(b) ==
    /\ prover[b].kind = "delegate"
    /\ prover' = [prover EXCEPT ![b] = NoProver]
    /\ \E ok \in BOOLEAN :
         /\ deleg' = IF ok /\ deleg[b] = "prepared" THEN [deleg EXCEPT ![b] = "proved"] ELSE deleg
         /\ IF job[b].at = "proving"
            THEN Done(b, CASE ~ok -> "Failed" [] ok /\ left -> "Cancelled" [] OTHER -> "Advanced")
            ELSE UNCHANGED job
    /\ UNCHANGED <<run, left, intent, roster, imported, vote, shares, streak, changes>>
    /\ Observed

\* run_advance_delegation and the status check of an imported delegation.
AdvanceDelegation(b) ==
    /\ Kind(b, {"AdvanceDelegation", "AdvanceImportedDelegation"})
    /\ \/ Done(b, "Failed") /\ UNCHANGED deleg
       \/ left /\ Done(b, "Cancelled") /\ UNCHANGED deleg
       \/ /\ job[b].step.kind = "AdvanceDelegation" => ~NoSigner
          \* an imported delegation has one transaction, which may be refused for
          \* good; one of the wallet's own stays recoverable
          /\ \E to \in [how: {"Advanced"}, is: {"confirmed"}]
                 \cup [how: {"Pending", "Stalled"}, is: {deleg[b]}]
                 \cup [how: {"ChainTerminal"}, is: {IF b \in imported THEN "rejected" ELSE "hashless"}] :
               /\ b \in imported => to.how # "Stalled"
               /\ deleg' = [deleg EXCEPT ![b] = to.is]
               /\ Done(b, to.how)
    /\ UNCHANGED <<run, prover, left, intent, roster, imported, vote, shares, streak, changes>>
    /\ Observed

\* run_cast_vote up to the proving thread: the deadline, the hotkey, the
\* roster's retirements, and then the standalone cast or the combined one.
StartProving(b, kind) ==
    /\ Goto(b, "proving")
    /\ prover' = [prover EXCEPT ![b] =
                    [NoProver EXCEPT !.ps = Unit(b), !.draft = job[b].draft, !.kind = kind]]

\* The delegation is on chain: the tree is synced, a node at a time, and the
\* VAN's witness taken.
StartStandaloneCast(b) ==
    /\ DelegationPhase(b) = "confirmed"
    /\ \/ left /\ Done(b, "Cancelled") /\ UNCHANGED prover
       \/ StartProving(b, "cast")

\* run_delegate_and_vote_batch: the delegation rides along and is signed here.
StartCombinedCast(b) ==
    /\ DelegationPhase(b) # "confirmed" /\ ~NoSigner
    /\ StartProving(b, "combined")

StartCast(b) ==
    /\ Kind(b, {"CastVote"})
    /\ \/ Done(b, "Failed") /\ UNCHANGED <<vote, shares, prover>>
       \/ /\ RetireDeparted(b)
          /\ \/ Done(b, "Failed") /\ UNCHANGED prover
             \/ StartStandaloneCast(b)
             \/ StartCombinedCast(b)
    /\ UNCHANGED <<run, left, intent, roster, imported, deleg, streak, changes>>
    /\ Observed

\* What a prepared vote was proved from, and is compared with on persisting.
Captured(b, ps) == [p \in ps |-> [intent |-> intent[p], vote |-> vote[b][p], deleg |-> deleg[b]]]

\* ensure_no_competing_pending_vote_chain
NoCompeting(b, ps) == \A q \in Proposals \ ps : vote[b][q].unit = {} \/ vote[b][q].row = "confirmed"

ProverFails(b) ==
    /\ prover[b].kind \in {"cast", "combined"}
    /\ prover' = [prover EXCEPT ![b] = NoProver]
    /\ IF job[b].at = "proving" THEN Done(b, "Failed") ELSE UNCHANGED job
    /\ UNCHANGED <<run, left, calm>> /\ StoreKept

\* prepare: the drafts' choices are the ones the step was planned with; an
\* intent that says otherwise by now refuses, one cleared since does not.
PrepareVotes(b) ==
    LET ps == prover[b].ps IN
    /\ prover[b].kind \in {"cast", "combined"} /\ prover[b].seen = <<>>
    /\ NoCompeting(b, ps)
    /\ \A p \in ps : vote[b][p].unit = {} /\ vote[b][p].row = "none"
                    /\ intent[p] \in {"open", prover[b].draft[p]}
    /\ deleg[b] = IF prover[b].kind = "cast" THEN "confirmed" ELSE "proved"
    /\ prover' = [prover EXCEPT ![b].seen = Captured(b, ps)]
    /\ UNCHANGED <<run, job, left, calm>> /\ StoreKept

\* Mutant: the ballot is not compared again when the proofs are persisted.
PersistsUnseen(b, ps) == NoCompeting(b, ps)

StillAsProved(b, ps) == NoCompeting(b, ps) /\ prover[b].seen = Captured(b, ps)

\* persist_prepared_commits
PersistVotes(b) ==
    LET ps == prover[b].ps
        signed == [p \in Proposals |-> IF p \in ps
                     THEN [choice |-> prover[b].draft[p], unit |-> ps, row |-> "none",
                           combined |-> prover[b].kind = "combined"]
                     ELSE vote[b][p]]
    IN
    /\ prover[b].kind \in {"cast", "combined"} /\ prover[b].seen # <<>>
    /\ StillAsProved(b, ps)
    /\ vote' = [vote EXCEPT ![b] = signed]
    /\ shares' = [shares EXCEPT ![b] = [p \in Proposals |-> IF p \in ps THEN "absent" ELSE @[p]]]
    /\ prover' = [prover EXCEPT ![b] = NoProver]
    /\ CASE job[b].at # "proving" -> UNCHANGED job
         [] job[b].at = "proving" /\ left /\ prover[b].kind = "combined" -> Done(b, "Cancelled")
         [] OTHER -> job' = [job EXCEPT ![b].at = "plans", ![b].how = "fresh"]
    /\ UNCHANGED <<run, left, intent, roster, imported, deleg, streak, changes>>
    /\ Observed

\* run_reconcile_chain: recovered material that went since the plan fails.
StartReconcile(b) ==
    /\ Kind(b, {"AdvanceVote", "AdvanceVoteBatch"})
    /\ IF \A p \in Unit(b) : vote[b][p].unit # {}
       THEN Goto(b, IF \A p \in Unit(b) : vote[b][p].row = "none" THEN "plans" ELSE "reserve")
       ELSE Done(b, "Failed")
    /\ UNCHANGED <<run, prover, left, calm>> /\ StoreKept

\* Mutant: a plan is made whatever became of the ballot.
PlansAnyway(b) == TRUE

\* derive_immediate_share: plans are made for a decided ballot only, and for
\* recovery material that is still there.
PlansAllowed(b) ==
    /\ \A p \in roster : intent[p] = "open" => \E x \in Bundles : LifecycleOwned(x, p)
    /\ UnrosteredIntents = {}
    /\ \A p \in Unit(b) : vote[b][p].unit = Unit(b)

\* complete_vote_unit: plans before the first broadcast.
PlanShares(b) ==
    /\ job[b].at = "plans"
    /\ \/ Done(b, "Failed")
       \/ left /\ Done(b, "Cancelled")
       \/ PlansAllowed(b) /\ Goto(b, "reserve")
    /\ UNCHANGED <<run, prover, left, calm>> /\ StoreKept

\* The unit's submission is reserved before its first POST.
Reserve(b) ==
    /\ job[b].at = "reserve"
    /\ \/ left /\ Done(b, "Cancelled") /\ UNCHANGED vote
       \/ /\ \E p \in Unit(b) : vote[b][p].unit # Unit(b)
          /\ Done(b, "Failed") /\ UNCHANGED vote
       \/ /\ \A p \in Unit(b) : vote[b][p].unit = Unit(b)
          /\ vote' = [vote EXCEPT ![b] = [p \in Proposals |->
                        IF p \in Unit(b) THEN [@[p] EXCEPT !.row = "managed"] ELSE @[p]]]
          /\ Goto(b, "episode")
    /\ UNCHANGED <<run, prover, left, intent, roster, imported, deleg, shares, streak, changes>>
    /\ Observed

Rows(b, row) == [vote EXCEPT ![b] = [p \in Proposals |->
                   IF p \in Unit(b) THEN [@[p] EXCEPT !.row = row] ELSE @[p]]]
IsCombined(b) == \E p \in Unit(b) : vote[b][p].combined

\* The outcome of the unit's chain episode.  A definite refusal of a vote or
\* batch of its own leaves it recoverable (coordinator.rs, submit_reserved_attempts).
Episode(b) ==
    /\ job[b].at = "episode"
    /\ \/ /\ \E how \in {"Pending", "Stalled", "Cancelled"} : (how = "Cancelled" => left) /\ Done(b, how)
          /\ UNCHANGED <<vote, deleg, streak>>
       \* definitely unsent: the reservation goes
       \/ /\ job[b].how = "fresh" /\ Done(b, "Failed")
          /\ vote' = Rows(b, "none") /\ UNCHANGED <<deleg, streak>>
       \/ /\ vote' = Rows(b, "hashless") /\ Done(b, "ChainTerminal") /\ UNCHANGED <<deleg, streak>>
       \/ /\ vote' = Rows(b, "confirmed")
          /\ deleg' = IF IsCombined(b) THEN [deleg EXCEPT ![b] = "confirmed"] ELSE deleg
          /\ streak' = IF IsCombined(b) THEN [streak EXCEPT ![b] = 0] ELSE streak
          /\ Goto(b, "deliver")
       \* a refused combined batch is retired with its authorization
       \/ /\ IsCombined(b) /\ Done(b, "ChainTerminal")
          /\ vote' = [vote EXCEPT ![b] = ClearRecovery(Rows(b, "none")[b], Unit(b))]
          /\ streak' = [streak EXCEPT ![b] = IF @ < MaxRejections THEN @ + 1 ELSE @]
          /\ UNCHANGED deleg
    /\ UNCHANGED <<run, prover, left, intent, roster, imported, shares, changes>>
    /\ Observed

StartDelivery(b) ==
    /\ Kind(b, {"SubmitShares", "ConfirmShare"})
    /\ IF \A p \in Unit(b) : vote[b][p].row = "confirmed" /\ shares[b][p] \in {"absent", "unreached"}
       THEN Goto(b, "deliver") /\ UNCHANGED shares
       \* run_confirm_share polls a share some helper may hold
       ELSE \E seen \in BOOLEAN :
              /\ shares' = IF seen THEN [shares EXCEPT ![b][job[b].step.p] = "confirmed"] ELSE shares
              /\ Done(b, CASE seen -> "Advanced" [] ~seen /\ left -> "Cancelled" [] OTHER -> "Pending")
    /\ UNCHANGED <<run, prover, left, intent, roster, imported, deleg, vote, streak, changes>>
    /\ Observed

\* A confirmed unit's shares go to the helpers from their durable plans.
Deliver(b) ==
    /\ job[b].at = "deliver"
    /\ \/ Done(b, IF left THEN "Cancelled" ELSE "Failed") /\ UNCHANGED shares
       \/ \E missed \in SUBSET {p \in Unit(b) : shares[b][p] \in {"absent", "unreached", "trying"}} :
            /\ shares' = [shares EXCEPT ![b] = [p \in Proposals |->
                  CASE p \in missed /\ @[p] # "trying" -> "unreached"
                    [] p \in Unit(b) \ missed /\ @[p] # "confirmed" -> "tracked"
                    [] OTHER -> @[p]]]
            \* a helper that may have the share is waited for
            /\ \E how \in {"Advanced", "Pending"} :
                 Done(b, CASE missed = {} -> how
                           [] missed # {} /\ \A p \in missed : shares[b][p] = "trying" -> "Pending"
                           [] OTHER -> "Failed")
    /\ UNCHANGED <<run, prover, left, intent, roster, imported, deleg, vote, streak, changes>>
    /\ Observed

JobStep(b) ==
    \/ AcquireLock(b) \/ StartDelegate(b) \/ AdvanceDelegation(b) \/ StartCast(b)
    \/ StartReconcile(b) \/ PlanShares(b) \/ Reserve(b) \/ Episode(b)
    \/ StartDelivery(b) \/ Deliver(b)

ProverStep(b) == ProveDelegation(b) \/ ProverFails(b) \/ PrepareVotes(b) \/ PersistVotes(b)

----------------------------------------------------------------------------
(* The host and the background tracker.                                    *)

\* A report is about the round at its last read; no property is about it later.
StaleReport == run' = IF run.pc = "idle" THEN NoRun ELSE run

\* The round's submission gate.
GateFree == \A b \in Bundles : job[b].at # "episode"

HostEdits ==
    /\ \/ \E p \in Proposals, d \in Decisions : SetBallotIntent(p, d)
       \/ \E p \in Proposals : ClearBallotIntent(p)
       \/ \E bs \in SUBSET Bundles : SetupBundles(bs)
       \/ GateFree /\ \E b \in Bundles : RetryBlockedCombinedCast(b)
       \* an executor is bound to its roster for good
       \/ run.pc = "idle" /\ \E r \in SUBSET Proposals : BindRoster(r)
    /\ StaleReport /\ UNCHANGED <<job, prover, left>>
    /\ Observed

\* An attempt the tracker gives back leaves the share to the foreground again.
TrackerPass ==
    /\ \E b \in Bundles, p \in Proposals, to \in {"unreached", "trying", "tracked", "confirmed"} :
         /\ TrackShare(b, p, to)
         /\ run' = CASE run.pc = "idle" -> NoRun
                     [] run.pc # "idle" /\ to = "unreached" -> [run EXCEPT !.tried = @ \ {<<b, p>>}]
                     [] OTHER -> run
    /\ UNCHANGED <<job, prover, left>>
    /\ Observed

Leave ==
    /\ run.pc # "idle" /\ ~left
    /\ left' = TRUE
    /\ UNCHANGED <<run, job, prover, calm>> /\ StoreKept

\* The host drops the run's future; proving threads go on.
DropRun ==
    /\ run.pc # "idle"
    /\ run' = NoRun
    /\ job' = [b \in Bundles |-> NoJob]
    /\ UNCHANGED <<prover, left, calm>> /\ StoreKept

RoundInit ==
    /\ run = NoRun /\ left = FALSE /\ calm = FALSE
    /\ job = [b \in Bundles |-> NoJob] /\ prover = [b \in Bundles |-> NoProver]

RoundNext ==
    /\ \/ StartRun \/ DriverStep
       \/ \E b \in Bundles : JobStep(b) \/ ProverStep(b)
       \/ HostEdits \/ TrackerPass \/ Leave \/ DropRun
    /\ UNCHANGED host

=============================================================================
