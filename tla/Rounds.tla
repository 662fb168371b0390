------------------------------- MODULE Rounds -------------------------------
(***************************************************************************)
(* The rounds: where a round may stand when a driver is first run, the     *)
(* specification, and what makes it correct.                               *)
(***************************************************************************)
EXTENDS RoundDrive

CONSTANTS Starts   \* initial states of the round's rows

ASSUME RoundAssumption ==
    /\ Options \cap {"open", "skip", "none"} = {}
    /\ \A s \in Starts : s.intent \in [Proposals -> Decisions \cup {"open"}]

\* Rows are indexed by numbers, and the bundle rows have a phase.
ASSUME IndexAssumption ==
    /\ Bundles \subseteq Nat \ {0} /\ IsFiniteSet(Bundles)
    /\ Proposals \subseteq Nat \ {0} /\ IsFiniteSet(Proposals)
    /\ \A s \in Starts : s.deleg \in [Bundles -> DelegationRows]
    /\ \A s \in Starts : /\ s.refused \in [Bundles -> SUBSET Proposals]
                         /\ \A b \in Bundles : \A p \in s.refused[b] : s.intent[p] \in Options

(***************************************************************************)
(* Correctness of the rounds.                                              *)
(***************************************************************************)

RoundTypes == StoreTypes /\ DriveTypes

\* A vote that the lifecycle owns or has finished keeps a decision, and the
\* ballot says what the vote says for as long as its signed material is locked
\* (vote.rs, ensure_vote_recovery_is_not_lifecycle_owned; session.rs,
\* clear_ballot_intent): only a rejected vote of its own may be contradicted.
VotedAsDecided ==
    \A b \in Bundles, p \in Proposals :
        LifecycleOwned(b, p) => /\ intent[p] # "open"
                                /\ RecoveryOwned(b, p) => intent[p] = vote[b][p].choice

\* A run the host has left describes nothing, and one whose answer still
\* stands describes the round as it is.
Settled(b, p) == vote[b][p].row = "confirmed" /\ vote[b][p].choice = intent[p]
AllVoted == \A p \in roster : intent[p] = "skip" \/ (BundleRows # {} /\ \A b \in BundleRows : Settled(b, p))
OnTheWire == \E b \in Bundles, p \in Proposals : vote[b][p].row = "managed"
Undelivered == \E b \in Bundles, p \in Proposals :
                 vote[b][p].row = "confirmed" /\ shares[b][p] \in {"absent", "unreached"}
ReportIsTrue ==
    run.pc = "idle" =>
      /\ run.quiescence \notin {"none", "Cancelled"} => ~left
      /\ calm =>
         CASE run.quiescence = "NoWorkLeft" ->
                AllVoted /\ ~OnTheWire /\ \A b \in Bundles, p \in Proposals :
                                             vote[b][p].row = "confirmed" => shares[b][p] = "confirmed"
           [] run.quiescence = "BackgroundShareWorkOnly" -> AllVoted /\ ~OnTheWire /\ ~Undelivered
           [] run.quiescence = "NeedsBallot" ->
                ~OnTheWire /\ ~Undelivered /\ \E p \in Proposals : (p \in roster) = (intent[p] = "open")
           [] run.quiescence = "PersistedChainTerminal" ->
                ~OnTheWire /\ \E b \in Bundles : \/ deleg[b] \in {"hashless", "rejected"}
                                                 \/ streak[b] = MaxRejections
                                                 \/ \E p \in Proposals :
                                                      vote[b][p].row \in {"hashless", "rejected"}
           [] run.quiescence = "NeedsDelegationSignatures" ->
                run.owed # {} /\ \A b \in run.owed : b \notin imported /\ deleg[b] # "confirmed"
           [] OTHER -> TRUE

\* Whenever the driver or a step plans, a plan can be made and says what is
\* so.  Only a rejected vote of its own that the host decided otherwise makes
\* classify answer with an error; no other edit, retirement or wave does.  A
\* choice counted as voted has a vote that ended in every bundle: on chain,
\* handed over without a hash, or rejected for good.  A round shown as done
\* has nothing on the wire or unplaced, shows no choice but the ballot's, and
\* is decided when nothing is open; an idle one has nothing to cast.
Planning == run.pc \in {"loop", "refresh"} \/ \E b \in Bundles : job[b].at = "lock"
DecidedOtherwise == \E b \in Bundles, p \in Proposals :
                      vote[b][p].row = "rejected" /\ vote[b][p].unit = {} /\ Stale(b, p)
PlanIsSound ==
    Planning =>
      /\ PlanRefused => DecidedOtherwise
      /\ ~PlanRefused =>
         /\ \A p \in CompletedProposals \cap roster, b \in BundleRows :
               vote[b][p].row \in {"confirmed", "hashless", "rejected"} /\ Agrees(b, p)
         /\ PrimaryAction = "Done" =>
               /\ ~OnTheWire /\ ~Undelivered
               /\ \A p \in Proposals : DisplayedChoice(p) \in {"none", intent[p]}
               /\ RosterIsTerminal => AllDecided
         /\ PrimaryAction = "Idle" => ~\E b \in BundleRows : Drafts(b) # {}

\* A run spends one dispatch on a helper share, and another only after the
\* background tracker took the share up itself, failed for certain and gave it
\* back: the foreground never polls what the tracker owns.
OneTryPerShare == ~run.twice

\* A run ends.
RunEnds == run.pc # "idle" ~> run.pc = "idle"

----------------------------------------------------------------------------
\* Where a round may stand when a driver is first run: set up or not, with a
\* delegation imported, or submitted on its own before the drive, and with a
\* vote or batch that an earlier version left as rejected.
Start(policy, signer, ds, imp, ints, refused, edits) ==
    [host |-> [isolation |-> policy, signer |-> signer], deleg |-> ds, imported |-> imp,
     intent |-> ints, refused |-> refused, changes |-> MaxChanges - edits]

StoreInit ==
    /\ \E s \in Starts : /\ deleg = s.deleg /\ imported = s.imported
                         /\ intent = s.intent /\ changes = s.changes
                         /\ host = s.host
                         /\ vote = [b \in Bundles |-> [p \in Proposals |->
                              IF p \in s.refused[b]
                              THEN [choice |-> s.intent[p], unit |-> s.refused[b],
                                    combined |-> FALSE, row |-> "rejected"]
                              ELSE NoVote]]
    /\ roster = Proposals
    /\ shares = [b \in Bundles |-> [p \in Proposals |-> "absent"]]
    /\ streak = [b \in Bundles |-> 0]

RoundsInit == StoreInit /\ RoundInit
progress == <<run, job, prover>>
Fair == WF_progress(DriverStep \/ \E b \in Bundles : JobStep(b) \/ ProverStep(b))
RoundsSpec == RoundsInit /\ [][RoundNext]_<<storeVars, driveVars>> /\ Fair

=============================================================================
