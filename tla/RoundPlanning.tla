---------------------------- MODULE RoundPlanning ----------------------------
(***************************************************************************)
(* What a round owes: classification of the stored rows against ballot and *)
(* roster, and its projection to ordered steps.  Everything here is a      *)
(* function of one snapshot of RoundStore.                                 *)
(***************************************************************************)
EXTENDS RoundStore, Sequences, Functions

\* classify_ballot_intents
ChoiceProposals == {p \in roster : intent[p] \in Options}
OpenProposals == {p \in roster : intent[p] = "open"}

\* An intent outside the roster is the host's to clear unless its vote is
\* lifecycle-owned.
UnrosteredIntents ==
    {p \in Proposals \ roster : intent[p] # "open" /\ \A b \in Bundles : ~LifecycleOwned(b, p)}
RosterIsTerminal == OpenProposals = {} /\ UnrosteredIntents = {}

NeedsBundleSetup == ChoiceProposals # {} /\ BundleRows = {}

\* ballot_relation
Stale(b, p) == HasRow(b, p) /\ intent[p] \notin {"open", vote[b][p].choice}
Agrees(b, p) == intent[p] = vote[b][p].choice

InBatch(b, p) == VotePhase(b, p) \in {"committed", "managed"}
                 /\ InEnvelope(b, p)

\* group_vote_units: the members that are dispatched together with p.
UnitOf(b, p) == IF InBatch(b, p) THEN vote[b][p].unit ELSE {p}

\* An undispatched unit with a member that left the roster is retired whole.
Retirable(b, p) == VotePhase(b, p) = "committed" /\ ~(UnitOf(b, p) \subseteq roster)

\* The bundle is reserved against a fresh cast.
Held(b) ==
    \/ \E p \in Proposals : /\ HasRow(b, p) /\ ~Stale(b, p) /\ ~Retirable(b, p)
                            /\ VotePhase(b, p) \in {"committed", "managed", "hashless"}
    \/ DelegationPhase(b) \in {"managed", "hashless", "rejected"}
    \/ streak[b] >= MaxRejections

CastDue(b, p) ==
    /\ p \in ChoiceProposals
    /\ \/ ~HasRow(b, p) \/ Stale(b, p) \/ Retirable(b, p)
       \/ VotePhase(b, p) = "prepared"

Due(b) == IF Held(b) THEN {} ELSE {p \in Proposals : CastDue(b, p)}
Drafts(b) == IF RosterIsTerminal THEN Due(b) ELSE {}

\* Votes the chain lifecycle has to be asked about.
Reconciles(b, p) ==
    /\ HasRow(b, p)
    /\ \/ VotePhase(b, p) = "managed"
       \/ /\ VotePhase(b, p) = "committed" /\ p \in ChoiceProposals /\ ~CastDue(b, p)
          /\ \A q \in UnitOf(b, p) : q \in roster /\ Agrees(b, q)

\* A bundle with a combined batch owes no delegation step of its own.
Combined(b) == \E p \in Proposals : vote[b][p].combined

Obligation(k, b, ps) == [kind |-> k, b |-> b, ps |-> ps]

\* classify, once planning is not refused.
Obligations ==
    UNION {
      {Obligation("cast", b, Drafts(b)) : b \in {x \in BundleRows : Drafts(x) # {}}},
      {Obligation("delegate", b, {}) : b \in {x \in Bundles :
          ~Combined(x) /\ DelegationPhase(x) = "prepared" /\ Due(x) # {}}},
      {Obligation("advance", b, {}) : b \in {x \in Bundles :
          ~Combined(x) /\ DelegationPhase(x) \in {"submitted", "managed"}}},
      {Obligation("reconcile", k[1], UnitOf(k[1], k[2])) :
          k \in {x \in Bundles \X Proposals : Reconciles(x[1], x[2])}},
      {Obligation("deliver", k[1], {k[2]}) :
          k \in {x \in Bundles \X Proposals :
                   vote[x[1]][x[2]].row = "confirmed" /\ shares[x[1]][x[2]] = "absent"}},
      {Obligation("confirm", k[1], {k[2]}) :
          k \in {x \in Bundles \X Proposals :
                   /\ ~Stale(x[1], x[2])
                   /\ shares[x[1]][x[2]] \in {"unreached", "trying", "tracked"}}}}

(* Planning fails rather than guess.                                       *)

\* A vote the lifecycle owns or has finished contradicts the ballot.
Contradicted(b, p) == Stale(b, p) /\ LifecycleOwned(b, p)

\* missing_share_indexes: a vote on chain whose shares cannot be rebuilt.
MaterialMissing(b, p) == vote[b][p].row = "confirmed" /\ vote[b][p].unit = {}

\* group_vote_units: a signed batch that is not whole.
BrokenBatch(b, p) ==
    /\ InBatch(b, p)
    /\ \E q \in vote[b][p].unit :
          \/ vote[b][q].unit # vote[b][p].unit
          \/ VotePhase(b, q) # VotePhase(b, p)
          \/ Stale(b, q)

\* A share to be placed again belongs to a vote with a tree position.
PositionMissing(b, p) ==
    /\ shares[b][p] = "unreached" /\ ~Stale(b, p)
    /\ vote[b][p].row # "confirmed" /\ ~Reconciles(b, p)

PlanRefused ==
    \E b \in Bundles, p \in Proposals :
        Contradicted(b, p) \/ MaterialMissing(b, p) \/ BrokenBatch(b, p) \/ PositionMissing(b, p)

----------------------------------------------------------------------------
(* Projection to steps.                                                    *)

Step(k, b, p) == [kind |-> k, b |-> b, p |-> p, c |-> IF k = "CastVote" THEN intent[p] ELSE "none"]

\* steps_from_obligations
StepsOf(o) ==
    CASE o.kind = "delegate" -> {Step("Delegate", o.b, 0)}
      [] o.kind = "advance" -> {Step(IF o.b \in imported THEN "AdvanceImportedDelegation"
                                                         ELSE "AdvanceDelegation", o.b, 0)}
      [] o.kind = "cast" -> {Step("CastVote", o.b, p) : p \in o.ps}
      [] o.kind = "reconcile" ->
           LET p == CHOOSE q \in o.ps : \A m \in o.ps : q <= m
           IN  {Step(IF InBatch(o.b, p) THEN "AdvanceVoteBatch" ELSE "AdvanceVote", o.b, p)}
      [] o.kind = "deliver" -> {Step("SubmitShares", o.b, p) : p \in o.ps}
      [] o.kind = "confirm" -> {Step("ConfirmShare", o.b, p) : p \in o.ps}

Delegations == {"Delegate", "AdvanceDelegation", "AdvanceImportedDelegation"}

\* step_rank: delegations, then vote work by proposal, then confirmations.
StepRank(s) ==
    <<CASE s.kind \in Delegations -> 0 [] s.kind = "ConfirmShare" -> 2 [] OTHER -> 1, s.p, s.b>>

Before(x, y) == \E i \in 1 .. 3 : /\ StepRank(x)[i] < StepRank(y)[i]
                                 /\ \A k \in 1 .. i - 1 : StepRank(x)[k] = StepRank(y)[k]

PlannedSteps == UNION {StepsOf(o) : o \in Obligations}

\* The steps of the plan, in order.
NextSteps ==
    [i \in 1 .. Cardinality(PlannedSteps) |->
        CHOOSE s \in PlannedSteps : Cardinality({t \in PlannedSteps : Before(t, s)}) = i - 1]

\* resolve_step: the obligations of the current snapshot that s executes.
Resolve(s) == {o \in Obligations : s \in StepsOf(o)}

\* blocking_prerequisite: the bundle still has a delegation step.
Prerequisite(s) ==
    /\ s.kind \notin Delegations
    /\ \E o \in Obligations : o.b = s.b /\ o.kind \in {"delegate", "advance"}

\* A share the background tracker owns: accepted, or its outcome unknown.
Tracked(s) == s.kind = "ConfirmShare" /\ shares[s.b][s.p] \in {"trying", "tracked"}

\* Casts and delegations that need the voter's key.
SigningBundles ==
    {b \in BundleRows \ imported :
        \/ Drafts(b) # {} /\ DelegationPhase(b) # "confirmed"
        \/ ~Combined(b) /\ DelegationPhase(b) \in {"submitted", "managed"}}

BlockingRecovery ==
    \/ \E b \in Bundles : \/ DelegationPhase(b) \in {"managed", "hashless", "rejected"}
                          \/ streak[b] >= MaxRejections
                          \/ \E p \in Proposals : vote[b][p].row \in Live \cup {"rejected"}
    \/ \E o \in Obligations : \E s \in StepsOf(o) : ~Tracked(s)

AllDecided ==
    \A p \in roster :
        \/ intent[p] = "skip"
        \/ /\ intent[p] \in Options /\ BundleRows # {}
           /\ \A b \in BundleRows : vote[b][p].choice = intent[p] /\ vote[b][p].row = "confirmed"

\* What the round shows as done: some vote or share of a chosen proposal, and
\* nothing left for the foreground.
CompletedForDisplay ==
    /\ \E b \in Bundles, p \in Proposals :
          /\ ~Stale(b, p) /\ intent[p] \in Options
          /\ Agrees(b, p) \/ shares[b][p] # "absent"
    /\ ~BlockingRecovery

\* completed_vote_display: the one choice all live rows of p agree on.
DisplayedChoice(p) ==
    LET stored == {vote[b][p].choice : b \in {x \in Bundles : HasRow(x, p) /\ ~Stale(x, p)}}
    IN  IF intent[p] \in Options /\ Cardinality(stored) = 1
        THEN CHOOSE c \in stored : TRUE ELSE "none"

\* select_primary_action
PrimaryAction ==
    LET owes(kinds) == \E o \in Obligations : o.kind \in kinds
        unplaced    == \E o \in Obligations : \E s \in StepsOf(o) : o.kind = "confirm" /\ ~Tracked(s)
    IN  CASE NeedsBundleSetup -> "Delegate"
          [] ~NeedsBundleSetup /\ CompletedForDisplay -> "Done"
          [] OTHER -> CASE ~BlockingRecovery -> "Idle"
                        [] BlockingRecovery /\ owes({"delegate", "advance"}) -> "Delegate"
                        [] BlockingRecovery /\ ~owes({"delegate", "advance"}) ->
                             IF owes({"cast", "reconcile", "deliver"}) THEN "Vote"
                             ELSE IF unplaced THEN "SubmitShares" ELSE "Idle"

----------------------------------------------------------------------------
(* The tally: how many of the selected choices have been voted.            *)

\* covered_proposals: a vote obligation names them.
Covered == UNION {o.ps : o \in {x \in Obligations : x.kind \in {"cast", "reconcile"}}}

\* withheld_casts: chosen, but no vote could be planned.
Withheld ==
    IF NeedsBundleSetup THEN ChoiceProposals
    ELSE {p \in ChoiceProposals : \E b \in BundleRows :
            IF CastDue(b, p) THEN Held(b) \/ ~RosterIsTerminal
            ELSE VotePhase(b, p) = "committed" /\ ~Reconciles(b, p)}

\* VoteProgressBaseline::for_selected_choices
SelectedChoices ==
    ChoiceProposals \cup {p \in Proposals \ roster :
                            intent[p] \in Options /\ \E b \in Bundles : LifecycleOwned(b, p)}

\* VoteProgressBaseline::tally
CompletedProposals == SelectedChoices \ (Covered \cup Withheld)

=============================================================================
