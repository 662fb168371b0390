----------------------------- MODULE RoundStore -----------------------------
(***************************************************************************)
(* The durable rows of one voting round as planning reads them (ballot     *)
(* intents, bundles, votes, chain submissions, helper shares and the       *)
(* ledger of refused combined batches) and the transactions by which the   *)
(* host and the background tracker change them.                            *)
(*                                                                         *)
(* A vote and its chain row are one record: `unit' is the set of proposals *)
(* signed together in its recovery bundle ({} when there is none), `row'   *)
(* the state of the chain submission that carries it.  The lifecycle ends  *)
(* only a combined batch as rejected, and retires it; a rejected row of a  *)
(* vote or batch of its own is one an earlier version left.  A bundle has  *)
(* one helper share per vote.                                              *)
(***************************************************************************)
EXTENDS Integers, FiniteSets

CONSTANTS
    Bundles,      \* bundle indexes, integers from 1
    Proposals,    \* proposal ids, integers from 1
    Options,      \* the options of a proposal
    MaxChanges    \* bound: edits of ballot, roster and setup by the host

VARIABLES
    intent,       \* ballot_intent: "open" (no row), "skip" or a choice
    roster,       \* the proposals of the bound, authenticated roster
    imported,     \* bundles whose delegation capability was imported
    deleg,        \* bundles: what the delegation columns and row say
    vote,         \* votes and chain_submissions, per bundle and proposal
    shares,       \* share_delegations: "unreached" when no helper has the share,
                  \* "trying" while the tracker's first attempt at it is out,
                  \* "tracked" when a helper accepted it or may have it
    streak,       \* combined_cast_rejections of the current delegation
    changes       \* edits made so far

storeVars == <<intent, roster, imported, deleg, vote, shares, streak, changes>>

\* MAX_CONSECUTIVE_COMBINED_REJECTIONS
MaxRejections == 2

Decisions == Options \cup {"skip"}
NoVote == [choice |-> "none", unit |-> {}, combined |-> FALSE, row |-> "none"]
Live == {"managed", "hashless"}
DelegationRows == {"absent", "prepared", "proved", "submitted",
                   "managed", "hashless", "rejected", "confirmed"}

StoreTypes ==
    /\ intent \in [Proposals -> Decisions \cup {"open"}]
    /\ roster \subseteq Proposals /\ imported \subseteq Bundles
    /\ deleg \in [Bundles -> DelegationRows]
    /\ vote \in [Bundles -> [Proposals ->
                   [choice: Options \cup {"none"}, unit: SUBSET Proposals, combined: BOOLEAN,
                    row: {"none", "managed", "hashless", "rejected", "confirmed"}]]]
    /\ shares \in [Bundles -> [Proposals ->
                     {"absent", "unreached", "trying", "tracked", "confirmed"}]]
    /\ streak \in [Bundles -> 0 .. MaxRejections]
    /\ changes \in 0 .. MaxChanges

HasRow(b, p) == vote[b][p].choice # "none"

\* A batch envelope carries the vote, not a transaction of its own.
InEnvelope(b, p) == vote[b][p].combined \/ Cardinality(vote[b][p].unit) > 1

\* The lifecycle owns or has finished the vote.
LifecycleOwned(b, p) == vote[b][p].row # "none"

\* vote_recovery_is_lifecycle_owned, or a vote on chain: what was signed must
\* stay.  A rejected batch is known by its signed members; a rejected vote of
\* its own needs them no more.
RecoveryOwned(b, p) ==
    LifecycleOwned(b, p) /\ (vote[b][p].row = "rejected" => InEnvelope(b, p))

\* delegation_phase: a combined batch on its way decides before the columns.
DelegationPhase(b) ==
    LET riding == {p \in Proposals : vote[b][p].combined /\ vote[b][p].row \in Live}
    IN  IF riding # {} THEN vote[b][CHOOSE p \in riding : TRUE].row ELSE deleg[b]

\* vote_phase of a stored vote.
VotePhase(b, p) ==
    CASE LifecycleOwned(b, p) -> vote[b][p].row
      [] ~LifecycleOwned(b, p) /\ vote[b][p].unit # {} -> "committed"
      [] OTHER -> "prepared"

\* The votes of bundle b after the recovery material of the proposals ps is
\* cleared; the rows and their choices stay.
ClearRecovery(votes, ps) ==
    [p \in Proposals |-> IF p \in ps THEN [votes[p] EXCEPT !.unit = {}, !.combined = FALSE]
                                     ELSE votes[p]]

\* Bundles whose signed vote for p says something else than d.
Conflicting(p, d) == {b \in Bundles : vote[b][p].unit # {} /\ vote[b][p].choice # d}

\* invalidate_unsubmitted_vote_recoveries_for_intent: a conflicting unit goes
\* as a whole, and the write is refused when the lifecycle owns one.
Invalidate(p, d) ==
    /\ \A b \in Conflicting(p, d) : \A q \in vote[b][p].unit : ~RecoveryOwned(b, q)
    /\ vote' = [b \in Bundles |-> IF b \in Conflicting(p, d)
                                  THEN ClearRecovery(vote[b], vote[b][p].unit) ELSE vote[b]]

\* Mutant: only the vote of the edited proposal loses its recovery.
InvalidateMemberOnly(p, d) ==
    /\ \A b \in Conflicting(p, d) : ~RecoveryOwned(b, p)
    /\ vote' = [b \in Bundles |-> IF b \in Conflicting(p, d)
                                  THEN ClearRecovery(vote[b], {p}) ELSE vote[b]]

InvalidateUnits(p, d) == Invalidate(p, d)

\* A vote on chain refuses any other decision for its proposal.
NoSubmittedConflict(p, d) ==
    \A b \in Bundles : vote[b][p].row = "confirmed" => vote[b][p].choice = d

Edit == changes < MaxChanges /\ changes' = changes + 1

\* write_ballot_intent_in_tx.  A changed decision forgets the refusals of
\* every bundle with a row for the proposal, and shares without a vote of the
\* new choice go.
SetBallotIntent(p, d) ==
    /\ Edit /\ p \in roster
    /\ NoSubmittedConflict(p, d)
    /\ InvalidateUnits(p, d)
    /\ intent' = [intent EXCEPT ![p] = d]
    /\ streak' = [b \in Bundles |-> IF intent[p] # d /\ HasRow(b, p) THEN 0 ELSE streak[b]]
    /\ shares' = [b \in Bundles |-> IF d = "skip" \/ vote[b][p].choice # d
                                    THEN [shares[b] EXCEPT ![p] = "absent"] ELSE shares[b]]
    /\ UNCHANGED <<roster, imported, deleg>>

\* clear_ballot_intent, refused for a proposal with a lifecycle-owned vote.
ClearBallotIntent(p) ==
    /\ Edit /\ intent[p] # "open"
    /\ \A b \in Bundles : ~LifecycleOwned(b, p)
    /\ InvalidateUnits(p, "none")
    /\ intent' = [intent EXCEPT ![p] = "open"]
    /\ shares' = [b \in Bundles |-> [q \in Proposals |->
                    IF b \in Conflicting(p, "none") /\ q \in vote[b][p].unit
                    THEN "absent" ELSE shares[b][q]]]
    /\ UNCHANGED <<roster, imported, deleg, streak>>

\* The executor is bound to the roster the host authenticated last.
BindRoster(r) ==
    /\ Edit /\ r # {} /\ r # roster
    /\ roster' = r
    /\ UNCHANGED <<intent, imported, deleg, vote, shares, streak>>

\* The bundles the round was set up with; the others have no row at all.
BundleRows == {b \in Bundles : deleg[b] # "absent"}

\* Bundle setup writes the rows of all the round's bundles in one transaction.
SetupBundles(bs) ==
    /\ BundleRows = {} /\ bs # {}
    /\ deleg' = [b \in Bundles |-> IF b \in bs THEN "prepared" ELSE "absent"]
    /\ UNCHANGED <<intent, roster, imported, vote, shares, streak, changes>>

\* retry_blocked_combined_cast
RetryBlockedCombinedCast(b) ==
    /\ Edit /\ streak[b] > 0
    /\ streak' = [streak EXCEPT ![b] = 0]
    /\ UNCHANGED <<intent, roster, imported, deleg, vote, shares>>

\* retire_undispatched_votes_outside_roster: every undispatched unit of the
\* bundle with a member outside the roster loses its recovery.
Departed(b) ==
    UNION {vote[b][p].unit : p \in {q \in Proposals \ roster :
             \A m \in vote[b][q].unit : ~RecoveryOwned(b, m)}}

RetireDeparted(b) ==
    /\ vote' = [vote EXCEPT ![b] = ClearRecovery(@, Departed(b))]
    /\ shares' = [shares EXCEPT ![b] = [p \in Proposals |->
                    IF p \in Departed(b) THEN "absent" ELSE @[p]]]

\* A step of the background tracker on one helper share: for an overdue one
\* that no helper has, an attempt is reserved; it places the share, or fails
\* for certain and is given back; a placed share is seen on chain.
TrackShare(b, p, to) ==
    /\ <<shares[b][p], to>> \in {<<"unreached", "trying">>, <<"trying", "tracked">>,
                                 <<"trying", "unreached">>, <<"tracked", "confirmed">>}
    /\ shares' = [shares EXCEPT ![b][p] = to]
    /\ UNCHANGED <<intent, roster, imported, deleg, vote, streak, changes>>

=============================================================================
