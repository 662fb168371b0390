-------------------------- MODULE ShareDesignation --------------------------
(***************************************************************************)
(* The ballot of a round, its helper plans and the round's one immediate   *)
(* share (session.rs, share_tracking/delivery_plan.rs and                  *)
(* immediate_designation.rs, the triggers of the schema).                  *)
(*                                                                         *)
(* The voter decides proposals, changes their mind and clears decisions;   *)
(* the host may bind a roster that lost or regained a proposal; votes are  *)
(* signed (alone, as one batch, or combined with the bundle's delegation), *)
(* planned, posted and confirmed, or refused by the chain; and bundles     *)
(* nobody has delegated may be pruned.  The immediate share is the first   *)
(* share of the lowest chosen proposal in the highest bundle, decided when *)
(* that vote's own plan is first prepared and durable from then on.        *)
(***************************************************************************)
EXTENDS Naturals, FiniteSets, FiniteSetsExt

CONSTANTS Proposal,      \* proposal ids (naturals)
          BundleCount,   \* bundles the round is set up with
          Options        \* the options of a proposal

VARIABLES roster,        \* the authenticated roster the host is bound to
          intent,        \* ballot_intent: per proposal "open", "skipped" or an option
          bundles,       \* indices of the bundle rows
          broadcast,     \* bundles with broadcast evidence or a vote row
          delegated,     \* bundles whose delegation is confirmed
          ballots,       \* per vote: its stage, its choice, the unit it is signed in
          plans,         \* helper_share_plans: "none", "plain" or "immediate"
          designated     \* round_immediate_share: its vote, or NoKey

designationVars ==
  <<roster, intent, bundles, broadcast, delegated, ballots, plans, designated>>

Index == 0..(BundleCount - 1)

Key == Index \X Proposal

NoKey == <<>>

Absent == [at |-> "absent", choice |-> "open", unit |-> "alone"]

DesignationInit ==
  /\ roster = Proposal
  /\ intent = [p \in Proposal |-> "open"]
  /\ bundles = Index
  /\ broadcast = {} /\ delegated = {}
  /\ ballots = [k \in Key |-> Absent]
  /\ plans = [k \in Key |-> "none"]
  /\ designated = NoKey

\* The vote's chain lifecycle owns it, from the reservation of its first POST on, or
\* has finished it.
lifecycle_owned(k) == ballots[k].at \in {"posting", "dispatched", "confirmed"}

intent_is_lifecycle_owned(p) == \E b \in bundles : lifecycle_owned(<<b, p>>)

\* The recorded intents, and the choice of every lifecycle-owned vote without one.
durable_decisions ==
  [p \in Proposal |->
     IF intent[p] = "open" /\ intent_is_lifecycle_owned(p)
     THEN ballots[<<Max({b \in bundles : lifecycle_owned(<<b, p>>)}), p>>].choice
     ELSE intent[p]]

Chosen(decisions) == {p \in Proposal : decisions[p] \in Options}

classify_open(decisions) == {p \in roster : decisions[p] = "open"}

\* The durable roster matches the authenticated one, lifecycle-owned strays aside.
RosterMatches(decisions) ==
  roster = {p \in Proposal : decisions[p] # "open"
                             /\ (p \in roster \/ ~intent_is_lifecycle_owned(p))}

\* A mistake: the trigger voids the plan and leaves the designation.
KeepsDesignation(ks) ==
  /\ ballots' = [k \in Key |-> IF k \in ks THEN Absent ELSE ballots[k]]
  /\ plans' = [k \in Key |-> IF k \in ks THEN "none" ELSE plans[k]]
  /\ UNCHANGED designated

\* Clearing a vote's recovery drops, by trigger, its plan and its designation.
ClearVotes(ks) ==
  /\ ballots' = [k \in Key |-> IF k \in ks THEN Absent ELSE ballots[k]]
  /\ plans' = [k \in Key |-> IF k \in ks THEN "none" ELSE plans[k]]
  /\ designated' = IF designated \in ks THEN NoKey ELSE designated

\* A batch is one signed envelope: clearing a member clears them all.
WholeUnits(ks) ==
  ks \cup {k \in Key : /\ ballots[k].unit # "alone"
                       /\ \E j \in ks : j[1] = k[1] /\ ballots[j].unit # "alone"}

\* The undispatched votes a decision contradicts.  A lifecycle-owned one locks the
\* intent, which makes the whole write fail.
Contradicted(p, d) == {<<b, p>> : b \in {b \in bundles :
                          ballots[<<b, p>>].at # "absent" /\ ballots[<<b, p>>].choice # d}}

invalidate_unsubmitted_vote_recoveries_for_intent(p, d) ==
  /\ \A k \in WholeUnits(Contradicted(p, d)) : ~lifecycle_owned(k)
  /\ ClearVotes(WholeUnits(Contradicted(p, d)))

set_ballot_intent(p, d) ==
  /\ p \in roster
  /\ d \in Options \cup {"skipped"}
  /\ invalidate_unsubmitted_vote_recoveries_for_intent(p, d)
  /\ intent' = [intent EXCEPT ![p] = d]
  /\ UNCHANGED <<roster, bundles, broadcast, delegated>>

clear_ballot_intent(p) ==
  /\ ~intent_is_lifecycle_owned(p)
  /\ invalidate_unsubmitted_vote_recoveries_for_intent(p, "open")
  /\ intent' = [intent EXCEPT ![p] = "open"]
  /\ UNCHANGED <<roster, bundles, broadcast, delegated>>

\* The host binds another authenticated roster.
bind_roster(r) ==
  /\ roster' = r
  /\ UNCHANGED <<intent, bundles, broadcast, delegated, ballots, plans, designated>>

(***************************************************************************)
(* A cast first retires the undispatched votes of proposals that left the  *)
(* roster.  It needs a decided ballot and a bundle no live vote reserves;  *)
(* it signs one vote, or all the bundle still owes as one batch, which is  *)
(* combined with the delegation while that is not on chain.                *)
(***************************************************************************)
Departed(b) == {k \in Key : k[1] = b /\ k[2] \notin roster /\ ballots[k].at = "signed"}

retire_undispatched_votes_outside_roster(b) ==
  /\ Departed(b) # {}
  /\ b \in bundles
  /\ ClearVotes({k \in WholeUnits(Departed(b)) : ~lifecycle_owned(k)})
  /\ UNCHANGED <<roster, intent, bundles, broadcast, delegated>>

Owed(b) == {p \in roster : intent[p] \in Options /\ ballots[<<b, p>>].at = "absent"}

cast_votes(b, ps) ==
  /\ b \in bundles
  /\ classify_open(intent) = {}
  /\ \A p \in Proposal \ roster : intent[p] = "open" \/ intent_is_lifecycle_owned(p)
  /\ \A p \in Proposal : ballots[<<b, p>>].at \in {"absent", "confirmed"}
  /\ ps # {} /\ ps \subseteq Owed(b)
  /\ ps = Owed(b) \/ (Cardinality(ps) = 1 /\ b \in delegated)
  /\ LET unit == IF b \notin delegated THEN "combined"
                 ELSE IF Cardinality(ps) > 1 THEN "batch" ELSE "alone"
     IN ballots' = [k \in Key |->
          IF k[1] = b /\ k[2] \in ps
          THEN [at |-> "signed", choice |-> intent[k[2]], unit |-> unit] ELSE ballots[k]]
  /\ broadcast' = broadcast \cup {b}
  /\ UNCHANGED <<roster, intent, bundles, delegated, plans, designated>>

\* A delegation submitted by itself is confirmed; a signed combined batch excludes it.
confirm_delegation(b) ==
  /\ b \in bundles \ delegated
  /\ \A p \in Proposal : ballots[<<b, p>>].at = "absent"
  /\ delegated' = delegated \cup {b}
  /\ broadcast' = broadcast \cup {b}
  /\ UNCHANGED <<roster, intent, bundles, ballots, plans, designated>>

-----------------------------------------------------------------------------
\* The lowest chosen proposal in the highest bundle.
round_immediate_share_key(chosen) ==
  IF bundles = {} \/ chosen = {} THEN NoKey ELSE <<Max(bundles), Min(chosen)>>

\* The durable designation, or what the ballot and the bundles say while there is none.
immediate_key(chosen) ==
  IF designated # NoKey THEN designated ELSE round_immediate_share_key(chosen)

Marked == {k \in Key : plans[k] = "immediate"}

\* No plan but the expected vote's is marked, and that one is when it exists.
validate_round_immediate_plans(expected) ==
  /\ Cardinality(Marked) <= 1
  /\ Marked \subseteq {expected}
  /\ expected \in Key => plans[expected] # "plain"

PlanningInputsHold(k) ==
  LET decisions == durable_decisions
  IN /\ ballots[k].at # "absent"
     /\ classify_open(decisions) = {}
     /\ RosterMatches(decisions)
     /\ decisions[k[2]] \in Options

\* prepare_share_delivery_plan, in one transaction: derive the key, designate when
\* this is the vote it names, and return the stored plan or write a new one.
prepare_share_delivery_plan(k) ==
  /\ PlanningInputsHold(k)
  /\ LET key == immediate_key(Chosen(durable_decisions) \cap roster)
     IN /\ validate_round_immediate_plans(key)
        /\ designated' = IF key = k THEN k ELSE designated
        /\ plans[k] # "none" => plans[k] = IF key = k THEN "immediate" ELSE "plain"
        /\ plans' = [plans EXCEPT ![k] = IF key = k THEN "immediate" ELSE "plain"]
  /\ UNCHANGED <<roster, intent, bundles, broadcast, delegated, ballots>>

\* load_share_delivery_plan, the read before a confirmed vote's shares are sent.
load_share_delivery_plan(k) ==
  LET decisions == durable_decisions
      key       == immediate_key(Chosen(decisions))
  IN /\ plans[k] # "none"
     /\ decisions[k[2]] \in Options
     /\ validate_round_immediate_plans(key)
     /\ plans[k] = IF key = k THEN "immediate" ELSE "plain"

(***************************************************************************)
(* The unit's first POST is reserved once all its votes are planned.  The  *)
(* POST never left and the reservation is removed, or a copy may be out.   *)
(* A combined unit the chain refused, or whose transaction it committed as *)
(* failed, is retired with its plans and designation; a standalone one     *)
(* stays recoverable.  Confirmation rewrites the recovery without changing *)
(* its generation, so plan and designation stay.                           *)
(***************************************************************************)
UnitGoes(k, from, to) ==
  /\ ballots[k].at = from
  /\ ballots' = [m \in Key |-> IF m \in WholeUnits({k}) /\ ballots[m].at = from
                               THEN [ballots[m] EXCEPT !.at = to] ELSE ballots[m]]
  /\ UNCHANGED <<roster, intent, bundles, broadcast, delegated, plans, designated>>

dispatch(k) ==
  /\ \A m \in WholeUnits({k}) : plans[m] # "none"
  /\ UnitGoes(k, "signed", "posting")

remove_fresh_reservation(k) == UnitGoes(k, "posting", "signed")

possibly_dispatched(k) == UnitGoes(k, "posting", "dispatched")

retire_rejected_combined_generation(k) ==
  /\ ballots[k].at \in {"posting", "dispatched"} /\ ballots[k].unit = "combined"
  /\ ClearVotes(WholeUnits({k}))
  /\ UNCHANGED <<roster, intent, bundles, broadcast, delegated>>

record_vc_position(k) ==
  /\ ballots[k].at = "dispatched"
  /\ ballots' = [m \in Key |-> IF m \in WholeUnits({k}) /\ ballots[m].at = "dispatched"
                               THEN [ballots[m] EXCEPT !.at = "confirmed", !.unit = "alone"]
                               ELSE ballots[m]]
  /\ delegated' = delegated \cup {k[1]}
  /\ UNCHANGED <<roster, intent, bundles, broadcast, plans, designated>>

\* Prunes every bundle from an index on; one that may be on chain refuses it.
delete_bundles_from(from) ==
  LET pruned == {b \in bundles : b >= from}
  IN /\ pruned # {}
     /\ pruned \cap broadcast = {}
     /\ bundles' = bundles \ pruned
     /\ UNCHANGED <<roster, intent, broadcast, delegated, ballots, plans, designated>>

DesignationNext ==
  \/ \E p \in Proposal :
       (\E d \in Options \cup {"skipped"} : set_ballot_intent(p, d)) \/ clear_ballot_intent(p)
  \/ \E r \in (SUBSET Proposal) \ {{}} : bind_roster(r)
  \/ \E b \in Index : \/ retire_undispatched_votes_outside_roster(b)
                      \/ \E ps \in SUBSET Proposal : cast_votes(b, ps)
                      \/ confirm_delegation(b) \/ delete_bundles_from(b)
  \/ \E k \in Key : \/ prepare_share_delivery_plan(k) \/ dispatch(k)
                    \/ remove_fresh_reservation(k) \/ possibly_dispatched(k)
                    \/ retire_rejected_combined_generation(k) \/ record_vc_position(k)

DesignationSpec == DesignationInit /\ [][DesignationNext]_designationVars

-----------------------------------------------------------------------------
\* The ballot, the votes, the plans and the designation have their shapes.
DesignationTypes ==
  /\ roster \in (SUBSET Proposal) \ {{}}
  /\ intent \in [Proposal -> Options \cup {"open", "skipped"}]
  /\ bundles \subseteq Index /\ broadcast \subseteq bundles /\ delegated \subseteq broadcast
  /\ \A k \in Key :
       /\ ballots[k].at \in {"absent", "signed", "posting", "dispatched", "confirmed"}
       /\ ballots[k].unit \in {"alone", "batch", "combined"}
  /\ plans \in [Key -> {"none", "plain", "immediate"}]
  /\ designated \in Key \cup {NoKey}

\* However the ballot, the roster and the bundles change between plans, at most one
\* share of the round is ever marked immediate, and the mark and the designation row
\* name the same vote: the plan and the row are written and voided together.  Once the
\* lifecycle owns that vote the designation never moves, and goes only with the plans of
\* a whole combined unit that the chain refused or failed, never once it is confirmed.
OneImmediateShare ==
  [][/\ Marked' = IF designated' = NoKey THEN {} ELSE {designated'}
     /\ designated # NoKey /\ lifecycle_owned(designated) =>
          \/ designated' = designated
          \/ /\ ballots[designated].at # "confirmed" /\ ballots[designated].unit = "combined"
             /\ designated' = NoKey
             /\ \A m \in WholeUnits({designated}) : plans'[m] = "none"]_designationVars

\* Preparing a vote's helper plan again returns the stored plan: with a decided ballot
\* that matches the roster, a stored plan of the current vote is never refused.
RepeatCallReturnsStoredPlan ==
  \A k \in Key : plans[k] # "none" /\ PlanningInputsHold(k) =>
    LET key == immediate_key(Chosen(durable_decisions) \cap roster)
    IN validate_round_immediate_plans(key) /\ plans[k] = IF key = k THEN "immediate" ELSE "plain"
=============================================================================
