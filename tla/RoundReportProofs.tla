------------------------- MODULE RoundReportProofs --------------------------
(***************************************************************************)
(* What a run reports, for any bundles, proposals, options and policies.   *)
(*                                                                         *)
(* A report is drawn from a plan, so three things come first.  Nothing is  *)
(* left out of the plan's sequence of steps when the steps are put in      *)
(* order.  A bundle's delegation has the phase that its combined batch and *)
(* the job advancing it rely on (DelegationInv).  And a plan goes on       *)
(* telling the truth from its read until something is written (ReportInv). *)
(***************************************************************************)
EXTENDS RoundProofs

USE Zenon

-----------------------------------------------------------------------------
(* The steps of a plan are in order, and none is left out.                 *)

\* Steps that can be put in a row.
Preceding(S, s) == {t \in S : Before(t, s)}

Ordered(S) ==
    /\ IsFiniteSet(S) /\ \A x \in S : ~Before(x, x)
    /\ \A x, y \in S : x # y => Before(x, y) \/ Before(y, x)
    /\ \A x, y, z \in S : Before(x, y) /\ Before(y, z) => Before(x, z)

LEMMA Precedes ==
  ASSUME NEW S, Ordered(S), NEW s \in S, NEW t \in S, Before(s, t)
  PROVE  Cardinality(Preceding(S, s)) # Cardinality(Preceding(S, t))
<1>1. Preceding(S, t) \in SUBSET S /\ Preceding(S, s) \in SUBSET Preceding(S, t)
  BY DEF Preceding, Ordered
<1>2. s \in Preceding(S, t) /\ s \notin Preceding(S, s)
  BY DEF Preceding, Ordered
<1>3. IsFiniteSet(Preceding(S, t))
  BY <1>1, FS_Subset DEF Ordered
<1> QED
  BY <1>1, <1>2, <1>3, FS_Subset

InPlace(S, i) == CHOOSE t \in S : Cardinality({u \in S : Before(u, t)}) = i - 1

\* A step's place is the number of steps before it.
LEMMA Placed ==
  ASSUME NEW S, Ordered(S), NEW s \in S
  PROVE  \E i \in 1 .. Cardinality(S) : s = InPlace(S, i)
<1> DEFINE n == Cardinality(Preceding(S, s))
<1>1. Preceding(S, s) \in SUBSET (S \ {s})
  BY DEF Preceding, Ordered
<1>2. IsFiniteSet(S \ {s}) /\ Cardinality(S \ {s}) = Cardinality(S) - 1 /\ Cardinality(S) \in Nat
  BY FS_RemoveElement, FS_CardinalityType DEF Ordered
<1>3. IsFiniteSet(Preceding(S, s)) /\ n <= Cardinality(S \ {s})
  BY <1>1, <1>2, FS_Subset
<1>4. n \in Nat
  BY <1>3, FS_CardinalityType
<1> HIDE DEF n
<1>5. n + 1 \in 1 .. Cardinality(S) /\ (n + 1) - 1 = n
  BY <1>2, <1>3, <1>4, SMT
<1>6. \A t \in S : Cardinality(Preceding(S, t)) = n => t = s
  BY Precedes DEF Ordered, n
<1>7. s = CHOOSE t \in S : Cardinality(Preceding(S, t)) = n
  BY <1>6 DEF n
<1> QED
  BY <1>5, <1>7 DEF Preceding, InPlace

\* A reconciled unit is named by its lowest proposal.
LEMMA Lowest ==
  ASSUME NEW S, S \subseteq Nat, S # {}
  PROVE  (CHOOSE q \in S : \A m \in S : q <= m) \in S
<1>1. IsWellFoundedOn(OpToRel(<, Nat), Nat)
  BY NatLessThanWellFounded
<1>2. PICK q \in S : \A m \in S : <<m, q>> \notin OpToRel(<, Nat)
  BY <1>1, WFMin
<1>3. ASSUME NEW m \in S PROVE q <= m
  <2>1. m \in Nat /\ q \in Nat
    OBVIOUS
  <2>2. ~(m < q)
    BY <1>2, <2>1 DEF OpToRel
  <2> QED
    BY <2>1, <2>2, SMT
<1> QED
  BY <1>3

\* What the delegation obligations are owed for.
LEMMA DelegationOwed ==
  ASSUME NEW o \in Obligations
  PROVE  /\ o.kind = "delegate" => DelegationPhase(o.b) = "prepared"
         /\ o.kind = "advance" => /\ ~Combined(o.b)
                                 /\ DelegationPhase(o.b) \in {"submitted", "managed"}
<1>1. ASSUME NEW b, DelegationPhase(b) = "prepared", o = Obligation("delegate", b, {})
      PROVE  o.kind = "delegate" /\ DelegationPhase(o.b) = "prepared"
  <2>1. o.kind = "delegate" /\ o.b = b
    BY <1>1 DEF Obligation
  <2> QED
    BY <1>1, <2>1
<1>2. ASSUME NEW k \in {"cast", "reconcile", "deliver", "confirm"}, NEW b, NEW ps,
             o = Obligation(k, b, ps)
      PROVE  o.kind = k
  BY <1>2 DEF Obligation
<1>3. \/ o \in {Obligation("cast", b, Drafts(b)) : b \in {x \in BundleRows : Drafts(x) # {}}}
      \/ o \in {Obligation("delegate", b, {}) : b \in {x \in Bundles :
                   ~Combined(x) /\ DelegationPhase(x) = "prepared" /\ Due(x) # {}}}
      \/ o \in {Obligation("advance", b, {}) : b \in {x \in Bundles :
                   ~Combined(x) /\ DelegationPhase(x) \in {"submitted", "managed"}}}
      \/ o \in {Obligation("reconcile", k[1], UnitOf(k[1], k[2])) :
                   k \in {x \in Bundles \X Proposals : Reconciles(x[1], x[2])}}
      \/ o \in {Obligation("deliver", k[1], {k[2]}) :
                   k \in {x \in Bundles \X Proposals :
                            vote[x[1]][x[2]].row = "confirmed" /\ shares[x[1]][x[2]] = "absent"}}
      \/ o \in {Obligation("confirm", k[1], {k[2]}) :
                   k \in {x \in Bundles \X Proposals :
                            /\ ~Stale(x[1], x[2])
                            /\ shares[x[1]][x[2]] \in {"unreached", "trying", "tracked"}}}
  BY DEF Obligations
<1>4. CASE \E b \in Bundles : DelegationPhase(b) = "prepared" /\ o = Obligation("delegate", b, {})
  BY <1>1, <1>4
<1>5. CASE \E b \in Bundles : /\ ~Combined(b) /\ DelegationPhase(b) \in {"submitted", "managed"}
                             /\ o = Obligation("advance", b, {})
  <2>1. PICK b \in Bundles : /\ ~Combined(b) /\ DelegationPhase(b) \in {"submitted", "managed"}
                            /\ o = Obligation("advance", b, {})
    BY <1>5
  <2>2. o.kind = "advance" /\ o.b = b
    BY <2>1 DEF Obligation
  <2> QED
    BY <2>1, <2>2
<1>6. CASE \E b \in BundleRows : o = Obligation("cast", b, Drafts(b))
  BY <1>2, <1>6
<1>7. CASE \E k \in Bundles \X Proposals :
             \/ o = Obligation("reconcile", k[1], UnitOf(k[1], k[2]))
             \/ o = Obligation("deliver", k[1], {k[2]}) \/ o = Obligation("confirm", k[1], {k[2]})
  BY <1>2, <1>7
<1> QED
  BY <1>3, <1>4, <1>5, <1>6, <1>7

\* A planned step: what it stands for.
Planned(s) ==
    /\ s = Step(s.kind, s.b, s.p) /\ s.b \in Bundles
    /\ \/ s.kind = "Delegate" /\ s.p = 0 /\ DelegationPhase(s.b) = "prepared"
       \/ /\ s.kind = IF s.b \in imported THEN "AdvanceImportedDelegation" ELSE "AdvanceDelegation"
          /\ s.p = 0 /\ DelegationPhase(s.b) \in {"submitted", "managed"}
       \/ s.kind = "CastVote" /\ s.p \in Drafts(s.b)
       \/ /\ s.kind = IF InBatch(s.b, s.p) THEN "AdvanceVoteBatch" ELSE "AdvanceVote"
          /\ \E q \in Proposals : Reconciles(s.b, q) /\ s.p \in UnitOf(s.b, q)
       \/ s.kind = "SubmitShares" /\ s.p \in Proposals /\ vote[s.b][s.p].row = "confirmed"
       \/ s.kind = "ConfirmShare" /\ s.p \in Proposals

\* The unit of a vote to be asked about has it for a member.
LEMMA UnitFacts ==
  ASSUME RoundInv, NEW b \in Bundles, NEW q \in Proposals, Reconciles(b, q)
  PROVE  /\ q \in UnitOf(b, q) /\ UnitOf(b, q) \subseteq Proposals
         /\ \A p \in UnitOf(b, q) : vote[b][p].row = vote[b][q].row
         /\ vote[b][q].row \in {"none", "managed"}
<1>1. vote[b] \in Votes /\ SignedOk(vote[b], intent)
  BY BundleFacts
<1>2. VotePhase(b, q) \in {"managed", "committed"}
  BY DEF Reconciles
<1>3. vote[b][q].unit # {}
  BY <1>1, <1>2 DEF VotePhase, LifecycleOwned, SignedOk
<1>4. vote[b][q].unit \in SUBSET Proposals
  BY <1>1 DEF Votes
<1>5. vote[b][q].row \in {"none", "managed"}
  <2>1. CASE LifecycleOwned(b, q)
    BY <1>1, <1>2, <2>1 DEF VotePhase, Votes
  <2>2. CASE ~LifecycleOwned(b, q)
    BY <2>2 DEF LifecycleOwned
  <2> QED
    BY <2>1, <2>2
<1> QED
  BY <1>1, <1>3, <1>4, <1>5 DEF UnitOf, SignedOk

LEMMA PlannedFacts ==
  ASSUME RoundInv, NEW s \in PlannedSteps
  PROVE  Planned(s)
<1>1. PICK o \in Obligations : s \in StepsOf(o)
  BY DEF PlannedSteps
<1>2. o.b \in Bundles
  BY ObligationFacts DEF BundleRows
<1>3. CASE o.kind = "cast"
  <2>1. PICK p \in o.ps : s = Step("CastVote", o.b, p)
    BY <1>1, <1>3 DEF StepsOf
  <2>2. o.ps = Drafts(o.b)
    BY <1>3, ObligationFacts
  <2>3. s.kind = "CastVote" /\ s.b = o.b /\ s.p = p
    BY <2>1 DEF Step
  <2>4. s = Step(s.kind, s.b, s.p)
    BY <2>1, <2>3
  <2> QED
    BY <1>2, <2>1, <2>2, <2>3, <2>4 DEF Planned
<1>4. CASE o.kind = "delegate"
  <2>1. s = Step("Delegate", o.b, 0)
    BY <1>1, <1>4 DEF StepsOf
  <2>2. s.kind = "Delegate" /\ s.b = o.b /\ s.p = 0
    BY <2>1 DEF Step
  <2>3. s = Step(s.kind, s.b, s.p)
    BY <2>1, <2>2
  <2> QED
    BY <1>2, <1>4, <2>1, DelegationOwed, <2>2, <2>3 DEF Planned
<1>5. CASE o.kind = "advance"
  <2>1. PICK k : /\ k = IF o.b \in imported THEN "AdvanceImportedDelegation" ELSE "AdvanceDelegation"
                 /\ s = Step(k, o.b, 0)
    BY <1>1, <1>5 DEF StepsOf
  <2>2. s.kind = k /\ s.b = o.b /\ s.p = 0
    BY <2>1 DEF Step
  <2>3. s = Step(s.kind, s.b, s.p)
    BY <2>1, <2>2
  <2> QED
    BY <1>2, <1>5, <2>1, DelegationOwed, <2>2, <2>3 DEF Planned
<1>6. CASE o.kind = "reconcile"
  <2>1. PICK q \in Proposals : Reconciles(o.b, q) /\ o.ps = UnitOf(o.b, q)
    BY <1>6, ObligationFacts
  <2>2. PICK p : p = CHOOSE x \in o.ps : \A m \in o.ps : x <= m
    OBVIOUS
  <2>3. q \in o.ps /\ o.ps \subseteq Proposals
    BY <1>2, <2>1, UnitFacts
  <2>4. p \in o.ps
    BY <2>2, <2>3, Lowest, IndexAssumption
  <2>5. PICK k : /\ k = IF InBatch(o.b, p) THEN "AdvanceVoteBatch" ELSE "AdvanceVote"
                 /\ s = Step(k, o.b, p)
    BY <1>1, <1>6, <2>2 DEF StepsOf
  <2>6. s.kind = k /\ s.b = o.b /\ s.p = p
    BY <2>5 DEF Step
  <2>7. s = Step(s.kind, s.b, s.p)
    BY <2>5, <2>6
  <2> QED
    BY <1>2, <2>1, <2>4, <2>5, <2>6, <2>7 DEF Planned
<1>7. CASE o.kind = "deliver"
  <2>1. PICK p \in o.ps : s = Step("SubmitShares", o.b, p)
    BY <1>1, <1>7 DEF StepsOf
  <2>2. p \in Proposals /\ vote[o.b][p].row = "confirmed"
    BY <1>7, <2>1, ObligationFacts
  <2>3. s.kind = "SubmitShares" /\ s.b = o.b /\ s.p = p
    BY <2>1 DEF Step
  <2>4. s = Step(s.kind, s.b, s.p)
    BY <2>1, <2>3
  <2> QED
    BY <1>2, <2>1, <2>2, <2>3, <2>4 DEF Planned
<1>8. CASE o.kind = "confirm"
  <2>1. PICK p \in o.ps : s = Step("ConfirmShare", o.b, p)
    BY <1>1, <1>8 DEF StepsOf
  <2>2. p \in Proposals
    BY <1>8, <2>1, ObligationFacts
  <2>3. s.kind = "ConfirmShare" /\ s.b = o.b /\ s.p = p
    BY <2>1 DEF Step
  <2>4. s = Step(s.kind, s.b, s.p)
    BY <2>1, <2>3
  <2> QED
    BY <1>2, <2>1, <2>2, <2>3, <2>4 DEF Planned
<1> QED
  BY <1>3, <1>4, <1>5, <1>6, <1>7, <1>8, ObligationFacts

\* The same rank twice is the same step.
LEMMA SameRank ==
  ASSUME RoundInv, NEW x \in PlannedSteps, NEW y \in PlannedSteps,
         x.kind \in Delegations <=> y.kind \in Delegations,
         x.kind = "ConfirmShare" <=> y.kind = "ConfirmShare", x.p = y.p, x.b = y.b
  PROVE  x = y
<1>1. Planned(x) /\ Planned(y)
  BY PlannedFacts
<1>2. PICK b \in Bundles : b = x.b
  BY <1>1 DEF Planned
<1>3. PICK p : p = x.p
  OBVIOUS
<1>4. x = Step(x.kind, b, p) /\ y = Step(y.kind, b, p)
  BY <1>1, <1>2, <1>3 DEF Planned
<1>5. vote[b] \in Votes /\ SignedOk(vote[b], intent)
  BY BundleFacts
<1>6. ASSUME NEW q \in Proposals, Reconciles(b, q)
      PROVE  Held(b)
  <2>1. HasRow(b, q) /\ VotePhase(b, q) \in {"managed", "committed"}
    BY <1>6 DEF Reconciles
  <2>2. CASE VotePhase(b, q) = "committed"
    <3>1. q \in ChoiceProposals /\ ~CastDue(b, q)
      BY <1>6, <2>2 DEF Reconciles
    <3>2. ~Stale(b, q) /\ ~Retirable(b, q)
      BY <3>1 DEF CastDue
    <3> QED
      BY <1>6, <2>1, <3>2 DEF Held
  <2>3. CASE VotePhase(b, q) = "managed"
    <3>1. LifecycleOwned(b, q)
      BY <2>3 DEF VotePhase
    <3>2. vote[b][q].unit # {}
      BY <1>5, <2>3, <3>1 DEF SignedOk, LifecycleOwned, VotePhase
    <3>3. ~Stale(b, q)
      BY <1>5, <3>2 DEF SignedOk, Stale
    <3>4. ~Retirable(b, q)
      BY <2>3 DEF Retirable
    <3> QED
      BY <1>6, <2>1, <3>3, <3>4 DEF Held
  <2> QED
    BY <2>1, <2>2, <2>3
<1>7. ASSUME p \in Drafts(b)
      PROVE  ~Held(b) /\ p \in Proposals /\ CastDue(b, p)
  BY <1>7 DEF Drafts, Due
<1>8. ASSUME p \in Proposals, vote[b][p].row = "confirmed"
      PROVE  ~CastDue(b, p)
  <2>1. LifecycleOwned(b, p) /\ vote[b][p].unit # {} /\ intent[p] = vote[b][p].choice
    BY <1>5, <1>8 DEF SignedOk, LifecycleOwned
  <2>2. vote[b][p].choice \in Options
    BY <1>5, <1>8, <2>1 DEF SignedOk
  <2>3. HasRow(b, p) /\ ~Stale(b, p)
    BY <2>1, <2>2, RoundAssumption DEF HasRow, Stale
  <2>4. VotePhase(b, p) = "confirmed"
    BY <1>8, <2>1 DEF VotePhase
  <2> QED
    BY <2>3, <2>4 DEF CastDue, Retirable
<1>9. ASSUME NEW q \in Proposals, Reconciles(b, q), p \in UnitOf(b, q)
      PROVE  vote[b][p].row # "confirmed"
  BY <1>9, UnitFacts
<1>10. ASSUME NEW z, NEW k, Planned(z), z.b = b, z.p = p, z.kind = k,
              k \notin Delegations, k # "ConfirmShare"
       PROVE  \/ k = "CastVote" /\ p \in Drafts(b)
              \/ /\ k = IF InBatch(b, p) THEN "AdvanceVoteBatch" ELSE "AdvanceVote"
                 /\ \E q \in Proposals : Reconciles(b, q) /\ p \in UnitOf(b, q)
              \/ k = "SubmitShares" /\ p \in Proposals /\ vote[b][p].row = "confirmed"
  BY <1>10 DEF Planned, Delegations
<1>11. x.kind = y.kind
  <2>1. CASE x.kind \in Delegations
    <3>1. ASSUME NEW z, Planned(z), z.b = b, z.kind \in Delegations
          PROVE  \/ z.kind = "Delegate" /\ DelegationPhase(b) = "prepared"
                 \/ /\ z.kind = IF b \in imported THEN "AdvanceImportedDelegation"
                                 ELSE "AdvanceDelegation"
                    /\ DelegationPhase(b) \in {"submitted", "managed"}
      BY <3>1 DEF Planned, Delegations
    <3>2. y.kind \in Delegations /\ x.b = b /\ y.b = b
      BY <1>2, <2>1
    <3> QED
      BY <1>1, <2>1, <3>1, <3>2
  <2>2. CASE x.kind = "ConfirmShare"
    BY <2>2
  <2>3. CASE x.kind \notin Delegations /\ x.kind # "ConfirmShare"
    <3>1. PICK k, m : k = x.kind /\ m = y.kind
      OBVIOUS
    <3>2. \/ k = "CastVote" /\ p \in Drafts(b)
          \/ /\ k = IF InBatch(b, p) THEN "AdvanceVoteBatch" ELSE "AdvanceVote"
             /\ \E q \in Proposals : Reconciles(b, q) /\ p \in UnitOf(b, q)
          \/ k = "SubmitShares" /\ p \in Proposals /\ vote[b][p].row = "confirmed"
      BY <1>1, <1>2, <1>3, <1>10, <2>3, <3>1
    <3>3. \/ m = "CastVote" /\ p \in Drafts(b)
          \/ /\ m = IF InBatch(b, p) THEN "AdvanceVoteBatch" ELSE "AdvanceVote"
             /\ \E q \in Proposals : Reconciles(b, q) /\ p \in UnitOf(b, q)
          \/ m = "SubmitShares" /\ p \in Proposals /\ vote[b][p].row = "confirmed"
      BY <1>1, <1>2, <1>3, <1>10, <2>3, <3>1
    <3> QED
      BY <1>6, <1>7, <1>8, <1>9, <3>1, <3>2, <3>3
  <2> QED
    BY <2>1, <2>2, <2>3
<1> QED
  BY <1>4, <1>11

\* Steps go by rank.
Lower(x, y) ==
    \/ StepRank(x)[1] < StepRank(y)[1]
    \/ StepRank(x)[1] = StepRank(y)[1] /\ x.p < y.p
    \/ StepRank(x)[1] = StepRank(y)[1] /\ x.p = y.p /\ x.b < y.b

LEMMA ByRank ==
  ASSUME NEW x, NEW y
  PROVE  Before(x, y) <=> Lower(x, y)
<1>1. \A z : StepRank(z)[2] = z.p /\ StepRank(z)[3] = z.b
  BY DEF StepRank
<1>2. 1 .. 3 = {1, 2, 3} /\ 1 .. (1 - 1) = {} /\ 1 .. (2 - 1) = {1} /\ 1 .. (3 - 1) = {1, 2}
  BY SMT
<1>3. Before(x, y) <=> \E i \in {1, 2, 3} : /\ StepRank(x)[i] < StepRank(y)[i]
                                         /\ \A k \in 1 .. (i - 1) : StepRank(x)[k] = StepRank(y)[k]
  BY <1>2 DEF Before
<1> QED
  BY <1>1, <1>2, <1>3 DEF Lower

LEMMA StepsOrdered ==
  ASSUME RoundInv
  PROVE  Ordered(PlannedSteps)
<1> DEFINE c(z) == StepRank(z)[1]
<1>1. ASSUME NEW z \in PlannedSteps
      PROVE  /\ z.p \in Nat /\ z.b \in Nat /\ c(z) \in 0 .. 2
             /\ z.kind \in Delegations <=> c(z) = 0
             /\ z.kind = "ConfirmShare" <=> c(z) = 2
  <2>1. Planned(z)
    BY PlannedFacts
  <2>2. c(z) = CASE z.kind \in Delegations -> 0 [] z.kind = "ConfirmShare" -> 2 [] OTHER -> 1
    BY DEF StepRank
  <2>3. "ConfirmShare" \notin Delegations
    BY DEF Delegations
  <2>4. \/ z.kind \in Delegations /\ z.kind # "ConfirmShare" /\ c(z) = 0
        \/ z.kind \notin Delegations /\ z.kind = "ConfirmShare" /\ c(z) = 2
        \/ z.kind \notin Delegations /\ z.kind # "ConfirmShare" /\ c(z) = 1
    BY <2>2, <2>3
  <2>5. z.b \in Nat
    BY <2>1, IndexAssumption DEF Planned
  <2>6. ASSUME NEW q \in Proposals, Reconciles(z.b, q), z.p \in UnitOf(z.b, q) PROVE z.p \in Proposals
    BY <2>1, <2>6, UnitFacts DEF Planned
  <2>7. z.p = 0 \/ z.p \in Proposals
    BY <2>1, <2>6 DEF Planned, Drafts, Due
  <2>8. z.p \in Nat
    <3>1. 0 \in Nat
      BY SMT
    <3> QED
      BY <2>7, <3>1, IndexAssumption
  <2> HIDE DEF c
  <2> QED
    BY <2>4, <2>5, <2>8, SMT
<1> HIDE DEF c
<1>2. ASSUME NEW x \in PlannedSteps PROVE ~Before(x, x)
  <2>1. ~Lower(x, x)
    BY <1>1, SMT DEF Lower, c
  <2> QED
    BY <2>1, ByRank
<1>3. ASSUME NEW x \in PlannedSteps, NEW y \in PlannedSteps, NEW z \in PlannedSteps,
             Before(x, y), Before(y, z)
      PROVE  Before(x, z)
  <2>1. Lower(x, y) /\ Lower(y, z)
    BY <1>3, ByRank
  <2>2. Lower(x, z)
    BY <1>1, <2>1, SMT DEF Lower, c
  <2> QED
    BY <2>2, ByRank
<1>4. ASSUME NEW x \in PlannedSteps, NEW y \in PlannedSteps, x # y
      PROVE  Before(x, y) \/ Before(y, x)
  <2>1. ~(c(x) = c(y) /\ x.p = y.p /\ x.b = y.b)
    BY <1>1, <1>4, SameRank
  <2>2. Lower(x, y) \/ Lower(y, x)
    BY <1>1, <2>1, SMT DEF Lower, c
  <2> QED
    BY <2>2, ByRank
<1>5. IsFiniteSet(PlannedSteps)
  <2> DEFINE K == {"CastVote", "AdvanceVote", "AdvanceVoteBatch", "SubmitShares", "ConfirmShare",
                   "Delegate", "AdvanceDelegation", "AdvanceImportedDelegation"}
             S == (K \X Bundles) \X (Proposals \cup {0})
             f == [k \in S |-> Step(k[1][1], k[1][2], k[2])]
             T == {f[k] : k \in S}
  <2>1. IsFiniteSet(K)
    <3>1. IsFiniteSet({"CastVote"} \cup {"AdvanceVote"} \cup {"AdvanceVoteBatch"}
             \cup {"SubmitShares"} \cup {"ConfirmShare"} \cup {"Delegate"}
             \cup {"AdvanceDelegation"} \cup {"AdvanceImportedDelegation"})
      BY FS_Singleton, FS_Union
    <3>2. K = {"CastVote"} \cup {"AdvanceVote"} \cup {"AdvanceVoteBatch"}
             \cup {"SubmitShares"} \cup {"ConfirmShare"} \cup {"Delegate"}
             \cup {"AdvanceDelegation"} \cup {"AdvanceImportedDelegation"}
      OBVIOUS
    <3> QED
      BY <3>1, <3>2
  <2> HIDE DEF K
  <2>2. IsFiniteSet(Proposals \cup {0})
    BY FS_AddElement, IndexAssumption
  <2>3. IsFiniteSet(S)
    BY <2>1, <2>2, FS_Product, IndexAssumption
  <2> HIDE DEF S
  <2>4. f \in Surjection(S, T)
    BY DEF Surjection
  <2>5. IsFiniteSet(T)
    BY <2>3, <2>4, FS_Surjection
  <2>6. ASSUME NEW s \in PlannedSteps PROVE s \in T
    <3>1. Planned(s)
      BY PlannedFacts
    <3>2. ASSUME NEW q \in Proposals, Reconciles(s.b, q), s.p \in UnitOf(s.b, q) PROVE s.p \in Proposals
      BY <3>1, <3>2, UnitFacts DEF Planned
    <3>3. s.p \in Proposals \cup {0}
      BY <3>1, <3>2 DEF Planned, Drafts, Due
    <3>4. s.kind \in K /\ s.b \in Bundles /\ s = Step(s.kind, s.b, s.p)
      BY <3>1 DEF Planned, K
    <3>5. PICK k : k = <<<<s.kind, s.b>>, s.p>>
      OBVIOUS
    <3>6. k \in S /\ k[1][1] = s.kind /\ k[1][2] = s.b /\ k[2] = s.p
      BY <3>3, <3>4, <3>5 DEF S
    <3>7. f[k] = s
      BY <3>4, <3>6
    <3> QED
      BY <3>6, <3>7
  <2>7. PlannedSteps \in SUBSET T
    BY <2>6
  <2> QED
    BY <2>5, <2>7, FS_Subset
<1> QED
  BY <1>2, <1>3, <1>4, <1>5 DEF Ordered

\* Every planned step is in the plan.
LEMMA NothingLeftOut ==
  ASSUME RoundInv, NEW s \in PlannedSteps
  PROVE  s \in Range(NextSteps)
<1>1. PICK S : S = PlannedSteps
  OBVIOUS
<1>2. Ordered(S) /\ s \in S
  BY <1>1, StepsOrdered
<1>3. PICK i \in 1 .. Cardinality(S) : s = InPlace(S, i)
  BY <1>2, Placed
<1>4. i \in DOMAIN NextSteps /\ NextSteps[i] = s
  BY <1>1, <1>3 DEF NextSteps, InPlace
<1> QED
  BY <1>4 DEF Range

\* No two steps of a plan have the same rank, so that sorting by rank puts them in one row,
\* and each of them is in it.
PlanIsComplete == Ordered(PlannedSteps) /\ PlannedSteps \subseteq Range(NextSteps)

\* project sorts its steps by step_rank (kind, proposal, bundle): whatever the rows say,
\* every step that is owed is in the sorted plan, and its place does not depend on the order
\* in which the obligations were found.
THEOREM PlansAreComplete == RoundsSpec => []PlanIsComplete
<1>1. RoundInv => PlanIsComplete
  BY StepsOrdered, NothingLeftOut DEF PlanIsComplete
<1> QED
  BY <1>1, RoundStarts, RoundSteps, PTL DEF RoundsSpec

-----------------------------------------------------------------------------
(* The delegation of a bundle, and the combined batches that carry it.     *)

\* A combined batch is signed for a proved delegation and leaves it so until the chain has it;
\* a job that advances a delegation of its own has one on its way.
DelegationOk(b) ==
    /\ deleg[b] \in DelegationRows /\ streak[b] \in 0 .. MaxRejections
    /\ Combined(b) => deleg[b] \in {"proved", "confirmed"}
    /\ job[b].at = "work" /\ job[b].step.kind \in {"AdvanceDelegation", "AdvanceImportedDelegation"} =>
         deleg[b] \in {"submitted", "managed"}
    /\ prover[b].kind = "combined" /\ prover[b].seen # <<>> =>
         \A p \in prover[b].ps : prover[b].seen[p].deleg = "proved"

DelegationInv ==
    /\ DOMAIN deleg = Bundles /\ DOMAIN streak = Bundles
    /\ \A b \in Bundles : DelegationOk(b)

\* What a step may do to a bundle without a look at its delegation.
JobQuiet(b) == job'[b] = job[b] \/ job'[b].at # "work"
ThreadQuiet(b) == prover'[b] = prover[b] \/ prover'[b].kind # "combined" \/ prover'[b].seen = <<>>
FewerCombined(b) == \A p \in Proposals : vote'[b][p].combined => vote[b][p].combined

LEMMA QuietKeeps ==
  ASSUME NEW b \in Bundles, DelegationOk(b), JobQuiet(b), ThreadQuiet(b), FewerCombined(b),
         deleg'[b] = deleg[b], streak'[b] \in 0 .. MaxRejections
  PROVE  DelegationOk(b)'
<1>1. Combined(b)' => Combined(b)
  BY DEF Combined, FewerCombined
<1>2. /\ deleg'[b] \in DelegationRows
      /\ Combined(b)' => deleg'[b] \in {"proved", "confirmed"}
  BY <1>1 DEF DelegationOk
<1>3. job'[b].at = "work"
      /\ job'[b].step.kind \in {"AdvanceDelegation", "AdvanceImportedDelegation"} =>
         deleg'[b] \in {"submitted", "managed"}
  BY DEF DelegationOk, JobQuiet
<1>4. prover'[b].kind = "combined" /\ prover'[b].seen # <<>> =>
         \A p \in prover'[b].ps : prover'[b].seen[p].deleg = "proved"
  BY DEF DelegationOk, ThreadQuiet
<1> QED
  BY <1>2, <1>3, <1>4 DEF DelegationOk

\* A step of one bundle.
Elsewhere(b) ==
    /\ DOMAIN deleg' = Bundles /\ DOMAIN streak' = Bundles
    /\ \A c \in Bundles : c # b => /\ job'[c] = job[c] /\ prover'[c] = prover[c] /\ vote'[c] = vote[c]
                                   /\ deleg'[c] = deleg[c] /\ streak'[c] = streak[c]

LEMMA OneDelegation ==
  ASSUME DelegationInv, NEW b \in Bundles, Elsewhere(b), DelegationOk(b)'
  PROVE  DelegationInv'
<1>1. ASSUME NEW c \in Bundles PROVE DelegationOk(c)'
  <2>1. CASE c = b
    BY <2>1
  <2>2. CASE c # b
    <3>1. /\ JobQuiet(c) /\ ThreadQuiet(c) /\ FewerCombined(c) /\ deleg'[c] = deleg[c]
          /\ DelegationOk(c) /\ streak'[c] \in 0 .. MaxRejections
      BY <2>2 DEF Elsewhere, JobQuiet, ThreadQuiet, FewerCombined, DelegationInv, DelegationOk
    <3> QED
      BY <3>1, QuietKeeps
  <2> QED
    BY <2>1, <2>2
<1> QED
  BY <1>1 DEF DelegationInv, Elsewhere

LEMMA AllQuiet ==
  ASSUME DelegationInv, UNCHANGED <<deleg, streak>>,
         \A b \in Bundles : JobQuiet(b) /\ ThreadQuiet(b) /\ FewerCombined(b)
  PROVE  DelegationInv'
<1>1. ASSUME NEW b \in Bundles PROVE DelegationOk(b)'
  <2>1. /\ JobQuiet(b) /\ ThreadQuiet(b) /\ FewerCombined(b) /\ deleg'[b] = deleg[b]
        /\ DelegationOk(b) /\ streak'[b] \in 0 .. MaxRejections
    BY DEF DelegationInv, DelegationOk
  <2> QED
    BY <2>1, QuietKeeps
<1> QED
  BY <1>1 DEF DelegationInv

\* A step that leaves the store and the threads alone, and no job at work that was not.
LEMMA JobsQuiet ==
  ASSUME DelegationInv, UNCHANGED <<deleg, streak, vote, prover>>, \A b \in Bundles : JobQuiet(b)
  PROVE  DelegationInv'
<1>1. \A b \in Bundles : JobQuiet(b) /\ ThreadQuiet(b) /\ FewerCombined(b)
  BY DEF ThreadQuiet, FewerCombined
<1> QED
  BY <1>1, AllQuiet

\* The driver.
LEMMA DriverDelegations ==
  ASSUME RoundInv, DelegationInv, DriverStep \/ StartRun \/ Leave \/ DropRun
  PROVE  DelegationInv'
<1>1. UNCHANGED <<deleg, streak, vote, prover>>
  BY DEF DriverStep, StartRun, Leave, DropRun, ReadPlan, PlanUnreadable, Decide, Dispatch, Fold,
         Refresh, Sleep, StoreKept, storeVars
<1>2. ASSUME UNCHANGED job PROVE \A b \in Bundles : JobQuiet(b)
  BY <1>2 DEF JobQuiet
<1>3. ASSUME job' = [b \in Bundles |-> NoJob] PROVE \A b \in Bundles : JobQuiet(b)
  BY <1>3, NoJobFacts DEF JobQuiet
<1>4. ASSUME Dispatch PROVE \A b \in Bundles : JobQuiet(b)
  <2>1. ASSUME job' = [b \in Bundles |-> IF {s \in Range(run.wave) : s.b = b} = {} THEN NoJob
                        ELSE [NoJob EXCEPT !.at = "lock",
                                !.step = CHOOSE s \in {s \in Range(run.wave) : s.b = b} : TRUE]],
               NEW b \in Bundles
        PROVE  JobQuiet(b)
    <3>1. \/ job'[b] = NoJob
          \/ \E z : job'[b] = [NoJob EXCEPT !.at = "lock", !.step = z]
      BY <2>1
    <3>2. \A z : [NoJob EXCEPT !.at = "lock", !.step = z].at = "lock"
      BY DEF NoJob
    <3>3. job'[b].at # "work"
      BY <3>1, <3>2, NoJobFacts
    <3> QED
      BY <3>3 DEF JobQuiet
  <2>2. \/ UNCHANGED job
        \/ job' = [b \in Bundles |-> IF {s \in Range(run.wave) : s.b = b} = {} THEN NoJob
                        ELSE [NoJob EXCEPT !.at = "lock",
                                !.step = CHOOSE s \in {s \in Range(run.wave) : s.b = b} : TRUE]]
    BY <1>4 DEF Dispatch
  <2> QED
    BY <1>2, <2>1, <2>2
<1>5. \/ UNCHANGED job \/ job' = [b \in Bundles |-> NoJob] \/ Dispatch
  BY DEF DriverStep, StartRun, Leave, DropRun, ReadPlan, PlanUnreadable, Decide, Fold, Refresh, Sleep
<1>6. \A b \in Bundles : JobQuiet(b)
  BY <1>2, <1>3, <1>4, <1>5
<1> QED
  BY <1>1, <1>6, JobsQuiet

LEMMA JobEnds ==
  ASSUME RoundInv, NEW b \in Bundles, job[b].at # "none", NEW how, Done(b, how)
  PROVE  JobQuiet(b) /\ \A c \in Bundles : c # b => job'[c] = job[c]
BY JobDone DEF JobQuiet

LEMMA JobGoesOn ==
  ASSUME RoundInv, NEW b \in Bundles,
         NEW at \in {"proving", "plans", "reserve", "episode", "deliver"}, Goto(b, at)
  PROVE  JobQuiet(b) /\ \A c \in Bundles : c # b => job'[c] = job[c]
<1>1. job'[b].at = at /\ \A c \in Bundles : c # b => job'[c] = job[c]
  BY JobMoves
<1>2. job'[b].at # "work"
  BY <1>1
<1> QED
  BY <1>1, <1>2 DEF JobQuiet

\* Only a bundle without a combined batch has its delegation advanced.
LEMMA AdvancesOwn ==
  ASSUME NEW b \in Bundles, ~Combined(b), DelegationPhase(b) \in {"submitted", "managed"}
  PROVE  deleg[b] \in {"submitted", "managed"}
<1>1. {p \in Proposals : vote[b][p].combined /\ vote[b][p].row \in Live} = {}
  BY DEF Combined
<1> QED
  BY <1>1 DEF DelegationPhase

LEMMA AcquireLockDelegations ==
  ASSUME RoundInv, DelegationInv, NEW b \in Bundles, AcquireLock(b)
  PROVE  DelegationInv'
<1>1. job[b].at = "lock" /\ UNCHANGED <<deleg, streak, vote, prover>>
  BY DEF AcquireLock, StoreKept, storeVars
<1>2. ASSUME NEW how, Done(b, how) PROVE DelegationInv'
  <2>1. \A c \in Bundles : JobQuiet(c)
    BY <1>1, <1>2, JobEnds DEF JobQuiet
  <2> QED
    BY <1>1, <2>1, JobsQuiet
<1>3. ASSUME NEW o \in Resolve(job[b].step),
             job' = [job EXCEPT ![b] = [job[b] EXCEPT !.at = "work", !.ps = o.ps,
                                                      !.draft = [p \in o.ps |-> intent[p]]]]
      PROVE  DelegationInv'
  <2>1. o \in Obligations /\ job[b].step \in StepsOf(o)
    BY <1>3 DEF Resolve
  <2>2. JobShape(job[b]) /\ DOMAIN job = Bundles /\ job[b].step.b = b
    BY <1>1, BundleFacts DEF JobOk
  <2>3. o.b = b
    BY <2>1, <2>2, StepFacts
  <2>4. PICK j : j = [job[b] EXCEPT !.at = "work", !.ps = o.ps, !.draft = [p \in o.ps |-> intent[p]]]
    OBVIOUS
  <2>5. job'[b] = j /\ j.step = job[b].step /\ \A c \in Bundles : c # b => job'[c] = job[c]
    BY <1>3, <2>2, <2>4 DEF JobShape
  <2>6. ASSUME job[b].step.kind \in {"AdvanceDelegation", "AdvanceImportedDelegation"}
        PROVE  deleg[b] \in {"submitted", "managed"}
    <3>1. job[b].step.kind \in Delegations /\ job[b].step.kind # "Delegate"
      BY <2>6 DEF Delegations
    <3>2. o.kind = "advance"
      <4>1. o.kind \in {"delegate", "advance"}
        BY <2>1, <3>1, StepFacts
      <4>2. ASSUME o.kind = "delegate" PROVE FALSE
        <5>1. PICK s : s = job[b].step
          OBVIOUS
        <5>2. s = Step("Delegate", o.b, 0)
          BY <2>1, <4>2, <5>1 DEF StepsOf
        <5>3. s.kind = "Delegate"
          BY <5>2 DEF Step
        <5> QED
          BY <3>1, <5>1, <5>3
      <4> QED
        BY <4>1, <4>2
    <3> QED
      BY <2>1, <2>3, <3>2, DelegationOwed, AdvancesOwn
  <2>7. DelegationOk(b)'
    <3>1. DelegationOk(b) /\ deleg'[b] = deleg[b] /\ streak'[b] = streak[b]
          /\ vote'[b] = vote[b] /\ prover'[b] = prover[b]
      BY <1>1 DEF DelegationInv
    <3>2. Combined(b)' <=> Combined(b)
      BY <3>1 DEF Combined
    <3> QED
      BY <2>5, <2>6, <3>1, <3>2 DEF DelegationOk
  <2>8. Elsewhere(b)
    BY <1>1, <2>5 DEF Elsewhere, DelegationInv
  <2> QED
    BY <2>7, <2>8, OneDelegation
<1>4. \/ \E how : Done(b, how)
      \/ /\ Resolve(job[b].step) # {}
         /\ LET o == CHOOSE x \in Resolve(job[b].step) : TRUE
            IN  job' = [job EXCEPT ![b] = [job[b] EXCEPT !.at = "work", !.ps = o.ps,
                                                         !.draft = [p \in o.ps |-> intent[p]]]]
  BY DEF AcquireLock
<1> QED
  BY <1>2, <1>3, <1>4

\* Steps that leave delegation and refusals alone, end or go on, and sign nothing.
LEMMA OneQuiet ==
  ASSUME DelegationInv, NEW b \in Bundles, UNCHANGED <<deleg, streak>>,
         JobQuiet(b), ThreadQuiet(b), FewerCombined(b),
         \A c \in Bundles : c # b => job'[c] = job[c] /\ prover'[c] = prover[c] /\ vote'[c] = vote[c]
  PROVE  DelegationInv'
<1>1. \A c \in Bundles : JobQuiet(c) /\ ThreadQuiet(c) /\ FewerCombined(c)
  BY DEF JobQuiet, ThreadQuiet, FewerCombined
<1> QED
  BY <1>1, AllQuiet

LEMMA StartDelegateDelegations ==
  ASSUME RoundInv, DelegationInv, NEW b \in Bundles, StartDelegate(b)
  PROVE  DelegationInv'
<1>1. job[b].at = "work" /\ UNCHANGED <<deleg, streak, vote>>
  BY DEF StartDelegate, Kind, StoreKept, storeVars
<1>2. JobQuiet(b) /\ \A c \in Bundles : c # b => job'[c] = job[c]
  <2>1. CASE Done(b, "Failed")
    BY <1>1, <2>1, JobEnds
  <2>2. CASE Goto(b, "proving")
    BY <2>2, JobGoesOn
  <2> QED
    BY <2>1, <2>2 DEF StartDelegate
<1>3. ThreadQuiet(b) /\ \A c \in Bundles : c # b => prover'[c] = prover[c]
  <2>1. CASE UNCHANGED prover
    BY <2>1 DEF ThreadQuiet
  <2>2. CASE prover' = [prover EXCEPT ![b] = [NoProver EXCEPT !.kind = "delegate"]]
    <3>1. [NoProver EXCEPT !.kind = "delegate"].kind = "delegate"
      BY DEF NoProver
    <3>2. prover'[b].kind = "delegate" /\ \A c \in Bundles : c # b => prover'[c] = prover[c]
      BY <2>2, <3>1, BundleFacts
    <3> QED
      BY <3>2 DEF ThreadQuiet
  <2> QED
    BY <2>1, <2>2 DEF StartDelegate
<1>4. FewerCombined(b)
  BY <1>1 DEF FewerCombined
<1> QED
  BY <1>1, <1>2, <1>3, <1>4, OneQuiet

LEMMA AdvanceDelegationDelegations ==
  ASSUME RoundInv, DelegationInv, NEW b \in Bundles, AdvanceDelegation(b)
  PROVE  DelegationInv'
<1>1. /\ job[b].at = "work" /\ UNCHANGED <<streak, vote, prover>>
      /\ job[b].step.kind \in {"AdvanceDelegation", "AdvanceImportedDelegation"}
  BY DEF AdvanceDelegation, Kind
<1>2. DelegationOk(b) /\ DOMAIN deleg = Bundles /\ deleg[b] \in {"submitted", "managed"}
  BY <1>1 DEF DelegationInv, DelegationOk
<1>3. ~Combined(b)
  BY <1>2 DEF DelegationOk
<1>4. \E how : Done(b, how)
  BY DEF AdvanceDelegation
<1>5. job'[b].at = "done" /\ \A c \in Bundles : c # b => job'[c] = job[c]
  BY <1>1, <1>4, JobDone
<1>6. /\ deleg'[b] \in DelegationRows /\ DOMAIN deleg' = Bundles
      /\ \A c \in Bundles : c # b => deleg'[c] = deleg[c]
  <2>1. CASE UNCHANGED deleg
    BY <1>2, <2>1 DEF DelegationOk
  <2>2. ASSUME NEW to \in [how: {"Advanced"}, is: {"confirmed"}]
                 \cup [how: {"Pending", "Stalled"}, is: {deleg[b]}]
                 \cup [how: {"ChainTerminal"}, is: {IF b \in imported THEN "rejected" ELSE "hashless"}],
               deleg' = [deleg EXCEPT ![b] = to.is]
        PROVE  /\ deleg'[b] \in DelegationRows /\ DOMAIN deleg' = Bundles
               /\ \A c \in Bundles : c # b => deleg'[c] = deleg[c]
    <3>1. to.is \in {"confirmed", deleg[b], "hashless", "rejected"}
      BY <2>2
    <3>2. to.is \in DelegationRows
      BY <1>2, <3>1 DEF DelegationRows
    <3> QED
      BY <1>2, <2>2, <3>2
  <2> QED
    BY <2>1, <2>2 DEF AdvanceDelegation
<1>7. ~Combined(b)'
  BY <1>1, <1>3 DEF Combined
<1>8. DelegationOk(b)'
  BY <1>1, <1>2, <1>5, <1>6, <1>7 DEF DelegationOk
<1>9. Elsewhere(b)
  BY <1>1, <1>5, <1>6 DEF Elsewhere, DelegationInv
<1> QED
  BY <1>8, <1>9, OneDelegation

\* Recovery material goes, and with it the batch.
LEMMA ClearsFewer ==
  ASSUME NEW v \in Votes, NEW U, NEW p \in Proposals
  PROVE  ClearRecovery(v, U)[p].combined => v[p].combined
<1>1. CASE p \in U
  <2>1. ClearRecovery(v, U)[p] = [v[p] EXCEPT !.unit = {}, !.combined = FALSE]
    BY <1>1 DEF ClearRecovery
  <2>2. v[p] \in [choice : Options \cup {"none"}, unit : SUBSET Proposals,
                  combined : BOOLEAN, row : {"none", "managed", "hashless", "rejected", "confirmed"}]
    BY DEF Votes
  <2>3. [v[p] EXCEPT !.unit = {}, !.combined = FALSE].combined = FALSE
    BY <2>2
  <2> QED
    BY <2>1, <2>3
<1>2. CASE p \notin U
  BY <1>2 DEF ClearRecovery
<1> QED
  BY <1>1, <1>2

LEMMA StartCastDelegations ==
  ASSUME RoundInv, DelegationInv, NEW b \in Bundles, StartCast(b)
  PROVE  DelegationInv'
<1>1. job[b].at = "work" /\ UNCHANGED <<deleg, streak>>
  BY DEF StartCast, Kind
<1>2. JobQuiet(b) /\ \A c \in Bundles : c # b => job'[c] = job[c]
  <2>1. CASE \E how : Done(b, how)
    BY <1>1, <2>1, JobEnds
  <2>2. CASE Goto(b, "proving")
    BY <2>2, JobGoesOn
  <2> QED
    BY <2>1, <2>2 DEF StartCast, StartStandaloneCast, StartCombinedCast, StartProving
<1>3. ThreadQuiet(b) /\ \A c \in Bundles : c # b => prover'[c] = prover[c]
  <2>1. CASE UNCHANGED prover
    BY <2>1 DEF ThreadQuiet
  <2>2. ASSUME NEW kind, StartProving(b, kind)
        PROVE  ThreadQuiet(b) /\ \A c \in Bundles : c # b => prover'[c] = prover[c]
    <3>1. PICK t : t = [NoProver EXCEPT !.ps = Unit(b), !.draft = job[b].draft, !.kind = kind]
      OBVIOUS
    <3>2. t.seen = <<>>
      BY <3>1 DEF NoProver
    <3>3. prover'[b] = t /\ \A c \in Bundles : c # b => prover'[c] = prover[c]
      BY <2>2, <3>1, BundleFacts DEF StartProving
    <3> QED
      BY <3>2, <3>3 DEF ThreadQuiet
  <2> QED
    BY <2>1, <2>2 DEF StartCast, StartStandaloneCast, StartCombinedCast
<1>4. FewerCombined(b) /\ \A c \in Bundles : c # b => vote'[c] = vote[c]
  <2>1. CASE UNCHANGED vote
    BY <2>1 DEF FewerCombined
  <2>2. CASE RetireDeparted(b)
    <3>1. /\ vote'[b] = ClearRecovery(vote[b], Departed(b)) /\ vote[b] \in Votes
          /\ \A c \in Bundles : c # b => vote'[c] = vote[c]
      BY <2>2, BundleFacts DEF RetireDeparted
    <3>2. ASSUME NEW p \in Proposals PROVE vote'[b][p].combined => vote[b][p].combined
      BY <3>1, ClearsFewer
    <3> QED
      BY <3>1, <3>2 DEF FewerCombined
  <2> QED
    BY <2>1, <2>2 DEF StartCast
<1> QED
  BY <1>1, <1>2, <1>3, <1>4, OneQuiet

\* The steps of a unit on its way to the chain and the helpers.
LEMMA UnitJobs ==
  ASSUME RoundInv, DelegationInv, NEW b \in Bundles,
         StartReconcile(b) \/ PlanShares(b) \/ StartDelivery(b) \/ Deliver(b)
  PROVE  DelegationInv'
<1>1. job[b].at # "none" /\ UNCHANGED <<deleg, streak, vote, prover>>
  BY DEF StartReconcile, PlanShares, StartDelivery, Deliver, Kind, StoreKept, storeVars
<1>2. \/ \E how : Done(b, how)
      \/ \E at \in {"proving", "plans", "reserve", "episode", "deliver"} : Goto(b, at)
  BY DEF StartReconcile, PlanShares, StartDelivery, Deliver
<1>3. JobQuiet(b) /\ \A c \in Bundles : c # b => job'[c] = job[c]
  BY <1>1, <1>2, JobEnds, JobGoesOn
<1>4. \A c \in Bundles : JobQuiet(c)
  BY <1>3 DEF JobQuiet
<1> QED
  BY <1>1, <1>4, JobsQuiet

SameCombined(v, w) == \A p \in Proposals : w[p].combined = v[p].combined

\* Rows change what is known of a vote, not whether it is combined.
LEMMA RowsFewer ==
  ASSUME NEW v \in Votes, NEW ps, NEW row
  PROVE  SameCombined(v, RowsSet(v, ps, row))
<1>1. \A p \in Proposals : [v[p] EXCEPT !.row = row].combined = v[p].combined
  BY DEF Votes
<1> QED
  BY <1>1 DEF RowsSet, SameCombined

LEMMA ReserveDelegations ==
  ASSUME RoundInv, DelegationInv, NEW b \in Bundles, Reserve(b)
  PROVE  DelegationInv'
<1>1. job[b].at # "none" /\ UNCHANGED <<deleg, streak, prover>> /\ vote[b] \in Votes
  BY BundleFacts DEF Reserve
<1>2. (\E how : Done(b, how)) \/ Goto(b, "episode")
  BY DEF Reserve
<1>3. JobQuiet(b) /\ \A c \in Bundles : c # b => job'[c] = job[c]
  BY <1>1, <1>2, JobEnds, JobGoesOn
<1>4. FewerCombined(b) /\ \A c \in Bundles : c # b => vote'[c] = vote[c]
  <2>1. CASE UNCHANGED vote
    BY <2>1 DEF FewerCombined
  <2>2. CASE vote' = [vote EXCEPT ![b] = [p \in Proposals |->
                        IF p \in Unit(b) THEN [vote[b][p] EXCEPT !.row = "managed"] ELSE vote[b][p]]]
    <3>1. /\ vote'[b] = RowsSet(vote[b], Unit(b), "managed")
          /\ \A c \in Bundles : c # b => vote'[c] = vote[c]
      BY <2>2, BundleFacts DEF RowsSet
    <3>2. SameCombined(vote[b], RowsSet(vote[b], Unit(b), "managed"))
      BY <1>1, RowsFewer
    <3> QED
      BY <3>1, <3>2 DEF FewerCombined, SameCombined
  <2> QED
    BY <2>1, <2>2 DEF Reserve
<1>5. ThreadQuiet(b)
  BY <1>1 DEF ThreadQuiet
<1> QED
  BY <1>1, <1>3, <1>4, <1>5, OneQuiet

\* A combined batch on chain confirms its delegation; a refused one is cleared, and the
\* delegation stays proved.
LEMMA EpisodeDelegations ==
  ASSUME RoundInv, DelegationInv, NEW b \in Bundles, Episode(b)
  PROVE  DelegationInv'
<1>1. /\ job[b].at # "none" /\ UNCHANGED prover /\ vote[b] \in Votes /\ DOMAIN vote = Bundles
      /\ DelegationOk(b) /\ DOMAIN deleg = Bundles /\ DOMAIN streak = Bundles
  BY BundleFacts DEF Episode, DelegationInv
<1>2. (\E how : Done(b, how)) \/ Goto(b, "deliver")
  BY DEF Episode
<1>3. /\ JobQuiet(b) /\ \A c \in Bundles : c # b => job'[c] = job[c]
  BY <1>1, <1>2, JobEnds, JobGoesOn
<1>4. /\ ThreadQuiet(b)
  BY <1>1 DEF ThreadQuiet
<1>5. ASSUME NEW row
      PROVE  /\ Rows(b, row)[b] = RowsSet(vote[b], Unit(b), row)
             /\ \A c \in Bundles : c # b => Rows(b, row)[c] = vote[c]
             /\ \A p \in Proposals : Rows(b, row)[b][p].combined = vote[b][p].combined
  <2>1. /\ Rows(b, row)[b] = RowsSet(vote[b], Unit(b), row)
        /\ \A c \in Bundles : c # b => Rows(b, row)[c] = vote[c]
    BY <1>1 DEF Rows, RowsSet
  <2>2. SameCombined(vote[b], RowsSet(vote[b], Unit(b), row))
    BY <1>1, RowsFewer
  <2> QED
    BY <2>1, <2>2 DEF SameCombined
<1>6. ASSUME UNCHANGED <<deleg, streak, vote>> PROVE DelegationInv'
  <2>1. FewerCombined(b)
    BY <1>6 DEF FewerCombined
  <2> QED
    BY <1>1, <1>3, <1>4, <1>6, <2>1, OneQuiet
<1>7. ASSUME NEW row, vote' = Rows(b, row), UNCHANGED <<deleg, streak>> PROVE DelegationInv'
  <2>1. FewerCombined(b) /\ \A c \in Bundles : c # b => vote'[c] = vote[c]
    BY <1>5, <1>7 DEF FewerCombined
  <2> QED
    BY <1>1, <1>3, <1>4, <1>7, <2>1, OneQuiet
<1>8. ASSUME vote' = Rows(b, "confirmed"), Goto(b, "deliver"),
             deleg' = IF IsCombined(b) THEN [deleg EXCEPT ![b] = "confirmed"] ELSE deleg,
             streak' = IF IsCombined(b) THEN [streak EXCEPT ![b] = 0] ELSE streak
      PROVE  DelegationInv'
  <2>1. CASE ~IsCombined(b)
    BY <1>7, <1>8, <2>1
  <2>2. CASE IsCombined(b)
    <3>1. /\ deleg'[b] = "confirmed" /\ streak'[b] = 0
          /\ DOMAIN deleg' = Bundles /\ DOMAIN streak' = Bundles
          /\ \A c \in Bundles : c # b => deleg'[c] = deleg[c] /\ streak'[c] = streak[c]
      BY <1>1, <1>8, <2>2
    <3>2. job'[b].at = "deliver"
      BY <1>8, JobMoves
    <3>3. 0 \in 0 .. MaxRejections /\ "confirmed" \in DelegationRows
      BY SMT DEF MaxRejections, DelegationRows
    <3>4. DelegationOk(b)'
      BY <1>1, <3>1, <3>2, <3>3 DEF DelegationOk
    <3>5. Elsewhere(b)
      BY <1>1, <1>3, <1>5, <1>8, <3>1 DEF Elsewhere
    <3> QED
      BY <3>4, <3>5, OneDelegation
  <2> QED
    BY <2>1, <2>2
<1>9. ASSUME vote' = [vote EXCEPT ![b] = ClearRecovery(Rows(b, "none")[b], Unit(b))],
             streak' = [streak EXCEPT ![b] = IF streak[b] < MaxRejections THEN streak[b] + 1
                                             ELSE streak[b]],
             UNCHANGED deleg
      PROVE  DelegationInv'
  <2>1. PICK w : w = RowsSet(vote[b], Unit(b), "none")
    OBVIOUS
  <2>2. w \in Votes /\ \A p \in Proposals : w[p].combined = vote[b][p].combined
    <3>1. ASSUME NEW p \in Proposals
          PROVE  w[p] \in [choice : Options \cup {"none"}, unit : SUBSET Proposals,
                           combined : BOOLEAN, row : {"none", "managed", "hashless", "rejected", "confirmed"}]
      <4>1. vote[b][p] \in [choice : Options \cup {"none"}, unit : SUBSET Proposals,
                            combined : BOOLEAN, row : {"none", "managed", "hashless", "rejected", "confirmed"}]
        BY <1>1 DEF Votes
      <4>2. w[p] = [vote[b][p] EXCEPT !.row = "none"] \/ w[p] = vote[b][p]
        BY <2>1 DEF RowsSet
      <4> QED
        BY <4>1, <4>2
    <3>2. w \in Votes
      BY <2>1, <3>1 DEF RowsSet, Votes
    <3> QED
      BY <1>5, <2>1, <3>2
  <2>3. vote'[b] = ClearRecovery(w, Unit(b)) /\ \A c \in Bundles : c # b => vote'[c] = vote[c]
    BY <1>1, <1>5, <1>9, <2>1
  <2>4. FewerCombined(b)
    <3>1. ASSUME NEW p \in Proposals PROVE vote'[b][p].combined => vote[b][p].combined
      <4>1. ClearRecovery(w, Unit(b))[p].combined => w[p].combined
        BY <2>2, ClearsFewer
      <4> QED
        BY <2>2, <2>3, <4>1
    <3> QED
      BY <3>1 DEF FewerCombined
  <2>5. PICK n : n = IF streak[b] < MaxRejections THEN streak[b] + 1 ELSE streak[b]
    OBVIOUS
  <2>6. n \in 0 .. MaxRejections
    BY <1>1, <2>5, SMT DEF DelegationOk, MaxRejections
  <2>7. /\ streak'[b] = n /\ DOMAIN streak' = Bundles
        /\ \A c \in Bundles : c # b => streak'[c] = streak[c]
    BY <1>1, <1>9, <2>5
  <2>8. DelegationOk(b)'
    BY <1>1, <1>3, <1>4, <1>9, <2>4, <2>6, <2>7, QuietKeeps
  <2>9. Elsewhere(b)
    BY <1>1, <1>3, <1>9, <2>3, <2>7 DEF Elsewhere
  <2> QED
    BY <2>8, <2>9, OneDelegation
<1> QED
  BY <1>6, <1>7, <1>8, <1>9 DEF Episode

LEMMA CapturedDelegation ==
  ASSUME NEW b, NEW ps, NEW p \in ps
  PROVE  Captured(b, ps)[p].deleg = deleg[b]
<1>1. PICK r : r = [intent |-> intent[p], vote |-> vote[b][p], deleg |-> deleg[b]]
  OBVIOUS
<1>2. r.deleg = deleg[b]
  BY <1>1
<1>3. Captured(b, ps)[p] = r
  BY <1>1 DEF Captured
<1> QED
  BY <1>2, <1>3

LEMMA ProverDelegations ==
  ASSUME RoundInv, DelegationInv, NEW b \in Bundles, ProverStep(b)
  PROVE  DelegationInv'
<1>1. /\ DelegationOk(b) /\ DOMAIN deleg = Bundles /\ DOMAIN streak = Bundles
      /\ DOMAIN prover = Bundles /\ DOMAIN vote = Bundles /\ ProverShape(prover[b])
  BY BundleFacts DEF DelegationInv
<1>2. ASSUME prover' = [prover EXCEPT ![b] = NoProver]
      PROVE  ThreadQuiet(b) /\ prover'[b].kind = "none" /\ \A c \in Bundles : c # b => prover'[c] = prover[c]
  BY <1>1, <1>2, NoProverFacts DEF ThreadQuiet
<1>3. ASSUME \/ UNCHANGED job
             \/ job[b].at = "proving" /\ \E how : Done(b, how)
             \/ job' = [job EXCEPT ![b].at = "plans", ![b].how = "fresh"]
      PROVE  JobQuiet(b) /\ \A c \in Bundles : c # b => job'[c] = job[c]
  <2>1. CASE UNCHANGED job
    BY <2>1 DEF JobQuiet
  <2>2. CASE job[b].at = "proving" /\ \E how : Done(b, how)
    BY <2>2, JobEnds
  <2>3. CASE job' = [job EXCEPT ![b].at = "plans", ![b].how = "fresh"]
    <3>1. PICK j : j = [job[b] EXCEPT !.at = "plans", !.how = "fresh"]
      OBVIOUS
    <3>2. JobShape(job[b]) /\ DOMAIN job = Bundles
      BY BundleFacts
    <3>3. j.at = "plans"
      BY <3>1, <3>2 DEF JobShape
    <3>4. job'[b] = j /\ \A c \in Bundles : c # b => job'[c] = job[c]
      BY <2>3, <3>1, <3>2
    <3> QED
      BY <3>3, <3>4 DEF JobQuiet
  <2> QED
    BY <1>3, <2>1, <2>2, <2>3
<1>4. CASE ProveDelegation(b)
  <2>1. UNCHANGED <<streak, vote>> /\ prover' = [prover EXCEPT ![b] = NoProver]
    BY <1>4 DEF ProveDelegation
  <2>2. JobQuiet(b) /\ \A c \in Bundles : c # b => job'[c] = job[c]
    BY <1>3, <1>4 DEF ProveDelegation
  <2>3. \/ deleg' = deleg
        \/ deleg[b] = "prepared" /\ deleg' = [deleg EXCEPT ![b] = "proved"]
    BY <1>4 DEF ProveDelegation
  <2>4. CASE deleg' = deleg
    <3>1. FewerCombined(b)
      BY <2>1 DEF FewerCombined
    <3> QED
      BY <1>2, <2>1, <2>2, <2>4, <3>1, OneQuiet
  <2>5. CASE deleg[b] = "prepared" /\ deleg' = [deleg EXCEPT ![b] = "proved"]
    <3>1. /\ deleg'[b] = "proved" /\ DOMAIN deleg' = Bundles
          /\ \A c \in Bundles : c # b => deleg'[c] = deleg[c]
      BY <1>1, <2>5
    <3>2. "proved" \in DelegationRows
      BY DEF DelegationRows
    <3>3. ~(job'[b].at = "work"
            /\ job'[b].step.kind \in {"AdvanceDelegation", "AdvanceImportedDelegation"})
      BY <1>1, <2>2, <2>5 DEF JobQuiet, DelegationOk
    <3>4. DelegationOk(b)'
      BY <1>1, <1>2, <2>1, <3>1, <3>2, <3>3 DEF DelegationOk
    <3>5. Elsewhere(b)
      BY <1>1, <1>2, <2>1, <2>2, <3>1 DEF Elsewhere
    <3> QED
      BY <3>4, <3>5, OneDelegation
  <2> QED
    BY <2>3, <2>4, <2>5
<1>5. CASE ProverFails(b)
  <2>1. UNCHANGED <<deleg, streak, vote>> /\ prover' = [prover EXCEPT ![b] = NoProver]
    BY <1>5 DEF ProverFails, StoreKept, storeVars
  <2>2. JobQuiet(b) /\ \A c \in Bundles : c # b => job'[c] = job[c]
    BY <1>3, <1>5 DEF ProverFails
  <2>3. FewerCombined(b)
    BY <2>1 DEF FewerCombined
  <2> QED
    BY <1>2, <2>1, <2>2, <2>3, OneQuiet
<1>6. CASE PrepareVotes(b)
  <2>1. /\ UNCHANGED <<deleg, streak, vote, job>>
        /\ prover[b].kind = "combined" => deleg[b] = "proved"
    BY <1>6 DEF PrepareVotes, StoreKept, storeVars
  <2>2. PICK t : t = [prover[b] EXCEPT !.seen = Captured(b, prover[b].ps)]
    OBVIOUS
  <2>3. prover'[b] = t /\ \A c \in Bundles : c # b => prover'[c] = prover[c]
    BY <1>1, <1>6, <2>2 DEF PrepareVotes
  <2>4. t.kind = prover[b].kind /\ t.ps = prover[b].ps /\ t.seen = Captured(b, prover[b].ps)
    BY <1>1, <2>2 DEF ProverShape
  <2>5. ASSUME NEW p \in t.ps PROVE t.seen[p].deleg = deleg[b]
    <3>1. PICK ps : ps = prover[b].ps
      OBVIOUS
    <3>2. p \in ps /\ t.seen = Captured(b, ps)
      BY <2>4, <3>1
    <3>3. Captured(b, ps)[p].deleg = deleg[b]
      BY <3>2, CapturedDelegation
    <3> QED
      BY <3>2, <3>3
  <2>6. Combined(b)' <=> Combined(b)
    BY <2>1 DEF Combined
  <2>7. DelegationOk(b)'
    BY <1>1, <2>1, <2>3, <2>4, <2>5, <2>6 DEF DelegationOk
  <2>8. Elsewhere(b)
    BY <1>1, <2>1, <2>3 DEF Elsewhere
  <2> QED
    BY <2>7, <2>8, OneDelegation
<1>7. CASE PersistVotes(b)
  <2>1. /\ UNCHANGED <<deleg, streak>> /\ prover' = [prover EXCEPT ![b] = NoProver]
        /\ prover[b].seen = Captured(b, prover[b].ps) /\ prover[b].seen # <<>>
    BY <1>7 DEF PersistVotes, StillAsProved
  <2>2. JobQuiet(b) /\ \A c \in Bundles : c # b => job'[c] = job[c]
    BY <1>3, <1>7 DEF PersistVotes
  <2>3. PICK w : w = [p \in Proposals |-> IF p \in prover[b].ps
                     THEN [choice |-> prover[b].draft[p], unit |-> prover[b].ps, row |-> "none",
                           combined |-> prover[b].kind = "combined"]
                     ELSE vote[b][p]]
    OBVIOUS
  <2>4. vote'[b] = w /\ \A c \in Bundles : c # b => vote'[c] = vote[c]
    BY <1>1, <1>7, <2>3 DEF PersistVotes
  <2>5. ASSUME NEW p \in Proposals, w[p].combined
        PROVE  deleg[b] \in {"proved", "confirmed"}
    <3>1. CASE p \in prover[b].ps
      <4>1. prover[b].kind = "combined"
        BY <2>3, <2>5, <3>1
      <4>2. prover[b].seen[p].deleg = "proved"
        BY <1>1, <2>1, <3>1, <4>1 DEF DelegationOk
      <4>3. Captured(b, prover[b].ps)[p].deleg = deleg[b]
        BY <3>1, CapturedDelegation
      <4>4. prover[b].seen = Captured(b, prover[b].ps)
        BY <2>1
      <4> QED
        BY <4>2, <4>3, <4>4
    <3>2. CASE p \notin prover[b].ps
      BY <1>1, <2>3, <2>5, <3>2 DEF DelegationOk, Combined
    <3> QED
      BY <3>1, <3>2
  <2>6. Combined(b)' => deleg'[b] \in {"proved", "confirmed"}
    BY <2>1, <2>4, <2>5 DEF Combined
  <2>7. DelegationOk(b)'
    BY <1>1, <1>2, <2>1, <2>2, <2>6 DEF DelegationOk, JobQuiet
  <2>8. Elsewhere(b)
    BY <1>1, <1>2, <2>1, <2>2, <2>4 DEF Elsewhere
  <2> QED
    BY <2>7, <2>8, OneDelegation
<1> QED
  BY <1>4, <1>5, <1>6, <1>7 DEF ProverStep

LEMMA HostDelegations ==
  ASSUME RoundInv, DelegationInv, HostEdits \/ TrackerPass
  PROVE  DelegationInv'
<1>1. UNCHANGED <<job, prover>>
  BY DEF HostEdits, TrackerPass
<1>2. \A b \in Bundles : JobQuiet(b) /\ ThreadQuiet(b)
  BY <1>1 DEF JobQuiet, ThreadQuiet
<1>3. ASSUME UNCHANGED <<deleg, streak, vote>> PROVE DelegationInv'
  <2>1. \A b \in Bundles : JobQuiet(b) /\ ThreadQuiet(b) /\ FewerCombined(b)
    BY <1>2, <1>3 DEF FewerCombined
  <2> QED
    BY <1>3, <2>1, AllQuiet
<1>4. 0 \in 0 .. MaxRejections
  BY SMT DEF MaxRejections
<1>5. ASSUME UNCHANGED deleg, DOMAIN streak' = Bundles,
             \A b \in Bundles : FewerCombined(b) /\ streak'[b] \in {0, streak[b]}
      PROVE  DelegationInv'
  <2>1. ASSUME NEW b \in Bundles PROVE DelegationOk(b)'
    <3>1. /\ DelegationOk(b) /\ JobQuiet(b) /\ ThreadQuiet(b) /\ FewerCombined(b)
          /\ deleg'[b] = deleg[b] /\ streak'[b] \in 0 .. MaxRejections
      BY <1>2, <1>4, <1>5 DEF DelegationInv, DelegationOk
    <3> QED
      BY <3>1, QuietKeeps
  <2> QED
    BY <1>5, <2>1 DEF DelegationInv
<1>6. ASSUME NEW p \in Proposals, NEW d, Invalidate(p, d), NEW b \in Bundles PROVE FewerCombined(b)
  <2>1. vote'[b] = ClearRecovery(vote[b], vote[b][p].unit) \/ vote'[b] = vote[b]
    BY <1>6 DEF Invalidate
  <2>2. CASE vote'[b] = vote[b]
    BY <2>2 DEF FewerCombined
  <2>3. CASE vote'[b] = ClearRecovery(vote[b], vote[b][p].unit)
    <3>1. vote[b] \in Votes
      BY BundleFacts
    <3>2. ASSUME NEW q \in Proposals PROVE vote'[b][q].combined => vote[b][q].combined
      <4>1. ClearRecovery(vote[b], vote[b][p].unit)[q].combined => vote[b][q].combined
        BY <3>1, ClearsFewer
      <4> QED
        BY <2>3, <4>1
    <3> QED
      BY <3>2 DEF FewerCombined
  <2> QED
    BY <2>1, <2>2, <2>3
<1>7. ASSUME NEW p \in Proposals, NEW d \in Decisions, SetBallotIntent(p, d) PROVE DelegationInv'
  <2>1. /\ UNCHANGED deleg /\ DOMAIN streak' = Bundles
        /\ \A b \in Bundles : streak'[b] \in {0, streak[b]}
    BY <1>7 DEF SetBallotIntent
  <2>2. \A b \in Bundles : FewerCombined(b)
    BY <1>6, <1>7 DEF SetBallotIntent, InvalidateUnits
  <2> QED
    BY <1>5, <2>1, <2>2
<1>8. ASSUME NEW p \in Proposals, ClearBallotIntent(p) PROVE DelegationInv'
  <2>1. UNCHANGED <<deleg, streak>>
    BY <1>8 DEF ClearBallotIntent
  <2>2. \A b \in Bundles : FewerCombined(b)
    BY <1>6, <1>8 DEF ClearBallotIntent, InvalidateUnits
  <2> QED
    BY <1>2, <2>1, <2>2, AllQuiet
<1>9. ASSUME NEW bs \in SUBSET Bundles, SetupBundles(bs) PROVE DelegationInv'
  <2>1. UNCHANGED <<streak, vote>> /\ DOMAIN deleg' = Bundles
    BY <1>9 DEF SetupBundles
  <2>2. ASSUME NEW b \in Bundles PROVE DelegationOk(b)'
    <3>1. deleg[b] = "absent" /\ DelegationOk(b)
      BY <1>9 DEF SetupBundles, BundleRows, DelegationInv
    <3>2. deleg'[b] \in {"prepared", "absent"}
      BY <1>9 DEF SetupBundles
    <3>3. deleg'[b] \in DelegationRows
      BY <3>2 DEF DelegationRows
    <3>4. ~Combined(b)'
      BY <2>1, <3>1 DEF DelegationOk, Combined
    <3> QED
      BY <1>1, <2>1, <3>1, <3>3, <3>4 DEF DelegationOk
  <2> QED
    BY <2>1, <2>2 DEF DelegationInv
<1>10. ASSUME NEW b \in Bundles, RetryBlockedCombinedCast(b) PROVE DelegationInv'
  <2>1. /\ UNCHANGED <<deleg, vote>> /\ streak' = [streak EXCEPT ![b] = 0]
    BY <1>10 DEF RetryBlockedCombinedCast
  <2>2. DOMAIN streak' = Bundles /\ \A c \in Bundles : streak'[c] \in {0, streak[c]}
    BY <2>1 DEF DelegationInv
  <2>3. \A c \in Bundles : FewerCombined(c)
    BY <2>1 DEF FewerCombined
  <2> QED
    BY <1>5, <2>1, <2>2, <2>3
<1>11. ASSUME NEW r, BindRoster(r) PROVE DelegationInv'
  BY <1>3, <1>11 DEF BindRoster
<1>12. ASSUME NEW b, NEW p, NEW to, TrackShare(b, p, to) PROVE DelegationInv'
  BY <1>3, <1>12 DEF TrackShare
<1> QED
  BY <1>7, <1>8, <1>9, <1>10, <1>11, <1>12 DEF HostEdits, TrackerPass

LEMMA DelegationsStart == RoundsInit => DelegationInv
<1> SUFFICES ASSUME RoundsInit PROVE DelegationInv
  OBVIOUS
<1>1. /\ job = [b \in Bundles |-> NoJob] /\ prover = [b \in Bundles |-> NoProver]
      /\ streak = [b \in Bundles |-> 0]
  BY DEF RoundsInit, StoreInit, RoundInit
<1>2. deleg \in [Bundles -> DelegationRows]
  BY IndexAssumption DEF RoundsInit, StoreInit
<1>3. 0 \in 0 .. MaxRejections
  BY SMT DEF MaxRejections
<1>4. PICK s \in Starts :
        vote = [b \in Bundles |-> [p \in Proposals |->
                  IF p \in s.refused[b]
                  THEN [choice |-> s.intent[p], unit |-> s.refused[b],
                        combined |-> FALSE, row |-> "rejected"]
                  ELSE NoVote]]
  BY DEF RoundsInit, StoreInit
<1>5. ASSUME NEW b \in Bundles PROVE DelegationOk(b)
  <2>1. job[b] = NoJob /\ prover[b] = NoProver /\ streak[b] = 0
    BY <1>1
  <2>2. ASSUME NEW p \in Proposals PROVE ~vote[b][p].combined
    <3>1. vote[b][p] = IF p \in s.refused[b]
                       THEN [choice |-> s.intent[p], unit |-> s.refused[b],
                             combined |-> FALSE, row |-> "rejected"]
                       ELSE NoVote
      BY <1>4
    <3>2. CASE p \in s.refused[b]
      <4>1. PICK c, u : vote[b][p] = [choice |-> c, unit |-> u, combined |-> FALSE, row |-> "rejected"]
        BY <3>1, <3>2
      <4> QED
        BY <4>1, SMT
    <3>3. CASE p \notin s.refused[b]
      <4>1. vote[b][p] = NoVote
        BY <3>1, <3>3
      <4> QED
        BY <4>1, SMT DEF NoVote
    <3> QED
      BY <3>2, <3>3
  <2>3. ~Combined(b)
    BY <2>2 DEF Combined
  <2> QED
    BY <1>2, <1>3, <2>1, <2>3, NoJobFacts, NoProverFacts DEF DelegationOk
<1> QED
  BY <1>1, <1>2, <1>4, <1>5 DEF DelegationInv

LEMMA DelegationSteps ==
  RoundInv /\ DelegationInv /\ [RoundNext]_<<storeVars, driveVars>> => DelegationInv'
<1> SUFFICES ASSUME RoundInv, DelegationInv, [RoundNext]_<<storeVars, driveVars>>
             PROVE  DelegationInv'
  OBVIOUS
<1>1. CASE UNCHANGED <<storeVars, driveVars>>
  <2>1. \A b \in Bundles : JobQuiet(b)
    BY <1>1 DEF JobQuiet, driveVars
  <2> QED
    BY <1>1, <2>1, JobsQuiet DEF storeVars, driveVars
<1>2. ASSUME NEW b \in Bundles, JobStep(b) PROVE DelegationInv'
  BY <1>2, AcquireLockDelegations, StartDelegateDelegations, AdvanceDelegationDelegations,
     StartCastDelegations, UnitJobs, ReserveDelegations, EpisodeDelegations DEF JobStep
<1> QED
  BY <1>1, <1>2, DriverDelegations, ProverDelegations, HostDelegations DEF RoundNext

\* The delegation columns of a bundle and the rows of its votes agree: a combined batch goes
\* out with a proved delegation, which stays proved until the batch is confirmed, and a step
\* that advances a delegation of its own finds it on its way.
THEOREM DelegationInvariant == RoundsSpec => []DelegationInv
<1> QED
  BY RoundStarts, RoundSteps, DelegationsStart, DelegationSteps, PTL DEF RoundsSpec

-----------------------------------------------------------------------------
(* What a run reports.                                                     *)

\* What a reason to stop says of the round.
SaysTrue(q, owed) ==
    /\ q = "NoWorkLeft" =>
         AllVoted /\ ~OnTheWire /\ \A b \in Bundles, p \in Proposals :
                                      vote[b][p].row = "confirmed" => shares[b][p] = "confirmed"
    /\ q = "BackgroundShareWorkOnly" => AllVoted /\ ~OnTheWire /\ ~Undelivered
    /\ q = "NeedsBallot" =>
         ~OnTheWire /\ ~Undelivered /\ \E p \in Proposals : (p \in roster) = (intent[p] = "open")
    /\ q = "PersistedChainTerminal" =>
         ~OnTheWire /\ \E b \in Bundles : \/ deleg[b] \in {"hashless", "rejected"}
                                          \/ streak[b] = MaxRejections
                                          \/ \E p \in Proposals :
                                               vote[b][p].row \in {"hashless", "rejected"}
    /\ q = "NeedsDelegationSignatures" =>
         owed # {} /\ \A b \in owed : b \notin imported /\ deleg[b] # "confirmed"

\* A plan whose steps are all the tracker's names the reason to stop, and the bundles that
\* still need the voter's key.
Handed(plan) == \A s \in Range(plan.steps) : s \in plan.tracked
PlanTells(plan) ==
    /\ Handed(plan) => SaysTrue(plan.quiet, {})
    /\ \A b \in plan.signing : b \notin imported /\ deleg[b] # "confirmed"

\* The plan a run decides by is true for as long as nothing is written.
ReportInv ==
    /\ run.skipped # {} => run.failed
    /\ run.pc \in {"decide", "contexts"} /\ calm => PlanTells(run.plan)
    /\ run.pc = "refresh" =>
         run.quiescence \in {"none", "Cancelled", "ChainTerminal", "ChainRecoveryStalled", "Failures"}
    /\ run.pc = "idle" => /\ run.quiescence \notin {"none", "Cancelled"} => ~left
                          /\ calm => SaysTrue(run.quiescence, run.owed)

LEMMA NothingBlocks ==
  ASSUME RoundInv, ~BlockingRecovery
  PROVE  ~OnTheWire /\ ~Undelivered
<1>1. ~OnTheWire
  BY Blocked DEF OnTheWire, Live
<1>2. ~\E o \in Obligations : \E s \in StepsOf(o) : ~Tracked(s)
  BY DEF BlockingRecovery
<1>3. ~Undelivered
  BY <1>2, ShareObliged DEF Undelivered
<1> QED
  BY <1>1, <1>3

LEMMA NothingLeftIsVoted ==
  ASSUME RoundInv, ~BlockingRecovery, ~NeedsBundleSetup, RosterIsTerminal
  PROVE  AllVoted
<1>1. ASSUME NEW p \in roster, intent[p] # "skip"
      PROVE  BundleRows # {} /\ \A b \in BundleRows : Settled(b, p)
  <2>1. intent[p] # "open" /\ p \in Proposals
    BY <1>1 DEF RosterIsTerminal, OpenProposals, RoundInv
  <2>2. intent[p] \in Options
    BY <1>1, <2>1 DEF RoundInv, Intents, Decisions
  <2>3. BundleRows # {}
    BY <2>2 DEF NeedsBundleSetup, ChoiceProposals
  <2> QED
    BY <1>1, <2>2, <2>3, NothingOwedIsVoted, ZenonT(60) DEF Settled
<1> QED
  BY <1>1 DEF AllVoted

LEMMA BallotOpen ==
  ASSUME RoundInv, ~RosterIsTerminal
  PROVE  \E p \in Proposals : (p \in roster) = (intent[p] = "open")
<1>1. CASE OpenProposals # {}
  <2>1. PICK p \in roster : intent[p] = "open"
    BY <1>1 DEF OpenProposals
  <2>2. p \in Proposals /\ ((p \in roster) = (intent[p] = "open"))
    BY <2>1 DEF RoundInv
  <2> QED
    BY <2>2
<1>2. CASE UnrosteredIntents # {}
  <2>1. PICK p \in Proposals \ roster : intent[p] # "open"
    BY <1>2 DEF UnrosteredIntents
  <2>2. (p \in roster) = (intent[p] = "open")
    BY <2>1, SMT
  <2> QED
    BY <2>1, <2>2
<1> QED
  BY <1>1, <1>2 DEF RosterIsTerminal

\* A share that is not on chain yet is in the plan.
LEMMA SharePlanned ==
  ASSUME RoundInv, NEW b \in Bundles, NEW p \in Proposals, vote[b][p].row = "confirmed",
         shares[b][p] # "confirmed"
  PROVE  \E s : s \in PlannedSteps
<1>1. shares[b][p] \in {"absent", "unreached", "trying", "tracked", "confirmed"}
  BY BundleFacts DEF ShareRows
<1>2. CASE shares[b][p] \in {"absent", "unreached"}
  BY <1>2, ShareObliged DEF PlannedSteps
<1>3. CASE shares[b][p] \in {"trying", "tracked"}
  <2>1. PICK k : k = <<b, p>>
    OBVIOUS
  <2>2. k \in Bundles \X Proposals /\ k[1] = b /\ k[2] = p
    BY <2>1
  <2>3. PICK o : o = Obligation("confirm", k[1], {k[2]})
    OBVIOUS
  <2>4. o.kind = "confirm" /\ o.b = b /\ o.ps = {p}
    BY <2>2, <2>3 DEF Obligation
  <2>5. ~Stale(b, p)
    BY BundleFacts DEF Stale, SignedOk
  <2>6. k \in {x \in Bundles \X Proposals : /\ ~Stale(x[1], x[2])
                                            /\ shares[x[1]][x[2]] \in {"unreached", "trying", "tracked"}}
    BY <1>3, <2>2, <2>5
  <2>7. o \in {Obligation("confirm", x[1], {x[2]}) : x \in {x \in Bundles \X Proposals :
                   /\ ~Stale(x[1], x[2])
                   /\ shares[x[1]][x[2]] \in {"unreached", "trying", "tracked"}}}
    BY <2>3, <2>6
  <2>8. o \in Obligations
    BY <2>7 DEF Obligations
  <2>9. PICK s : s = Step("ConfirmShare", o.b, p)
    OBVIOUS
  <2>10. s \in StepsOf(o)
    BY <2>4, <2>9 DEF StepsOf
  <2> QED
    BY <2>8, <2>10 DEF PlannedSteps
<1> QED
  BY <1>1, <1>2, <1>3

LEMMA NoSteps ==
  ASSUME RoundInv, NextSteps = <<>>, NEW b \in Bundles, NEW p \in Proposals,
         vote[b][p].row = "confirmed"
  PROVE  shares[b][p] = "confirmed"
<1>1. SUFFICES ASSUME shares[b][p] # "confirmed" PROVE FALSE
  OBVIOUS
<1>2. PICK s : s \in PlannedSteps
  BY <1>1, SharePlanned
<1>3. s \in Range(NextSteps)
  BY <1>2, NothingLeftOut
<1>4. Range(<<>>) = {}
  BY SMT DEF Range
<1> QED
  BY <1>3, <1>4

\* What stays when every step is the tracker's.
LEMMA ChainIsTerminal ==
  ASSUME RoundInv, DelegationInv, BlockingRecovery, \A s \in PlannedSteps : Tracked(s)
  PROVE  /\ ~OnTheWire
         /\ \E b \in Bundles : \/ deleg[b] \in {"hashless", "rejected"}
                               \/ streak[b] = MaxRejections
                               \/ \E p \in Proposals : vote[b][p].row \in {"hashless", "rejected"}
<1>1. ~\E o \in Obligations : \E s \in StepsOf(o) : ~Tracked(s)
  BY DEF PlannedSteps
<1>2. ASSUME NEW b \in Bundles, NEW p \in Proposals, vote[b][p].row = "managed" PROVE FALSE
  <2>1. SignedOk(vote[b], intent)
    BY BundleFacts
  <2>2. vote[b][p].unit # {}
    BY <1>2, <2>1 DEF SignedOk
  <2>3. vote[b][p].choice \in Options
    BY <2>1, <2>2 DEF SignedOk
  <2>4. HasRow(b, p)
    BY <2>3, RoundAssumption DEF HasRow
  <2>5. VotePhase(b, p) = "managed"
    BY <1>2 DEF VotePhase, LifecycleOwned
  <2>6. Reconciles(b, p)
    BY <2>4, <2>5 DEF Reconciles
  <2> QED
    BY <1>1, <2>6, ReconcileObliged
<1>3. ~OnTheWire
  BY <1>2 DEF OnTheWire
<1>4. ASSUME NEW b \in Bundles, NEW p \in Proposals, vote[b][p].row \in Live \cup {"rejected"}
      PROVE  vote[b][p].row \in {"hashless", "rejected"}
  BY <1>2, <1>4 DEF Live
<1>5. ASSUME NEW b \in Bundles, DelegationPhase(b) \in {"managed", "hashless", "rejected"}
      PROVE  \/ deleg[b] \in {"hashless", "rejected"}
             \/ \E p \in Proposals : vote[b][p].row \in {"hashless", "rejected"}
  <2> DEFINE riding == {p \in Proposals : vote[b][p].combined /\ vote[b][p].row \in Live}
  <2>1. CASE riding # {}
    BY <1>4, <2>1
  <2>2. CASE riding = {}
    <3>1. DelegationPhase(b) = deleg[b]
      BY <2>2 DEF DelegationPhase
    <3>2. ASSUME deleg[b] = "managed" PROVE FALSE
      <4>1. ~Combined(b)
        BY <3>2 DEF DelegationInv, DelegationOk
      <4>2. PICK o : o = Obligation("advance", b, {})
        OBVIOUS
      <4>3. o \in Obligations
        BY <3>1, <3>2, <4>1, <4>2 DEF Obligations
      <4>4. o.kind = "advance"
        BY <4>2 DEF Obligation
      <4>5. PICK k \in {"AdvanceImportedDelegation", "AdvanceDelegation"} : Step(k, o.b, 0) \in StepsOf(o)
        BY <4>4 DEF StepsOf
      <4>6. PICK s \in StepsOf(o) : s = Step(k, o.b, 0)
        BY <4>5
      <4>7. s.kind = k
        BY <4>6 DEF Step
      <4>8. ~Tracked(s)
        BY <4>5, <4>7 DEF Tracked
      <4> QED
        BY <1>1, <4>3, <4>6, <4>8
    <3> QED
      BY <1>5, <3>1, <3>2
  <2> QED
    BY <2>1, <2>2
<1>6. ASSUME NEW b \in Bundles, streak[b] >= MaxRejections PROVE streak[b] = MaxRejections
  <2>1. streak[b] \in 0 .. MaxRejections
    BY DEF DelegationInv, DelegationOk
  <2> QED
    BY <1>6, <2>1, SMT DEF MaxRejections
<1>7. PICK b \in Bundles : \/ DelegationPhase(b) \in {"managed", "hashless", "rejected"}
                           \/ streak[b] >= MaxRejections
                           \/ \E p \in Proposals : vote[b][p].row \in Live \cup {"rejected"}
  BY <1>1 DEF BlockingRecovery
<1> QED
  BY <1>3, <1>4, <1>5, <1>6, <1>7

\* The voter's key is asked for bundles that are not on chain.
LEMMA SigningOwed ==
  ASSUME RoundInv, DelegationInv, NEW b \in SigningBundles
  PROVE  b \notin imported /\ deleg[b] # "confirmed"
<1> DEFINE riding == {p \in Proposals : vote[b][p].combined /\ vote[b][p].row \in Live}
<1>1. b \in Bundles /\ b \notin imported
  BY DEF SigningBundles, BundleRows
<1>2. SignedOk(vote[b], intent)
  BY <1>1, BundleFacts
<1>3. CASE Drafts(b) # {} /\ DelegationPhase(b) # "confirmed"
  <2>1. ~Held(b)
    BY <1>3 DEF Drafts, Due
  <2>2. ASSUME NEW p \in riding PROVE FALSE
    <3>1. LifecycleOwned(b, p) /\ vote[b][p].unit # {} /\ intent[p] = vote[b][p].choice
      BY <1>2, <2>2 DEF SignedOk, LifecycleOwned, Live
    <3>2. vote[b][p].choice \in Options
      BY <1>2, <2>2, <3>1 DEF SignedOk
    <3>3. HasRow(b, p) /\ ~Stale(b, p)
      BY <3>1, <3>2, RoundAssumption DEF HasRow, Stale
    <3>4. VotePhase(b, p) \in {"managed", "hashless"}
      BY <2>2, <3>1 DEF VotePhase, Live
    <3>5. ~Retirable(b, p)
      BY <3>4 DEF Retirable
    <3> QED
      BY <2>1, <2>2, <3>3, <3>4, <3>5 DEF Held
  <2>3. riding = {}
    BY <2>2
  <2>4. DelegationPhase(b) = deleg[b]
    BY <2>3 DEF DelegationPhase
  <2> QED
    BY <1>1, <1>3, <2>4
<1>4. CASE ~Combined(b) /\ DelegationPhase(b) \in {"submitted", "managed"}
  BY <1>1, <1>4, AdvancesOwn
<1> QED
  BY <1>3, <1>4 DEF SigningBundles

\* A plan tells the truth when it is read.
LEMMA PlansTell ==
  ASSUME RoundInv, DelegationInv, NEW plan,
         plan = [steps |-> NextSteps, tracked |-> {s \in Range(NextSteps) : Tracked(s)},
                 signing |-> SigningBundles, quiet |-> QuietReason]
  PROVE  PlanTells(plan)
<1>1. /\ plan.steps = NextSteps /\ plan.tracked = {s \in Range(NextSteps) : Tracked(s)}
      /\ plan.signing = SigningBundles /\ plan.quiet = QuietReason
  OBVIOUS
<1>2. ASSUME Handed(plan), NEW s \in PlannedSteps PROVE Tracked(s)
  BY <1>1, <1>2, NothingLeftOut DEF Handed
<1>3. ASSUME Handed(plan) PROVE SaysTrue(QuietReason, {})
  <2>1. CASE BlockingRecovery
    <3>1. QuietReason = "PersistedChainTerminal"
      BY <2>1 DEF QuietReason
    <3> QED
      BY <1>2, <1>3, <2>1, <3>1, ChainIsTerminal DEF SaysTrue
  <2>2. CASE ~BlockingRecovery /\ NeedsBundleSetup
    <3>1. QuietReason = "NeedsBundleSetup"
      BY <2>2 DEF QuietReason
    <3> QED
      BY <3>1 DEF SaysTrue
  <2>3. CASE ~BlockingRecovery /\ ~NeedsBundleSetup /\ ~RosterIsTerminal
    <3>1. QuietReason = "NeedsBallot"
      BY <2>3 DEF QuietReason
    <3>2. ~OnTheWire /\ ~Undelivered
      BY <2>3, NothingBlocks
    <3>3. \E p \in Proposals : (p \in roster) = (intent[p] = "open")
      BY <2>3, BallotOpen
    <3> QED
      BY <3>1, <3>2, <3>3 DEF SaysTrue
  <2>4. CASE ~BlockingRecovery /\ ~NeedsBundleSetup /\ RosterIsTerminal
    <3>1. QuietReason = IF NextSteps # <<>> THEN "BackgroundShareWorkOnly" ELSE "NoWorkLeft"
      BY <2>4 DEF QuietReason
    <3>2. ~OnTheWire /\ ~Undelivered /\ AllVoted
      BY <2>4, NothingBlocks, NothingLeftIsVoted
    <3>3. CASE NextSteps # <<>>
      <4>1. QuietReason = "BackgroundShareWorkOnly"
        BY <3>1, <3>3
      <4> QED
        BY <3>2, <4>1 DEF SaysTrue
    <3>4. CASE NextSteps = <<>>
      <4>1. QuietReason = "NoWorkLeft"
        BY <3>1, <3>4
      <4>2. \A b \in Bundles, p \in Proposals : vote[b][p].row = "confirmed" => shares[b][p] = "confirmed"
        BY <3>4, NoSteps
      <4> QED
        BY <3>2, <4>1, <4>2 DEF SaysTrue
    <3> QED
      BY <3>3, <3>4
  <2> QED
    BY <2>1, <2>2, <2>3, <2>4
<1>4. \A b \in SigningBundles : b \notin imported /\ deleg[b] # "confirmed"
  BY SigningOwed
<1> QED
  BY <1>1, <1>3, <1>4 DEF PlanTells

\* What was so stays so while nothing is written.
LEMMA SameTruth ==
  ASSUME NEW q, NEW owed, SaysTrue(q, owed), UNCHANGED storeVars
  PROVE  SaysTrue(q, owed)'
<1>1. /\ intent' = intent /\ roster' = roster /\ imported' = imported /\ deleg' = deleg
      /\ vote' = vote /\ shares' = shares /\ streak' = streak
  BY DEF storeVars
<1>2. AllVoted' = AllVoted /\ OnTheWire' = OnTheWire /\ Undelivered' = Undelivered
  BY <1>1 DEF AllVoted, OnTheWire, Undelivered, BundleRows, Settled
<1> QED
  BY <1>1, <1>2 DEF SaysTrue

LEMMA SamePlan ==
  ASSUME NEW plan, PlanTells(plan), UNCHANGED storeVars
  PROVE  PlanTells(plan)'
<1>1. PICK q : q = plan.quiet
  OBVIOUS
<1>2. PICK none : none = {}
  OBVIOUS
<1>3. imported' = imported /\ deleg' = deleg
  BY DEF storeVars
<1>4. ASSUME Handed(plan) PROVE SaysTrue(q, none)'
  BY <1>1, <1>2, <1>4, SameTruth DEF PlanTells
<1> QED
  BY <1>1, <1>2, <1>3, <1>4 DEF PlanTells, Handed

\* Steps of the jobs, the provers and everyone else who is not the run.
LEMMA RunStands ==
  ASSUME ReportInv, UNCHANGED <<run, left>>, calm' => calm /\ UNCHANGED storeVars
  PROVE  ReportInv'
<1>1. PICK plan : plan = run.plan
  OBVIOUS
<1>2. PICK q : q = run.quiescence
  OBVIOUS
<1>3. PICK owed : owed = run.owed
  OBVIOUS
<1>4. ASSUME run.pc \in {"decide", "contexts"}, calm' PROVE PlanTells(plan)'
  BY <1>1, <1>4, SamePlan DEF ReportInv
<1>5. ASSUME run.pc = "idle", calm' PROVE SaysTrue(q, owed)'
  BY <1>2, <1>3, <1>5, SameTruth DEF ReportInv
<1> QED
  BY <1>1, <1>2, <1>3, <1>4, <1>5 DEF ReportInv

LEMMA FinishFacts ==
  ASSUME NEW q, NEW owed, Finish(q, owed)
  PROVE  /\ run'.pc = "idle" /\ run'.skipped = {} /\ run'.owed = owed
         /\ run'.quiescence = IF left THEN "Cancelled" ELSE q
<1>1. PICK z : z = IF left THEN "Cancelled" ELSE q
  OBVIOUS
<1>2. run' = [NoRun EXCEPT !.quiescence = z, !.owed = owed]
  BY <1>1 DEF Finish
<1>3. run'.pc = "idle" /\ run'.skipped = {} /\ run'.owed = owed /\ run'.quiescence = z
  BY <1>2 DEF NoRun
<1> QED
  BY <1>1, <1>3

\* A run that stops with a reason that is true.
LEMMA FinishTells ==
  ASSUME NEW q, NEW owed, Finish(q, owed), ~left /\ calm => SaysTrue(q, owed),
         UNCHANGED <<left, calm, storeVars>>
  PROVE  ReportInv'
<1>1. /\ run'.pc = "idle" /\ run'.skipped = {} /\ run'.owed = owed
      /\ run'.quiescence = IF left THEN "Cancelled" ELSE q
  BY FinishFacts
<1>2. CASE left
  <2>1. SaysTrue("Cancelled", owed)'
    BY DEF SaysTrue
  <2> QED
    BY <1>1, <1>2, <2>1 DEF ReportInv
<1>3. CASE ~left
  <2>1. calm' => SaysTrue(q, owed)'
    BY <1>3, SameTruth
  <2> QED
    BY <1>1, <1>3, <2>1 DEF ReportInv
<1> QED
  BY <1>2, <1>3

LEMMA SaysNothing ==
  ASSUME NEW q \in {"none", "Cancelled", "ChainTerminal", "ChainRecoveryStalled", "Failures",
                    "PassBudgetExhausted"}, NEW owed
  PROVE  SaysTrue(q, owed)
BY DEF SaysTrue

\* A run that goes on is on no report, and has counted the failures it skips.
LEMMA GoesOn ==
  ASSUME run'.pc \notin {"decide", "contexts", "refresh", "idle"}, run'.skipped # {} => run'.failed
  PROVE  ReportInv'
BY DEF ReportInv

LEMMA StartRunReports ==
  ASSUME StartRun
  PROVE  ReportInv'
<1>1. run'.pc = "loop" /\ run'.skipped = {}
  BY DEF StartRun, NoRun
<1> QED
  BY <1>1, GoesOn

LEMMA ReadPlanReports ==
  ASSUME RoundInv, DelegationInv, ReportInv, ReadPlan
  PROVE  ReportInv'
<1>1. RunShape(run)
  BY DEF RoundInv
<1>2. CASE Finish("Cancelled", {}) /\ UNCHANGED calm
  BY <1>2, FinishTells, SaysNothing DEF ReadPlan, StoreKept
<1>3. CASE run' = [run EXCEPT !.pc = "unreadable"]
  <2>1. run'.pc = "unreadable" /\ run'.skipped = run.skipped /\ run'.failed = run.failed
    BY <1>1, <1>3 DEF RunShape
  <2> QED
    BY <2>1, GoesOn DEF ReportInv
<1>4. CASE ~left /\ run' = [run EXCEPT !.pc = "decide", !.plan =
                [steps |-> NextSteps, tracked |-> {s \in Range(NextSteps) : Tracked(s)},
                 signing |-> SigningBundles, quiet |-> QuietReason]]
  <2>1. PICK plan : plan = [steps |-> NextSteps, tracked |-> {s \in Range(NextSteps) : Tracked(s)},
                            signing |-> SigningBundles, quiet |-> QuietReason]
    OBVIOUS
  <2>2. PlanTells(plan)
    BY <2>1, PlansTell
  <2>3. PlanTells(plan)'
    BY <2>2, SamePlan DEF ReadPlan, StoreKept
  <2>4. run' = [run EXCEPT !.pc = "decide", !.plan = plan]
    BY <1>4, <2>1
  <2>5. /\ run'.pc = "decide" /\ run'.plan = plan
        /\ run'.skipped = run.skipped /\ run'.failed = run.failed
    BY <1>1, <2>4 DEF RunShape
  <2> QED
    BY <2>3, <2>5 DEF ReportInv
<1> QED
  BY <1>2, <1>3, <1>4 DEF ReadPlan

LEMMA PlanUnreadableReports ==
  ASSUME PlanUnreadable
  PROVE  ReportInv'
BY FinishTells, SaysNothing DEF PlanUnreadable, StoreKept

LEMMA RefreshReports ==
  ASSUME ReportInv, Refresh
  PROVE  ReportInv'
<1>1. PICK q : q = run.quiescence
  OBVIOUS
<1>2. q \in {"none", "Cancelled", "ChainTerminal", "ChainRecoveryStalled", "Failures"}
  BY <1>1 DEF ReportInv, Refresh
<1>3. SaysTrue(q, {})
  BY <1>2, SaysNothing
<1> QED
  BY <1>1, <1>3, FinishTells DEF Refresh, StoreKept

LEMMA SleepReports ==
  ASSUME RoundInv, ReportInv, Sleep
  PROVE  ReportInv'
<1>1. RunShape(run)
  BY DEF RoundInv
<1>2. CASE left
  BY <1>2, FinishTells DEF Sleep, StoreKept
<1>3. CASE ~left
  <2>1. PICK a, r : run' = [run EXCEPT !.pc = "loop", !.await = a, !.repoll = r]
    BY <1>3 DEF Sleep
  <2>2. run'.pc = "loop" /\ run'.skipped = run.skipped /\ run'.failed = run.failed
    BY <1>1, <2>1 DEF RunShape
  <2> QED
    BY <2>2, GoesOn DEF ReportInv
<1> QED
  BY <1>2, <1>3

\* A run stops where nothing is left for it to dispatch: the failures it skipped name the
\* reason, and without any the plan does.
LEMMA DecideReports ==
  ASSUME RoundInv, ReportInv, Decide
  PROVE  ReportInv'
<1>1. RunShape(run) /\ run.pc = "decide"
  BY DEF RoundInv, Decide
<1> DEFINE handoff == \A s \in Range(run.plan.steps) : s.b \in run.skipped \/ s \in run.plan.tracked
           spent == run.dispatches >= MaxDispatches
           why == CASE handoff -> IF run.failed THEN "Failures" ELSE run.plan.quiet
                    [] ~handoff /\ spent -> "PassBudgetExhausted"
                    [] OTHER -> "Failures"
<1>2. \/ Finish(why, {})
      \/ \E y, z : run' = [run EXCEPT !.pc = "contexts", !.wave = y, !.await = z]
  BY DEF Decide, FinishBeforeDispatch
<1>3. CASE Finish(why, {})
  <2>1. PICK q : q = why
    OBVIOUS
  <2>2. ASSUME calm PROVE SaysTrue(q, {})
    <3>1. CASE handoff /\ run.failed
      <4>1. q = "Failures"
        BY <2>1, <3>1
      <4> QED
        BY <4>1, SaysNothing
    <3>2. CASE handoff /\ ~run.failed
      <4>1. run.skipped = {}
        BY <3>2 DEF ReportInv
      <4>2. Handed(run.plan)
        BY <3>2, <4>1 DEF Handed
      <4>3. q = run.plan.quiet
        BY <2>1, <3>2
      <4> QED
        BY <1>1, <2>2, <4>2, <4>3 DEF ReportInv, PlanTells
    <3>3. CASE ~handoff /\ spent
      <4>1. q = "PassBudgetExhausted"
        BY <2>1, <3>3
      <4> QED
        BY <4>1, SaysNothing
    <3>4. CASE ~handoff /\ ~spent
      <4>1. q = "Failures"
        BY <2>1, <3>4
      <4> QED
        BY <4>1, SaysNothing
    <3> QED
      BY <3>1, <3>2, <3>3, <3>4
  <2>3. Finish(q, {})
    BY <1>3, <2>1
  <2>4. UNCHANGED <<left, calm, storeVars>>
    BY DEF Decide, StoreKept
  <2> QED
    BY <2>2, <2>3, <2>4, FinishTells
<1>4. CASE \E y, z : run' = [run EXCEPT !.pc = "contexts", !.wave = y, !.await = z]
  <2>1. PICK y, z : run' = [run EXCEPT !.pc = "contexts", !.wave = y, !.await = z]
    BY <1>4
  <2>2. /\ run'.pc = "contexts" /\ run'.skipped = run.skipped /\ run'.failed = run.failed
        /\ run'.plan = run.plan
    BY <1>1, <2>1 DEF RunShape
  <2>3. PICK plan : plan = run.plan
    OBVIOUS
  <2>4. calm' => PlanTells(plan)'
    BY <1>1, <2>3, SamePlan DEF ReportInv, Decide, StoreKept
  <2> QED
    BY <2>2, <2>3, <2>4 DEF ReportInv
<1> QED
  BY <1>2, <1>3, <1>4

\* The bundles a missing signer is reported for are the plan's.
LEMMA DispatchReports ==
  ASSUME RoundInv, ReportInv, Dispatch
  PROVE  ReportInv'
<1>1. RunShape(run) /\ run.pc = "contexts"
  BY DEF RoundInv, Dispatch
<1>2. UNCHANGED <<left, calm, storeVars>>
  BY DEF Dispatch, StoreKept
<1>3. CASE Finish("Failures", {})
  BY <1>2, <1>3, FinishTells, SaysNothing
<1>4. ASSUME NEW stored, left \/ MissingSigners(stored) # {},
             Finish("NeedsDelegationSignatures", MissingSigners(stored))
      PROVE  ReportInv'
  <2>1. PICK owed : owed = MissingSigners(stored)
    OBVIOUS
  <2>2. owed \subseteq run.plan.signing
    <3> DEFINE mine == run.plan.signing \ run.skipped
               admitted == {b \in mine : \E s \in Range(run.wave) :
                       s.b = b /\ s.kind \in {"Delegate", "CastVote", "AdvanceDelegation"}}
    <3>1. owed = CASE admitted = {} \/ host.signer = "self" -> {}
                   [] admitted # {} /\ host.signer = "absent" -> admitted
                   [] OTHER -> mine \ stored
      BY <2>1 DEF MissingSigners
    <3>2. admitted \subseteq run.plan.signing /\ mine \ stored \subseteq run.plan.signing
      OBVIOUS
    <3> HIDE DEF admitted, mine
    <3>3. CASE admitted = {} \/ host.signer = "self"
      <4>1. owed = {} \/ owed = admitted
        BY <3>1, <3>3
      <4> QED
        BY <3>2, <4>1
    <3>4. CASE admitted # {} /\ host.signer # "self" /\ host.signer = "absent"
      BY <3>1, <3>2, <3>4
    <3>5. CASE admitted # {} /\ host.signer # "self" /\ host.signer # "absent"
      BY <3>1, <3>2, <3>5
    <3> QED
      BY <3>3, <3>4, <3>5
  <2>3. ASSUME ~left, calm PROVE SaysTrue("NeedsDelegationSignatures", owed)
    BY <1>1, <1>4, <2>1, <2>2, <2>3 DEF ReportInv, PlanTells, SaysTrue
  <2> QED
    BY <1>2, <1>4, <2>1, <2>3, FinishTells
<1>5. CASE \E d, t, w : run' = [run EXCEPT !.pc = "wave", !.dispatches = d, !.plan = NoPlan,
                                           !.tried = t, !.twice = w]
  <2>1. PICK d, t, w : run' = [run EXCEPT !.pc = "wave", !.dispatches = d, !.plan = NoPlan,
                                          !.tried = t, !.twice = w]
    BY <1>5
  <2>2. run'.pc = "wave" /\ run'.skipped = run.skipped /\ run'.failed = run.failed
    BY <1>1, <2>1 DEF RunShape
  <2> QED
    BY <2>2, GoesOn DEF ReportInv
<1> QED
  BY <1>3, <1>4, <1>5 DEF Dispatch

LEMMA EndsFacts ==
  ASSUME NEW how
  PROVE  Ends(how) \in {"none", "Cancelled", "ChainTerminal", "ChainRecoveryStalled", "Failures"}
<1>1. CASE how = "Cancelled"
  BY <1>1 DEF Ends
<1>2. CASE how = "ChainTerminal"
  BY <1>2 DEF Ends
<1>3. CASE how = "Stalled"
  BY <1>3 DEF Ends
<1>4. CASE how = "Failed" /\ host.isolation = "StopRound"
  BY <1>4 DEF Ends
<1>5. CASE how \notin {"Cancelled", "ChainTerminal", "Stalled"} /\ ~(how = "Failed" /\ host.isolation = "StopRound")
  BY <1>5 DEF Ends
<1> QED
  BY <1>1, <1>2, <1>3, <1>4, <1>5

\* A bundle is skipped for a failure only, and no result ends a run with a claim on the plan.
LEMMA FoldReports ==
  ASSUME RoundInv, ReportInv, Fold
  PROVE  ReportInv'
<1>1. RunShape(run) /\ UNCHANGED <<left, calm, storeVars>>
  BY DEF RoundInv, Fold, StoreKept
<1>2. CASE left
  BY <1>1, <1>2, FinishTells DEF Fold
<1>3. CASE ~left
  <2> DEFINE failing == {s.b : s \in {w \in Range(run.wave) : job[w.b].how = "Failed"}}
             ending  == SelectSeq(run.wave, LAMBDA s : Ends(job[s.b].how) # "none")
             spent   == run.dispatches >= MaxDispatches
             repolls == SelectSeq(run.wave, LAMBDA s : job[s.b].how = "Pending")
             pc == CASE ending # <<>> -> "refresh"
                     [] ending = <<>> /\ ~spent /\ repolls # <<>> -> "sleep"
                     [] OTHER -> "loop"
  <2>1. run' = [run EXCEPT
                  !.skipped = IF host.isolation = "SkipBundle" THEN @ \cup failing ELSE @,
                  !.failed = @ \/ failing # {},
                  !.repoll = IF ending # <<>> \/ spent THEN <<>> ELSE repolls,
                  !.wave = <<>>,
                  !.quiescence = IF ending = <<>> THEN "none" ELSE Ends(job[ending[1].b].how),
                  !.pc = pc]
    BY <1>3 DEF Fold
  <2>2. pc \in {"refresh", "sleep", "loop"}
    <3>1. CASE ending # <<>>
      BY <3>1
    <3>2. CASE ending = <<>> /\ ~spent /\ repolls # <<>>
      BY <3>2
    <3>3. CASE ~(ending # <<>>) /\ ~(ending = <<>> /\ ~spent /\ repolls # <<>>)
      BY <3>3
    <3> QED
      BY <3>1, <3>2, <3>3
  <2> HIDE DEF failing, ending, spent, repolls, pc
  <2>3. PICK s : s = IF host.isolation = "SkipBundle" THEN run.skipped \cup failing ELSE run.skipped
    OBVIOUS
  <2>4. PICK f : f = (run.failed \/ failing # {})
    OBVIOUS
  <2>5. PICK r : r = IF ending # <<>> \/ spent THEN <<>> ELSE repolls
    OBVIOUS
  <2>6. PICK q : q = IF ending = <<>> THEN "none" ELSE Ends(job[ending[1].b].how)
    OBVIOUS
  <2>7. run' = [run EXCEPT !.skipped = s, !.failed = f, !.repoll = r,
                           !.wave = <<>>, !.quiescence = q, !.pc = pc]
    BY <2>1, <2>3, <2>4, <2>5, <2>6
  <2>8. run'.skipped = s /\ run'.failed = f /\ run'.quiescence = q /\ run'.pc = pc
    BY <1>1, <2>7, ZenonT(60) DEF RunShape
  <2>9. s # {} => f
    <3>1. s # {} => run.skipped # {} \/ failing # {}
      BY <2>3
    <3>2. s # {} => (run.failed \/ failing # {})
      BY <3>1 DEF ReportInv
    <3> QED
      BY <2>4, <3>2
  <2>10. q \in {"none", "Cancelled", "ChainTerminal", "ChainRecoveryStalled", "Failures"}
    BY <2>6, EndsFacts
  <2> QED
    BY <2>2, <2>8, <2>9, <2>10 DEF ReportInv
<1> QED
  BY <1>2, <1>3

\* A report that was made is withdrawn with the edit, and a run that is under way has read
\* what is no longer so.
LEMMA StaleReports ==
  ASSUME ReportInv, StaleReport, UNCHANGED left, Observed
  PROVE  ReportInv'
<1>1. calm' => calm /\ UNCHANGED storeVars
  BY DEF Observed
<1>2. CASE run.pc = "idle"
  <2>1. run' = NoRun
    BY <1>2 DEF StaleReport
  <2>2. run'.pc = "idle" /\ run'.skipped = {} /\ run'.quiescence = "none"
    BY <2>1 DEF NoRun
  <2> QED
    BY <2>2 DEF ReportInv, SaysTrue
<1>3. CASE run.pc # "idle"
  BY <1>1, <1>3, RunStands DEF StaleReport
<1> QED
  BY <1>2, <1>3

\* The tracker withdraws a report that was made; of a run under way it changes at most which
\* shares were tried, and what the run has read is no longer so.
LEMMA TrackerReports ==
  ASSUME RoundInv, ReportInv, TrackerPass
  PROVE  ReportInv'
<1>1. left' = left /\ (calm' => calm /\ UNCHANGED storeVars)
  BY DEF TrackerPass, Observed
<1>2. PICK b \in Bundles, p \in Proposals, x \in {"unreached", "trying", "tracked", "confirmed"} :
        run' = CASE run.pc = "idle" -> NoRun
                 [] run.pc # "idle" /\ x = "unreached" -> [run EXCEPT !.tried = @ \ {<<b, p>>}]
                 [] OTHER -> run
  BY DEF TrackerPass
<1>3. CASE run.pc = "idle"
  <2>1. run' = NoRun
    BY <1>2, <1>3
  <2>2. run'.pc = "idle" /\ run'.skipped = {} /\ run'.quiescence = "none"
    BY <2>1 DEF NoRun
  <2> QED
    BY <2>2 DEF ReportInv, SaysTrue
<1>4. CASE run.pc # "idle" /\ x = "unreached"
  <2>1. PICK z : z = run.tried \ {<<b, p>>}
    OBVIOUS
  <2>2. run' = [run EXCEPT !.tried = z]
    BY <1>2, <1>4, <2>1
  <2>3. RunShape(run)
    BY DEF RoundInv
  <2>4. /\ run'.pc = run.pc /\ run'.plan = run.plan /\ run'.skipped = run.skipped
        /\ run'.failed = run.failed /\ run'.quiescence = run.quiescence
    BY <2>2, <2>3, ZenonT(60) DEF RunShape
  <2>5. PICK plan : plan = run.plan
    OBVIOUS
  <2>6. ASSUME run.pc \in {"decide", "contexts"}, calm' PROVE PlanTells(plan)'
    BY <1>1, <2>5, <2>6, SamePlan DEF ReportInv
  <2> QED
    BY <1>4, <2>4, <2>5, <2>6 DEF ReportInv
<1>5. CASE run.pc # "idle" /\ x # "unreached"
  <2>1. run' = run
    BY <1>2, <1>5
  <2> QED
    BY <1>1, <2>1, RunStands
<1> QED
  BY <1>3, <1>4, <1>5

LEMMA OthersReport ==
  ASSUME ReportInv, NEW b \in Bundles, JobStep(b) \/ ProverStep(b)
  PROVE  ReportInv'
<1>1. UNCHANGED <<run, left>>
  BY ZenonT(60) DEF JobStep, ProverStep, AcquireLock, StartDelegate, AdvanceDelegation, StartCast,
     StartReconcile, PlanShares, Reserve, Episode, StartDelivery, Deliver, ProveDelegation,
     ProverFails, PrepareVotes, PersistVotes
<1>2. Observed \/ (UNCHANGED calm /\ StoreKept)
  BY ZenonT(60) DEF JobStep, ProverStep, AcquireLock, StartDelegate, AdvanceDelegation, StartCast,
     StartReconcile, PlanShares, Reserve, Episode, StartDelivery, Deliver, ProveDelegation,
     ProverFails, PrepareVotes, PersistVotes
<1>3. calm' => calm /\ UNCHANGED storeVars
  BY <1>2 DEF Observed, StoreKept
<1> QED
  BY <1>1, <1>3, RunStands

LEMMA ReportsStart == RoundsInit => ReportInv
<1> SUFFICES ASSUME RoundsInit PROVE ReportInv
  OBVIOUS
<1>1. run = NoRun
  BY DEF RoundsInit, RoundInit
<1>2. run.pc = "idle" /\ run.skipped = {} /\ run.quiescence = "none"
  BY <1>1 DEF NoRun
<1> QED
  BY <1>2 DEF ReportInv, SaysTrue

LEMMA ReportSteps ==
  RoundInv /\ DelegationInv /\ ReportInv /\ [RoundNext]_<<storeVars, driveVars>> => ReportInv'
<1> SUFFICES ASSUME RoundInv, DelegationInv, ReportInv, [RoundNext]_<<storeVars, driveVars>>
             PROVE  ReportInv'
  OBVIOUS
<1>1. CASE StartRun
  BY <1>1, StartRunReports
<1>2. CASE DriverStep
  BY <1>2, ReadPlanReports, PlanUnreadableReports, DecideReports, DispatchReports, FoldReports,
     RefreshReports, SleepReports DEF DriverStep
<1>3. CASE \E b \in Bundles : JobStep(b) \/ ProverStep(b)
  BY <1>3, OthersReport
<1>4. CASE HostEdits \/ TrackerPass
  BY <1>4, StaleReports, TrackerReports DEF HostEdits
<1>5. CASE Leave
  <2>1. run' = run /\ run.pc # "idle" /\ calm' = calm /\ storeVars' = storeVars
    BY <1>5 DEF Leave, StoreKept
  <2>2. PICK plan : plan = run.plan
    OBVIOUS
  <2>3. run.pc \in {"decide", "contexts"} /\ calm => PlanTells(plan)'
    BY <2>1, <2>2, SamePlan DEF ReportInv
  <2> QED
    BY <2>1, <2>2, <2>3 DEF ReportInv
<1>6. CASE DropRun
  <2>1. run'.pc = "idle" /\ run'.skipped = {} /\ run'.quiescence = "none"
    BY <1>6 DEF DropRun, NoRun
  <2> QED
    BY <2>1 DEF ReportInv, SaysTrue
<1>7. CASE UNCHANGED <<storeVars, driveVars>>
  BY <1>7, RunStands DEF driveVars
<1> QED
  BY <1>1, <1>2, <1>3, <1>4, <1>5, <1>6, <1>7 DEF RoundNext

\* A run the host has left describes nothing, and a run whose answer still stands (nothing
\* was written since it read its plan) describes the round: done means voted and delivered,
\* a ballot is asked for only where one is open, a chain is called terminal only where
\* nothing is on the wire, and signatures are asked for bundles that need them.
THEOREM RunsReportTruly == RoundsSpec => []ReportIsTrue
<1>1. ReportInv => ReportIsTrue
  <2> SUFFICES ASSUME ReportInv, run.pc = "idle" PROVE ReportIsTrue
    BY DEF ReportIsTrue
  <2>1. PICK q : q = run.quiescence
    OBVIOUS
  <2>2. q \notin {"none", "Cancelled"} => ~left
    BY <2>1 DEF ReportInv
  <2>3. calm => SaysTrue(q, run.owed)
    BY <2>1 DEF ReportInv
  <2>4. CASE q = "NoWorkLeft"
    BY <2>1, <2>2, <2>3, <2>4 DEF ReportIsTrue, SaysTrue
  <2>5. CASE q = "BackgroundShareWorkOnly"
    BY <2>1, <2>2, <2>3, <2>5 DEF ReportIsTrue, SaysTrue
  <2>6. CASE q = "NeedsBallot"
    BY <2>1, <2>2, <2>3, <2>6 DEF ReportIsTrue, SaysTrue
  <2>7. CASE q = "PersistedChainTerminal"
    BY <2>1, <2>2, <2>3, <2>7 DEF ReportIsTrue, SaysTrue
  <2>8. CASE q = "NeedsDelegationSignatures"
    BY <2>1, <2>2, <2>3, <2>8 DEF ReportIsTrue, SaysTrue
  <2>9. CASE q \notin {"NoWorkLeft", "BackgroundShareWorkOnly", "NeedsBallot",
                       "PersistedChainTerminal", "NeedsDelegationSignatures"}
    BY <2>1, <2>2, <2>9 DEF ReportIsTrue
  <2> QED
    BY <2>4, <2>5, <2>6, <2>7, <2>8, <2>9
<1> QED
  BY <1>1, RoundStarts, RoundSteps, DelegationsStart, DelegationSteps, ReportsStart, ReportSteps,
     PTL DEF RoundsSpec

=============================================================================
