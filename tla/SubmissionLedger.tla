-------------------------- MODULE SubmissionLedger --------------------------
(***************************************************************************)
(* What the chain-submission lifecycle promises, told by the database and  *)
(* the chain alone: which rows, signed material and VAN positions may      *)
(* follow one another, whatever passes, replies, interruptions and crashes *)
(* bring them about.  ChainSubmission extends this module with the passes  *)
(* and the network and implements LedgerSpec.                              *)
(*                                                                         *)
(* One generation (member of Gen) is one semantic transaction: a submission*)
(* identity with its generation digest.  Every store call is one atomic    *)
(* transaction.  The vote chain is external.                               *)
(***************************************************************************)
EXTENDS SubmissionState

CONSTANTS
  Gen,              \* semantic generations
  Kind,             \* Gen -> Kinds
  Bundle,           \* Gen -> the delegation bundle it belongs to
  Proposal,         \* Gen -> the proposal a singleton vote is on
  HashOf,           \* Hash -> the generation whose bytes hash to it
  Misreports        \* <<g, h>>: replies that name another generation's hash

Kinds == {"delegation", "imported", "vote", "batch", "combined"}

Bundles == {Bundle[g] : g \in Gen}

HashesOf(g) == {h \in Hash : HashOf[h] = g}

Delegates(g) == Kind[g] \in {"delegation", "imported", "combined"}

CastsVotes(g) == Kind[g] \in {"vote", "batch", "combined"}

SameBundle(g1, g2) == Bundle[g1] = Bundle[g2]

\* Two generations of one singleton vote: they share the submission identity,
\* hence the row.
SameVote(g1, g2) ==
  /\ Kind[g1] = "vote" /\ Kind[g2] = "vote"
  /\ SameBundle(g1, g2) /\ Proposal[g1] = Proposal[g2]

\* Two generations whose committed events cannot be told apart: a batch event
\* names its digest, a singleton's event only its type and round.
SameEvents(g1, g2) ==
  \/ g1 = g2
  \/ Kind[g1] = "vote" /\ Kind[g2] = "vote"
  \/ {Kind[g1], Kind[g2]} \subseteq {"delegation", "imported"}

ASSUME LedgerAssumption ==
  /\ Kind \in [Gen -> Kinds]
  /\ DOMAIN Bundle = Gen /\ DOMAIN Proposal = Gen
  /\ HashOf \in [Hash -> Gen]

\* A combined envelope and an imported delegation have one hash
\* (coordinator.rs:763-767), and an imported delegation's bundle is set up by
\* the import alone: it shares its identity with the bundle's own delegation.
ASSUME GenerationAssumption ==
  /\ \A h1, h2 \in Hash :
       HashOf[h1] = HashOf[h2] /\ Kind[HashOf[h1]] \in {"combined", "imported"}
         => h1 = h2
  /\ \A g \in Gen : Kind[g] = "imported" => HashesOf(g) # {}
  /\ \A g1, g2 \in Gen :
       Kind[g1] = "imported" /\ Delegates(g2) /\ SameBundle(g1, g2)
         => g1 = g2

\* Endpoints are trusted not to forge matching events.  A batch reply must
\* echo the batch digest, so only singletons can be misreported.
ASSUME EndpointAssumption ==
  \A m \in Misreports :
    /\ m \in Gen \X Hash
    /\ Kind[m[1]] \in {"delegation", "vote"}
    /\ ~ SameEvents(m[1], HashOf[m[2]])

VARIABLES
  row,        \* Gen -> Row: chain_submissions
  material,   \* Gen -> signed recovery, authorization or delegation setup
  spends,     \* Gen -> leaf position of the VAN a signed vote spends
  van,        \* Bundles -> bundles.van_leaf_position (0: NULL)
  committed,  \* Hash -> "no", "ok" or "failed": inclusion in a block
  leaf,       \* Gen -> leaf position of its final VAN (0: not on chain)
  size        \* number of leaves given out

ledger == <<row, material, spends, van, committed, leaf, size>>

\* Two generations compete for one nullifier: those that spend the bundle's
\* notes, and the votes that spend the same VAN.
SameNullifier(g1, g2) ==
  \/ g1 = g2
  \/ Delegates(g1) /\ Delegates(g2) /\ SameBundle(g1, g2)
  \/ ~ Delegates(g1) /\ ~ Delegates(g2) /\ spends[g1] # 0
       /\ spends[g1] = spends[g2]

Landed(g) == leaf[g] # 0

Spent(g) == \E g2 \in Gen : Landed(g2) /\ SameNullifier(g2, g)

-----------------------------------------------------------------------------
(* Admission.                                                              *)

\* Derivation needs the signed material of exactly this generation.
Derivable(g) == material[g] = "signed"

Unresolved == {"Submitting", "Tracking", "Recovering", "SubmittedWithoutHash"}

\* Faulty variant: the check looks at the candidate of the same bundle only.
OwnedInBundle(g, h) ==
  \E g2 \in Gen \ {g} : SameBundle(g, g2) /\ row[g2].cand = h

\* The candidate column also holds the hash of a hash-confirmed row.
OwnedElsewhere(g, h) == \E g2 \in Gen \ {g} : row[g2].cand = h

BundlePeers(g) == {g2 \in Gen : SameBundle(g, g2)}

\* The row of g's identity is another generation's: the vote was signed again.
HeldByAnother(g) ==
  \E g2 \in Gen \ {g} : SameVote(g, g2) /\ row[g2].st # "None"

\* A signed combined batch of the bundle (delegate_cast_recovery).
SignedCombined(g) ==
  \E g2 \in BundlePeers(g) : Kind[g2] = "combined" /\ material[g2] = "signed"

\* Faulty variant: admission looks at nothing but the signed material.
RefusedIfUnderivable(g) == ~ Derivable(g)

\* admit's refusals for a generation with no row, in the order of the code:
\* a combined batch needs a bundle with no submission evidence; a delegation
\* yields to a signed combined batch; another unresolved row of the bundle
\* blocks everything; a confirmed vote supersedes the delegation; a hash an
\* imported delegation needs is owned by another row; derivation fails.
Refused(g) ==
  \/ /\ Kind[g] = "combined"
     /\ van[Bundle[g]] # 0 \/ \E g2 \in BundlePeers(g) : row[g2].st # "None"
  \/ Kind[g] \in {"delegation", "imported"} /\ SignedCombined(g)
  \/ \E g2 \in BundlePeers(g) : row[g2].st \in Unresolved
  \/ /\ Kind[g] \in {"delegation", "imported"}
     /\ \E g2 \in BundlePeers(g) : CastsVotes(g2) /\ row[g2].st = "Confirmed"
  \/ Kind[g] = "imported" /\ \E h \in HashesOf(g) : OwnedElsewhere(g, h)
  \/ ~ Derivable(g)

\* StoredChainSubmission::fresh with its reservation ordinal.
Fresh(ordinal) == [Absent EXCEPT !.st = "Submitting", !.res = ordinal]

ImportedHash(g) == CHOOSE h \in Hash : HashOf[h] = g

Adopted(g) == [Absent EXCEPT !.st = "Tracking", !.cand = ImportedHash(g)]

\* No row but g's changes, and neither the chain nor what votes spend.
Writes(g) ==
  /\ row' \in [Gen -> Row]
  /\ \A g2 \in Gen \ {g} : row'[g2] = row[g2]
  /\ UNCHANGED <<spends, committed, leaf, size>>

AdmitRow(g) ==
  /\ row[g] = Absent /\ ~ HeldByAnother(g) /\ ~ Refused(g)
  /\ row'[g] = IF Kind[g] = "imported" THEN Adopted(g)
               ELSE Fresh(row'[g].res)
  /\ Writes(g) /\ UNCHANGED <<material, van>>

-----------------------------------------------------------------------------
(* The life of a row.                                                      *)

Unsettled(g) == row[g].st \in {"Submitting", "Tracking", "Recovering"}

\* A hash an answer to g's POST may name: a hash of g, or a misreported one.
Answers(g, h) == h \in HashesOf(g) \/ <<g, h>> \in Misreports

\* Tracking, recovering, reserving again: the row may keep or drop its
\* candidate, or take a hash no other row has.
MoveRow(g) ==
  /\ Unsettled(g) /\ row'[g].st \in {"Tracking", "Recovering"}
  /\ \/ row'[g].cand \in {NoHash, row[g].cand}
     \/ Answers(g, row'[g].cand) /\ ~ OwnedElsewhere(g, row'[g].cand)
  /\ Writes(g) /\ UNCHANGED <<material, van>>

\* A reservation nothing was dispatched for is removed.
WithdrawRow(g) ==
  /\ row[g].st = "Submitting" /\ ~ Landed(g)
  /\ row'[g] = Absent
  /\ Writes(g) /\ UNCHANGED <<material, van>>

\* A rejected combined generation leaves neither row nor signed material.
RetireRow(g) ==
  /\ Kind[g] = "combined" /\ Unsettled(g) /\ ~ Landed(g)
  /\ row'[g] = Absent
  /\ material' = [material EXCEPT ![g] = "retired"]
  /\ Writes(g) /\ UNCHANGED van

\* An imported delegation is rejected when its one hash failed in a block.
RejectRow(g) ==
  /\ Kind[g] = "imported" /\ Unsettled(g)
  /\ \A h \in HashesOf(g) : committed[h] = "failed"
  /\ row'[g].st = "Rejected" /\ row'[g].cand = NoHash
  /\ Writes(g) /\ UNCHANGED <<material, van>>

\* Code 2 after a possible dispatch: somebody spent the nullifier.
SettleRow(g) ==
  /\ Unsettled(g) /\ Spent(g)
  /\ row'[g].st = "SubmittedWithoutHash" /\ row'[g].cand = NoHash
  /\ Writes(g) /\ UNCHANGED <<material, van>>

\* Faulty variant: the position column is only ever filled.
VanFilledOnce(g, pos) == IF van[Bundle[g]] # 0 THEN van[Bundle[g]] ELSE pos

\* apply_confirmed_generation: a vote moves the VAN forward and never back; a
\* delegation only fills an empty column.
NewVan(g, pos) ==
  LET old == van[Bundle[g]] IN
  IF Kind[g] \in {"delegation", "imported"} /\ old # 0 THEN old
  ELSE IF old > pos THEN old ELSE pos

\* A delegation must not contradict the stored VAN position.
VanConflict(g, pos) ==
  /\ Kind[g] \in {"delegation", "imported"}
  /\ van[Bundle[g]] # 0 /\ van[Bundle[g]] < pos

ConfirmRow(g) ==
  /\ Unsettled(g) /\ Derivable(g)
  /\ Landed(g) /\ ~ VanConflict(g, leaf[g])
  /\ row'[g].st = "Confirmed" /\ row'[g].cand \in {NoHash, row[g].cand}
  /\ van' = [van EXCEPT ![Bundle[g]] = NewVan(g, leaf[g])]
  /\ Writes(g) /\ UNCHANGED material

-----------------------------------------------------------------------------
(* Signing and discarding, the other writers of the same database.         *)

\* delegation_broadcast_evidence: a hash or VAN position, a row, a vote.
BroadcastEvidence(g) ==
  \/ van[Bundle[g]] # 0
  \/ \E g2 \in BundlePeers(g) : row[g2].st # "None"
  \/ \E g2 \in BundlePeers(g) : CastsVotes(g2) /\ material[g2] # "unsigned"

\* store_delegation_setup / replace_unbroadcast_delegation_setup: a new setup
\* replaces one that was never broadcast.
ReplaceSetup(g) ==
  /\ Kind[g] = "delegation" /\ material[g] = "unsigned"
  /\ ~ BroadcastEvidence(g)
  /\ material' = [g2 \in Gen |->
       IF g2 = g THEN "signed"
       ELSE IF /\ g2 \in BundlePeers(g) /\ Kind[g2] = "delegation"
               /\ material[g2] = "signed" THEN "retired"
       ELSE material[g2]]
  /\ UNCHANGED <<row, spends, van, committed, leaf, size>>

\* Faulty variant: any vote of the bundle may be signed beside another.
CompetesWithBatches(g) ==
  \A g2 \in BundlePeers(g) \ {g} :
    Kind[g2] \in {"batch", "combined"} /\ material[g2] = "signed"
      => row[g2].st = "Confirmed"

\* ensure_no_competing_pending_vote_chain: every signed vote of the bundle has
\* its commitment position, the proposals being signed excepted.  Only a
\* singleton can meet its own proposal here: a batch over stored recovery is
\* reused as it is or refused (prepare_recovered_vote_batch).
NoCompetingPendingVote(g) ==
  \A g2 \in BundlePeers(g) \ {g} :
    CastsVotes(g2) /\ material[g2] = "signed" /\ ~ SameVote(g, g2)
      => row[g2].st = "Confirmed"

\* ensure_vote_rebuild_allowed: a vote with a transaction hash or commitment
\* position, which its confirmation stores, is not signed again.
RebuildAllowed(g) ==
  \A g2 \in Gen : SameVote(g, g2) => row[g2].st # "Confirmed"

\* persist_prepared_commits of a vote or standalone batch: signed over the
\* bundle's current VAN.  store_vote replaces the signed material of the same
\* vote whatever the row submitted from it is doing, and takes no lease.
SignOverVan(g) ==
  /\ Kind[g] \in {"vote", "batch"} /\ material[g] = "unsigned"
  /\ van[Bundle[g]] # 0
  /\ NoCompetingPendingVote(g) /\ RebuildAllowed(g)
  /\ material' = [g2 \in Gen |->
       IF g2 = g THEN "signed"
       ELSE IF SameVote(g, g2) /\ material[g2] = "signed" THEN "retired"
       ELSE material[g2]]
  /\ spends' = [spends EXCEPT ![g] = van[Bundle[g]]]
  /\ UNCHANGED <<row, van, committed, leaf, size>>

\* DelegationAuthorization::validate_fresh
CombinedFresh(g) ==
  /\ van[Bundle[g]] = 0
  /\ \A g2 \in BundlePeers(g) : row[g2].st = "None"

\* persist_prepared_commits of a combined batch, over the proved delegation.
SignOverDelegation(g) ==
  /\ Kind[g] = "combined" /\ material[g] = "unsigned"
  /\ CombinedFresh(g)
  /\ NoCompetingPendingVote(g)
  /\ \E d \in BundlePeers(g) : Kind[d] = "delegation" /\ material[d] = "signed"
  /\ material' = [material EXCEPT ![g] = "signed"]
  /\ UNCHANGED <<row, spends, van, committed, leaf, size>>

\* Faulty variant: the row is looked up by the generation stored last.
DiscardsRenewed(g) == row[g].st = "None"

\* vote_recovery_is_lifecycle_owned, which asks for the row of the identity,
\* and the votes that reached the chain.
Discardable(g) == row[g].st = "None" /\ ~ HeldByAnother(g)

\* Votes S, signed or retired before, are retired unless the lifecycle owns one.
RetireVotes(S) ==
  /\ S # {}
  /\ \A g \in S : CastsVotes(g) /\ material[g] # "unsigned" /\ Discardable(g)
  /\ material' = [g \in Gen |-> IF g \in S THEN "retired" ELSE material[g]]
  /\ UNCHANGED <<row, spends, van, committed, leaf, size>>

\* discard_unbroadcast_delegation
RetireSetup(g) ==
  /\ Kind[g] = "delegation" /\ material[g] = "signed"
  /\ ~ BroadcastEvidence(g)
  /\ material' = [material EXCEPT ![g] = "retired"]
  /\ UNCHANGED <<row, spends, van, committed, leaf, size>>

-----------------------------------------------------------------------------
(* The chain (external).                                                   *)

\* What is included was POSTed under a row, or by an importer's delegator.
Include(h) ==
  LET g == HashOf[h] IN
  /\ committed[h] = "no" /\ ~ Spent(g)
  /\ row[g].st # "None" \/ Kind[g] = "imported"
  /\ committed' = [committed EXCEPT ![h] = "ok"]
  /\ size' = size + 1
  /\ leaf' = [leaf EXCEPT ![g] = size + 1]
  /\ UNCHANGED <<row, material, spends, van>>

Exclude(h) ==
  /\ committed[h] = "no"
  /\ committed' = [committed EXCEPT ![h] = "failed"]
  /\ UNCHANGED <<row, material, spends, van, leaf, size>>

-----------------------------------------------------------------------------
\* Capability imports have happened.
LedgerInit ==
  /\ row = [g \in Gen |-> Absent]
  /\ material = [g \in Gen |-> IF Kind[g] = "imported" THEN "signed"
                               ELSE "unsigned"]
  /\ spends = [g \in Gen |-> 0]
  /\ van = [b \in Bundles |-> 0]
  /\ committed = [h \in Hash |-> "no"]
  /\ leaf = [g \in Gen |-> 0]
  /\ size = 0

RowNext(g) ==
  \/ AdmitRow(g) \/ MoveRow(g) \/ WithdrawRow(g) \/ RetireRow(g)
  \/ RejectRow(g) \/ SettleRow(g) \/ ConfirmRow(g)

BallotNext ==
  \/ \E g \in Gen : \/ ReplaceSetup(g) \/ SignOverVan(g)
                    \/ SignOverDelegation(g) \/ RetireSetup(g)
  \/ \E S \in SUBSET Gen : RetireVotes(S)

LedgerNext ==
  \/ \E g \in Gen : RowNext(g)
  \/ BallotNext
  \/ \E h \in Hash : Include(h) \/ Exclude(h)

\* Rows, signed material, VAN positions and the chain only ever change in one
\* of these ways, whatever the passes, the network and the hosts do: no row is
\* admitted against a competitor, settled without a spender or confirmed before
\* it is on chain.
LedgerSpec == LedgerInit /\ [][LedgerNext]_ledger

-----------------------------------------------------------------------------
(* Properties.                                                             *)

\* No hash is the candidate, or the confirmation hash, of two generations:
\* classify_dispatched_post and adoption refuse a hash owned elsewhere.
UniqueCandidate ==
  \A g1, g2 \in Gen :
    row[g1].cand # NoHash /\ row[g1].cand = row[g2].cand => g1 = g2

\* The signed material a row's generation is derived from outlives the row: no
\* discard, replacement or retirement strands a row that can neither be
\* re-POSTed nor confirmed.  The one exception is a singleton vote that was
\* signed again while its row was unconfirmed; its successor's material is then
\* as durable as its own was.
RecoveryMaterialKept ==
  \A g \in Gen :
    row[g].st # "None" =>
      \/ material[g] = "signed"
      \/ /\ material[g] = "retired" /\ row[g].st # "Confirmed"
         /\ \E g2 \in Gen : SameVote(g, g2) /\ material[g2] = "signed"

\* The bundle's VAN position is never behind a confirmed generation's VAN, in
\* whatever order confirmations are applied.
VanNeverBehind ==
  \A g \in Gen : row[g].st = "Confirmed" => van[Bundle[g]] >= leaf[g]

\* Signed vote material is never overtaken by another ballot: what it spends is
\* unspent, or spent by itself or by an earlier signature of the same vote,
\* whose row still stands.
SignedWorkStaysViable ==
  \A g \in Gen :
    CastsVotes(g) /\ material[g] = "signed" /\ Spent(g)
      => \/ Landed(g)
         \/ \E g2 \in Gen : SameVote(g, g2) /\ Landed(g2) /\ row[g2].st # "None"

=============================================================================
