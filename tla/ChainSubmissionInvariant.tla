---------------------- MODULE ChainSubmissionInvariant ----------------------
(***************************************************************************)
(* The ledger's invariant, type correctness of ChainSubmission, the        *)
(* inductive invariant behind its safety theorems, and what the steps of a *)
(* pass do to it, for every value of the constants.                        *)
(*                                                                         *)
(* TInv is the inductive form of TypeOK: it adds that a running pass works *)
(* on a generation, without which row[task[t].gen] would have no type.     *)
(* NeverForgotten and ReservedBeforePost are not inductive.  Inv adds what *)
(* each pass relies on at its awaits, the lease that keeps a second pass   *)
(* off the row meanwhile, and how hashes move through mempool and blocks.  *)
(***************************************************************************)
EXTENDS ChainSubmission, TLAPS

USE Zenon

-----------------------------------------------------------------------------
(***************************************************************************)
(* What every behaviour of LedgerSpec keeps: one spender of a bundle's     *)
(* notes and of each VAN, rows that tell the truth about the chain, and    *)
(* signed material that stays usable.                                      *)
(*                                                                         *)
(* None of these is inductive by itself.  LedgerInv ties them together:    *)
(* that votes on two proposals never spend one VAN rests on confirmations  *)
(* moving the VAN position past what they confirm, which rests on confirmed*)
(* rows being on chain, which rests on there being one spender.  A vote    *)
(* signed again spends what it spent before; of its generations one at     *)
(* most has a row.                                                         *)
(***************************************************************************)

LedgerTypes ==
  /\ row \in [Gen -> Row]
  /\ material \in [Gen -> {"unsigned", "signed", "retired"}]
  /\ spends \in [Gen -> Nat] /\ van \in [Bundles -> Nat]
  /\ committed \in [Hash -> {"no", "ok", "failed"}]
  /\ leaf \in [Gen -> Nat] /\ size \in Nat

\* A bundle has one delegation setup at a time.
OneSetup ==
  \A d1, d2 \in Gen :
    /\ Kind[d1] = "delegation" /\ Kind[d2] = "delegation" /\ SameBundle(d1, d2)
    /\ material[d1] = "signed" /\ material[d2] = "signed"
    => d1 = d2

\* While a combined batch is signed, nothing else that spends the notes of its
\* bundle has a row, and no other combined batch of the bundle is signed.
CombinedAlone ==
  \A c, g \in Gen :
    /\ Kind[c] = "combined" /\ material[c] = "signed"
    /\ Delegates(g) /\ SameBundle(c, g) /\ g # c
    => /\ row[g].st = "None"
       /\ Kind[g] = "combined" => material[g] # "signed"

\* Of the generations of one singleton vote one at most is signed and one at
\* most has the row.
OneHolder ==
  \A v1, v2 \in Gen :
    /\ SameVote(v1, v2)
    /\ \/ material[v1] = "signed" /\ material[v2] = "signed"
       \/ row[v1].st # "None" /\ row[v2].st # "None"
    => v1 = v2

\* A generation that is signed, or still has a row.
Engaged(g) == material[g] = "signed" \/ row[g].st # "None"

\* Two engaged generations that spend the same VAN are of one singleton vote.
VotesApart ==
  \A v1, v2 \in Gen :
    /\ ~ Delegates(v1) /\ ~ Delegates(v2)
    /\ Engaged(v1) /\ Engaged(v2)
    /\ spends[v1] # 0 /\ spends[v1] = spends[v2]
    => v1 = v2 \/ SameVote(v1, v2)

\* The chain: leaves are numbered in order, a vote's leaf comes after the VAN
\* it spends, VAN positions are leaves of their bundle, and what landed was
\* included and has a row.
Inclusion(g) ==
  /\ leaf[g] <= size /\ spends[g] <= size
  /\ Landed(g) =>
       /\ spends[g] < leaf[g]
       /\ \E h \in HashesOf(g) : committed[h] = "ok"
       /\ row[g].st # "None" \/ Kind[g] = "imported"
  /\ spends[g] # 0 =>
       \E d \in Gen : SameBundle(d, g) /\ leaf[d] = spends[g]

LeavesApart ==
  \A g1, g2 \in Gen : Landed(g1) /\ leaf[g1] = leaf[g2] => g1 = g2

VanIsLeaf ==
  \A b \in Bundles :
    van[b] # 0 => \E d \in Gen : Bundle[d] = b /\ leaf[d] = van[b]

IncludedLanded == \A h \in Hash : committed[h] = "ok" => Landed(HashOf[h])

\* What a row says is true.
RowTrue(g) ==
  /\ row[g].cand # NoHash =>
       Answers(g, row[g].cand) /\ row[g].st \notin {"None", "Submitting"}
  /\ row[g].st = "Confirmed" => Landed(g) /\ van[Bundle[g]] >= leaf[g]
  /\ row[g].st = "SubmittedWithoutHash" => Landed(g)
  /\ row[g].st = "Rejected" =>
       Kind[g] = "imported" /\ \A h \in HashesOf(g) : committed[h] = "failed"

\* The inductive invariant.
LedgerInv ==
  /\ LedgerTypes
  /\ RecoveryMaterialKept /\ UniqueCandidate
  /\ OneSetup /\ CombinedAlone /\ OneHolder /\ VotesApart
  /\ \A g \in Gen : Inclusion(g)
  /\ LeavesApart /\ VanIsLeaf /\ IncludedLanded
  /\ \A g \in Gen : RowTrue(g)

-----------------------------------------------------------------------------
(* What the invariant says.                                                *)

\* Kinds, hashes and bundles are what the assumptions say.
LEMMA KindFacts ==
  ASSUME NEW g \in Gen
  PROVE  /\ Bundle[g] \in Bundles /\ Kind[g] \in Kinds
         /\ Kind[g] = "imported" => Delegates(g)
         /\ Kind[g] = "combined" => Delegates(g) /\ CastsVotes(g)
         /\ ~ Delegates(g) => Kind[g] \in {"vote", "batch"} /\ CastsVotes(g)
         /\ Delegates(g) =>
              Kind[g] = "delegation" \/ Kind[g] = "imported" \/ Kind[g] = "combined"
BY LedgerAssumption DEF Bundles, Kinds, Delegates, CastsVotes

\* The generations of one singleton vote.
LEMMA SameVoteFacts ==
  ASSUME NEW g1 \in Gen, NEW g2 \in Gen, SameVote(g1, g2)
  PROVE  /\ SameVote(g2, g1) /\ SameBundle(g1, g2)
         /\ Kind[g1] = "vote" /\ Kind[g2] = "vote"
         /\ ~ Delegates(g1) /\ ~ Delegates(g2)
         /\ \A g3 \in Gen : SameVote(g2, g3) => SameVote(g1, g3)
BY DEF SameVote, SameBundle, Delegates

\* Of the generations that spend one nullifier one at most has a row, or is
\* imported: a bundle's setup, its combined batch and its import exclude each
\* other, and the votes of a VAN do.
LEMMA SpendersAlone ==
  ASSUME LedgerInv, NEW g1 \in Gen, NEW g2 \in Gen, SameNullifier(g1, g2),
         row[g1].st # "None" \/ Kind[g1] = "imported",
         row[g2].st # "None" \/ Kind[g2] = "imported"
  PROVE  g1 = g2
<1>1. CASE Delegates(g1) /\ Delegates(g2) /\ SameBundle(g1, g2)
  <2>1. CASE Kind[g1] = "imported" \/ Kind[g2] = "imported"
    BY <1>1, <2>1, GenerationAssumption DEF SameBundle
  <2>2. CASE Kind[g1] # "imported" /\ Kind[g2] # "imported"
    <3>1. material[g1] = "signed" /\ material[g2] = "signed"
      BY <1>1, <2>2, SameVoteFacts DEF LedgerInv, RecoveryMaterialKept
    <3>2. CASE Kind[g1] = "combined" \/ Kind[g2] = "combined"
      BY <1>1, <2>2, <3>1, <3>2 DEF LedgerInv, CombinedAlone, SameBundle
    <3>3. CASE Kind[g1] = "delegation" /\ Kind[g2] = "delegation"
      BY <1>1, <3>1, <3>3 DEF LedgerInv, OneSetup
    <3> QED
      BY <1>1, <2>2, <3>2, <3>3, KindFacts
  <2> QED
    BY <2>1, <2>2
<1>2. CASE ~ Delegates(g1) /\ ~ Delegates(g2) /\ spends[g1] # 0
             /\ spends[g1] = spends[g2]
  <2>1. Kind[g1] # "imported" /\ Kind[g2] # "imported"
    BY <1>2, KindFacts
  <2>2. g1 = g2 \/ SameVote(g1, g2)
    BY <1>2, <2>1 DEF LedgerInv, VotesApart, Engaged
  <2> QED
    BY <2>1, <2>2 DEF LedgerInv, OneHolder
<1> QED
  BY <1>1, <1>2 DEF SameNullifier

\* So the spender of a nullifier that a row's generation spends is that
\* generation: code 2 after a dispatch means that the row's own copy landed.
LEMMA SpentByItself ==
  ASSUME LedgerInv, NEW g \in Gen, Spent(g),
         row[g].st # "None" \/ Kind[g] = "imported"
  PROVE  Landed(g)
<1>1. PICK g2 \in Gen : Landed(g2) /\ SameNullifier(g2, g)
  BY DEF Spent
<1>2. row[g2].st # "None" \/ Kind[g2] = "imported"
  BY <1>1 DEF LedgerInv, Inclusion
<1> QED
  BY <1>1, <1>2, SpendersAlone

\* The same for signed votes and combined batches, with a row or without, up to
\* the earlier signature of a vote that was signed again.
LEMMA SignedIsViable == LedgerInv => SignedWorkStaysViable
<1> SUFFICES ASSUME LedgerInv, NEW g \in Gen,
                    CastsVotes(g), material[g] = "signed", Spent(g)
             PROVE  \/ Landed(g)
                    \/ \E v \in Gen : SameVote(g, v) /\ Landed(v) /\ row[v].st # "None"
  BY DEF SignedWorkStaysViable
<1>1. PICK g2 \in Gen : Landed(g2) /\ SameNullifier(g2, g)
  BY DEF Spent
<1>2. row[g2].st # "None" \/ Kind[g2] = "imported"
  BY <1>1 DEF LedgerInv, Inclusion
<1>3. CASE Delegates(g2) /\ Delegates(g) /\ SameBundle(g2, g)
  <2>1. Kind[g] = "combined"
    BY <1>3 DEF Delegates, CastsVotes
  <2>2. Kind[g2] # "imported" \/ g2 = g
    BY <1>3, GenerationAssumption
  <2> QED
    BY <1>1, <1>2, <1>3, <2>1, <2>2 DEF LedgerInv, CombinedAlone, SameBundle
<1>4. CASE ~ Delegates(g2) /\ ~ Delegates(g) /\ spends[g2] # 0
             /\ spends[g2] = spends[g]
  <2>1. row[g2].st # "None"
    BY <1>2, <1>4, KindFacts
  <2>2. g2 = g \/ SameVote(g2, g)
    BY <1>4, <2>1 DEF LedgerInv, VotesApart, Engaged
  <2> QED
    BY <1>1, <2>1, <2>2, SameVoteFacts
<1> QED
  BY <1>1, <1>3, <1>4 DEF SameNullifier

-----------------------------------------------------------------------------
(* The inductive step: rows.                                               *)

\* A write to the row of g that makes no row where there was none, raises VAN
\* positions only, drops signed material only where no row is left, never that
\* of a singleton vote, and confirms only what is signed.
LEMMA RowWrite ==
  ASSUME LedgerInv, NEW g \in Gen, Writes(g), LedgerTypes',
         \A x \in Gen : \/ material'[x] = material[x]
                        \/ /\ material'[x] = "retired" /\ row'[x].st = "None"
                           /\ Kind[x] # "vote",
         row'[g].st = "Confirmed" => material[g] = "signed",
         \A b \in Bundles :
           \/ van'[b] = van[b]
           \/ van'[b] >= van[b] /\ \E d \in Gen : Bundle[d] = b /\ leaf[d] = van'[b],
         row[g].st # "None" \/ row'[g].st = "None",
         \/ row'[g].cand \in {NoHash, row[g].cand}
         \/ ~ OwnedElsewhere(g, row'[g].cand),
         Landed(g) => row'[g].st # "None" \/ Kind[g] = "imported",
         RowTrue(g)'
  PROVE  LedgerInv'
<1>1. /\ \A x \in Gen \ {g} : row'[x] = row[x]
      /\ spends' = spends /\ committed' = committed /\ leaf' = leaf /\ size' = size
  BY DEF Writes
<1>2. \A x \in Gen : row'[x].st # "None" => row[x].st # "None"
  BY <1>1
<1>3. \A x \in Gen : material'[x] = "signed" => material[x] = "signed"
  OBVIOUS
<1>4. RecoveryMaterialKept'
  <2> SUFFICES ASSUME NEW x \in Gen, row'[x].st # "None", material'[x] # "signed"
               PROVE  /\ material'[x] = "retired" /\ row'[x].st # "Confirmed"
                      /\ \E y \in Gen : SameVote(x, y) /\ material'[y] = "signed"
    BY DEF RecoveryMaterialKept, SameVote, SameBundle
  <2>1. row[x].st # "None" /\ material'[x] = material[x] /\ material[x] # "signed"
    BY <1>2
  <2>2. PICK y \in Gen : SameVote(x, y) /\ material[y] = "signed"
    BY <2>1 DEF LedgerInv, RecoveryMaterialKept
  <2>3. material'[y] = "signed"
    BY <2>2, SameVoteFacts
  <2>4. material[x] = "retired" /\ row[x].st # "Confirmed"
    BY <2>1 DEF LedgerInv, RecoveryMaterialKept
  <2> QED
    BY <1>1, <2>1, <2>2, <2>3, <2>4
<1>5. UniqueCandidate'
  <2> SUFFICES ASSUME NEW x \in Gen, NEW y \in Gen, x # y,
                      row'[x].cand # NoHash, row'[x].cand = row'[y].cand
               PROVE  FALSE
    BY DEF UniqueCandidate
  <2> USE DEF LedgerInv, UniqueCandidate, OwnedElsewhere
  <2>1. CASE x = g
    BY <1>1, <2>1, SMT
  <2>2. CASE y = g
    BY <1>1, <2>2, SMT
  <2>3. CASE x # g /\ y # g
    BY <1>1, <2>3, SMT
  <2> QED
    BY <2>1, <2>2, <2>3
<1>6. OneSetup' /\ OneHolder' /\ VotesApart'
  <2>1. \A x \in Gen : Engaged(x)' => Engaged(x)
    BY <1>2, <1>3 DEF Engaged
  <2>2. VotesApart'
    BY <1>1, <2>1 DEF LedgerInv, VotesApart
  <2>3. OneSetup' /\ OneHolder'
    BY <1>2, <1>3 DEF LedgerInv, OneSetup, OneHolder
  <2> QED
    BY <2>2, <2>3
<1>7. CombinedAlone'
  BY <1>2, <1>3, SMT DEF LedgerInv, CombinedAlone
<1>8. \A x \in Gen : Inclusion(x)'
  BY <1>1, SMT DEF LedgerInv, Inclusion, Landed
<1>9. LeavesApart' /\ IncludedLanded'
  BY <1>1 DEF LedgerInv, LeavesApart, IncludedLanded, Landed
<1>10. VanIsLeaf'
  BY <1>1, SMT DEF LedgerInv, VanIsLeaf
<1>11. \A x \in Gen : RowTrue(x)'
  <2> SUFFICES ASSUME NEW x \in Gen \ {g} PROVE RowTrue(x)'
    OBVIOUS
  <2>1. van'[Bundle[x]] >= van[Bundle[x]] /\ leaf[x] \in Nat
        /\ van'[Bundle[x]] \in Nat /\ van[Bundle[x]] \in Nat
    BY KindFacts, SMT DEF LedgerInv, LedgerTypes
  <2>2. RowTrue(x) /\ row'[x] = row[x]
    BY <1>1 DEF LedgerInv
  <2> QED
    BY <1>1, <2>1, <2>2, SMT DEF RowTrue, Landed, Answers
<1> QED
  BY <1>4, <1>5, <1>6, <1>7, <1>8, <1>9, <1>10, <1>11 DEF LedgerInv

\* The rows passes write on the way keep the invariant; a settled one by the
\* rule that a spent nullifier of a row was spent by its own generation.
LEMMA MovedInv ==
  ASSUME LedgerInv, LedgerTypes', NEW g \in Gen,
         \/ MoveRow(g) \/ WithdrawRow(g) \/ RejectRow(g) \/ SettleRow(g)
  PROVE  LedgerInv'
<1>1. Writes(g) /\ material' = material /\ van' = van
  BY DEF MoveRow, WithdrawRow, RejectRow, SettleRow
<1>2. row[g].st # "None" /\ RowTrue(g)
  BY DEF MoveRow, WithdrawRow, RejectRow, SettleRow, Unsettled, LedgerInv
<1>3. leaf' = leaf /\ committed' = committed
  BY <1>1 DEF Writes
<1>4. CASE MoveRow(g)
  <2>1. RowTrue(g)'
    BY <1>2, <1>4 DEF MoveRow, RowTrue, Answers
  <2> QED
    BY <1>1, <1>2, <1>4, <2>1, RowWrite DEF MoveRow
<1>5. CASE WithdrawRow(g)
  <2>1. row'[g].st = "None" /\ row'[g].cand = NoHash /\ ~ Landed(g)
    BY <1>5, SMT DEF WithdrawRow, Absent
  <2>2. RowTrue(g)'
    BY <2>1 DEF RowTrue
  <2> QED
    BY <1>1, <1>2, <2>1, <2>2, RowWrite
<1>6. CASE RejectRow(g)
  <2>1. RowTrue(g)'
    BY <1>3, <1>6 DEF RejectRow, RowTrue, HashesOf
  <2> QED
    BY <1>1, <1>2, <1>6, <2>1, RowWrite DEF RejectRow
<1>7. CASE SettleRow(g)
  <2>1. Landed(g)
    BY <1>2, <1>7, SpentByItself DEF SettleRow
  <2>2. RowTrue(g)'
    BY <1>3, <1>7, <2>1 DEF SettleRow, RowTrue, Landed
  <2> QED
    BY <1>1, <1>2, <1>7, <2>2, RowWrite DEF SettleRow
<1> QED
  BY <1>4, <1>5, <1>6, <1>7

\* Retiring a rejected combined batch drops its row with its material.
LEMMA RetiredInv ==
  ASSUME LedgerInv, LedgerTypes', NEW g \in Gen, RetireRow(g)
  PROVE  LedgerInv'
<1>1. Writes(g) /\ van' = van /\ row'[g].st = "None" /\ row'[g].cand = NoHash
  BY SMT DEF RetireRow, Absent
<1>2. \A x \in Gen : \/ material'[x] = material[x]
                     \/ /\ material'[x] = "retired" /\ row'[x].st = "None"
                        /\ Kind[x] # "vote"
  BY <1>1 DEF RetireRow, LedgerInv, LedgerTypes
<1>3. RowTrue(g)'
  BY <1>1 DEF RowTrue
<1>4. ~ Landed(g) /\ row[g].st # "None"
  BY DEF RetireRow, Unsettled
<1> QED
  BY <1>1, <1>2, <1>3, <1>4, RowWrite

\* The VAN position a confirmation leaves is at or past what it confirms, never
\* back, and a leaf of the bundle.
LEMMA NewVanFacts ==
  ASSUME LedgerTypes, NEW g \in Gen, ~ VanConflict(g, leaf[g]), Landed(g),
         NEW b, b = Bundle[g], NEW n, n = NewVan(g, leaf[g])
  PROVE  n >= van[b] /\ n >= leaf[g] /\ n \in {van[b], leaf[g]}
<1>1. van[b] \in Nat /\ leaf[g] \in Nat
  BY KindFacts DEF LedgerTypes
<1> QED
  BY <1>1, SMT DEF NewVan, VanConflict

\* Confirming.
LEMMA ConfirmedInv ==
  ASSUME LedgerInv, LedgerTypes', NEW g \in Gen, ConfirmRow(g)
  PROVE  LedgerInv'
<1> DEFINE b == Bundle[g]
<1>1. /\ Writes(g) /\ material' = material /\ Landed(g) /\ row[g].st # "None"
      /\ row'[g].st = "Confirmed" /\ row'[g].cand \in {NoHash, row[g].cand}
      /\ material[g] = "signed"
  BY DEF ConfirmRow, Unsettled, Derivable
<1>2. van' = [van EXCEPT ![b] = van'[b]] /\ b \in Bundles
  BY KindFacts DEF ConfirmRow, LedgerInv, LedgerTypes
<1>3. van'[b] >= van[b] /\ van'[b] >= leaf[g] /\ van'[b] \in {van[b], leaf[g]}
  <2>1. van'[b] = NewVan(g, leaf[g])
    BY KindFacts DEF ConfirmRow, LedgerInv, LedgerTypes
  <2> QED
    BY <1>1, <2>1, NewVanFacts DEF ConfirmRow, LedgerInv
<1>4. \A c \in Bundles :
        \/ van'[c] = van[c]
        \/ van'[c] >= van[c] /\ \E d \in Gen : Bundle[d] = c /\ leaf[d] = van'[c]
  <2> SUFFICES ASSUME NEW c \in Bundles, van'[c] # van[c]
               PROVE  van'[c] >= van[c]
                      /\ \E d \in Gen : Bundle[d] = c /\ leaf[d] = van'[c]
    OBVIOUS
  <2>1. c = b
    BY <1>2 DEF LedgerInv, LedgerTypes
  <2> QED
    BY <1>3, <2>1
<1>5. RowTrue(g)'
  BY <1>1, <1>3 DEF RowTrue, Writes, Landed, Answers, LedgerInv
<1> QED
  BY <1>1, <1>4, <1>5, RowWrite

\* Admission makes a row only where no competitor has one and the material is
\* signed; an adopted hash is the import's own and owned by no other row.
LEMMA AdmittedInv ==
  ASSUME LedgerInv, LedgerTypes', NEW g \in Gen, AdmitRow(g)
  PROVE  LedgerInv'
<1>1. /\ \A x \in Gen \ {g} : row'[x] = row[x]
      /\ spends' = spends /\ committed' = committed /\ leaf' = leaf /\ size' = size
      /\ material' = material /\ van' = van
  BY DEF AdmitRow, Writes
<1>2. material[g] = "signed"
  BY DEF AdmitRow, Refused, Derivable
<1>3. /\ row'[g].st \in {"Submitting", "Tracking"}
      /\ row'[g].cand # NoHash =>
           /\ Kind[g] = "imported" /\ row'[g].cand \in HashesOf(g)
           /\ row'[g].st = "Tracking"
  <2>1. CASE Kind[g] = "imported"
    <3>1. ImportedHash(g) \in HashesOf(g)
      BY <2>1, GenerationAssumption DEF ImportedHash, HashesOf
    <3> QED
      BY <2>1, <3>1 DEF AdmitRow, Adopted, Absent
  <2>2. CASE Kind[g] # "imported"
    BY <2>2 DEF AdmitRow, Fresh, Absent
  <2> QED
    BY <2>1, <2>2
<1>4. RecoveryMaterialKept'
  BY <1>1, <1>2 DEF LedgerInv, RecoveryMaterialKept
<1>5. UniqueCandidate'
  <2> SUFFICES ASSUME NEW x \in Gen, NEW y \in Gen, x # y,
                      row'[x].cand # NoHash, row'[x].cand = row'[y].cand
               PROVE  FALSE
    BY DEF UniqueCandidate
  <2>1. row'[g].cand # NoHash => \A z \in Gen \ {g} : row[z].cand # row'[g].cand
    BY <1>3 DEF AdmitRow, Refused, OwnedElsewhere
  <2>2. CASE x = g \/ y = g
    BY <1>1, <2>1, <2>2
  <2>3. CASE x # g /\ y # g
    BY <1>1, <2>3 DEF LedgerInv, UniqueCandidate
  <2> QED
    BY <2>2, <2>3
<1>6. OneSetup' /\ VotesApart'
  BY <1>1, <1>2 DEF LedgerInv, OneSetup, VotesApart, Engaged
<1>7. OneHolder'
  <2> SUFFICES ASSUME NEW v1 \in Gen, NEW v2 \in Gen, v1 # v2, SameVote(v1, v2)
               PROVE  /\ ~ (material'[v1] = "signed" /\ material'[v2] = "signed")
                      /\ ~ (row'[v1].st # "None" /\ row'[v2].st # "None")
    BY DEF OneHolder
  <2>1. \A x \in Gen \ {g} : SameVote(g, x) => row[x].st = "None"
    BY DEF AdmitRow, HeldByAnother
  <2>2. CASE v1 = g \/ v2 = g
    BY <1>1, <2>1, <2>2, SameVoteFacts DEF LedgerInv, OneHolder
  <2>3. CASE v1 # g /\ v2 # g
    BY <1>1, <2>3 DEF LedgerInv, OneHolder
  <2> QED
    BY <2>2, <2>3
<1>8. CombinedAlone'
  <2> SUFFICES ASSUME NEW c \in Gen, Kind[c] = "combined", material[c] = "signed",
                      Delegates(g), SameBundle(c, g), g # c
               PROVE  FALSE
    BY <1>1 DEF LedgerInv, CombinedAlone
  <2>1. c \in BundlePeers(g)
    BY DEF BundlePeers, SameBundle
  <2>2. Kind[g] = "combined"
    BY <2>1, KindFacts DEF AdmitRow, Refused, SignedCombined
  <2> QED
    BY <1>2, <2>2 DEF LedgerInv, CombinedAlone
<1>9. \A x \in Gen : Inclusion(x)'
  BY <1>1, <1>3, SMT DEF LedgerInv, Inclusion, Landed
<1>10. LeavesApart' /\ IncludedLanded' /\ VanIsLeaf'
  BY <1>1 DEF LedgerInv, LeavesApart, IncludedLanded, VanIsLeaf, Landed
<1>11. \A x \in Gen : RowTrue(x)'
  <2> SUFFICES ASSUME NEW x \in Gen PROVE RowTrue(x)'
    OBVIOUS
  <2>1. CASE x = g
    BY <1>3, <2>1 DEF RowTrue, Answers
  <2>2. CASE x # g
    BY <1>1, <2>2 DEF LedgerInv, RowTrue, Landed, Answers
  <2> QED
    BY <2>1, <2>2
<1> QED
  BY <1>4, <1>5, <1>6, <1>8, <1>9, <1>10, <1>11, <1>7 DEF LedgerInv

-----------------------------------------------------------------------------
(* The inductive step: signing, discarding and the chain.                  *)

\* Signing and discarding keep rows, VAN positions and the chain.  What is left
\* to show is what the new material and spent VANs are.
LEMMA BallotWrite ==
  ASSUME LedgerInv, LedgerTypes', UNCHANGED <<row, van, committed, leaf, size>>,
         \A x \in Gen :
           spends'[x] = spends[x] \/ (material[x] # "signed" /\ ~ Delegates(x)),
         \A x \in Gen : Inclusion(x) => Inclusion(x)',
         RecoveryMaterialKept', OneSetup', CombinedAlone', OneHolder', VotesApart'
  PROVE  LedgerInv'
<1>1. UniqueCandidate' /\ LeavesApart' /\ VanIsLeaf' /\ IncludedLanded'
  BY DEF LedgerInv, UniqueCandidate, LeavesApart, VanIsLeaf, IncludedLanded, Landed
<1>2. \A x \in Gen : RowTrue(x)'
  BY DEF LedgerInv, RowTrue, Landed, Answers
<1> QED
  BY <1>1, <1>2 DEF LedgerInv

\* Recovery material is kept where a row's own material, and the signature that
\* renews it, are left alone.
LEMMA MaterialLeftAlone ==
  ASSUME LedgerInv, row' = row,
         \A x \in Gen : row[x].st # "None" => material'[x] = material[x],
         \A x, y \in Gen : SameVote(x, y) /\ row[x].st # "None" /\ material[y] = "signed"
                            => material'[y] = "signed"
  PROVE  RecoveryMaterialKept'
<1> SUFFICES ASSUME NEW x \in Gen, row[x].st # "None", material'[x] # "signed"
             PROVE  /\ material'[x] = "retired" /\ row[x].st # "Confirmed"
                    /\ \E y \in Gen : SameVote(x, y) /\ material'[y] = "signed"
  BY DEF RecoveryMaterialKept
<1>1. material'[x] = material[x]
  OBVIOUS
<1>2. /\ material[x] = "retired" /\ row[x].st # "Confirmed"
      /\ \E y \in Gen : SameVote(x, y) /\ material[y] = "signed"
  BY <1>1 DEF LedgerInv, RecoveryMaterialKept
<1> QED
  BY <1>1, <1>2

\* Where nothing new is signed, material is dropped only from generations
\* without a row, and from no vote whose row another generation has.
LEMMA DiscardedInv ==
  ASSUME LedgerInv, LedgerTypes',
         UNCHANGED <<row, spends, van, committed, leaf, size>>,
         \A x \in Gen : material'[x] = "signed" => material[x] = "signed",
         \A x \in Gen : row[x].st # "None" => material'[x] = material[x],
         \A x, y \in Gen :
           SameVote(x, y) /\ row[x].st # "None" => material'[y] = material[y]
  PROVE  LedgerInv'
<1>1. RecoveryMaterialKept'
  BY MaterialLeftAlone
<1>2. OneSetup' /\ CombinedAlone' /\ OneHolder' /\ VotesApart'
  BY DEF LedgerInv, OneSetup, CombinedAlone, OneHolder, VotesApart, Engaged
<1>3. \A x \in Gen : Inclusion(x) => Inclusion(x)'
  BY DEF Inclusion, Landed
<1> QED
  BY <1>1, <1>2, <1>3, BallotWrite

\* A new delegation setup replaces the old one of a bundle without rows and
\* without signed combined batches.
LEMMA SetupInv ==
  ASSUME LedgerInv, LedgerTypes', NEW g \in Gen, ReplaceSetup(g)
  PROVE  LedgerInv'
<1>1. UNCHANGED <<row, spends, van, committed, leaf, size>>
  BY DEF ReplaceSetup
<1>2. \A x \in Gen :
        material'[x] = IF x = g THEN "signed"
                       ELSE IF /\ SameBundle(g, x) /\ Kind[x] = "delegation"
                               /\ material[x] = "signed" THEN "retired"
                       ELSE material[x]
  BY DEF ReplaceSetup, BundlePeers
<1>3. \A x \in Gen : SameBundle(g, x) => row[x].st = "None"
  BY DEF ReplaceSetup, BroadcastEvidence, BundlePeers
<1>4. Kind[g] = "delegation"
  BY DEF ReplaceSetup
<1>5. RecoveryMaterialKept'
  <2>1. \A x \in Gen : row[x].st # "None" => material'[x] = material[x]
    BY <1>2, <1>3 DEF SameBundle
  <2>2. \A x, y \in Gen : SameVote(x, y) /\ material[y] = "signed"
                          => material'[y] = "signed"
    BY <1>2, SameVoteFacts
  <2> QED
    BY <1>1, <2>1, <2>2, MaterialLeftAlone
<1>6. OneHolder'
  BY <1>1, <1>2, <1>4, SameVoteFacts DEF LedgerInv, OneHolder
<1>7. OneSetup'
  BY <1>2, <1>4 DEF LedgerInv, OneSetup, SameBundle
<1>8. CombinedAlone' /\ VotesApart'
  BY <1>1, <1>2, <1>4, ZenonT(40)
     DEF LedgerInv, CombinedAlone, VotesApart, Engaged, Delegates
<1>9. \A x \in Gen : Inclusion(x) => Inclusion(x)'
  BY <1>1 DEF Inclusion, Landed
<1> QED
  BY <1>1, <1>5, <1>7, <1>8, <1>9, <1>6, BallotWrite

\* A vote is signed over the bundle's VAN.  A signed vote on another proposal
\* over the same VAN would be of the bundle, so confirmed, so its leaf would be
\* at or before the VAN position and after the VAN it spends: it spends an
\* earlier one.
LEMMA SignedVoteInv ==
  ASSUME LedgerInv, LedgerTypes', NEW g \in Gen, SignOverVan(g)
  PROVE  LedgerInv'
<1> DEFINE p == van[Bundle[g]]
<1>1. /\ UNCHANGED <<row, van, committed, leaf, size>>
      /\ Kind[g] \in {"vote", "batch"} /\ material[g] = "unsigned" /\ p # 0
      /\ ~ Delegates(g) /\ Kind[g] # "imported" /\ Kind[g] # "combined"
      /\ Kind[g] # "delegation"
  BY DEF SignOverVan, Delegates
<1>2. \A x \in Gen :
        /\ material'[x] = IF x = g THEN "signed"
                          ELSE IF SameVote(g, x) /\ material[x] = "signed" THEN "retired"
                          ELSE material[x]
        /\ spends'[x] = IF x = g THEN p ELSE spends[x]
  BY DEF SignOverVan, LedgerInv, LedgerTypes
<1>3. PICK d \in Gen : Bundle[d] = Bundle[g] /\ leaf[d] = p
  BY <1>1, KindFacts DEF LedgerInv, VanIsLeaf
<1>4. row[g].st = "None" /\ ~ Landed(g)
  BY <1>1 DEF LedgerInv, RecoveryMaterialKept, Inclusion
<1>5. \A x \in Gen : Inclusion(x) => Inclusion(x)'
  <2> SUFFICES ASSUME NEW x \in Gen, Inclusion(x) PROVE Inclusion(x)'
    OBVIOUS
  <2>1. CASE x = g
    <3>1. leaf[d] <= size /\ Bundle'[g] = Bundle[g] /\ spends'[g] = p
      BY <1>2 DEF LedgerInv, Inclusion
    <3>2. (leaf[g] <= size /\ spends[g] <= size)'
      BY <1>1, <1>3, <3>1 DEF LedgerInv, Inclusion
    <3>3. (\E e \in Gen : SameBundle(e, g) /\ leaf[e] = spends[g])'
      BY <1>1, <1>3, <3>1 DEF SameBundle
    <3>4. ~ Landed(g)'
      BY <1>1, <1>4 DEF Landed
    <3> QED
      BY <2>1, <3>2, <3>3, <3>4 DEF Inclusion
  <2>2. CASE x # g
    BY <1>1, <1>2, <2>2 DEF Inclusion, Landed
  <2> QED
    BY <2>1, <2>2
<1>6. RecoveryMaterialKept'
  <2> SUFFICES ASSUME NEW x \in Gen, row[x].st # "None", material'[x] # "signed"
               PROVE  /\ material'[x] = "retired" /\ row[x].st # "Confirmed"
                      /\ \E y \in Gen : SameVote(x, y) /\ material'[y] = "signed"
    BY <1>1 DEF RecoveryMaterialKept, SameVote, SameBundle
  <2>1. x # g /\ material'[g] = "signed"
    BY <1>2
  <2>2. CASE material[x] = "signed"
    <3>1. SameVote(g, x) /\ material'[x] = "retired"
      BY <1>2, <2>1, <2>2
    <3> QED
      BY <2>1, <3>1, SameVoteFacts DEF SignOverVan, RebuildAllowed
  <2>3. CASE material[x] # "signed"
    <3>1. /\ material[x] = "retired" /\ row[x].st # "Confirmed"
          /\ material'[x] = "retired"
      BY <1>2, <2>1, <2>3 DEF LedgerInv, RecoveryMaterialKept
    <3>2. PICK y \in Gen : SameVote(x, y) /\ material[y] = "signed"
      BY <2>3 DEF LedgerInv, RecoveryMaterialKept
    <3>3. CASE SameVote(g, y)
      BY <2>1, <3>1, <3>2, <3>3, SameVoteFacts
    <3>4. CASE ~ SameVote(g, y)
      BY <1>1, <1>2, <3>1, <3>2, <3>4
    <3> QED
      BY <3>3, <3>4
  <2> QED
    BY <2>2, <2>3
<1>7. OneSetup' /\ CombinedAlone'
  BY <1>1, <1>2 DEF LedgerInv, OneSetup, CombinedAlone
<1>8. \A v \in Gen \ {g} :
        ~ Delegates(v) /\ Engaged(v) /\ spends[v] = p => SameVote(g, v)
  <2> SUFFICES ASSUME NEW v \in Gen \ {g}, ~ Delegates(v), Engaged(v),
                      spends[v] = p, ~ SameVote(g, v)
               PROVE  FALSE
    OBVIOUS
  <2>1. PICK e \in Gen : SameBundle(e, v) /\ leaf[e] = p
    BY <1>1, SMT DEF LedgerInv, Inclusion
  <2>2. e = d
    BY <1>1, <1>3, <2>1 DEF LedgerInv, LeavesApart, Landed
  <2>3. v \in BundlePeers(g) /\ CastsVotes(v)
    BY <1>3, <2>1, <2>2, KindFacts DEF BundlePeers, SameBundle
  <2>4. CASE material[v] = "signed"
    <3>1. row[v].st = "Confirmed"
      BY <2>3, <2>4 DEF SignOverVan, NoCompetingPendingVote
    <3>2. Landed(v) /\ p >= leaf[v]
      BY <2>3, <3>1 DEF LedgerInv, RowTrue, BundlePeers, SameBundle
    <3>3. spends[v] < leaf[v] /\ leaf[v] \in Nat /\ spends[v] \in Nat
      BY <3>2 DEF LedgerInv, Inclusion, LedgerTypes
    <3> QED
      BY <3>2, <3>3, SMT
  <2>5. CASE material[v] # "signed"
    <3>1. row[v].st # "None"
      BY <2>5 DEF Engaged
    <3>2. PICK y \in Gen : SameVote(v, y) /\ material[y] = "signed"
      BY <2>5, <3>1 DEF LedgerInv, RecoveryMaterialKept
    <3>3. y # v /\ y # g /\ row[y].st = "None"
      BY <1>1, <2>5, <3>1, <3>2 DEF LedgerInv, OneHolder
    <3>4. ~ SameVote(g, y)
      BY <3>2, SameVoteFacts
    <3>5. y \in BundlePeers(g) /\ CastsVotes(y)
      BY <2>3, <3>2, KindFacts, SameVoteFacts DEF BundlePeers, SameBundle
    <3> QED
      BY <3>2, <3>3, <3>4, <3>5 DEF SignOverVan, NoCompetingPendingVote
  <2> QED
    BY <2>4, <2>5
<1>9. VotesApart'
  <2> SUFFICES ASSUME NEW v1 \in Gen, NEW v2 \in Gen, v1 # v2,
                      ~ Delegates(v1), ~ Delegates(v2), Engaged(v1)', Engaged(v2)',
                      spends'[v1] # 0, spends'[v1] = spends'[v2]
               PROVE  SameVote(v1, v2)
    BY DEF VotesApart, SameVote, SameBundle
  <2>1. \A v \in Gen \ {g} : Engaged(v)' => Engaged(v) /\ spends'[v] = spends[v]
    BY <1>1, <1>2 DEF Engaged
  <2>2. CASE v1 = g
    BY <1>2, <1>8, <2>1, <2>2
  <2>3. CASE v2 = g
    BY <1>2, <1>8, <2>1, <2>3, SameVoteFacts
  <2>4. CASE v1 # g /\ v2 # g
    BY <2>1, <2>4 DEF LedgerInv, VotesApart
  <2> QED
    BY <2>2, <2>3, <2>4
<1>10. OneHolder'
  <2> SUFFICES ASSUME NEW v1 \in Gen, NEW v2 \in Gen, v1 # v2, SameVote(v1, v2)
               PROVE  /\ ~ (material'[v1] = "signed" /\ material'[v2] = "signed")
                      /\ ~ (row[v1].st # "None" /\ row[v2].st # "None")
    BY <1>1 DEF OneHolder, SameVote, SameBundle
  <2>1. CASE v1 = g
    BY <1>2, <1>4, <2>1
  <2>2. CASE v2 = g
    BY <1>2, <1>4, <2>2, SameVoteFacts
  <2>3. CASE v1 # g /\ v2 # g
    BY <1>2, <2>3 DEF LedgerInv, OneHolder
  <2> QED
    BY <2>1, <2>3, <2>2
<1> QED
  BY <1>1, <1>2, <1>5, <1>6, <1>7, <1>9, <1>10, BallotWrite

\* A combined batch is signed over a bundle without rows in which no other
\* combined batch is signed: one that were would have to be confirmed.
LEMMA SignedCombinedInv ==
  ASSUME LedgerInv, LedgerTypes', NEW g \in Gen, SignOverDelegation(g)
  PROVE  LedgerInv'
<1>1. /\ UNCHANGED <<row, spends, van, committed, leaf, size>>
      /\ Kind[g] = "combined" /\ Delegates(g) /\ material[g] = "unsigned"
  BY DEF SignOverDelegation, Delegates
<1>2. \A x \in Gen : material'[x] = IF x = g THEN "signed" ELSE material[x]
  BY DEF SignOverDelegation, LedgerInv, LedgerTypes
<1>3. \A x \in Gen \ {g} : SameBundle(g, x) =>
        row[x].st = "None" /\ (Kind[x] = "combined" => material[x] # "signed")
  BY <1>1, KindFacts, SameVoteFacts
     DEF SignOverDelegation, CombinedFresh, NoCompetingPendingVote, BundlePeers
<1>4. RecoveryMaterialKept'
  <2>1. row[g].st = "None"
    BY <1>1, SameVoteFacts DEF LedgerInv, RecoveryMaterialKept
  <2> QED
    BY <1>1, <1>2, <2>1, MaterialLeftAlone
<1>5. OneSetup' /\ VotesApart'
  BY <1>1, <1>2 DEF LedgerInv, OneSetup, VotesApart, Engaged
<1>6. OneHolder'
  BY <1>1, <1>2, SameVoteFacts DEF LedgerInv, OneHolder
<1>7. CombinedAlone'
  <2> SUFFICES ASSUME NEW c \in Gen, NEW x \in Gen,
                      Kind[c] = "combined", material'[c] = "signed",
                      Delegates(x), SameBundle(c, x), x # c
               PROVE  row[x].st = "None"
                      /\ (Kind[x] = "combined" => material'[x] # "signed")
    BY <1>1 DEF CombinedAlone
  <2>1. CASE c = g
    BY <1>2, <1>3, <2>1
  <2>2. CASE c # g
    <3>1. material[c] = "signed"
      BY <1>2, <2>2
    <3>2. ~ SameBundle(c, g)
      BY <1>3, <2>2, <3>1 DEF SameBundle
    <3>3. x # g
      BY <3>2
    <3> QED
      BY <1>2, <3>1, <3>3 DEF LedgerInv, CombinedAlone
  <2> QED
    BY <2>1, <2>2
<1>8. \A x \in Gen : Inclusion(x) => Inclusion(x)'
  BY <1>1 DEF Inclusion, Landed
<1> QED
  BY <1>1, <1>4, <1>5, <1>7, <1>8, <1>6, BallotWrite

\* Every ballot step.
LEMMA BallotLedger ==
  ASSUME LedgerInv, LedgerTypes', BallotNext
  PROVE  LedgerInv'
<1>1. ASSUME NEW g \in Gen, RetireSetup(g) PROVE LedgerInv'
  <2>1. UNCHANGED <<row, spends, van, committed, leaf, size>>
    BY <1>1 DEF RetireSetup
  <2>2. \A x \in Gen : material'[x] = IF x = g THEN "retired" ELSE material[x]
    BY <1>1 DEF RetireSetup, LedgerInv, LedgerTypes
  <2>3. row[g].st = "None" /\ Kind[g] = "delegation"
    BY <1>1 DEF RetireSetup, BroadcastEvidence, BundlePeers, SameBundle
  <2> QED
    BY <2>1, <2>2, <2>3, SameVoteFacts, DiscardedInv
<1>2. ASSUME NEW S \in SUBSET Gen, RetireVotes(S) PROVE LedgerInv'
  <2>1. UNCHANGED <<row, spends, van, committed, leaf, size>>
    BY <1>2 DEF RetireVotes
  <2>2. \A x \in Gen : material'[x] = IF x \in S THEN "retired" ELSE material[x]
    BY <1>2 DEF RetireVotes
  <2>3. \A x \in S : row[x].st = "None"
    BY <1>2 DEF RetireVotes, Discardable
  <2>4. \A x, y \in Gen : SameVote(x, y) /\ row[x].st # "None" => y \notin S
    BY <1>2, <2>3, SameVoteFacts DEF RetireVotes, Discardable, HeldByAnother
  <2> QED
    BY <2>1, <2>2, <2>3, <2>4, DiscardedInv
<1> QED
  BY <1>1, <1>2, SetupInv, SignedVoteInv, SignedCombinedInv DEF BallotNext

\* Inclusion appends a leaf for a generation whose nullifiers are unspent, so
\* one that no settled row speaks of.
LEMMA IncludeInv ==
  ASSUME LedgerInv, LedgerTypes', NEW h \in Hash, Include(h)
  PROVE  LedgerInv'
<1> DEFINE g == HashOf[h]
<1>1. g \in Gen
  BY LedgerAssumption
<1>2. UNCHANGED <<row, material, spends, van>> /\ size' = size + 1 /\ committed[h] = "no"
  BY DEF Include
<1>3. /\ \A x \in Gen : leaf'[x] = IF x = g THEN size + 1 ELSE leaf[x]
      /\ \A k \in Hash : committed'[k] = IF k = h THEN "ok" ELSE committed[k]
  BY <1>1, SMT DEF Include, LedgerInv, LedgerTypes
<1>4. ~ Landed(g)
  BY <1>1 DEF Include, Spent, SameNullifier
<1>5. size \in Nat /\ \A x \in Gen : leaf[x] \in Nat /\ spends[x] \in Nat
  BY DEF LedgerInv, LedgerTypes
<1>6. \A x \in Gen : leaf[x] <= size /\ spends[x] <= size
  BY DEF LedgerInv, Inclusion
<1>7. RecoveryMaterialKept' /\ UniqueCandidate' /\ OneSetup' /\ CombinedAlone'
      /\ OneHolder' /\ VotesApart'
  BY <1>2 DEF LedgerInv, RecoveryMaterialKept, UniqueCandidate, OneSetup,
              CombinedAlone, OneHolder, VotesApart, Engaged
<1>8. \A x \in Gen : Landed(x) => leaf'[x] = leaf[x] /\ x # g
  BY <1>3, <1>4
<1>9. \A x \in Gen : Inclusion(x)'
  <2> SUFFICES ASSUME NEW x \in Gen PROVE Inclusion(x)'
    OBVIOUS
  <2>1. leaf'[x] <= size' /\ spends'[x] <= size'
    BY <1>2, <1>3, <1>5, <1>6, SMT
  <2>2. ASSUME spends'[x] # 0
        PROVE  \E d \in Gen : SameBundle(d, x) /\ leaf'[d] = spends'[x]
    <3>1. PICK d \in Gen : SameBundle(d, x) /\ leaf[d] = spends[x]
      BY <1>2, <2>2 DEF LedgerInv, Inclusion
    <3> QED
      BY <1>2, <1>8, <2>2, <3>1 DEF Landed
  <2>3. ASSUME Landed(x)'
        PROVE  /\ spends'[x] < leaf'[x]
               /\ \E k \in HashesOf(x) : committed'[k] = "ok"
               /\ row'[x].st # "None" \/ Kind[x] = "imported"
    <3>1. CASE x = g
      <4>1. spends'[x] < leaf'[x]
        BY <1>2, <1>3, <1>5, <1>6, <3>1, SMT
      <4>2. h \in HashesOf(x) /\ committed'[h] = "ok"
        BY <1>3, <3>1 DEF HashesOf
      <4>3. row'[x].st # "None" \/ Kind[x] = "imported"
        BY <3>1 DEF Include
      <4> QED
        BY <4>1, <4>2, <4>3
    <3>2. CASE x # g
      <4>1. Landed(x) /\ leaf'[x] = leaf[x]
        BY <1>3, <2>3, <3>2 DEF Landed
      <4>2. PICK k \in HashesOf(x) : committed[k] = "ok"
        BY <4>1 DEF LedgerInv, Inclusion
      <4>3. committed'[k] = "ok"
        BY <1>3, <4>2 DEF HashesOf
      <4> QED
        BY <1>2, <4>1, <4>2, <4>3 DEF LedgerInv, Inclusion
    <3> QED
      BY <3>1, <3>2
  <2> QED
    BY <2>1, <2>2, <2>3 DEF Inclusion, HashesOf, SameBundle, Landed
<1>10. LeavesApart'
  <2> SUFFICES ASSUME NEW x \in Gen, NEW y \in Gen, leaf'[x] # 0, leaf'[x] = leaf'[y]
               PROVE  x = y
    BY DEF LeavesApart, Landed
  <2>1. CASE x # g /\ y # g
    BY <1>3, <2>1 DEF LedgerInv, LeavesApart, Landed
  <2>2. CASE x = g \/ y = g
    BY <1>3, <1>5, <1>6, <2>2, SMT
  <2> QED
    BY <2>1, <2>2
<1>11. VanIsLeaf'
  <2> SUFFICES ASSUME NEW b \in Bundles, van[b] # 0
               PROVE  \E d \in Gen : Bundle[d] = b /\ leaf'[d] = van[b]
    BY <1>2 DEF VanIsLeaf
  <2>1. PICK d \in Gen : Bundle[d] = b /\ leaf[d] = van[b]
    BY DEF LedgerInv, VanIsLeaf
  <2> QED
    BY <1>8, <2>1 DEF Landed
<1>12. IncludedLanded'
  <2> SUFFICES ASSUME NEW k \in Hash, committed'[k] = "ok"
               PROVE  leaf'[HashOf[k]] # 0
    BY DEF IncludedLanded, Landed
  <2>1. HashOf[k] \in Gen
    BY LedgerAssumption
  <2>2. CASE HashOf[k] = g
    BY <1>3, <1>5, <2>1, <2>2, SMT
  <2>3. CASE HashOf[k] # g
    <3>1. k # h
      BY <2>3
    <3>2. Landed(HashOf[k])
      BY <1>3, <3>1 DEF LedgerInv, IncludedLanded
    <3> QED
      BY <1>3, <2>1, <2>3, <3>2 DEF Landed
  <2> QED
    BY <2>2, <2>3
<1>13. \A x \in Gen : RowTrue(x)'
  <2> SUFFICES ASSUME NEW x \in Gen PROVE RowTrue(x)'
    OBVIOUS
  <2>1. RowTrue(x)
    BY DEF LedgerInv
  <2>2. (\A k \in HashesOf(x) : committed[k] = "failed") =>
          \A k \in HashesOf(x) : committed'[k] = "failed"
    BY <1>2, <1>3 DEF HashesOf
  <2> QED
    BY <1>2, <1>8, <2>1, <2>2 DEF RowTrue, Landed, Answers, HashesOf
<1> QED
  BY <1>7, <1>9, <1>10, <1>11, <1>12, <1>13 DEF LedgerInv

\* A failed inclusion changes nothing but the hash's fate.
LEMMA ExcludeInv ==
  ASSUME LedgerInv, LedgerTypes', NEW h \in Hash, Exclude(h)
  PROVE  LedgerInv'
<1>1. UNCHANGED <<row, material, spends, van, leaf, size>> /\ committed[h] = "no"
  BY DEF Exclude
<1>2. \A k \in Hash : committed'[k] = IF k = h THEN "failed" ELSE committed[k]
  BY DEF Exclude, LedgerInv, LedgerTypes
<1>3. RecoveryMaterialKept' /\ UniqueCandidate' /\ OneSetup' /\ CombinedAlone'
      /\ OneHolder' /\ VotesApart' /\ LeavesApart' /\ VanIsLeaf'
  BY <1>1, SMT DEF LedgerInv, RecoveryMaterialKept, UniqueCandidate, OneSetup,
              CombinedAlone, OneHolder, VotesApart, Engaged, LeavesApart,
              VanIsLeaf, Landed
<1>4. \A x \in Gen : Inclusion(x)'
  BY <1>1, <1>2, SMT DEF LedgerInv, Inclusion, Landed, HashesOf
<1>5. IncludedLanded'
  BY <1>1, <1>2 DEF LedgerInv, IncludedLanded, Landed
<1>6. \A x \in Gen : RowTrue(x)'
  BY <1>1, <1>2, SMT DEF LedgerInv, RowTrue, Landed, Answers, HashesOf
<1> QED
  BY <1>3, <1>4, <1>5, <1>6 DEF LedgerInv

\* The ledger's own steps keep its types.
LEMMA LedgerTypeStep ==
  ASSUME LedgerTypes, LedgerNext
  PROVE  LedgerTypes'
<1>1. ASSUME NEW g \in Gen, RowNext(g) PROVE LedgerTypes'
  <2>1. Writes(g) /\ row' \in [Gen -> Row]
    BY <1>1 DEF RowNext, AdmitRow, MoveRow, WithdrawRow, RetireRow, RejectRow,
                SettleRow, ConfirmRow, Writes
  <2>2. material' \in [Gen -> {"unsigned", "signed", "retired"}]
    BY <1>1 DEF RowNext, AdmitRow, MoveRow, WithdrawRow, RetireRow, RejectRow,
                SettleRow, ConfirmRow, LedgerTypes
  <2>3. van' \in [Bundles -> Nat]
    <3>1. CASE van' = van
      BY <3>1 DEF LedgerTypes
    <3>2. CASE ConfirmRow(g)
      <4>1. NewVan(g, leaf[g]) \in Nat
        BY KindFacts DEF NewVan, LedgerTypes
      <4> QED
        BY <3>2, <4>1 DEF ConfirmRow, LedgerTypes
    <3> QED
      BY <1>1, <3>1, <3>2 DEF RowNext, AdmitRow, MoveRow, WithdrawRow, RetireRow,
                              RejectRow, SettleRow
  <2> QED
    BY <2>1, <2>2, <2>3 DEF LedgerTypes, Writes
<1>2. CASE BallotNext
  <2>1. UNCHANGED <<row, van, committed, leaf, size>>
    BY <1>2 DEF BallotNext, ReplaceSetup, SignOverVan, SignOverDelegation,
                RetireSetup, RetireVotes
  <2>2. material' \in [Gen -> {"unsigned", "signed", "retired"}]
    BY <1>2, SMT DEF BallotNext, ReplaceSetup, SignOverVan, SignOverDelegation,
                RetireSetup, RetireVotes, LedgerTypes
  <2>3. spends' \in [Gen -> Nat]
    BY <1>2, KindFacts, SMT DEF BallotNext, ReplaceSetup, SignOverVan, SignOverDelegation,
                RetireSetup, RetireVotes, LedgerTypes
  <2> QED
    BY <2>1, <2>2, <2>3 DEF LedgerTypes
<1>3. ASSUME NEW h \in Hash, Include(h) \/ Exclude(h) PROVE LedgerTypes'
  BY <1>3, LedgerAssumption, SMT DEF Include, Exclude, LedgerTypes
<1> QED
  BY <1>1, <1>2, <1>3 DEF LedgerNext

\* One inductive step for all of it.
LEMMA LedgerStep == LedgerInv /\ [LedgerNext]_ledger => LedgerInv'
<1> SUFFICES ASSUME LedgerInv, [LedgerNext]_ledger PROVE LedgerInv'
  OBVIOUS
<1>1. CASE UNCHANGED ledger
  <2>1. LedgerTypes' /\ RecoveryMaterialKept' /\ UniqueCandidate'
    BY <1>1 DEF ledger, LedgerInv, LedgerTypes, RecoveryMaterialKept, UniqueCandidate
  <2>2. OneSetup' /\ CombinedAlone' /\ OneHolder' /\ VotesApart'
    BY <1>1 DEF ledger, LedgerInv, OneSetup, CombinedAlone, OneHolder, VotesApart,
                Engaged
  <2>3. \A g \in Gen : Inclusion(g)'
    BY <1>1 DEF ledger, LedgerInv, Inclusion, Landed
  <2>4. LeavesApart' /\ VanIsLeaf' /\ IncludedLanded'
    BY <1>1 DEF ledger, LedgerInv, LeavesApart, VanIsLeaf, IncludedLanded, Landed
  <2>5. \A g \in Gen : RowTrue(g)'
    BY <1>1 DEF ledger, LedgerInv, RowTrue, Landed, Answers
  <2> QED
    BY <2>1, <2>2, <2>3, <2>4, <2>5 DEF LedgerInv
<1>2. CASE LedgerNext
  <2>1. LedgerTypes'
    BY <1>2, LedgerTypeStep DEF LedgerInv
  <2>2. ASSUME NEW g \in Gen, RowNext(g) PROVE LedgerInv'
    BY <2>1, <2>2, AdmittedInv, MovedInv, RetiredInv, ConfirmedInv DEF RowNext
  <2> QED
    BY <1>2, <2>1, <2>2, BallotLedger, IncludeInv, ExcludeInv DEF LedgerNext
<1> QED
  BY <1>1, <1>2

\* And the start.
LEMMA LedgerStart == LedgerInit => LedgerInv
<1> SUFFICES ASSUME LedgerInit PROVE LedgerInv
  OBVIOUS
<1>1. Absent \in Row /\ Absent.st = "None" /\ Absent.cand = NoHash
  BY DEF Absent, Row, MaybeHash, Diagnostics
<1>2. LedgerTypes
  BY <1>1, LedgerAssumption DEF LedgerInit, LedgerTypes
<1>3. \A g \in Gen : /\ row[g].st = "None" /\ row[g].cand = NoHash
                     /\ spends[g] = 0 /\ leaf[g] = 0
                     /\ material[g] = IF Kind[g] = "imported" THEN "signed"
                                      ELSE "unsigned"
  BY <1>1 DEF LedgerInit
<1>4. RecoveryMaterialKept /\ UniqueCandidate /\ OneSetup /\ CombinedAlone
      /\ OneHolder /\ VotesApart
  BY <1>3, SameVoteFacts DEF RecoveryMaterialKept, UniqueCandidate, OneSetup,
                             CombinedAlone, OneHolder, VotesApart
<1>5. (\A g \in Gen : Inclusion(g)) /\ LeavesApart /\ VanIsLeaf /\ IncludedLanded
  BY <1>3, SMT DEF LedgerInit, Inclusion, LeavesApart, VanIsLeaf, IncludedLanded, Landed
<1>6. \A g \in Gen : RowTrue(g)
  BY <1>3 DEF RowTrue
<1> QED
  BY <1>2, <1>4, <1>5, <1>6 DEF LedgerInv

\* Every behaviour of the ledger keeps its promises: material outlives its row
\* unless a vote is signed again, no hash is owned twice, the VAN position is
\* never behind a confirmed generation, and signed votes are overtaken by their
\* own earlier signature only.
THEOREM LedgerKeepsPromises ==
  LedgerSpec => [](/\ RecoveryMaterialKept /\ UniqueCandidate
                   /\ VanNeverBehind /\ SignedWorkStaysViable)
<1>1. LedgerInv => /\ RecoveryMaterialKept /\ UniqueCandidate
                   /\ VanNeverBehind /\ SignedWorkStaysViable
  BY SignedIsViable DEF LedgerInv, RowTrue, VanNeverBehind
<1> QED
  BY <1>1, LedgerStart, LedgerStep, PTL DEF LedgerSpec

-----------------------------------------------------------------------------
(* Passes over the rows.                                                   *)

\* The type invariant, with the passes' half strengthened: a running pass
\* works on a generation.
TLocal ==
  /\ row \in [Gen -> Row]
  /\ material \in [Gen -> {"unsigned", "signed", "retired"}]
  /\ spends \in [Gen -> Nat] /\ van \in [Bundles -> Nat]
  /\ streak \in [Bundles -> Nat]
  /\ task \in [Task -> Pass]
  /\ \A t \in Task : Active(t) => task[t].gen \in Gen

TChain ==
  /\ leaf \in [Gen -> Nat] /\ size \in Nat
  /\ late \subseteq Gen /\ pool \subseteq Hash
  /\ committed \in [Hash -> {"no", "ok", "failed"}]

TInv == TLocal /\ TChain

\* What the transition function returns: a row, or a transition error.
AnyRow == Row \cup {Illegal}

\* Every observation maps a row to a row or to a transition error.
LEMMA TransitionType ==
  ASSUME NEW s \in Row, NEW d \in Diagnostics, NEW h \in MaybeHash
  PROVE  /\ OnAbandonedSubmitting(s, d) \in AnyRow
         /\ OnUsableCandidateHash(s, h) \in AnyRow
         /\ OnPossiblyDispatched(s, d) \in AnyRow
         /\ OnDefiniteRejection(s, d) \in AnyRow
         /\ OnTerminalRejection(s, d) \in AnyRow
         /\ OnSubmittedWithoutHash(s, d) \in AnyRow
         /\ OnDefinitelyUnsent(s) \in AnyRow
         /\ OnContinueRecovery(s) \in AnyRow
         /\ OnCandidatePending(s) \in AnyRow
         /\ OnTrackingWindowExpired(s, d) \in AnyRow
         /\ OnCandidateCommittedFailure(s, d) \in AnyRow
         /\ OnTerminalCandidateFailure(s, d) \in AnyRow
         /\ OnConfirmedByHash(s, h) \in AnyRow
         /\ OnConfirmedByTree(s) \in AnyRow
<1>1. \A st \in States, c \in MaybeHash, e \in Diagnostics :
        Goto(s, st, c, e) \in Row
  BY DEF Goto, Row
<1>2. Absent \in Row /\ NoHash \in MaybeHash /\ s.cand \in MaybeHash
  BY DEF Absent, Row, MaybeHash, Diagnostics, DispatchAmbiguities
<1>3. "none" \in Diagnostics
  BY DEF Diagnostics
<1>4. {"Tracking", "Recovering", "Rejected", "SubmittedWithoutHash",
       "Confirmed"} \subseteq States
  BY DEF States
<1> QED
  BY <1>1, <1>2, <1>3, <1>4
     DEF AnyRow, OnAbandonedSubmitting, OnUsableCandidateHash,
         OnPossiblyDispatched, OnDefiniteRejection, OnTerminalRejection,
         OnSubmittedWithoutHash, OnDefinitelyUnsent, OnContinueRecovery,
         OnCandidatePending, OnTrackingWindowExpired,
         OnCandidateCommittedFailure, OnTerminalCandidateFailure,
         OnConfirmedByHash, OnConfirmedByTree

\* The operators that build the next state of a pass yield a pass of the same
\* generation.
LEMMA PublicResultType == \A r \in AnyRow : PublicResult(r) \in Results
BY DEF AnyRow, Row, Illegal, Absent, PublicResult, Results, States

\* A pass that ends.
LEMMA DoneType ==
  ASSUME NEW tk \in Pass, NEW res \in Results
  PROVE  /\ Done(tk, res) \in Pass /\ Done(tk, res).gen = tk.gen
         /\ Done(tk, res).pc = "done"
BY DEF Done, Idle, Pass, Modes, Pcs, MaybeHash

\* A pass that starts a POST attempt.
LEMMA PostType ==
  ASSUME NEW tk \in Pass, NEW path \in {"loop", "retry"}, NEW amb \in BOOLEAN
  PROVE  Post(tk, path, amb) \in Pass /\ Post(tk, path, amb).gen = tk.gen
BY DEF Post, Pass, Pcs, MaybeHash

\* A pass that waits for its next attempt.
LEMMA BackoffType ==
  ASSUME NEW tk \in Pass, NEW amb \in BOOLEAN
  PROVE  Backoff(tk, amb) \in Pass /\ Backoff(tk, amb).gen = tk.gen
<1>1. \A n \in Nat :
        LET x == [tk EXCEPT !.pc = "backoff", !.path = "loop", !.amb = amb,
                            !.used = n] IN
        x \in Pass /\ x.gen = tk.gen
  BY DEF Pass, Pcs
<1>2. tk.used + 1 \in Nat
  BY SMT DEF Pass
<1> QED
  BY <1>1, <1>2 DEF Backoff

\* A pass that goes on to a scan or a lookup, or ends.
LEMMA RecoverType ==
  ASSUME NEW tk \in Pass, NEW r \in AnyRow
  PROVE  /\ Recover(tk, r) \in Pass /\ Recover(tk, r).gen = tk.gen
         /\ ReconcileExisting(tk, r) \in Pass
         /\ ReconcileExisting(tk, r).gen = tk.gen
<1>1. LET d == Done(tk, PublicResult(r)) IN d \in Pass /\ d.gen = tk.gen
  BY PublicResultType, DoneType
<1>2. Recover(tk, r) \in Pass /\ Recover(tk, r).gen = tk.gen
  BY <1>1, SMT DEF Recover, Pass, Pcs
<1>3. ReconcileExisting(tk, r) \in Pass /\ ReconcileExisting(tk, r).gen = tk.gen
  BY <1>1, <1>2, SMT DEF ReconcileExisting, Pass, Pcs
<1> QED
  BY <1>2, <1>3

\* A pass whose attempt was ambiguous.
LEMMA AmbiguousNextType ==
  ASSUME NEW tk \in Pass, NEW r \in AnyRow
  PROVE  AmbiguousNext(tk, r) \in Pass /\ AmbiguousNext(tk, r).gen = tk.gen
BY PublicResultType, DoneType, BackoffType DEF AmbiguousNext

\* A pass that starts.
LEMMA StartType ==
  ASSUME NEW g \in Gen, NEW m \in Modes
  PROVE  Start(g, m) \in Pass /\ Start(g, m).gen = g
BY DEF Start, Idle, Pass, Modes, Pcs, MaybeHash, Results

-----------------------------------------------------------------------------
(* Type correctness.                                                       *)

\* Every generation has a bundle.
LEMMA BundleType == \A g \in Gen : Bundle[g] \in Bundles
BY DEF Bundles

\* A step of a pass that leaves the database alone.
LEMMA StepType ==
  ASSUME TLocal, NEW t \in Task, NEW tk \in Pass, tk.gen \in Gen,
         Step(t, tk), UNCHANGED durable
  PROVE  TLocal'
BY DEF TLocal, Step, durable, Active

\* A row written without an observation.
LEMMA PutType ==
  ASSUME TLocal, NEW t \in Task, NEW tk \in Pass, tk.gen \in Gen,
         NEW g \in Gen, NEW r \in Row, Put(t, g, r, tk)
  PROVE  TLocal'
BY DEF TLocal, Step, Put, Active

\* A pass that ends and leaves the database alone.
LEMMA ReturnType ==
  ASSUME TLocal, NEW t \in Task, NEW res \in Results,
         Return(t, res)
  PROVE  TLocal'
<1>1. task[t] \in Pass
  BY DEF TLocal
<1>2. Done(task[t], res) \in Pass /\ Done(task[t], res).pc = "done"
  BY <1>1, DoneType
<1>3. task' = [task EXCEPT ![t] = Done(task[t], res)] /\ UNCHANGED durable
  BY DEF Return, Step
<1> QED
  BY <1>2, <1>3 DEF TLocal, durable, Active

\* apply_observation keeps the types, combined retirement included.
LEMMA ApplyType ==
  ASSUME TLocal, NEW t \in Task, NEW tk \in Pass, tk.gen \in Gen,
         NEW g \in Gen, NEW r \in AnyRow, Apply(t, g, r, tk)
  PROVE  TLocal'
<1>1. CASE r = Illegal
  <2>1. Return(t, "Illegal") /\ "Illegal" \in Results
    BY <1>1 DEF Apply, Return, Results
  <2> QED
    BY <2>1, ReturnType
<1>2. CASE r # Illegal
  <2>1. r \in Row
    BY <1>2 DEF AnyRow
  <2>2. /\ task' = [task EXCEPT ![t] = tk]
        /\ UNCHANGED <<spends, van>>
        /\ row' = [row EXCEPT ![g] = Absent] \/ row' = [row EXCEPT ![g] = r]
        /\ \/ material' = [material EXCEPT ![g] = "retired"]
           \/ material' = material
        /\ \/ streak' = [streak EXCEPT ![Bundle[g]] = streak[Bundle[g]] + 1]
           \/ streak' = streak
    BY <1>2 DEF Apply, Step
  <2>3. Absent \in Row
    BY DEF Absent, Row, MaybeHash, Diagnostics
  <2>4. row' \in [Gen -> Row]
    BY <2>1, <2>2, <2>3 DEF TLocal
  <2>5. streak' \in [Bundles -> Nat]
    BY <2>2, BundleType, SMT DEF TLocal
  <2>6. material' \in [Gen -> {"unsigned", "signed", "retired"}]
    BY <2>2 DEF TLocal
  <2>7. task' \in [Task -> Pass] /\ \A u \in Task : Active(u)' => task'[u].gen \in Gen
    BY <2>2, SMT DEF TLocal, Active
  <2> QED
    BY <2>2, <2>4, <2>5, <2>6, <2>7 DEF TLocal
<1> QED
  BY <1>1, <1>2

\* So does a confirmation, in all of its outcomes.
LEMMA ConfirmType ==
  ASSUME TLocal, NEW t \in Task, NEW g \in Gen, NEW r \in AnyRow, 
         NEW pos \in Nat, task[t].gen = g, Confirm(t, g, r, pos)
  PROVE  TLocal'
<1>1. task[t] \in Pass /\ row[g] \in Row /\ row[g] \in AnyRow
  BY DEF TLocal, AnyRow
<1>2. PublicResult(row[g]) \in Results
  BY <1>1, PublicResultType
<1>3. CASE \E res \in Results : Return(t, res)
  BY <1>3, ReturnType
<1>4. CASE ~ \E res \in Results : Return(t, res)
  <2>1. {"Err", "Illegal", "Confirmed"} \subseteq Results
    BY DEF Results, States
  <2>2. /\ r # Illegal
        /\ Step(t, Done(task[t], "Confirmed"))
        /\ row' = [row EXCEPT ![g] = r]
        /\ van' = [van EXCEPT ![Bundle[g]] = NewVan(g, pos)]
        /\ streak' = [streak EXCEPT ![Bundle[g]] = 0] \/ streak' = streak
        /\ UNCHANGED <<material, spends>>
    BY <1>2, <1>4, <2>1 DEF Confirm
  <2>3. NewVan(g, pos) \in Nat
    BY BundleType DEF TLocal, NewVan
  <2>4. r \in Row
    BY <2>2 DEF AnyRow
  <2>5. Done(task[t], "Confirmed") \in Pass /\ Done(task[t], "Confirmed").gen = g
    <3>1. "Confirmed" \in Results
      BY <2>1
    <3> QED
      BY <1>1, <3>1, DoneType
  <2> QED
    BY <2>2, <2>3, <2>4, <2>5, BundleType, SMT DEF TLocal, Active, Step
<1> QED
  BY <1>3, <1>4


\* The tables that signing and discarding write.
TBallot ==
  /\ material \in [Gen -> {"unsigned", "signed", "retired"}]
  /\ spends \in [Gen -> Nat] /\ van \in [Bundles -> Nat]
  /\ streak \in [Bundles -> Nat]

\* Signing and discarding touch neither rows nor passes nor the chain.
LEMMA BallotFrame == Ballot => row' = row /\ task' = task /\ UNCHANGED chain
BY DEF Ballot, SetupDelegation, SignVote, SignCombined, DiscardVotes,
  ChangeIntent, DiscardDelegation, RetryBlockedCast, ReplaceSetup, SignOverVan,
  SignOverDelegation, RetireVotes, RetireSetup, chain

\* And they keep the types of those tables.
LEMMA BallotTables ==
  ASSUME TBallot, Ballot
  PROVE  TBallot'
<1>1. ASSUME NEW g \in Gen, SetupDelegation(g) PROVE TBallot'
  BY <1>1, BundleType DEF SetupDelegation, ReplaceSetup, TBallot
<1>2. ASSUME NEW g \in Gen, SignVote(g) PROVE TBallot'
  BY <1>2, BundleType DEF SignVote, SignOverVan, TBallot
<1>3. ASSUME NEW g \in Gen, SignCombined(g) PROVE TBallot'
  BY <1>3, BundleType DEF SignCombined, SignOverDelegation, TBallot
<1>4. ASSUME NEW g \in Gen, DiscardDelegation(g) PROVE TBallot'
  BY <1>4, BundleType DEF DiscardDelegation, RetireSetup, TBallot
<1>5. ASSUME NEW b \in Bundles, RetryBlockedCast(b) PROVE TBallot'
  BY <1>5 DEF RetryBlockedCast, TBallot
<1>6. ASSUME NEW S \in SUBSET Gen, DiscardVotes(S) PROVE TBallot'
  BY <1>6 DEF DiscardVotes, RetireVotes, TBallot
<1>7. ASSUME NEW S \in SUBSET Gen, ChangeIntent(S) PROVE TBallot'
  BY <1>7 DEF ChangeIntent, RetireVotes, TBallot
<1> QED
  BY <1>1, <1>2, <1>3, <1>4, <1>5, <1>6, <1>7 DEF Ballot

\* So ballots keep the types.
LEMMA BallotType ==
  ASSUME TLocal, Ballot
  PROVE  TLocal'
<1>1. TBallot
  BY DEF TLocal, TBallot
<1>2. TBallot'
  BY <1>1, BallotTables
<1>3. row' = row /\ task' = task
  BY BallotFrame
<1> QED
  BY <1>2, <1>3 DEF TLocal, TBallot, Active

\* What a running pass and its row are.
LEMMA Running ==
  ASSUME TLocal, NEW t \in Task, Active(t)
  PROVE  /\ task[t] \in Pass /\ task[t].gen \in Gen
         /\ row[task[t].gen] \in Row /\ row[task[t].gen] \in AnyRow
         /\ row[task[t].gen].cand \in MaybeHash
BY DEF TLocal, AnyRow, Row

\* What the assumptions say of single constants.
LEMMA Constants ==
  /\ {"ChainRejected", "NullifierAlreadySpent", "TrackingWindowExpired",
      "InvalidProtocolResponse", "AmbiguousDispatch", "none"}
       \subseteq Diagnostics
  /\ Ambiguities \subseteq Diagnostics
  /\ {"Err", "Illegal", "Cancelled", "Confirmed"} \cup States \subseteq Results
  /\ "StatusOnly" \in Modes /\ {TRUE, FALSE} = BOOLEAN
  /\ Absent \in Row /\ NoHash \in MaybeHash /\ Hash \subseteq MaybeHash
BY ConstantsAssumption, LedgerAssumption
   DEF Diagnostics, DispatchAmbiguities, Results, States, Modes, Absent, Row,
       MaybeHash

\* A fresh reservation is a row.
LEMMA FreshType == \A n \in Nat : Fresh(n) \in Row
BY Constants DEF Fresh, Row, States

\* Admission keeps the types.
LEMMA AdmissionType ==
  ASSUME TLocal, NEW t \in Task, Admission(t)
  PROVE  TLocal'
<1>1. PICK g \in Gen :
        \/ AdvanceInterrupted(t, g) \/ AdvanceAbandoned(t, g)
        \/ AdvanceTerminal(t, g) \/ AdvanceRefused(t, g)
        \/ \E m \in Modes : AdvanceExisting(t, g, m)
        \/ \E m \in Modes : AdvanceFresh(t, g, m)
  BY DEF Admission
<1>2. row[g] \in Row /\ row[g] \in AnyRow
  BY DEF TLocal, AnyRow
<1>3. \A m \in Modes : Start(g, m) \in Pass /\ Start(g, m).gen = g
  BY StartType
<1>4. \A m \in Modes, res \in Results :
        /\ Done(Start(g, m), res) \in Pass
        /\ Done(Start(g, m), res).gen = g
  BY <1>3, DoneType
<1>5. row[g].st = "Submitting" =>
        Normalized(row[g]) \in Row /\ Normalized(row[g]) \in AnyRow
  BY <1>2, Constants
     DEF Normalized, OnAbandonedSubmitting, Goto, Row, AnyRow, States
<1>6. CASE AdvanceInterrupted(t, g)
  <2> DEFINE r == IF row[g].st = "Submitting" THEN Normalized(row[g])
                  ELSE row[g]
             res == IF r = Absent THEN "Cancelled" ELSE PublicResult(r)
  <2>1. r \in Row /\ r \in AnyRow
    BY <1>2, <1>5
  <2>2. res \in Results
    BY <2>1, PublicResultType, Constants
  <2>3. Put(t, g, r, Done(Start(g, "StatusOnly"), res))
    BY <1>6 DEF AdvanceInterrupted
  <2> HIDE DEF r, res
  <2> QED
    BY <1>4, <2>1, <2>2, <2>3, Constants, PutType
<1>7. CASE AdvanceAbandoned(t, g)
  <2> DEFINE r == Normalized(row[g])
  <2>1. r \in Row /\ r \in AnyRow
    BY <1>5, <1>7 DEF AdvanceAbandoned
  <2>2. Put(t, g, r, Done(Start(g, "StatusOnly"), PublicResult(r)))
    BY <1>7 DEF AdvanceAbandoned
  <2> HIDE DEF r
  <2> QED
    BY <1>4, <2>1, <2>2, Constants, PublicResultType, PutType
<1>8. CASE AdvanceTerminal(t, g) \/ AdvanceRefused(t, g)
  <2>1. PICK res \in Results :
          Step(t, Done(Start(g, "StatusOnly"), res)) /\ UNCHANGED durable
    BY <1>8, Constants DEF AdvanceTerminal, AdvanceRefused, States
  <2> QED
    BY <1>4, <2>1, Constants, StepType
<1>9. ASSUME NEW m \in Modes, AdvanceExisting(t, g, m)
      PROVE  TLocal'
  <2> DEFINE tk == Start(g, m)
             r == Reserved(row[g])
  <2>1. r \in Row
    BY <1>2, SMT DEF Reserved, Row
  <2>2. /\ ReconcileExisting(tk, row[g]) \in Pass
        /\ ReconcileExisting(tk, row[g]).gen = g
        /\ Post(tk, "loop", TRUE) \in Pass /\ Post(tk, "loop", TRUE).gen = g
    <3>1. tk \in Pass /\ tk.gen = g
      BY <1>3
    <3> HIDE DEF tk
    <3> QED
      BY <1>2, <3>1, RecoverType, PostType
  <2>3. \/ Step(t, Done(tk, "Err")) /\ UNCHANGED durable
        \/ Step(t, ReconcileExisting(tk, row[g])) /\ UNCHANGED durable
        \/ Put(t, g, r, Post(tk, "loop", TRUE))
    BY <1>9 DEF AdvanceExisting
  <2>4. Done(tk, "Err") \in Pass /\ Done(tk, "Err").gen = g
    BY <1>4, Constants
  <2> HIDE DEF tk, r
  <2>5. CASE Step(t, Done(tk, "Err")) /\ UNCHANGED durable
    BY <2>4, <2>5, StepType
  <2>6. CASE Step(t, ReconcileExisting(tk, row[g])) /\ UNCHANGED durable
    BY <2>2, <2>6, StepType
  <2>7. CASE Put(t, g, r, Post(tk, "loop", TRUE))
    BY <2>1, <2>2, <2>7, PutType
  <2> QED
    BY <2>3, <2>5, <2>6, <2>7
<1>10. ASSUME NEW m \in Modes, AdvanceFresh(t, g, m)
       PROVE  TLocal'
  <2> DEFINE tk == Start(g, m)
  <2>1. Fresh(1) \in Row
    BY FreshType
  <2>2. Kind[g] = "imported" => Adopted(g) \in Row /\ Adopted(g) \in AnyRow
    <3>1. SUFFICES ASSUME Kind[g] = "imported"
                   PROVE  Adopted(g) \in Row
      BY DEF AnyRow
    <3>2. \E h \in Hash : HashOf[h] = g
      BY <3>1, GenerationAssumption DEF HashesOf
    <3>3. ImportedHash(g) \in Hash
      BY <3>2 DEF ImportedHash
    <3> QED
      BY <3>3, Constants DEF Adopted, Row, States
  <2>3. Kind[g] = "imported" =>
          /\ ReconcileExisting(tk, Adopted(g)) \in Pass
          /\ ReconcileExisting(tk, Adopted(g)).gen = g
    BY <1>3, <2>2, RecoverType
  <2>4. Post(tk, "loop", FALSE) \in Pass /\ Post(tk, "loop", FALSE).gen = g
    BY <1>3, PostType
  <2>5. \/ /\ Kind[g] = "imported"
           /\ Put(t, g, Adopted(g), ReconcileExisting(tk, Adopted(g)))
        \/ Put(t, g, Fresh(1), Post(tk, "loop", FALSE))
    BY <1>10 DEF AdvanceFresh
  <2> HIDE DEF tk
  <2> QED
    BY <2>1, <2>2, <2>3, <2>4, <2>5, PutType
<1> QED
  BY <1>1, <1>6, <1>7, <1>8, <1>9, <1>10

-----------------------------------------------------------------------------
(* The steps of a running pass, of ballots, crashes and the network.       *)

\* So does the outcome of a POST attempt.
LEMMA PostingType ==
  ASSUME TLocal, NEW t \in Task, Posting(t)
  PROVE  TLocal'
<1> DEFINE tk == task[t]
           g == tk.gen
<1>1. tk.pc = "posting"
  BY DEF Posting, PostAccepted, PostMisreported, PostRejected,
               PostNullifierSpent, PostAmbiguous, PostUnsent, PostLocalFailure,
               PostInterrupted
<1>2. tk.pc = "posting" /\ Active(t)
  BY <1>1 DEF Active
<1>3. /\ tk \in Pass /\ g \in Gen /\ row[g] \in Row /\ row[g] \in AnyRow
      /\ tk.amb \in BOOLEAN
  BY <1>2, Running DEF Pass
<1>4. \A res \in Results : Done(tk, res) \in Pass /\ Done(tk, res).gen = g
  BY <1>3, DoneType
<1>5. \A r \in AnyRow : Done(tk, PublicResult(r)) \in Pass
                        /\ Done(tk, PublicResult(r)).gen = g
  BY <1>4, PublicResultType
<1>6. \A r \in AnyRow : AmbiguousNext(tk, r) \in Pass /\ AmbiguousNext(tk, r).gen = g
  BY <1>3, AmbiguousNextType
<1>7. ASSUME NEW h \in Hash, AcceptHash(t, h)
      PROVE  TLocal'
  <2> DEFINE r == IF OwnedElsewhere(g, h)
                  THEN OnPossiblyDispatched(row[g], "InvalidProtocolResponse")
                  ELSE OnUsableCandidateHash(row[g], h)
             tk2 == [tk EXCEPT !.used = tk.used + 1]
             next == IF Hashless(r) THEN AmbiguousNext(tk, r)
                     ELSE IF tk.path = "retry" THEN Done(tk, PublicResult(r))
                     ELSE ReconcileExisting(tk2, r)
  <2>1. r \in AnyRow
    BY <1>3, TransitionType, Constants
  <2>2. tk2 \in Pass /\ tk2.gen = g
    BY <1>3, SMT DEF Pass
  <2>3. /\ ReconcileExisting(tk2, r) \in Pass
        /\ ReconcileExisting(tk2, r).gen = g
    BY <2>1, <2>2, RecoverType
  <2>4. Apply(t, g, r, next)
    BY <1>7 DEF AcceptHash
  <2> HIDE DEF r, tk2
  <2>5. next \in Pass /\ next.gen = g
    BY <1>5, <1>6, <2>1, <2>3
  <2> HIDE DEF r, tk2, next
  <2> QED
    BY <1>3, <2>1, <2>5, <2>4, ApplyType
<1>8. CASE PostAccepted(t) \/ PostMisreported(t)
  BY <1>7, <1>8 DEF PostAccepted, PostMisreported, HashesOf
<1>9. ASSUME NEW code2 \in BOOLEAN, PostRejected(t, code2)
      PROVE  TLocal'
  <2>1. PICK r \in AnyRow, res \in Results : Apply(t, g, r, Done(tk, res))
    BY <1>3, <1>9, TransitionType, PublicResultType, Constants
       DEF PostRejected
  <2> QED
    BY <1>3, <1>4, <2>1, ApplyType
<1>10. ASSUME EndHashless(t)
       PROVE  TLocal'
  <2>1. PICK r \in AnyRow : Apply(t, g, r, Done(tk, PublicResult(r)))
    BY <1>3, <1>10, TransitionType, Constants DEF EndHashless
  <2> QED
    BY <1>3, <1>5, <2>1, ApplyType
<1>11. CASE PostNullifierSpent(t)
  <2>1. CASE EndHashless(t)
    BY <1>10, <2>1
  <2>2. CASE ~ EndHashless(t)
    <3>1. Step(t, [tk EXCEPT !.pc = "settle"]) /\ UNCHANGED durable
      BY <1>11, <2>2 DEF PostNullifierSpent
    <3>2. [tk EXCEPT !.pc = "settle"] \in Pass
          /\ [tk EXCEPT !.pc = "settle"].gen = g
      BY <1>3 DEF Pass, Pcs
    <3> QED
      BY <1>3, <3>1, <3>2, StepType
  <2> QED
    BY <2>1, <2>2
<1>12. ASSUME NEW d \in Ambiguities, PostAmbiguous(t, d)
       PROVE  TLocal'
  <2>1. PICK r \in AnyRow : Apply(t, g, r, AmbiguousNext(tk, r))
    BY <1>3, <1>12, TransitionType, Constants DEF PostAmbiguous
  <2> QED
    BY <1>3, <1>6, <2>1, ApplyType
<1>13. CASE PostUnsent(t)
  <2>1. PICK r \in AnyRow :
          \/ Apply(t, g, r, Done(tk, "Err"))
          \/ Apply(t, g, r, Backoff(tk, tk.amb))
    BY <1>3, <1>13, TransitionType, Constants DEF PostUnsent
  <2>2. Backoff(tk, tk.amb) \in Pass /\ Backoff(tk, tk.amb).gen = g
    BY <1>3, BackoffType
  <2> QED
    BY <1>3, <1>4, <2>1, <2>2, ApplyType, Constants
<1>14. CASE PostLocalFailure(t) \/ PostInterrupted(t)
  <2>1. PICK r \in AnyRow, res \in Results :
          \/ Put(t, g, Absent, Done(tk, res))
          \/ Apply(t, g, r, Done(tk, res))
          \/ Return(t, res)
    BY <1>3, <1>14, TransitionType, PublicResultType, Constants
       DEF PostLocalFailure, PostInterrupted
  <2> QED
    BY <1>3, <1>4, <2>1, ApplyType, PutType, ReturnType, Constants
<1> QED
  BY <1>8, <1>9, <1>11, <1>12, <1>13, <1>14 DEF Posting

\* And the reservations between two attempts.
LEMMA RetryingType ==
  ASSUME TLocal, NEW t \in Task, Retrying(t)
  PROVE  TLocal'
<1> DEFINE tk == task[t]
           g == tk.gen
<1>1. Active(t)
  BY DEF Retrying, BackoffInterrupted, ReserveAmbiguousRetry, ReAdmit,
         ReAdmitRenewed, Active
<1>2. tk \in Pass /\ g \in Gen /\ row[g] \in Row /\ row[g] \in AnyRow
  BY <1>1, Running
<1>3. PublicResult(row[g]) \in Results
  BY <1>2, PublicResultType
<1>4. Reserved(row[g]) \in Row
  BY <1>2, SMT DEF Reserved, Row
<1>5. Fresh(tk.used + 1) \in Row
  <2>1. tk.used + 1 \in Nat
    BY <1>2, SMT DEF Pass
  <2> QED
    BY <2>1, FreshType
<1>6. \A amb \in BOOLEAN :
        Post(tk, "loop", amb) \in Pass /\ Post(tk, "loop", amb).gen = g
  BY <1>2, PostType
<1>7. \/ \E res \in Results : Return(t, res)
      \/ Put(t, g, Reserved(row[g]), Post(tk, "loop", TRUE))
      \/ Put(t, g, Fresh(tk.used + 1), Post(tk, "loop", FALSE))
      \/ \E g2 \in Gen : Put(t, g2, Fresh(tk.used + 1), Done(tk, "Err"))
  BY <1>3, Constants
     DEF Retrying, BackoffInterrupted, ReserveAmbiguousRetry, ReAdmit,
         ReAdmitRenewed, Renewed
<1>8. Done(tk, "Err") \in Pass /\ Done(tk, "Err").gen = g
  BY <1>2, DoneType, Constants
<1> QED
  BY <1>2, <1>4, <1>5, <1>6, <1>7, <1>8, ReturnType, PutType


\* And the answers of status lookups.
LEMMA LookupType ==
  ASSUME TLocal, TChain, NEW t \in Task, Lookup(t)
  PROVE  TLocal'
<1> DEFINE tk == task[t]
           g == tk.gen
<1>1. Active(t)
  BY DEF Lookup, LookupInterrupted, LookupInconclusive,
         LookupCommittedFailure, LookupCommittedSuccess, Active
<1>2. tk \in Pass /\ g \in Gen /\ row[g] \in Row /\ row[g] \in AnyRow
  BY <1>1, Running
<1>3. \A res \in Results : Done(tk, res) \in Pass /\ Done(tk, res).gen = g
  BY <1>2, DoneType
<1>4. \A r \in AnyRow : Recover(tk, r) \in Pass /\ Recover(tk, r).gen = g
  BY <1>2, RecoverType
<1>5. ASSUME NEW failed \in BOOLEAN, NEW expired \in BOOLEAN,
             LookupInconclusive(t, failed, expired)
      PROVE  TLocal'
  <2> DEFINE s == row[g]
             r == IF s.st = "Tracking" /\ expired
                  THEN OnTrackingWindowExpired(s, "TrackingWindowExpired")
                  ELSE IF s.st = "Recovering" /\ failed THEN OnContinueRecovery(s)
                  ELSE OnCandidatePending(s)
             next == IF r.st = "Tracking" /\ failed THEN Done(tk, "Err")
                     ELSE Recover(tk, r)
  <2>1. r \in AnyRow
    BY <1>2, TransitionType, Constants
  <2>2. Apply(t, g, r, next)
    BY <1>5 DEF LookupInconclusive
  <2> HIDE DEF r
  <2>3. next \in Pass /\ next.gen = g
    BY <1>3, <1>4, <2>1, Constants
  <2> HIDE DEF next
  <2> QED
    BY <1>2, <2>1, <2>2, <2>3, ApplyType
<1>6. CASE LookupCommittedFailure(t)
  <2> DEFINE s == row[g]
             r == IF FailureIsTerminal(g)
                  THEN OnTerminalCandidateFailure(s, "ChainRejected")
                  ELSE OnCandidateCommittedFailure(s, "ChainRejected")
             next == IF s.st = "Recovering" /\ ~ FailureIsTerminal(g)
                     THEN Recover(tk, r) ELSE Done(tk, PublicResult(r))
  <2>1. r \in AnyRow
    BY <1>2, TransitionType, Constants
  <2>2. Apply(t, g, r, next)
    BY <1>6 DEF LookupCommittedFailure
  <2> HIDE DEF r
  <2>3. next \in Pass /\ next.gen = g
    BY <1>3, <1>4, <2>1, PublicResultType
  <2> HIDE DEF next
  <2> QED
    BY <1>2, <2>1, <2>2, <2>3, ApplyType
<1>7. CASE LookupCommittedSuccess(t)
  <2>1. row[g].cand \in Hash
    BY <1>7 DEF LookupCommittedSuccess
  <2>2. leaf[HashOf[row[g].cand]] \in Nat
    <3>1. HashOf[row[g].cand] \in Gen /\ leaf \in [Gen -> Nat]
      BY <2>1, ConstantsAssumption, LedgerAssumption DEF TChain
    <3> QED
      BY <3>1
  <2> DEFINE r == OnConfirmedByHash(row[g], row[g].cand)
             pos == leaf[HashOf[row[g].cand]]
  <2>3. r \in AnyRow
    BY <1>2, <2>1, TransitionType, Constants
  <2>4. Return(t, "Err") \/ Confirm(t, g, r, pos)
    BY <1>7 DEF LookupCommittedSuccess
  <2>5. pos \in Nat
    BY <2>2
  <2> HIDE DEF r, pos
  <2>6. CASE Return(t, "Err")
    BY <2>6, ReturnType, Constants
  <2>7. CASE Confirm(t, g, r, pos)
    BY <1>2, <2>5, <2>3, <2>7, ConfirmType
  <2> QED
    BY <2>4, <2>6, <2>7
<1>8. CASE LookupInterrupted(t)
  BY <1>2, <1>8, PublicResultType, ReturnType DEF LookupInterrupted
<1> QED
  BY <1>5, <1>6, <1>7, <1>8 DEF Lookup

\* And scans with what follows them.
LEMMA ScanType ==
  ASSUME TLocal, TChain, NEW t \in Task, Scan(t)
  PROVE  TLocal'
<1> DEFINE tk == task[t]
           g == tk.gen
<1>1. Active(t)
  BY DEF Scan, ScanInterrupted, ScanFailed, ScanMatch, ScanNoMatch, Scanning,
         SettleNoMatch, AuthorizedInterrupted, ReserveRecoveryRetry, Active
<1>2. /\ tk \in Pass /\ g \in Gen /\ row[g] \in Row /\ row[g] \in AnyRow
      /\ row[g].cand \in MaybeHash
  BY <1>1, Running
<1>3. PublicResult(row[g]) \in Results
  BY <1>2, PublicResultType
<1>4. \A res \in Results : Done(tk, res) \in Pass /\ Done(tk, res).gen = g
  BY <1>2, DoneType
<1>5. CASE ScanInterrupted(t) \/ AuthorizedInterrupted(t)
  BY <1>3, <1>5, ReturnType DEF ScanInterrupted, AuthorizedInterrupted
<1>6. CASE ScanFailed(t) \/ SettleNoMatch(t)
  <2>1. PICK r \in AnyRow : \/ Apply(t, g, r, Done(tk, "Err"))
                            \/ Apply(t, g, r, Done(tk, PublicResult(r)))
    BY <1>2, <1>6, TransitionType, Constants
       DEF ScanFailed, SettleNoMatch, EndHashless
  <2> QED
    BY <1>2, <1>4, <2>1, ApplyType, PublicResultType, Constants
<1>7. CASE ScanMatch(t)
  <2>1. leaf[g] \in Nat
    BY <1>2 DEF TChain
  <2>2. OnConfirmedByTree(row[g]) \in AnyRow
    BY <1>2, TransitionType, Constants
  <2>3. Confirm(t, g, OnConfirmedByTree(row[g]), leaf[g])
    BY <1>7 DEF ScanMatch
  <2> QED
    BY <1>2, <2>1, <2>2, <2>3, ConfirmType
<1>8. CASE ScanNoMatch(t)
  <2> DEFINE x == [tk EXCEPT !.pc = "authorized", !.auth = row[g].cand]
  <2>1. x \in Pass /\ x.gen = g
    BY <1>2 DEF Pass, Pcs
  <2>2. \/ Return(t, PublicResult(row[g]))
        \/ Step(t, x) /\ UNCHANGED durable
    BY <1>8 DEF ScanNoMatch
  <2> HIDE DEF x
  <2> QED
    BY <1>2, <1>3, <2>1, <2>2, ReturnType, StepType
<1>9. CASE ReserveRecoveryRetry(t)
  <2> DEFINE x == [Reserved(row[g]) EXCEPT !.cand = NoHash]
             amb == has_unresolved_dispatch(x)
  <2>1. x \in Row
    <3>1. Reserved(row[g]) \in Row
      BY <1>2, SMT DEF Reserved, Row
    <3> QED
      BY <3>1, Constants DEF Row
  <2>2. amb \in BOOLEAN
    BY DEF has_unresolved_dispatch
  <2>3. Post(tk, "retry", amb) \in Pass /\ Post(tk, "retry", amb).gen = g
    BY <1>2, <2>2, PostType
  <2>4. Return(t, "Err") \/ Put(t, g, x, Post(tk, "retry", amb))
    BY <1>9 DEF ReserveRecoveryRetry
  <2> HIDE DEF x, amb
  <2> QED
    BY <1>2, <2>1, <2>3, <2>4, ReturnType, PutType, Constants
<1> QED
  BY <1>5, <1>6, <1>7, <1>8, <1>9 DEF Scan

\* And signing, discarding, interrupting, failing, crashing and finishing.
LEMMA OtherType ==
  ASSUME TLocal, Ballot \/ Crash \/
           \E t \in Task : Finish(t) \/ Interrupt(t) \/ StoreFails(t)
  PROVE  TLocal'
<1>1. Idle \in Pass
  BY DEF Idle, Pass, Pcs, Modes, MaybeHash, Results
<1>2. CASE Crash
  <2>1. task' = [t \in Task |-> Idle] /\ UNCHANGED durable
    BY <1>2 DEF Crash
  <2>2. Idle.pc = "idle"
    BY DEF Idle
  <2> QED
    BY <1>1, <2>1, <2>2 DEF TLocal, durable, Active
<1>3. ASSUME NEW t \in Task, Finish(t)
      PROVE  TLocal'
  <2>1. task' = [task EXCEPT ![t] = Idle] /\ UNCHANGED durable
    BY <1>3 DEF Finish, Step
  <2>2. Idle.pc = "idle"
    BY DEF Idle
  <2> QED
    BY <1>1, <2>1, <2>2 DEF TLocal, durable, Active
<1>4. ASSUME NEW t \in Task, Interrupt(t)
      PROVE  TLocal'
  <2> DEFINE x == [task[t] EXCEPT !.intr = TRUE]
  <2>1. task[t] \in Pass /\ task[t].gen \in Gen
    BY <1>4, Running DEF Interrupt
  <2>2. x \in Pass /\ x.gen \in Gen
    BY <2>1 DEF Pass
  <2>3. Step(t, x) /\ UNCHANGED durable
    BY <1>4 DEF Interrupt
  <2> HIDE DEF x
  <2> QED
    BY <2>2, <2>3, StepType
<1>5. ASSUME NEW t \in Task, StoreFails(t)
      PROVE  TLocal'
  BY <1>5, ReturnType, Constants DEF StoreFails
<1>6. CASE Ballot
  BY <1>6, BallotType
<1> QED
  BY <1>2, <1>3, <1>4, <1>5, <1>6

\* The chain half: passes only add travelling copies and mempool entries.
LEMMA ChainType ==
  ASSUME TInv, Next
  PROVE  TChain'
<1>1. ASSUME NEW t \in Task, Admission(t) \/ Posting(t) \/ Retrying(t)
                             \/ Lookup(t) \/ Scan(t) \/ Finish(t)
                             \/ Interrupt(t) \/ StoreFails(t)
      PROVE  TChain'
  <2>1. CASE Posting(t)
    <3>1. task[t].pc = "posting"
      BY <2>1
         DEF Posting, PostAccepted, PostMisreported, PostRejected,
             PostNullifierSpent, PostAmbiguous, PostUnsent, PostLocalFailure,
             PostInterrupted
    <3>2. task[t].gen \in Gen
      BY <3>1, Running DEF TInv, Active
    <3>3. /\ late' \subseteq late \cup {task[t].gen}
          /\ pool' \subseteq Hash \cup pool
          /\ UNCHANGED <<committed, leaf, size>>
      BY <2>1
         DEF Posting, PostAccepted, PostMisreported, PostRejected,
             PostNullifierSpent, PostAmbiguous, PostUnsent, PostLocalFailure,
             PostInterrupted, chain, HashesOf
    <3> QED
      BY <3>2, <3>3 DEF TInv, TChain
  <2>2. CASE StoreFails(t)
    BY <2>2, Running DEF TInv, TChain, StoreFails
  <2>3. CASE Admission(t)
    BY <2>3 DEF TInv, TChain, chain, Admission, AdvanceInterrupted,
                AdvanceAbandoned, AdvanceTerminal, AdvanceExisting,
                AdvanceRefused, AdvanceFresh
  <2>4. CASE Retrying(t) \/ Lookup(t) \/ Finish(t) \/ Interrupt(t)
    BY <2>4 DEF TInv, TChain, chain, Retrying, BackoffInterrupted,
                ReserveAmbiguousRetry, ReAdmit, ReAdmitRenewed, Lookup,
                LookupInterrupted,
                LookupInconclusive, LookupCommittedFailure,
                LookupCommittedSuccess, Finish, Interrupt
  <2>5. CASE Scan(t)
    BY <2>5 DEF TInv, TChain, chain, Scan, ScanInterrupted, ScanFailed,
                ScanMatch, ScanNoMatch, SettleNoMatch, AuthorizedInterrupted,
                ReserveRecoveryRetry
  <2> QED
    BY <1>1, <2>1, <2>2, <2>3, <2>4, <2>5
<1>2. CASE Crash
  <2>1. \A t \in Task : task[t].pc = "posting" => task[t].gen \in Gen
    BY DEF TInv, TLocal, Active
  <2> QED
    BY <1>2, <2>1 DEF TInv, TChain, Crash
<1>3. CASE Ballot
  <2>1. UNCHANGED chain
    BY <1>3, BallotFrame
  <2> QED
    BY <2>1 DEF TInv, TChain, chain
<1>4. CASE Network
  BY <1>4, ConstantsAssumption, LedgerAssumption, SMT
     DEF TInv, TChain, Network, LateDelivery, LateLost, Evict, CommitOk,
         CommitFailed
<1> QED
  BY <1>1, <1>2, <1>3, <1>4 DEF Next


\* Types hold at the start.
LEMMA InitType == Init => TInv
<1> SUFFICES ASSUME Init PROVE TInv
  OBVIOUS
<1>1. Idle \in Pass /\ Idle.pc = "idle"
  BY DEF Idle, Pass, Pcs, Modes, MaybeHash, Results
<1>2. TLocal
  BY <1>1, Constants DEF Init, TLocal, Active
<1>3. TChain
  BY DEF Init, TChain
<1> QED
  BY <1>2, <1>3 DEF TInv

\* And after every step.
LEMMA NextType == TInv /\ [Next]_vars => TInv'
<1> SUFFICES ASSUME TInv, [Next]_vars PROVE TInv'
  OBVIOUS
<1>1. CASE UNCHANGED vars
  BY <1>1 DEF TInv, TLocal, TChain, vars, Active
<1>2. CASE Next
  <2>1. TChain'
    BY <1>2, ChainType
  <2>2. ASSUME Network
        PROVE  TLocal'
    <3>1. UNCHANGED <<durable, task>>
      BY <2>2 DEF Network, LateDelivery, LateLost, Evict, CommitOk, CommitFailed
    <3>2. UNCHANGED <<row, material, spends, van, streak, task>>
      BY <3>1 DEF durable
    <3> QED
      BY <3>2 DEF TInv, TLocal, Active
  <2>3. ASSUME NEW t \in Task, Admission(t) \/ Posting(t) \/ Retrying(t)
                               \/ Lookup(t) \/ Scan(t)
        PROVE  TLocal'
    BY <2>3, AdmissionType, PostingType, RetryingType, LookupType, ScanType
       DEF TInv
  <2>4. ASSUME \/ Ballot \/ Crash
               \/ \E t \in Task : Finish(t) \/ Interrupt(t) \/ StoreFails(t)
        PROVE  TLocal'
    BY <2>4, OtherType DEF TInv
  <2>5. TLocal'
    BY <1>2, <2>2, <2>3, <2>4 DEF Next
  <2> QED
    BY <2>1, <2>5 DEF TInv
<1> QED
  BY <1>1, <1>2

\* Every reachable state is well typed, whatever the generations, hashes and
\* endpoints: no store call, transition or reply builds a malformed row or pass.
THEOREM TypeCorrect == Spec => []TypeOK
<1>1. TInv => TypeOK
  BY DEF TInv, TLocal, TChain, TypeOK
<1> QED
  BY InitType, NextType, <1>1, PTL DEF Spec

-----------------------------------------------------------------------------
(* The inductive invariant.                                                *)

\* The lease: passes that run at the same time work on different bundles.
OnePassPerBundle ==
  \A t, u \in Task :
    Active(t) /\ Active(u) /\ SameBundle(task[t].gen, task[u].gen) => t = u

\* A row is missing only if nothing can land; the candidate of a combined
\* batch is its own hash.
RowSound(g) ==
  /\ row[g].st = "None" /\ Kind[g] # "imported" => ~ MayLand(g)
  /\ Kind[g] = "combined" /\ row[g].cand # NoHash => row[g].cand \in HashesOf(g)

\* What a pass may rely on at each of its awaits.
PassSound(t) ==
  LET tk == task[t]
      r == row[tk.gen] IN
  /\ tk.pc \in {"posting", "backoff", "scan", "settle", "authorized"}
       => Kind[tk.gen] # "imported"
  /\ tk.pc = "posting" =>
       /\ tk.used < MaxAttempts /\ tk.used < r.res
       /\ IF FreshAttempt(tk) THEN r.st = "Submitting" /\ ~ MayLand(tk.gen)
          ELSE Hashless(r)
  /\ tk.pc = "backoff" =>
       /\ tk.used < MaxAttempts
       /\ IF tk.amb THEN tk.used <= r.res ELSE r = Absent
  /\ tk.pc \in {"lookup", "scan", "settle", "authorized"} => tk.used <= r.res
  /\ tk.pc = "authorized" => tk.used < MaxAttempts

\* Blocks: a hash leaves the mempool when it is included, and what is on chain
\* got there by the successful inclusion of one of its hashes.
ChainSound ==
  /\ \A h \in pool : committed[h] = "no"
  /\ \A g \in Gen : Landed(g) => \E h \in HashesOf(g) : committed[h] = "ok"

\* The inductive invariant.
Inv ==
  /\ TInv /\ OnePassPerBundle /\ ChainSound
  /\ \A g \in Gen : RowSound(g)
  /\ \A t \in Task : PassSound(t)

\* What can land is decided by the chain and the network alone.
LEMMA MayLandStable ==
  ASSUME UNCHANGED chain, NEW g \in Gen
  PROVE  MayLand(g)' <=> MayLand(g)
BY DEF chain, MayLand, Landed

\* The shape of a step: it touches no pass but t and no row but g's ...
Apart(t, g) ==
  /\ \A u \in Task \ {t} : task'[u] = task[u]
  /\ \A g2 \in Gen \ {g} : row'[g2] = row[g2]

\* ... the lease of g's bundle keeps the other passes off it ...
Alone(t, g) ==
  \A u \in Task \ {t} : Active(u) => ~ SameBundle(task[u].gen, g)

\* ... and g's row is unchanged, or not missing, or nothing of g can land.
RowStep(g) ==
  \/ row'[g] = row[g]
  \/ row'[g].st # "None" /\ row'[g].cand \in {NoHash, row[g].cand}
  \/ row'[g] = Absent /\ ~ MayLand(g)

\* A step that adds to the mempool and to the copies under way only what is g's.
ChainStep(g) ==
  /\ late' \subseteq late \cup {g} /\ pool' \subseteq pool \cup HashesOf(g)
  /\ \A h \in pool' : committed[h] = "no"
  /\ UNCHANGED <<committed, leaf>>

\* The lease of a running pass keeps other passes off its bundle.
LEMMA LeaseHeld ==
  ASSUME OnePassPerBundle, NEW t \in Task, Active(t)
  PROVE  Alone(t, task[t].gen)
BY DEF OnePassPerBundle, Alone

\* A step of a pass that holds the lease of g's bundle, writes no row but g's
\* and adds no copies but g's, has to be checked for g and itself only.
LEMMA PassStep ==
  ASSUME Inv, TInv', NEW t \in Task, NEW g \in Gen,
         Apart(t, g), Alone(t, g), ChainStep(g), Bundle[task'[t].gen] = Bundle[g],
         RowSound(g)', PassSound(t)'
  PROVE  Inv'
<1>1. \A g2 \in Gen \ {g} : MayLand(g2)' => MayLand(g2)
  BY DEF ChainStep, MayLand, Landed, HashesOf
<1>2. \A g2 \in Gen : RowSound(g2)'
  <2> SUFFICES ASSUME NEW g2 \in Gen \ {g} PROVE RowSound(g2)'
    OBVIOUS
  <2>1. RowSound(g2) /\ row'[g2] = row[g2] /\ (MayLand(g2)' => MayLand(g2))
    BY <1>1 DEF Inv, Apart
  <2> QED
    BY <2>1 DEF RowSound, HashesOf
<1>3. \A u \in Task : PassSound(u)'
  <2> SUFFICES ASSUME NEW u \in Task \ {t} PROVE PassSound(u)'
    OBVIOUS
  <2>1. PassSound(u) /\ task'[u] = task[u]
    BY DEF Inv, Apart
  <2>2. CASE Active(u)
    <3>1. task[u].gen \in Gen \ {g}
      BY <2>2 DEF Inv, TInv, TLocal, SameBundle, Alone
    <3>2. row'[task[u].gen] = row[task[u].gen]
      BY <3>1 DEF Apart
    <3>3. MayLand(task[u].gen)' => MayLand(task[u].gen)
      <4> DEFINE x == task[u].gen
      <4>1. x' = x
        BY <2>1
      <4> QED
        BY <3>1, <4>1 DEF ChainStep, MayLand, Landed, HashesOf
    <3> QED
      BY <2>1, <3>2, <3>3 DEF PassSound, FreshAttempt, Hashless
  <2>3. CASE ~ Active(u)
    <3>1. task'[u].pc \in {"idle", "done"}
      BY <2>1, <2>3 DEF Active
    <3> QED
      BY <3>1 DEF PassSound
  <2> QED
    BY <2>2, <2>3
<1>4. OnePassPerBundle'
  <2> SUFFICES ASSUME NEW u \in Task, NEW v \in Task, u # v,
                      Active(u)', Active(v)',
                      SameBundle(task[u].gen, task[v].gen)'
               PROVE  FALSE
    BY DEF OnePassPerBundle
  <2>1. CASE u # t /\ v # t
    BY <2>1 DEF Inv, OnePassPerBundle, Active, SameBundle, Apart
  <2>2. CASE u = t \/ v = t
    BY <2>2, SMT DEF Active, SameBundle, Apart, Alone
  <2> QED
    BY <2>1, <2>2
<1>5. ChainSound'
  BY DEF Inv, ChainStep, ChainSound, Landed
<1> QED
  BY <1>2, <1>3, <1>4, <1>5 DEF Inv

\* The same for a step that leaves the chain alone and ends the pass with a
\* row that is not missing, or is unchanged, or of which nothing can land.
LEMMA QuietStep ==
  ASSUME Inv, TInv', NEW t \in Task, NEW g \in Gen,
         Apart(t, g), Alone(t, g), Bundle[task'[t].gen] = Bundle[g], UNCHANGED chain,
         RowStep(g), PassSound(t)'
  PROVE  Inv'
<1>1. MayLand(g)' <=> MayLand(g)
  BY MayLandStable
<1>2. RowSound(g)
  BY DEF Inv
<1>3. RowSound(g)'
  BY <1>1, <1>2, SMT DEF RowSound, RowStep, Absent, HashesOf
<1>4. ChainStep(g)
  BY DEF ChainStep, chain, Inv, ChainSound
<1> QED
  BY <1>3, <1>4, PassStep

\* What apply_observation changes: its pass and its row.
LEMMA ApplyEffect ==
  ASSUME TLocal, NEW t \in Task, NEW g \in Gen, NEW r, NEW tk,
         Apply(t, g, r, tk)
  PROVE  /\ Apart(t, g)
         /\ \/ /\ r = Illegal
               /\ row'[g] = row[g] /\ task'[t] = Done(task[t], "Illegal")
            \/ /\ r # Illegal /\ task'[t] = tk
               /\ row'[g] = IF retires_combined_generation(g, r) THEN Absent
                            ELSE r
BY DEF TLocal, Apply, Step, durable, Apart

\* Applying a row that is not rejected stores that row: only a rejection
\* retires a combined generation.
LEMMA ApplyStores ==
  ASSUME TLocal, NEW t \in Task, NEW g \in Gen, NEW r, NEW tk,
         Apply(t, g, r, tk), r # Illegal, r.st # "Rejected"
  PROVE  /\ Apart(t, g)
         /\ row'[g] = r /\ task'[t] = tk
<1>1. ~ retires_combined_generation(g, r)
  BY DEF retires_combined_generation
<1> QED
  BY <1>1, ApplyEffect

\* The same for a row written without an observation.
LEMMA PutEffect ==
  ASSUME TLocal, NEW t \in Task, NEW g \in Gen, NEW r, NEW tk,
         Put(t, g, r, tk)
  PROVE  /\ Apart(t, g)
         /\ row'[g] = r /\ task'[t] = tk
BY DEF TLocal, Put, Step, Apart

\* And for a step that writes no row.
LEMMA StepEffect ==
  ASSUME TLocal, NEW t \in Task, NEW tk, Step(t, tk), UNCHANGED durable
  PROVE  /\ \A g \in Gen : Apart(t, g) /\ RowStep(g)
         /\ row' = row /\ task'[t] = tk
BY DEF TLocal, Step, durable, Apart, RowStep

\* A pass that is done claims nothing.
LEMMA DoneSound ==
  ASSUME NEW t \in Task, task'[t].pc \in {"idle", "done"}
  PROVE  PassSound(t)'
BY DEF PassSound

\* A pass that ends keeps its generation.
LEMMA DoneFacts ==
  ASSUME NEW tk, NEW res
  PROVE  Done(tk, res).gen = tk.gen /\ Done(tk, res).pc = "done"
BY DEF Done, Idle

\* A pass that waits for a lookup or a scan claims only its attempt count.
LEMMA LookingSound ==
  ASSUME NEW t \in Task, task'[t].pc \in {"done", "lookup", "scan"},
         task'[t].pc = "scan" => Kind[task'[t].gen] # "imported",
         task'[t].pc # "done" => task'[t].used <= row'[task'[t].gen].res
  PROVE  PassSound(t)'
BY DEF PassSound

\* Where recover_if_enabled and reconcile_existing lead.
LEMMA RecoverFacts ==
  ASSUME NEW tk \in Pass, NEW r
  PROVE  /\ Recover(tk, r).gen = tk.gen
         /\ Recover(tk, r).pc \in {"done", "scan"}
         /\ Recover(tk, r).pc = "scan"
              => Kind[tk.gen] # "imported" /\ Recover(tk, r).used = tk.used
BY DEF Recover, Done, Idle, Pass

\* The same for reconcile_existing, before its lookup.
LEMMA ReconcileFacts ==
  ASSUME NEW tk \in Pass, NEW r
  PROVE  /\ ReconcileExisting(tk, r).gen = tk.gen
         /\ ReconcileExisting(tk, r).pc \in {"done", "lookup", "scan"}
         /\ ReconcileExisting(tk, r).pc = "scan" => Kind[tk.gen] # "imported"
         /\ ReconcileExisting(tk, r).pc # "done"
              => ReconcileExisting(tk, r).used = tk.used
BY RecoverFacts DEF ReconcileExisting, Done, Idle, Pass

\* How a POST attempt starts.
LEMMA PostFacts ==
  ASSUME NEW tk \in Pass
  PROVE  /\ LET n == Post(tk, "loop", TRUE) IN
            n.gen = tk.gen /\ n.pc = "posting" /\ n.used = tk.used /\ n.amb
         /\ LET n == Post(tk, "loop", FALSE) IN
            /\ n.gen = tk.gen /\ n.pc = "posting" /\ n.used = tk.used
            /\ ~ n.amb /\ n.path = "loop"
BY DEF Post, Pass

\* What a running pass owns.
LEMMA RunningFacts ==
  ASSUME Inv, NEW t \in Task, Active(t)
  PROVE  /\ task[t] \in Pass /\ task[t].gen \in Gen /\ task[t].used \in Nat
         /\ row[task[t].gen] \in Row /\ row[task[t].gen].res \in Nat
         /\ RowSound(task[t].gen) /\ PassSound(t) /\ TLocal
         /\ Alone(t, task[t].gen)
<1>1. task[t] \in Pass /\ task[t].gen \in Gen /\ TLocal
  BY DEF Inv, TInv, TLocal
<1>2. row[task[t].gen] \in Row
  BY <1>1 DEF TLocal
<1>3. Alone(t, task[t].gen)
  BY LeaseHeld DEF Inv
<1> QED
  BY <1>1, <1>2, <1>3 DEF Inv, Pass, Row

\* A step of a running pass that ends it and keeps its row.
LEMMA EndsPass ==
  ASSUME Inv, TInv', NEW t \in Task, Active(t), NEW res,
         Return(t, res), UNCHANGED chain
  PROVE  Inv'
<1>1. /\ Apart(t, task[t].gen) /\ RowStep(task[t].gen)
      /\ task'[t] = Done(task[t], res)
  BY RunningFacts, StepEffect DEF Return
<1>2. task'[t].gen = task[t].gen /\ task'[t].pc = "done"
  BY <1>1, DoneFacts, SMT
<1> QED
  BY <1>1, <1>2, RunningFacts, QuietStep, DoneSound

\* How a pass waits for its next attempt.
LEMMA BackoffFacts ==
  ASSUME NEW tk \in Pass
  PROVE  /\ LET n == Backoff(tk, TRUE) IN
            /\ n.gen = tk.gen /\ n.pc = "backoff" /\ n.amb
            /\ n.used = tk.used + 1
         /\ LET n == Backoff(tk, tk.amb) IN
            /\ n.gen = tk.gen /\ n.pc = "backoff" /\ (n.amb <=> tk.amb)
            /\ n.used = tk.used + 1
<1> DEFINE k == tk.used + 1
<1>1. LET n == [tk EXCEPT !.pc = "backoff", !.path = "loop", !.amb = TRUE,
                          !.used = k] IN
      n.gen = tk.gen /\ n.pc = "backoff" /\ n.amb /\ n.used = k
  <2> HIDE DEF k
  <2> QED
    BY DEF Pass
<1>2. LET n == [tk EXCEPT !.pc = "backoff", !.path = "loop", !.amb = tk.amb,
                          !.used = k] IN
      n.gen = tk.gen /\ n.pc = "backoff" /\ (n.amb <=> tk.amb) /\ n.used = k
  <2> HIDE DEF k
  <2> QED
    BY DEF Pass
<1> QED
  BY <1>1, <1>2 DEF Backoff

\* And when it does so after an ambiguous one.
LEMMA AmbiguousNextFacts ==
  ASSUME NEW tk \in Pass, NEW r
  PROVE  LET n == AmbiguousNext(tk, r) IN
         /\ n.gen = tk.gen /\ n.pc \in {"done", "backoff"}
         /\ n.pc = "backoff" => /\ n.amb /\ n.used = tk.used + 1
                                /\ tk.used + 1 # MaxAttempts
<1>1. CASE FinalAttempt(tk) \/ tk.intr
  BY <1>1 DEF AmbiguousNext, Done, Idle
<1>2. CASE ~ (FinalAttempt(tk) \/ tk.intr)
  BY <1>2, BackoffFacts DEF AmbiguousNext, FinalAttempt
<1> QED
  BY <1>1, <1>2

\* What a pass with a POST in flight may rely on.
LEMMA PostingFacts ==
  ASSUME Inv, NEW t \in Task, task[t].pc = "posting"
  PROVE  LET tk == task[t]
             g == task[t].gen IN
         /\ Active(t) /\ Kind[g] # "imported"
         /\ tk.used < MaxAttempts /\ tk.used < row[g].res
         /\ IF FreshAttempt(tk) THEN row[g].st = "Submitting" /\ ~ MayLand(g)
            ELSE Hashless(row[g])
<1>1. PassSound(t)
  BY DEF Inv
<1> QED
  BY <1>1 DEF PassSound, Active

\* A pass that found its attempt ambiguous waits or ends.
LEMMA AmbiguousSound ==
  ASSUME Inv, NEW t \in Task, task[t].pc = "posting", NEW r,
         task'[t] = AmbiguousNext(task[t], r),
         row'[task[t].gen].res = row[task[t].gen].res
  PROVE  PassSound(t)' /\ task'[t].gen = task[t].gen
<1> DEFINE n == AmbiguousNext(task[t], r)
           g == task[t].gen
<1>1. /\ Active(t) /\ Kind[g] # "imported"
      /\ task[t].used < MaxAttempts /\ task[t].used < row[g].res
  BY PostingFacts
<1>2. task[t] \in Pass /\ task[t].used \in Nat /\ row[g].res \in Nat
  BY <1>1, RunningFacts
<1>3. /\ n.gen = g /\ n.pc \in {"done", "backoff"}
      /\ n.pc = "backoff" => /\ n.amb /\ n.used = task[t].used + 1
                             /\ task[t].used + 1 # MaxAttempts
  BY <1>2, AmbiguousNextFacts
<1>4. task'[t] = n
  OBVIOUS
<1> HIDE DEF n
<1>5. /\ task'[t].gen = g /\ task'[t].pc \in {"done", "backoff"}
      /\ task'[t].pc = "backoff" => /\ task'[t].amb
                                    /\ task'[t].used < MaxAttempts
                                    /\ task'[t].used <= row'[g].res
  BY <1>1, <1>2, <1>3, <1>4, ConstantsAssumption, LedgerAssumption, SMT
<1> QED
  BY <1>1, <1>5 DEF PassSound

\* What a row that a POST in flight has reserved can become.
LEMMA PostedRow ==
  ASSUME NEW r \in Row, r.st = "Submitting" \/ Hashless(r)
  PROVE  /\ \A d : LET n == OnPossiblyDispatched(r, d) IN
                   /\ n # Illegal /\ Hashless(n) /\ n.res = r.res
                   /\ n.st # "None" /\ n.st # "Rejected"
         /\ \A h : LET n == OnUsableCandidateHash(r, h) IN
                   /\ n # Illegal /\ n.st = "Tracking" /\ n.cand = h
                   /\ n.res = r.res
BY DEF OnPossiblyDispatched, OnUsableCandidateHash, Goto, Hashless, Row,
       Illegal, Absent

\* A step of a running pass that leaves the chain alone.
LEMMA RunningStep ==
  ASSUME Inv, TInv', NEW t \in Task, Active(t),
         Apart(t, task[t].gen), RowStep(task[t].gen),
         task'[t].gen = task[t].gen, UNCHANGED chain, PassSound(t)'
  PROVE  Inv'
<1>1. task[t].gen \in Gen /\ Alone(t, task[t].gen)
  BY RunningFacts
<1> QED
  BY <1>1, QuietStep

\* The same for the step that ends the pass.
LEMMA EndingStep ==
  ASSUME Inv, TInv', NEW t \in Task, Active(t),
         Apart(t, task[t].gen), RowStep(task[t].gen),
         task'[t].gen = task[t].gen, UNCHANGED chain, task'[t].pc = "done"
  PROVE  Inv'
<1>1. PassSound(t)'
  BY DoneSound
<1> QED
  BY <1>1, RunningStep

-----------------------------------------------------------------------------
(* What the larger steps of a pass do to the invariant.                    *)

\* Classifying a returned hash.
LEMMA AcceptSound ==
  ASSUME Inv, NEW t \in Task, task[t].pc = "posting", NEW h, AcceptHash(t, h),
         Kind[task[t].gen] = "combined" => h \in HashesOf(task[t].gen)
  PROVE  LET g == task[t].gen IN
         /\ Apart(t, g)
         /\ task'[t].gen = g
         /\ row'[g].st # "None"
         /\ Kind[g] = "combined" /\ row'[g].cand # NoHash
              => row'[g].cand \in HashesOf(g)
         /\ PassSound(t)'
<1> DEFINE tk == task[t]
           g == task[t].gen
           r == IF OwnedElsewhere(g, h)
                THEN OnPossiblyDispatched(row[g], "InvalidProtocolResponse")
                ELSE OnUsableCandidateHash(row[g], h)
           go == [tk EXCEPT !.used = tk.used + 1]
           next == IF Hashless(r) THEN AmbiguousNext(tk, r)
                   ELSE IF tk.path = "retry" THEN Done(tk, PublicResult(r))
                   ELSE ReconcileExisting(go, r)
<1>1. /\ Active(t) /\ Kind[g] # "imported"
      /\ tk.used < MaxAttempts /\ tk.used < row[g].res
      /\ row[g].st = "Submitting" \/ Hashless(row[g])
  BY PostingFacts
<1>2. /\ tk \in Pass /\ g \in Gen /\ tk.used \in Nat /\ row[g] \in Row
      /\ row[g].res \in Nat /\ TLocal
  BY <1>1, RunningFacts
<1>3. /\ r # Illegal /\ r.st # "None" /\ r.st # "Rejected" /\ r.res = row[g].res
      /\ r.cand \in {NoHash, h} /\ (~ Hashless(r) => r.st = "Tracking")
  <2>1. CASE OwnedElsewhere(g, h)
    BY <1>1, <1>2, <2>1, PostedRow DEF Hashless
  <2>2. CASE ~ OwnedElsewhere(g, h)
    BY <1>1, <1>2, <2>2, PostedRow DEF Hashless
  <2> QED
    BY <2>1, <2>2
<1>4. Apply(t, g, r, next)
  BY DEF AcceptHash
<1>5. go \in Pass /\ go.gen = g /\ go.used = tk.used + 1
  <2>1. \A k \in Nat : LET n == [tk EXCEPT !.used = k] IN
                       n \in Pass /\ n.gen = g /\ n.used = k
    BY <1>2 DEF Pass
  <2>2. tk.used + 1 \in Nat
    BY <1>2, SMT
  <2> QED
    BY <2>1, <2>2
<1> HIDE DEF r, go
<1>6. /\ Apart(t, g)
      /\ row'[g] = r /\ task'[t] = next
  <2> HIDE DEF next
  <2> QED
    BY <1>2, <1>3, <1>4, ApplyStores
<1>7. PassSound(t)' /\ task'[t].gen = g
  <2>1. CASE Hashless(r)
    <3>1. task'[t] = AmbiguousNext(tk, r) /\ row'[g].res = row[g].res
      BY <1>3, <1>6, <2>1
    <3> QED
      BY <3>1, AmbiguousSound
  <2>2. CASE ~ Hashless(r) /\ tk.path = "retry"
    <3>1. task'[t] = Done(tk, PublicResult(r))
      BY <1>6, <2>2
    <3> QED
      BY <3>1, DoneSound, DoneFacts, SMT
  <2>3. CASE ~ Hashless(r) /\ tk.path # "retry"
    <3>1. task'[t] = ReconcileExisting(go, r)
      BY <1>6, <2>3
    <3>2. /\ task'[t].gen = g /\ task'[t].pc \in {"done", "lookup", "scan"}
          /\ task'[t].pc # "done" => task'[t].used = tk.used + 1
      BY <1>5, <3>1, ReconcileFacts, SMT
    <3>3. tk.used + 1 <= row'[g].res
      <4>1. /\ tk.used \in Nat /\ row[g].res \in Nat /\ tk.used < row[g].res
            /\ row'[g].res = row[g].res
        BY <1>1, <1>2, <1>3, <1>6
      <4> QED
        BY <4>1, SMT
    <3> QED
      BY <1>1, <3>2, <3>3, LookingSound
  <2> QED
    BY <2>1, <2>2, <2>3
<1> QED
  BY <1>3, <1>6, <1>7

\* The row a POST in flight has reserved, when the chain rejects it.
LEMMA RejectedRow ==
  ASSUME NEW r \in Row, NEW d
  PROVE  /\ r.st = "Submitting" \/ Hashless(r) =>
              LET n == OnDefiniteRejection(r, d) IN
              n # Illegal /\ n.st = "Recovering" /\ n.cand = NoHash
         /\ r.st = "Submitting" =>
              LET n == OnTerminalRejection(r, d) IN
              n # Illegal /\ n.st = "Rejected" /\ n.cand = NoHash
BY DEF OnDefiniteRejection, OnTerminalRejection, Goto, Hashless, Row,
       Illegal, Absent

\* And when the attempt was never sent.
LEMMA UnsentRow ==
  ASSUME NEW r \in Row
  PROVE  /\ r.st = "Submitting" => OnDefinitelyUnsent(r) = Absent /\ Absent # Illegal
         /\ Hashless(r) => /\ OnDefinitelyUnsent(r) = r /\ r # Illegal
                           /\ OnContinueRecovery(r) = r
BY DEF OnDefinitelyUnsent, OnContinueRecovery, Hashless, Row, Illegal,
       Absent, States

\* Ending a row without a hash ends the pass.
LEMMA EndHashlessInv ==
  ASSUME Inv, TInv', NEW t \in Task, Active(t), EndHashless(t), UNCHANGED chain
  PROVE  Inv'
<1> DEFINE g == task[t].gen
           r == OnSubmittedWithoutHash(row[g], "NullifierAlreadySpent")
<1>1. task[t] \in Pass /\ g \in Gen /\ row[g] \in Row /\ TLocal
  BY RunningFacts
<1>2. r = Illegal \/ (r.st = "SubmittedWithoutHash" /\ r.cand = NoHash)
  BY <1>1 DEF OnSubmittedWithoutHash, Goto, Row
<1>3. Apply(t, g, r, Done(task[t], PublicResult(r)))
  BY DEF EndHashless
<1> HIDE DEF r
<1>4. /\ Apart(t, g) /\ RowStep(g)
      /\ \E res : task'[t] = Done(task[t], res)
  <2>1. TLocal /\ g \in Gen
    BY <1>1
  <2>2. \/ row'[g] = row[g]
        \/ r # Illegal /\ row'[g] = IF retires_combined_generation(g, r) THEN Absent ELSE r
    BY <1>3, <2>1, ApplyEffect, SMT
  <2>3. Apart(t, g) /\ \E res : task'[t] = Done(task[t], res)
    BY <1>3, <2>1, ApplyEffect, SMT
  <2>4. r # Illegal => ~ retires_combined_generation(g, r)
    BY <1>2 DEF retires_combined_generation
  <2> QED
    BY <1>2, <2>2, <2>3, <2>4 DEF RowStep
<1>5. task'[t].gen = g /\ task'[t].pc = "done"
  BY <1>4, DoneFacts, SMT
<1> QED
  BY <1>4, <1>5, EndingStep

\* Confirming writes the confirmed row or nothing, and ends the pass.
LEMMA ConfirmInv ==
  ASSUME Inv, TInv', NEW t \in Task, Active(t), NEW r, NEW pos,
         Confirm(t, task[t].gen, r, pos), UNCHANGED chain,
         r # Illegal => r.st = "Confirmed" /\ r.cand \in {NoHash, row[task[t].gen].cand}
  PROVE  Inv'
<1> DEFINE g == task[t].gen
<1>1. CASE \E res : Return(t, res)
  BY <1>1, EndsPass
<1>2. CASE ~ \E res : Return(t, res)
  <2>1. /\ Step(t, Done(task[t], "Confirmed"))
        /\ row' = [row EXCEPT ![g] = r] /\ r # Illegal
    BY <1>2 DEF Confirm
  <2>2. g \in Gen /\ TLocal
    BY RunningFacts
  <2>3. /\ Apart(t, g)
        /\ row'[g] = r /\ task'[t] = Done(task[t], "Confirmed")
    BY <2>1, <2>2 DEF TLocal, Step, Apart
  <2>4. task'[t].gen = g /\ task'[t].pc = "done"
    BY <2>3, DoneFacts, SMT
  <2>5. RowStep(g)
    BY <2>1, <2>3 DEF RowStep
  <2> QED
    BY <2>3, <2>4, <2>5, EndingStep
<1> QED
  BY <1>1, <1>2

\* The parts of a row that moves to another state.
LEMMA GotoFacts ==
  ASSUME NEW s \in Row
  PROVE  \A st, c, d : LET n == Goto(s, st, c, d) IN
                       n.st = st /\ n.cand = c /\ n.res = s.res
BY DEF Goto, Row

\* The row an inconclusive status lookup leads to.
LEMMA InconclusiveRow ==
  ASSUME NEW s \in Row, NEW n,
         \/ n = OnTrackingWindowExpired(s, "TrackingWindowExpired")
         \/ n = OnContinueRecovery(s)
         \/ n = OnCandidatePending(s)
  PROVE  \/ n = Illegal
         \/ /\ n.st \in {"Tracking", "Recovering"}
            /\ n.cand = s.cand /\ n.res = s.res
<1>1. CASE n = OnTrackingWindowExpired(s, "TrackingWindowExpired")
  BY <1>1, GotoFacts, SMT DEF OnTrackingWindowExpired
<1>2. CASE n = OnContinueRecovery(s) \/ n = OnCandidatePending(s)
  BY <1>2 DEF OnContinueRecovery, OnCandidatePending
<1> QED
  BY <1>1, <1>2

\* The row a scan that found nothing leaves.
LEMMA ContinuedRow ==
  ASSUME NEW s \in Row, OnContinueRecovery(s) # Illegal
  PROVE  OnContinueRecovery(s) = s /\ s.st = "Recovering"
BY DEF OnContinueRecovery

\* The row a candidate's failure in a block leads to.
LEMMA FailedRow ==
  ASSUME NEW s \in Row, NEW d
  PROVE  /\ LET n == OnCandidateCommittedFailure(s, d) IN
            \/ n = Illegal
            \/ n.st = "Recovering" /\ n.cand = NoHash /\ n.res = s.res
         /\ LET n == OnTerminalCandidateFailure(s, d) IN
            n = Illegal \/ (n.st = "Rejected" /\ n.cand = NoHash)
BY GotoFacts, SMT DEF OnCandidateCommittedFailure, OnTerminalCandidateFailure

\* The row a confirmation by hash leads to.
LEMMA ConfirmedRow ==
  ASSUME NEW s \in Row, NEW h, OnConfirmedByHash(s, h) # Illegal
  PROVE  LET n == OnConfirmedByHash(s, h) IN
         n.st = "Confirmed" /\ n.cand \in {NoHash, s.cand}
<1>1. s.cand = h /\ OnConfirmedByHash(s, h) = Goto(s, "Confirmed", h, "none")
  BY DEF OnConfirmedByHash
<1> QED
  BY <1>1, GotoFacts, SMT

\* And the one a confirmation by the exact tree leads to.
LEMMA MatchedRow ==
  ASSUME NEW s \in Row, OnConfirmedByTree(s) # Illegal
  PROVE  LET n == OnConfirmedByTree(s) IN
         n.st = "Confirmed" /\ n.cand \in {NoHash, s.cand}
BY GotoFacts, SMT DEF OnConfirmedByTree

\* Applying a row that does not end the generation.
LEMMA ReconcileStep ==
  ASSUME Inv, TInv', NEW t \in Task, Active(t), NEW r, NEW tk,
         Apply(t, task[t].gen, r, tk), UNCHANGED chain,
         r # Illegal =>
           /\ r.st \notin {"None", "Rejected"}
           /\ r.cand \in {NoHash, row[task[t].gen].cand}
           /\ tk.gen = task[t].gen /\ tk.pc \in {"done", "scan"}
           /\ tk.pc = "scan" => /\ Kind[task[t].gen] # "imported"
                                /\ tk.used <= r.res
  PROVE  Inv'
<1> DEFINE g == task[t].gen
<1>1. g \in Gen /\ TLocal
  BY RunningFacts
<1>2. /\ Apart(t, g)
      /\ \/ row'[g] = row[g] /\ task'[t] = Done(task[t], "Illegal")
         \/ r # Illegal /\ row'[g] = r /\ task'[t] = tk
  BY <1>1, ApplyEffect, SMT DEF retires_combined_generation
<1>3. CASE row'[g] = row[g] /\ task'[t] = Done(task[t], "Illegal")
  <2>1. task'[t].gen = g /\ task'[t].pc = "done"
    BY <1>3, DoneFacts, SMT
  <2>2. RowStep(g)
    BY <1>3 DEF RowStep
  <2> QED
    BY <1>2, <2>1, <2>2, EndingStep
<1>4. CASE r # Illegal /\ row'[g] = r /\ task'[t] = tk
  <2>1. task'[t].gen = g /\ PassSound(t)'
    BY <1>4, LookingSound
  <2>2. RowStep(g)
    BY <1>4 DEF RowStep
  <2> QED
    BY <1>2, <2>1, <2>2, RunningStep
<1> QED
  BY <1>2, <1>3, <1>4

\* A pass that stands still: nothing lands under it that could not before.
Stands(t) ==
  /\ Active(t) /\ task'[t].pc = task[t].pc
  /\ task'[t].gen = task[t].gen /\ task'[t].used = task[t].used
  /\ task'[t].amb = task[t].amb /\ task'[t].path = task[t].path
  /\ \A g \in Gen : g = task[t].gen => (MayLand(g)' => MayLand(g))

\* Every pass rests, ends or stands still.
Rests == \A t \in Task : task'[t].pc \in {"idle", "done"} \/ Stands(t)

\* What has no row cannot come to land.
NoneLands ==
  \A g \in Gen : row[g].st = "None" => (MayLand(g)' => MayLand(g))

\* A pass that stands still relies on what it relied on before.
LEMMA StandsSound ==
  ASSUME NEW t \in Task, row' = row, Stands(t), PassSound(t), task[t].gen \in Gen
  PROVE  PassSound(t)'
<1>1. MayLand(task[t].gen)' => MayLand(task[t].gen)
  BY DEF Stands, MayLand, Landed, HashesOf
<1>2. FreshAttempt(task'[t]) <=> FreshAttempt(task[t])
  BY DEF Stands, FreshAttempt
<1> QED
  BY <1>1, <1>2 DEF Stands, PassSound

\* A step that writes no row, lets nothing land that could not before, and
\* starts no pass.
LEMMA KeepStep ==
  ASSUME Inv, TInv', ChainSound', row' = row, NoneLands, Rests
  PROVE  Inv'
<1>1. \A g \in Gen : RowSound(g)'
  <2> SUFFICES ASSUME NEW g \in Gen PROVE RowSound(g)'
    OBVIOUS
  <2>1. RowSound(g) /\ (row[g].st = "None" => (MayLand(g)' => MayLand(g)))
    BY DEF Inv, NoneLands
  <2> QED
    BY <2>1 DEF RowSound, HashesOf
<1>2. \A t \in Task : PassSound(t)'
  <2> SUFFICES ASSUME NEW t \in Task PROVE PassSound(t)'
    OBVIOUS
  <2>1. CASE task'[t].pc \in {"idle", "done"}
    BY <2>1, DoneSound
  <2>2. CASE Stands(t)
    <3>1. Active(t)
      BY <2>2 DEF Stands
    <3>2. PassSound(t) /\ task[t].gen \in Gen
      BY <3>1, RunningFacts
    <3> QED
      BY <2>2, <3>2, StandsSound
  <2> QED
    BY <2>1, <2>2 DEF Rests
<1>3. OnePassPerBundle'
  BY SMT DEF Inv, OnePassPerBundle, Active, SameBundle, Rests, Stands
<1> QED
  BY <1>1, <1>2, <1>3 DEF Inv

\* What a step that starts a repeated POST attempt owes to the invariant.
LEMMA PostingSound ==
  ASSUME NEW t \in Task, task'[t].pc = "posting", Kind[task'[t].gen] # "imported",
         task'[t].used < MaxAttempts, task'[t].used < row'[task'[t].gen].res,
         ~ FreshAttempt(task'[t]), Hashless(row'[task'[t].gen])
  PROVE  PassSound(t)'
BY DEF PassSound, FreshAttempt, Hashless

\* So do the reservations between two attempts.
LEMMA RetryingInv ==
  ASSUME Inv, TInv', NEW t \in Task, Retrying(t)
  PROVE  Inv'
<1> DEFINE tk == task[t]
           g == task[t].gen
<1>1. tk.pc = "backoff" /\ UNCHANGED chain
  BY DEF Retrying, BackoffInterrupted, ReserveAmbiguousRetry, ReAdmit, ReAdmitRenewed
<1>2. Active(t)
  BY <1>1 DEF Active
<1>3. /\ tk \in Pass /\ g \in Gen /\ tk.used \in Nat /\ row[g] \in Row
      /\ row[g].res \in Nat /\ TLocal /\ RowSound(g) /\ PassSound(t)
  BY <1>2, RunningFacts
<1>4. /\ Kind[g] # "imported" /\ tk.used < MaxAttempts
      /\ IF tk.amb THEN tk.used <= row[g].res ELSE row[g] = Absent
  BY <1>1, <1>3 DEF PassSound
<1>5. CASE \E res : Return(t, res)
  BY <1>1, <1>2, <1>5, EndsPass
<1>6. CASE /\ Put(t, g, Reserved(row[g]), Post(tk, "loop", TRUE))
           /\ permits_ambiguous_retry(row[g]) /\ tk.amb
  <2> DEFINE next == Post(tk, "loop", TRUE)
  <2>1. next.gen = g /\ next.pc = "posting" /\ next.used = tk.used /\ next.amb
    BY <1>3, PostFacts
  <2>2. Put(t, g, Reserved(row[g]), next)
    BY <1>6
  <2> HIDE DEF next
  <2>3. /\ Apart(t, g)
        /\ row'[g] = Reserved(row[g]) /\ task'[t] = next
    BY <1>3, <2>2, PutEffect, SMT
  <2>4. /\ row'[g].res = row[g].res + 1 /\ row'[g].cand = row[g].cand
        /\ row'[g].st = row[g].st /\ Hashless(row[g])
    BY <1>3, <1>6, <2>3 DEF Reserved, Row, permits_ambiguous_retry
  <2>5. PassSound(t)'
    <3>1. Hashless(row'[g])
      BY <2>4 DEF Hashless
    <3>2. tk.used < row'[g].res
      <4>1. /\ tk.used \in Nat /\ row[g].res \in Nat /\ tk.used <= row[g].res
            /\ row'[g].res = row[g].res + 1
        BY <1>3, <1>4, <1>6, <2>4
      <4> QED
        BY <4>1, SMT
    <3>3. ~ FreshAttempt(task'[t])
      BY <2>1, <2>3 DEF FreshAttempt
    <3> QED
      BY <1>4, <2>1, <2>3, <3>1, <3>2, <3>3, PostingSound
  <2>6. RowStep(g)
    BY <2>4 DEF RowStep, Hashless
  <2> QED
    BY <1>1, <1>2, <2>1, <2>3, <2>5, <2>6, RunningStep
<1>7. CASE /\ Put(t, g, Fresh(tk.used + 1), Post(tk, "loop", FALSE))
           /\ row[g] = Absent
  <2> DEFINE next == Post(tk, "loop", FALSE)
             k == tk.used + 1
  <2>1. /\ next.gen = g /\ next.pc = "posting" /\ next.used = tk.used
        /\ ~ next.amb /\ next.path = "loop"
    BY <1>3, PostFacts
  <2>2. Put(t, g, Fresh(k), next)
    BY <1>7
  <2>3. tk.used < k
    BY <1>3, SMT
  <2> HIDE DEF next, k
  <2>4. /\ Apart(t, g)
        /\ row'[g] = Fresh(k) /\ task'[t] = next
    BY <1>3, <2>2, PutEffect, SMT
  <2>5. row'[g].st = "Submitting" /\ row'[g].cand = NoHash /\ row'[g].res = k
    BY <2>4 DEF Fresh, Absent
  <2>6. ~ MayLand(g)
    <3>1. row[g].st = "None"
      <4>1. Absent.st = "None"
        BY DEF Absent
      <4> QED
        BY <1>7, <4>1
    <3> QED
      BY <1>3, <1>4, <3>1 DEF RowSound
  <2>7. PassSound(t)'
    <3>1. ~ MayLand(task[t].gen)'
      BY <1>1, <2>1, <2>4, <2>6 DEF MayLand, Landed, HashesOf, chain
    <3> QED
      BY <1>4, <2>1, <2>3, <2>4, <2>5, <3>1 DEF PassSound, FreshAttempt
  <2>8. RowStep(g)
    BY <2>5 DEF RowStep
  <2> QED
    BY <1>1, <1>2, <2>1, <2>4, <2>7, <2>8, RunningStep
<1>8. CASE ReAdmitRenewed(t)
  <2>1. PICK g2 \in Renewed(g) :
          \/ Return(t, "Err")
          \/ row[g2] = Absent /\ Put(t, g2, Fresh(tk.used + 1), Done(tk, "Err"))
    BY <1>8 DEF ReAdmitRenewed
  <2>2. g2 \in Gen /\ SameBundle(g, g2)
    BY <1>3, SameVoteFacts DEF Renewed
  <2>3. CASE Put(t, g2, Fresh(tk.used + 1), Done(tk, "Err"))
    <3> DEFINE next == Done(tk, "Err")
               k == tk.used + 1
    <3>1. next.gen = g /\ next.pc = "done"
      BY DoneFacts
    <3>2. Put(t, g2, Fresh(k), next)
      BY <2>3
    <3> HIDE DEF next, k
    <3>3. Apart(t, g2) /\ row'[g2] = Fresh(k) /\ task'[t] = next
      BY <1>3, <2>2, <3>2, PutEffect
    <3>4. RowStep(g2)
      BY <3>3 DEF RowStep, Fresh, Absent
    <3>5. task'[t].gen = g /\ task'[t].pc = "done"
      BY <3>3, <3>1
    <3>6. PassSound(t)'
      BY <3>5, DoneSound
    <3>7. Alone(t, g2) /\ Bundle[task'[t].gen] = Bundle[g2]
      BY <1>2, <2>2, <3>5, RunningFacts DEF Alone, SameBundle
    <3> QED
      BY <1>1, <2>2, <3>3, <3>4, <3>6, <3>7, QuietStep
  <2> QED
    BY <1>5, <2>1, <2>3
<1> QED
  BY <1>5, <1>6, <1>7, <1>8
     DEF Retrying, BackoffInterrupted, ReserveAmbiguousRetry, ReAdmit

-----------------------------------------------------------------------------
(* Where rows disappear: the outcomes of a POST attempt.                   *)

\* Every outcome of a POST attempt preserves the invariant: a row is removed
\* only when no copy of its generation can be out.
LEMMA PostingInv ==
  ASSUME Inv, TInv', NEW t \in Task, Posting(t)
  PROVE  Inv'
<1> DEFINE tk == task[t]
           g == task[t].gen
<1>1. tk.pc = "posting"
  BY DEF Posting, PostAccepted, PostMisreported, PostRejected,
         PostNullifierSpent, PostAmbiguous, PostUnsent, PostLocalFailure,
         PostInterrupted
<1>2. /\ Active(t) /\ Kind[g] # "imported"
      /\ tk.used < MaxAttempts /\ tk.used < row[g].res
      /\ IF FreshAttempt(tk) THEN row[g].st = "Submitting" /\ ~ MayLand(g)
         ELSE Hashless(row[g])
  BY <1>1, PostingFacts
<1>3. /\ tk \in Pass /\ g \in Gen /\ tk.used \in Nat /\ row[g] \in Row
      /\ row[g].res \in Nat /\ TLocal
      /\ Alone(t, g)
      /\ row[g].st = "Submitting" \/ Hashless(row[g])
  BY <1>2, RunningFacts
<1>4. ChainSound
  BY DEF Inv
<1>a. CASE PostAccepted(t)
  <2> PICK h \in HashesOf(g) : committed[h] = "no" /\ AcceptHash(t, h)
                               /\ pool' = pool \cup {h}
    BY <1>a DEF PostAccepted
  <2>1. /\ Apart(t, g)
        /\ task'[t].gen = g /\ row'[g].st # "None"
        /\ Kind[g] = "combined" /\ row'[g].cand # NoHash
             => row'[g].cand \in HashesOf(g)
        /\ PassSound(t)'
    BY <1>1, AcceptSound
  <2>2. ChainStep(g)
    BY <1>a, <1>4 DEF ChainStep, PostAccepted, ChainSound
  <2>3. \A x \in Gen : x = g => RowSound(x)'
    BY <2>1 DEF RowSound, HashesOf
  <2> HIDE DEF g
  <2> QED
    BY <1>3, <2>1, <2>2, <2>3, PassStep
<1>b. CASE PostMisreported(t)
  <2> PICK h \in Hash : <<g, h>> \in Misreports /\ AcceptHash(t, h)
    BY <1>b DEF PostMisreported
  <2>1. Kind[g] # "combined"
    BY EndpointAssumption
  <2>2. /\ Apart(t, g)
        /\ task'[t].gen = g /\ row'[g].st # "None"
        /\ PassSound(t)'
    BY <1>1, <2>1, AcceptSound
  <2>3. ChainStep(g)
    BY <1>b, <1>4 DEF ChainStep, PostMisreported, ChainSound
  <2>4. \A x \in Gen : x = g => RowSound(x)'
    BY <2>1, <2>2 DEF RowSound, HashesOf
  <2> HIDE DEF g
  <2> QED
    BY <1>3, <2>2, <2>3, <2>4, PassStep
<1>c. ASSUME NEW code2 \in BOOLEAN, PostRejected(t, code2)
      PROVE  Inv'
  <2> DEFINE r == IF TerminalRejected(tk, code2)
                  THEN OnTerminalRejection(row[g], "ChainRejected")
                  ELSE OnDefiniteRejection(row[g], "ChainRejected")
  <2>1. PICK res : Apply(t, g, r, Done(tk, res))
    BY <1>c DEF PostRejected
  <2>2. /\ r # Illegal /\ r.cand = NoHash /\ r.st # "None"
        /\ r.st = "Rejected" => FreshAttempt(tk)
    <3>1. CASE TerminalRejected(tk, code2)
      BY <1>2, <1>3, <3>1, RejectedRow DEF TerminalRejected
    <3>2. CASE ~ TerminalRejected(tk, code2)
      BY <1>3, <3>2, RejectedRow
    <3> QED
      BY <3>1, <3>2
  <2>3. UNCHANGED chain
    BY <1>c DEF PostRejected
  <2> HIDE DEF r
  <2>4. /\ Apart(t, g) /\ task'[t] = Done(tk, res)
        /\ row'[g] = IF retires_combined_generation(g, r) THEN Absent ELSE r
    <3>1. TLocal /\ g \in Gen /\ r # Illegal
      BY <1>3, <2>2
    <3> QED
      BY <2>1, <3>1, ApplyEffect, SMT
  <2>5. retires_combined_generation(g, r) => ~ MayLand(g)
    BY <1>2, <2>2 DEF retires_combined_generation
  <2>6. RowStep(g)
    BY <2>2, <2>4, <2>5 DEF RowStep
  <2>7. task'[t].gen = g /\ task'[t].pc = "done"
    BY <2>4, DoneFacts, SMT
  <2> QED
    BY <1>2, <2>3, <2>4, <2>6, <2>7, EndingStep
<1>d. CASE PostNullifierSpent(t)
  <2>1. CASE task[t].mode = "StatusOnly"
    BY <1>2, <1>d, <2>1, EndHashlessInv DEF PostNullifierSpent
  <2>2. CASE task[t].mode # "StatusOnly"
    <3> DEFINE next == [task[t] EXCEPT !.pc = "settle"]
    <3>1. next.pc = "settle" /\ next.gen = g /\ next.used = tk.used
      BY <1>3 DEF Pass
    <3>2. Step(t, next) /\ UNCHANGED <<durable, chain>>
      BY <1>d, <2>2 DEF PostNullifierSpent
    <3> HIDE DEF next
    <3>3. /\ Apart(t, g) /\ RowStep(g)
          /\ row' = row /\ task'[t] = next
      BY <1>3, <3>2, StepEffect
    <3>4. PassSound(t)'
      <4>1. tk.used \in Nat /\ row[g].res \in Nat /\ tk.used < row[g].res
        BY <1>2, <1>3
      <4>2. tk.used <= row[g].res
        BY <4>1, SMT
      <4>3. /\ task'[t].pc = "settle" /\ task'[t].gen = g
            /\ task'[t].used <= row'[task'[t].gen].res
        BY <3>1, <3>3, <4>2
      <4> QED
        BY <1>2, <4>3 DEF PassSound
    <3> QED
      BY <1>2, <3>1, <3>2, <3>3, <3>4, RunningStep
  <2> QED
    BY <2>1, <2>2
<1>e. ASSUME NEW d \in Ambiguities, PostAmbiguous(t, d)
      PROVE  Inv'
  <2> DEFINE r == OnPossiblyDispatched(row[g], d)
             next == AmbiguousNext(tk, r)
  <2>1. r # Illegal /\ Hashless(r) /\ r.res = row[g].res /\ r.st = "Recovering"
    BY <1>3, PostedRow DEF Hashless
  <2>2. Apply(t, g, r, next)
    BY <1>e DEF PostAmbiguous
  <2>3. ChainStep(g)
    BY <1>e, <1>4 DEF ChainStep, PostAmbiguous, ChainSound
  <2> HIDE DEF r
  <2>4. /\ Apart(t, g)
        /\ row'[g] = r /\ task'[t] = next
    <3> HIDE DEF next
    <3> QED
      <4>1. TLocal /\ g \in Gen /\ r # Illegal /\ r.st # "Rejected"
        BY <1>3, <2>1
      <4> QED
        BY <2>2, <4>1, ApplyStores, SMT
  <2>5. PassSound(t)' /\ task'[t].gen = g
    BY <1>1, <2>1, <2>4, AmbiguousSound
  <2>6. \A x \in Gen : x = g => RowSound(x)'
    BY <2>1, <2>4 DEF RowSound, HashesOf, Hashless
  <2> HIDE DEF g, next
  <2> QED
    BY <1>3, <2>3, <2>4, <2>5, <2>6, PassStep
<1>f. CASE PostUnsent(t)
  <2> DEFINE r == OnDefinitelyUnsent(row[g])
             next == IF tk.path = "retry" \/ FinalAttempt(tk)
                     THEN Done(tk, "Err") ELSE Backoff(tk, tk.amb)
  <2>1. Apply(t, g, r, next) /\ UNCHANGED chain
    BY <1>f DEF PostUnsent
  <2>2. /\ r # Illegal /\ r.st # "Rejected"
        /\ IF FreshAttempt(tk) THEN r = Absent /\ ~ MayLand(g) ELSE r = row[g]
    <3>1. CASE FreshAttempt(tk)
      <4>1. r = Absent /\ r # Illegal /\ ~ MayLand(g)
        BY <1>2, <1>3, <3>1, UnsentRow
      <4>2. Absent.st # "Rejected"
        BY DEF Absent
      <4> QED
        BY <3>1, <4>1, <4>2
    <3>2. CASE ~ FreshAttempt(tk)
      <4>1. Hashless(row[g])
        BY <1>2, <3>2
      <4>2. r = row[g] /\ r # Illegal
        BY <1>3, <4>1, UnsentRow
      <4> QED
        BY <3>2, <4>1, <4>2 DEF Hashless
    <3> QED
      BY <3>1, <3>2
  <2>3. /\ next.gen = g /\ next.pc \in {"done", "backoff"}
        /\ next.pc = "backoff" => /\ FreshAttempt(tk) <=> ~ next.amb
                                  /\ next.used = tk.used + 1
                                  /\ tk.used + 1 # MaxAttempts
    <3>1. CASE tk.path = "retry" \/ FinalAttempt(tk)
      BY <3>1, DoneFacts
    <3>2. CASE ~ (tk.path = "retry" \/ FinalAttempt(tk))
      <4>1. tk.path = "loop"
        BY <1>3, <3>2 DEF Pass
      <4> QED
        BY <1>3, <3>2, <4>1, BackoffFacts DEF FinalAttempt, FreshAttempt
    <3> QED
      BY <3>1, <3>2
  <2> HIDE DEF r, next
  <2>4. /\ Apart(t, g)
        /\ row'[g] = r /\ task'[t] = next
    BY <1>3, <2>1, <2>2, ApplyStores
  <2>5. PassSound(t)'
    <3>1. /\ task'[t].gen = g /\ task'[t].pc \in {"done", "backoff"}
          /\ task'[t].pc = "backoff" =>
               /\ task'[t].used < MaxAttempts
               /\ IF task'[t].amb THEN task'[t].used <= row'[g].res
                  ELSE row'[g] = Absent
      <4>1. CASE next.pc = "done"
        BY <2>3, <2>4, <4>1
      <4>2. CASE next.pc = "backoff"
        <5>1. next.used < MaxAttempts /\ next.used <= row[g].res
          <6>1. /\ tk.used \in Nat /\ row[g].res \in Nat /\ MaxAttempts \in Nat
                /\ tk.used < MaxAttempts /\ tk.used < row[g].res
                /\ next.used = tk.used + 1 /\ tk.used + 1 # MaxAttempts
            BY <1>2, <1>3, <2>3, <4>2, ConstantsAssumption
          <6> QED
            BY <6>1, SMT
        <5>2. IF next.amb THEN r = row[g] ELSE r = Absent
          BY <2>2, <2>3, <4>2
        <5> QED
          BY <2>3, <2>4, <4>2, <5>1, <5>2
      <4> QED
        BY <2>3, <4>1, <4>2
    <3> QED
      BY <1>2, <3>1 DEF PassSound
  <2>6. RowStep(g)
    BY <2>2, <2>4 DEF RowStep
  <2>7. task'[t].gen = g
    BY <2>3, <2>4
  <2> QED
    BY <1>2, <2>1, <2>4, <2>5, <2>6, <2>7, RunningStep
<1>g. CASE PostLocalFailure(t) \/ PostInterrupted(t)
  <2>1. UNCHANGED chain
    BY <1>g DEF PostLocalFailure, PostInterrupted
  <2>2. CASE FreshAttempt(tk)
    <3>1. PICK res : Put(t, g, Absent, Done(tk, res))
      BY <1>g, <2>2 DEF PostLocalFailure, PostInterrupted
    <3>2. /\ Apart(t, g)
          /\ row'[g] = Absent /\ task'[t] = Done(tk, res)
      BY <1>3, <3>1, PutEffect
    <3>3. task'[t].gen = g /\ task'[t].pc = "done"
      BY <3>2, DoneFacts, SMT
    <3>4. RowStep(g)
      BY <1>2, <2>2, <3>2 DEF RowStep
    <3> QED
      BY <1>2, <2>1, <3>2, <3>3, <3>4, EndingStep
  <2>3. CASE ~ FreshAttempt(tk) /\ PostLocalFailure(t)
    <3>1. Apply(t, g, row[g], Done(tk, "Err")) /\ row[g] # Illegal
          /\ row[g].st = "Recovering"
      BY <1>2, <1>3, <2>3, UnsentRow DEF PostLocalFailure, Hashless
    <3>2. /\ Apart(t, g)
          /\ row'[g] = row[g] /\ task'[t] = Done(tk, "Err")
      <4>1. TLocal /\ g \in Gen
        BY <1>3
      <4>2. row[g] # Illegal /\ row[g].st # "Rejected"
        BY <3>1
      <4> QED
        BY <3>1, <4>1, <4>2, ApplyStores, SMT
    <3>3. task'[t].gen = g /\ task'[t].pc = "done"
      BY <3>2, DoneFacts, SMT
    <3>4. RowStep(g)
      BY <3>2 DEF RowStep
    <3> QED
      BY <1>2, <2>1, <3>2, <3>3, <3>4, EndingStep
  <2>4. CASE ~ FreshAttempt(tk) /\ PostInterrupted(t)
    BY <1>2, <2>1, <2>4, EndsPass DEF PostInterrupted
  <2> QED
    BY <1>g, <2>2, <2>3, <2>4
<1> QED
  BY <1>a, <1>b, <1>c, <1>d, <1>e, <1>f, <1>g DEF Posting

=============================================================================
