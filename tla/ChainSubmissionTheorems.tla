---------------------- MODULE ChainSubmissionTheorems -----------------------
(***************************************************************************)
(* What every behaviour of ChainSubmission keeps, for every number of      *)
(* generations, bundles, hashes and passes, and that it implements the     *)
(* ledger.                                                                 *)
(*                                                                         *)
(* The invariant has three parts that need one another: Inv (passes and    *)
(* their leases), LedgerInv (rows, signed material and the chain) and Ready*)
(* (what a pass still relies on after an await).  The last two are kept    *)
(* because each step is a step of the ledger.                              *)
(*                                                                         *)
(* The refinement mapping is the identity on the ledger's variables, but   *)
(* no step is correct in every state: a pass acts on what it knew before   *)
(* its await, and the ledger's own invariant is needed to see that code 2  *)
(* after a dispatch speaks of the row's own copy and that a matching event *)
(* belongs to the row's hash.                                              *)
(*                                                                         *)
(* Inv alone gives that rows are removed only when nothing can land        *)
(* (NeverForgotten), and that POSTs go out only under a reservation of     *)
(* their own (ReservedBeforePost).                                         *)
(***************************************************************************)
EXTENDS ChainSubmissionInvariant

USE Zenon

-----------------------------------------------------------------------------
(* What a pass claims, the shapes its steps have, and its steps up to the  *)
(* answer to its POST, as steps of the ledger.                             *)

\* What a pass at tk may rely on, when its row is r.
Claims(tk, r) ==
  /\ tk.pc = "lookup" => r.st \in {"Tracking", "Recovering"} /\ r.cand # NoHash
  /\ tk.pc \in {"scan", "settle"} => r.st = "Recovering"
  /\ tk.pc = "settle" => Landed(tk.gen)
  /\ tk.pc \notin {"idle", "done"} => tk.result = "none"
  /\ tk.result # "Illegal"

Ready(t) == Claims(task[t], row[task[t].gen])

\* What is true of a pass that has just gone to tk and written r: beyond that,
\* "cancelled" means that nothing is stored.
Tells(tk, r) == Claims(tk, r) /\ (tk.result = "Cancelled" => r = Absent)

\* If r replaces the row of g by a step of pass t, it is not its candidate that
\* is lost, or it is lost for a cause.
Keeps(t, g, r) ==
  \/ row[g].cand \in {NoHash, r.cand}
  \/ r.st \in {"Confirmed", "SubmittedWithoutHash"}
  \/ committed[row[g].cand] = "failed"
  \/ task[t].gen = g /\ task[t].pc = "authorized"

\* That is how a step leaves pass t.
Told(t) ==
  Ready(t)' /\ (task'[t].result = "Cancelled" => row'[task'[t].gen] = Absent)

\* The step of pass t is a step of the ledger, and leaves t ready.
Mapped(t) ==
  /\ \E g \in Gen : Apart(t, g) /\ Alone(t, g) /\ Keeps(t, g, row'[g])
  /\ UNCHANGED leaf /\ Told(t)
  /\ [LedgerNext]_ledger

\* The chain's blocks, apart from its mempool.
blocks == <<committed, leaf, size>>

-----------------------------------------------------------------------------
(* What passes claim.                                                      *)

\* What an existing row says of itself is a result callers know.
LEMMA PublicLegal ==
  ASSUME NEW r \in Row
  PROVE  PublicResult(r) \notin {"Illegal", "Cancelled"}
BY DEF PublicResult, Row, States

\* A pass that ends claims nothing of its row.
LEMMA DoneClaims ==
  ASSUME NEW tk, NEW res, res \notin {"Illegal", "Cancelled"}, NEW r
  PROVE  Tells(Done(tk, res), r)
<1>1. Done(tk, res).pc = "done" /\ Done(tk, res).result = res
  BY DEF Done, Idle
<1> HIDE DEF Done
<1> QED
  BY <1>1 DEF Claims, Tells

\* A pass that is cancelled with nothing stored.
LEMMA CancelledClaims ==
  ASSUME NEW tk
  PROVE  Tells(Done(tk, "Cancelled"), Absent)
<1>1. Done(tk, "Cancelled").pc = "done" /\ Done(tk, "Cancelled").result = "Cancelled"
  BY DEF Done, Idle
<1> HIDE DEF Done
<1> QED
  BY <1>1 DEF Claims, Tells

\* A row without a candidate loses none.
LEMMA CandidateFacts ==
  ASSUME LedgerInv, NEW t, NEW g \in Gen,
         row[g].st \in {"None", "Submitting"} \/ Hashless(row[g])
  PROVE  \A r : Keeps(t, g, r)
BY DEF LedgerInv, RowTrue, Hashless, Keeps

\* A pass that goes on to its lookup or its scan has the row for it.
LEMMA ReconcileClaims ==
  ASSUME NEW tk \in Pass, tk.result = "none", NEW r \in Row
  PROVE  Tells(Recover(tk, r), r) /\ Tells(ReconcileExisting(tk, r), r)
<1>1. Tells(Done(tk, PublicResult(r)), r)
  BY PublicLegal, DoneClaims
<1> DEFINE scan == [tk EXCEPT !.pc = "scan"]
           look == [tk EXCEPT !.pc = "lookup"]
<1>2. /\ scan.pc = "scan" /\ scan.result = tk.result
      /\ look.pc = "lookup" /\ look.result = tk.result
  BY DEF Pass
<1> HIDE DEF scan, look
<1>3. r.st = "Recovering" => Tells(scan, r)
  BY <1>2 DEF Claims, Tells
<1>4. r.st \in {"Tracking", "Recovering"} /\ r.cand # NoHash => Tells(look, r)
  BY <1>2 DEF Claims, Tells
<1>5. Tells(Recover(tk, r), r)
  BY <1>1, <1>3 DEF Recover, scan
<1> QED
  BY <1>1, <1>4, <1>5 DEF ReconcileExisting, look

\* A pass with a POST in flight or in a backoff claims nothing here.
LEMMA PostClaims ==
  ASSUME NEW tk \in Pass, tk.result = "none", NEW r
  PROVE  /\ \A path, amb : Tells(Post(tk, path, amb), r)
         /\ \A amb : Tells(Backoff(tk, amb), r)
<1>1. \A path, amb : Post(tk, path, amb).pc = "posting"
                     /\ Post(tk, path, amb).result = tk.result
  BY DEF Post, Pass
<1>2. \A amb : Backoff(tk, amb).pc = "backoff" /\ Backoff(tk, amb).result = tk.result
  <2> DEFINE k == tk.used + 1
  <2>1. \A amb : LET n == [tk EXCEPT !.pc = "backoff", !.path = "loop", !.amb = amb,
                                     !.used = k] IN
                 n.pc = "backoff" /\ n.result = tk.result
    <3> HIDE DEF k
    <3> QED
      BY DEF Pass
  <2> QED
    BY <2>1 DEF Backoff
<1> HIDE DEF Post, Backoff
<1> QED
  BY <1>1, <1>2 DEF Claims, Tells

\* Nor does one whose POST was ambiguous.
LEMMA AmbiguousClaims ==
  ASSUME NEW tk \in Pass, tk.result = "none", NEW r \in Row
  PROVE  Tells(AmbiguousNext(tk, r), r)
BY PublicLegal, DoneClaims, PostClaims DEF AmbiguousNext

-----------------------------------------------------------------------------
(* The shapes of a pass's steps.                                           *)

\* The row of g is written and nothing else of the ledger.
RowOnly(g, r) ==
  /\ Writes(g) /\ UNCHANGED <<material, van>> /\ row'[g] = r

\* A step of the ledger made of what one row does.
LEMMA RowMaps ==
  ASSUME NEW g \in Gen, RowNext(g)
  PROVE  [LedgerNext]_ledger
BY DEF LedgerNext

\* Where the pass is now, it is ready, if that is what it claims.
LEMMA ReadyNow ==
  ASSUME NEW t \in Task, NEW tk, NEW r, task'[t] = tk, row'[tk.gen] = r,
         Tells(tk, r), UNCHANGED leaf
  PROVE  Told(t)
BY DEF Told, Ready, Claims, Tells, Landed

\* Steps that write nothing.
LEMMA StayMaps ==
  ASSUME TLocal, NEW t \in Task, NEW g \in Gen, Alone(t, g), NEW tk,
         Step(t, tk), UNCHANGED durable, UNCHANGED blocks,
         Tells(tk, row[tk.gen])
  PROVE  Mapped(t)
<1>1. Apart(t, g) /\ row' = row /\ task'[t] = tk
  BY StepEffect
<1>2. UNCHANGED ledger /\ UNCHANGED leaf /\ Keeps(t, g, row'[g])
  BY <1>1 DEF durable, blocks, ledger, Keeps
<1>3. Told(t)
  BY <1>1, <1>2, ReadyNow
<1> QED
  BY <1>1, <1>2, <1>3 DEF Mapped

\* Passes that end without writing.
LEMMA ReturnMaps ==
  ASSUME Inv, NEW t \in Task, Active(t), NEW res, res \notin {"Illegal", "Cancelled"},
         Return(t, res), UNCHANGED blocks
  PROVE  Mapped(t)
BY RunningFacts, DoneClaims, StayMaps DEF Return

\* Steps that write a row without an observation.
LEMMA PutMaps ==
  ASSUME TLocal, TLocal', NEW t \in Task, NEW g \in Gen, Alone(t, g), NEW tk, NEW r,
         Put(t, g, r, tk), UNCHANGED blocks, tk.gen = g, Tells(tk, r),
         Keeps(t, g, r)
  PROVE  RowOnly(g, r) /\ ([LedgerNext]_ledger => Mapped(t))
<1>1. Apart(t, g) /\ row'[g] = r /\ task'[t] = tk
  BY PutEffect, SMT
<1>2. /\ UNCHANGED <<material, spends, van, committed, leaf, size>>
      /\ row' \in [Gen -> Row]
  BY DEF Put, blocks, TLocal
<1>3. Told(t)
  BY <1>1, <1>2, ReadyNow
<1> QED
  BY <1>1, <1>2, <1>3 DEF Mapped, RowOnly, Writes, Apart

\* Steps that apply an observation.
LEMMA ApplyMaps ==
  ASSUME TLocal, TLocal', NEW t \in Task, NEW g \in Gen, Alone(t, g), NEW tk, NEW r,
         Apply(t, g, r, tk), r # Illegal, r.st # "Rejected",
         UNCHANGED blocks, tk.gen = g, Tells(tk, r),
         Keeps(t, g, r)
  PROVE  RowOnly(g, r) /\ ([LedgerNext]_ledger => Mapped(t))
<1>1. ~ retires_combined_generation(g, r)
  BY DEF retires_combined_generation
<1>2. Apart(t, g) /\ row'[g] = r /\ task'[t] = tk
  BY ApplyStores, SMT
<1>3. /\ UNCHANGED <<material, spends, van, committed, leaf, size>>
      /\ row' \in [Gen -> Row]
  BY <1>1 DEF Apply, blocks, TLocal
<1>4. Told(t)
  BY <1>2, <1>3, ReadyNow
<1> QED
  BY <1>2, <1>3, <1>4 DEF Mapped, RowOnly, Writes, Apart

\* The observation that rejects a generation: the row is kept, unless it was a
\* combined batch.
LEMMA RejectMaps ==
  ASSUME Inv, TInv', NEW t \in Task, Active(t), NEW r, NEW res,
         Apply(t, task[t].gen, r, Done(task[t], res)), UNCHANGED blocks,
         r # Illegal, r.st = "Rejected", r.cand = NoHash,
         res \notin {"Illegal", "Cancelled"}, Keeps(t, task[t].gen, r),
         Unsettled(task[t].gen),
         \/ Kind[task[t].gen] = "combined" /\ ~ Landed(task[t].gen)
         \/ /\ Kind[task[t].gen] = "imported"
            /\ \A h \in HashesOf(task[t].gen) : committed[h] = "failed"
  PROVE  Mapped(t)
<1> DEFINE g == task[t].gen
           tk == Done(task[t], res)
<1>1. /\ g \in Gen /\ TLocal /\ TLocal' /\ Alone(t, g)
      /\ tk.gen = g /\ tk.pc = "done" /\ tk.result = res
  BY RunningFacts DEF TInv, Done, Idle
<1> HIDE DEF tk
<1>2. /\ Apart(t, g) /\ task'[t] = tk
      /\ row'[g] = IF Kind[g] = "combined" THEN Absent ELSE r
  BY <1>1, ApplyEffect, SMT DEF retires_combined_generation, tk
<1>3. /\ UNCHANGED <<spends, van, committed, leaf, size>>
      /\ row' \in [Gen -> Row]
      /\ material' = IF Kind[g] = "combined" THEN [material EXCEPT ![g] = "retired"]
                     ELSE material
  BY <1>1 DEF Apply, retires_combined_generation, blocks, TLocal
<1>4. Writes(g)
  BY <1>2, <1>3 DEF Writes, Apart
<1>5. RetireRow(g) \/ RejectRow(g)
  BY <1>2, <1>3, <1>4, SMT DEF RetireRow, RejectRow
<1>6. Told(t) /\ Keeps(t, g, row'[g])
  BY <1>1, <1>2 DEF Told, Ready, Claims, Keeps, Absent
<1> QED
  BY <1>1, <1>2, <1>3, <1>5, <1>6, RowMaps DEF Mapped, RowNext

\* A row that is tracked or recovered.
LEMMA MoveMaps ==
  ASSUME NEW g \in Gen, NEW r, RowOnly(g, r), Unsettled(g),
         r.st \in {"Tracking", "Recovering"},
         \/ r.cand \in {NoHash, row[g].cand}
         \/ Answers(g, r.cand) /\ ~ OwnedElsewhere(g, r.cand)
  PROVE  [LedgerNext]_ledger
<1>1. MoveRow(g)
  BY DEF RowOnly, MoveRow
<1> QED
  BY <1>1, RowMaps DEF RowNext

\* A reservation that is withdrawn.
LEMMA WithdrawMaps ==
  ASSUME NEW g \in Gen, RowOnly(g, Absent), row[g].st = "Submitting", ~ Landed(g)
  PROVE  [LedgerNext]_ledger
<1>1. WithdrawRow(g)
  BY DEF RowOnly, WithdrawRow
<1> QED
  BY <1>1, RowMaps DEF RowNext

\* Ending a row without a hash, when its nullifier is spent.
LEMMA EndHashlessMaps ==
  ASSUME Inv, TInv', LedgerInv, NEW t \in Task, Active(t), EndHashless(t),
         UNCHANGED blocks, row[task[t].gen].st = "Recovering", Spent(task[t].gen)
  PROVE  Mapped(t)
<1> DEFINE g == task[t].gen
           r == OnSubmittedWithoutHash(row[g], "NullifierAlreadySpent")
<1>1. g \in Gen /\ row[g] \in Row /\ TLocal /\ TLocal' /\ Alone(t, g)
  BY RunningFacts DEF TInv
<1>2. r.st = "SubmittedWithoutHash" /\ r.cand = NoHash /\ r # Illegal
      /\ PublicResult(r) \notin {"Illegal", "Cancelled"}
  BY <1>1 DEF OnSubmittedWithoutHash, Goto, Row, Illegal, Absent, PublicResult
<1>3. Apply(t, g, r, Done(task[t], PublicResult(r)))
  BY DEF EndHashless
<1>4. Done(task[t], PublicResult(r)).gen = g /\ Tells(Done(task[t], PublicResult(r)), r)
  BY <1>2, DoneFacts, DoneClaims
<1> HIDE DEF r
<1>5. RowOnly(g, r) /\ ([LedgerNext]_ledger => Mapped(t))
  BY <1>1, <1>2, <1>3, <1>4, ApplyMaps DEF Keeps
<1>6. SettleRow(g)
  BY <1>2, <1>5 DEF RowOnly, SettleRow, Unsettled
<1> QED
  BY <1>1, <1>5, <1>6, RowMaps DEF RowNext

\* Confirming at the position of the generation's own leaf, or not at all.
LEMMA ConfirmMaps ==
  ASSUME Inv, TInv', NEW t \in Task, Active(t), NEW r, NEW pos,
         Confirm(t, task[t].gen, r, pos), UNCHANGED blocks,
         Unsettled(task[t].gen),
         r # Illegal, r.st = "Confirmed", r.cand \in {NoHash, row[task[t].gen].cand},
         ~ task[t].intr => Landed(task[t].gen) /\ pos = leaf[task[t].gen]
  PROVE  Mapped(t)
<1> DEFINE g == task[t].gen
           b == Bundle[g]
<1>1. g \in Gen /\ row[g] \in Row /\ TLocal /\ TLocal' /\ Alone(t, g)
  BY RunningFacts DEF TInv
<1>2. \A res : Return(t, res) /\ res \notin {"Illegal", "Cancelled"} => Mapped(t)
  BY ReturnMaps
<1>3. PublicResult(row[g]) \notin {"Illegal", "Cancelled"}
  BY <1>1, PublicLegal
<1>4. \/ Return(t, "Err") \/ Return(t, PublicResult(row[g]))
      \/ /\ Derivable(g) /\ ~ task[t].intr /\ ~ VanConflict(g, pos)
         /\ Step(t, Done(task[t], "Confirmed"))
         /\ row' = [row EXCEPT ![g] = r]
         /\ van' = [van EXCEPT ![b] = NewVan(g, pos)]
         /\ UNCHANGED <<material, spends>>
  BY DEF Confirm
<1>5. CASE /\ Derivable(g) /\ ~ task[t].intr /\ ~ VanConflict(g, pos)
           /\ Step(t, Done(task[t], "Confirmed"))
           /\ row' = [row EXCEPT ![g] = r]
           /\ van' = [van EXCEPT ![b] = NewVan(g, pos)]
           /\ UNCHANGED <<material, spends>>
  <2>1. Landed(g) /\ pos = leaf[g]
    BY <1>5
  <2>2. /\ row'[g] = r /\ (\A g2 \in Gen \ {g} : row'[g2] = row[g2])
        /\ task'[t] = Done(task[t], "Confirmed")
        /\ Apart(t, g) /\ row' \in [Gen -> Row]
    BY <1>1, <1>5 DEF TLocal, Step, Apart
  <2>3. UNCHANGED leaf /\ UNCHANGED committed /\ UNCHANGED size
    BY DEF blocks
  <2>4. Writes(g)
    BY <1>5, <2>2, <2>3 DEF Writes
  <2>5. ConfirmRow(g)
    BY <1>5, <2>1, <2>2, <2>4 DEF ConfirmRow
  <2>6. Told(t) /\ Keeps(t, g, row'[g])
    BY <2>2, <2>3, DoneFacts, DoneClaims, ReadyNow, SMT DEF Keeps
  <2> QED
    BY <1>1, <2>2, <2>3, <2>5, <2>6, RowMaps DEF Mapped, RowNext
<1> QED
  BY <1>2, <1>3, <1>4, <1>5

-----------------------------------------------------------------------------
(* The steps of a pass.                                                    *)

\* A pass starts.
LEMMA AdmissionMaps ==
  ASSUME Inv, TInv', LedgerInv, NEW t \in Task, Admission(t)
  PROVE  Mapped(t)
<1> PICK g \in {x \in Gen : ~ HeldByAnother(x)} :
      \/ AdvanceInterrupted(t, g) \/ AdvanceAbandoned(t, g)
      \/ AdvanceTerminal(t, g) \/ AdvanceRefused(t, g)
      \/ \E m \in Modes : AdvanceExisting(t, g, m) \/ AdvanceFresh(t, g, m)
  BY DEF Admission
<1>1. TLocal /\ TLocal' /\ row[g] \in Row
  BY DEF Inv, TInv, TLocal
<1>2. LeaseFree(t, g) /\ UNCHANGED blocks
  BY DEF AdvanceInterrupted, AdvanceAbandoned, AdvanceTerminal,
               AdvanceRefused, AdvanceExisting, AdvanceFresh, chain, blocks
<1>3. Alone(t, g)
  BY <1>2 DEF LeaseFree, Alone
<1>4. \A m \in Modes : Start(g, m) \in Pass /\ Start(g, m).gen = g
                       /\ Start(g, m).result = "none"
  BY StartType DEF Start, Idle
<1>5. \A m \in Modes : \A res : Done(Start(g, m), res).gen = g
  BY <1>4, DoneFacts
<1>6. CASE AdvanceInterrupted(t, g) \/ AdvanceAbandoned(t, g)
  <2> PICK r, res :
        /\ Put(t, g, r, Done(Start(g, "StatusOnly"), res))
        /\ (res = "Cancelled" /\ r = Absent) \/ res = PublicResult(r)
        /\ \/ r = row[g]
           \/ r = Normalized(row[g]) /\ row[g].st = "Submitting"
    BY <1>6 DEF AdvanceInterrupted, AdvanceAbandoned
  <2>1. r = row[g] \/ (/\ r.st = "Recovering" /\ r.cand = NoHash
                       /\ row[g].st = "Submitting")
    BY <1>1 DEF Normalized, OnAbandonedSubmitting, Goto, Row
  <2>2. Tells(Done(Start(g, "StatusOnly"), res), r)
    <3>1. CASE res = "Cancelled" /\ r = Absent
      BY <3>1, CancelledClaims
    <3>2. CASE res = PublicResult(r)
      <4>1. res \notin {"Illegal", "Cancelled"}
        BY <1>1, <2>1, <3>2, PublicLegal DEF PublicResult
      <4> QED
        BY <4>1, DoneClaims
    <3> QED
      BY <3>1, <3>2
  <2>3. RowOnly(g, r) /\ ([LedgerNext]_ledger => Mapped(t))
    <3>1. Keeps(t, g, r)
      BY <1>1, <2>1, CandidateFacts DEF Keeps
    <3> QED
      BY <1>1, <1>2, <1>3, <1>5, <2>2, <3>1, PutMaps DEF Modes
  <2>4. CASE r = row[g]
    <3>1. row' = row
      BY <1>1, <2>3, <2>4, SMT DEF RowOnly, Writes, TLocal
    <3> QED
      BY <2>3, <3>1 DEF RowOnly, Writes, ledger
  <2>5. CASE r # row[g]
    BY <2>1, <2>3, <2>5, MoveMaps DEF Unsettled
  <2> QED
    BY <2>4, <2>5
<1>7. CASE AdvanceTerminal(t, g) \/ AdvanceRefused(t, g)
  <2> DEFINE res == IF AdvanceTerminal(t, g) /\ Derivable(g) THEN row[g].st ELSE "Err"
  <2>1. Step(t, Done(Start(g, "StatusOnly"), res)) /\ UNCHANGED durable
    <3>1. CASE AdvanceTerminal(t, g)
      BY <3>1 DEF AdvanceTerminal
    <3>2. CASE ~ AdvanceTerminal(t, g)
      BY <1>7, <3>2 DEF AdvanceRefused
    <3> QED
      BY <3>1, <3>2
  <2>2. res \notin {"Illegal", "Cancelled"}
    BY DEF AdvanceTerminal
  <2> HIDE DEF res
  <2> QED
    BY <1>1, <1>2, <1>3, <2>1, <2>2, DoneClaims, StayMaps
<1>8. ASSUME NEW m \in Modes, AdvanceExisting(t, g, m)
      PROVE  Mapped(t)
  <2> DEFINE tk == Start(g, m)
  <2>1. tk \in Pass /\ tk.gen = g /\ tk.result = "none"
    BY <1>4
  <2>2. row[g].st \in {"Tracking", "Recovering"}
    BY <1>8 DEF AdvanceExisting
  <2>3. CASE ~ Redispatches(g, m) \/ row[g].res >= MaxReservations \/ ~ Derivable(g)
    <3> PICK next : /\ Step(t, next) /\ UNCHANGED durable
                    /\ \/ next = Done(tk, "Err")
                       \/ next = ReconcileExisting(tk, row[g])
      BY <1>8, <2>3 DEF AdvanceExisting
    <3>1. next.gen = g
      BY <2>1, DoneFacts, ReconcileFacts, SMT
    <3>2. Tells(next, row[next.gen])
      BY <1>1, <2>1, <3>1, DoneClaims, ReconcileClaims
    <3> QED
      BY <1>1, <1>2, <1>3, <3>2, StayMaps
  <2>4. CASE ~ (~ Redispatches(g, m) \/ row[g].res >= MaxReservations \/ ~ Derivable(g))
    <3> DEFINE next == Post(tk, "loop", TRUE)
               r == Reserved(row[g])
    <3>1. Put(t, g, r, next)
      BY <1>8, <2>4 DEF AdvanceExisting
    <3>2. next.gen = g /\ Tells(next, r)
      BY <2>1, PostFacts, PostClaims
    <3>3. r.st = row[g].st /\ r.cand = row[g].cand
      BY <1>1 DEF Reserved, Row
    <3> HIDE DEF next, r
    <3>4. RowOnly(g, r) /\ ([LedgerNext]_ledger => Mapped(t))
      BY <1>1, <1>2, <1>3, <3>1, <3>2, <3>3, PutMaps DEF Keeps
    <3> QED
      BY <2>2, <3>3, <3>4, MoveMaps DEF Unsettled
  <2> QED
    BY <2>3, <2>4
<1>9. ASSUME NEW m \in Modes, AdvanceFresh(t, g, m)
      PROVE  Mapped(t)
  <2> DEFINE tk == Start(g, m)
  <2>1. tk \in Pass /\ tk.gen = g /\ tk.result = "none"
    BY <1>4
  <2>2. row[g] = Absent /\ ~ Refused(g)
    BY <1>9 DEF AdvanceFresh
  <2>3. PICK next, r :
          /\ Put(t, g, r, next) /\ next.gen = g /\ Tells(next, r)
          /\ r = IF Kind[g] = "imported" THEN Adopted(g) ELSE Fresh(r.res)
    <3>1. CASE Kind[g] = "imported"
      <4>1. Put(t, g, Adopted(g), ReconcileExisting(tk, Adopted(g)))
        BY <1>9, <3>1 DEF AdvanceFresh
      <4>2. Adopted(g) \in Row
        <5>1. ImportedHash(g) \in Hash
          BY <3>1, GenerationAssumption DEF ImportedHash, HashesOf
        <5> QED
          BY <5>1 DEF Adopted, Absent, Row, States, MaybeHash, Diagnostics
      <4>3. ReconcileExisting(tk, Adopted(g)).gen = g
            /\ Tells(ReconcileExisting(tk, Adopted(g)), Adopted(g))
        BY <2>1, <4>2, ReconcileFacts, ReconcileClaims
      <4> QED
        BY <3>1, <4>1, <4>3
    <3>2. CASE Kind[g] # "imported"
      <4>1. Put(t, g, Fresh(1), Post(tk, "loop", FALSE))
        BY <1>9, <3>2 DEF AdvanceFresh
      <4>2. Post(tk, "loop", FALSE).gen = g /\ Tells(Post(tk, "loop", FALSE), Fresh(1))
        BY <2>1, PostFacts, PostClaims
      <4>3. Fresh(1) = Fresh(Fresh(1).res)
        BY DEF Fresh, Absent
      <4> QED
        BY <3>2, <4>1, <4>2, <4>3
    <3> QED
      BY <3>1, <3>2
  <2>4. RowOnly(g, r) /\ ([LedgerNext]_ledger => Mapped(t))
    <3>1. Keeps(t, g, r)
      BY <2>2, CandidateFacts, SMT DEF Absent
    <3> QED
      BY <1>1, <1>2, <1>3, <2>3, <3>1, PutMaps
  <2>5. AdmitRow(g)
    <3>1. ~ HeldByAnother(g)
      OBVIOUS
    <3> QED
      BY <2>2, <2>3, <2>4, <3>1 DEF AdmitRow, RowOnly
  <2> QED
    BY <2>4, <2>5, RowMaps DEF RowNext
<1> QED
  BY <1>6, <1>7, <1>8, <1>9

\* An observation of a running pass that leaves its row tracked or recovered.
LEMMA ObserveMaps ==
  ASSUME Inv, TInv', NEW t \in Task, Active(t), NEW tk, NEW r,
         Apply(t, task[t].gen, r, tk), UNCHANGED blocks, Unsettled(task[t].gen),
         r # Illegal, r.st \in {"Tracking", "Recovering"},
         \/ r.cand \in {NoHash, row[task[t].gen].cand}
         \/ Answers(task[t].gen, r.cand) /\ ~ OwnedElsewhere(task[t].gen, r.cand),
         tk.gen = task[t].gen, Tells(tk, r), Keeps(t, task[t].gen, r)
  PROVE  Mapped(t)
<1> DEFINE g == task[t].gen
<1>1. g \in Gen /\ TLocal /\ TLocal' /\ Alone(t, g)
  BY RunningFacts DEF TInv
<1>2. r.st # "Rejected"
  OBVIOUS
<1>3. RowOnly(g, r) /\ ([LedgerNext]_ledger => Mapped(t))
  BY <1>1, <1>2, ApplyMaps
<1> QED
  BY <1>1, <1>3, MoveMaps

\* A pass that runs has no result yet.
LEMMA RunningClaims ==
  ASSUME Inv, NEW t \in Task, Active(t), Ready(t)
  PROVE  task[t].result = "none"
BY DEF Ready, Claims, Active

\* The reply to a POST names a hash.
LEMMA AcceptMaps ==
  ASSUME Inv, TInv', LedgerInv, NEW t \in Task, Ready(t), task[t].pc = "posting", NEW h \in Hash,
         AcceptHash(t, h), UNCHANGED blocks, Answers(task[t].gen, h)
  PROVE  Mapped(t)
<1> DEFINE tk == task[t]
           g == tk.gen
           r == IF OwnedElsewhere(g, h)
                THEN OnPossiblyDispatched(row[g], "InvalidProtocolResponse")
                ELSE OnUsableCandidateHash(row[g], h)
           used1 == [tk EXCEPT !.used = tk.used + 1]
           next == IF Hashless(r) THEN AmbiguousNext(tk, r)
                   ELSE IF tk.path = "retry" THEN Done(tk, PublicResult(r))
                   ELSE ReconcileExisting(used1, r)
<1>1. Active(t) /\ tk \in Pass /\ g \in Gen /\ row[g] \in Row /\ tk.used \in Nat
      /\ tk.result = "none"
  BY PostingFacts, RunningFacts, RunningClaims
<1>2. row[g].st = "Submitting" \/ Hashless(row[g])
  BY PostingFacts
<1>3. Apply(t, g, r, next)
  BY DEF AcceptHash
<1>4. \/ r.st = "Recovering" /\ r.cand = NoHash
      \/ r.st = "Tracking" /\ r.cand = h /\ ~ OwnedElsewhere(g, h)
  BY <1>1, <1>2, PostedRow DEF Hashless
<1>5. r # Illegal /\ r \in Row
  <2>1. /\ OnPossiblyDispatched(row[g], "InvalidProtocolResponse") \in AnyRow
        /\ OnUsableCandidateHash(row[g], h) \in AnyRow
    <3>1. h \in MaybeHash /\ "InvalidProtocolResponse" \in Diagnostics
      BY DEF MaybeHash, Diagnostics, DispatchAmbiguities
    <3> QED
      BY <1>1, <3>1, TransitionType
  <2>2. r # Illegal
    BY <1>1, <1>2, PostedRow
  <2> QED
    BY <2>1, <2>2 DEF AnyRow
<1>6. used1 \in Pass /\ used1.gen = g /\ used1.result = tk.result
  <2> DEFINE k == tk.used + 1
  <2>1. k \in Nat
    BY <1>1, SMT
  <2> HIDE DEF k
  <2>2. [tk EXCEPT !.used = k] \in Pass /\ [tk EXCEPT !.used = k].gen = g
        /\ [tk EXCEPT !.used = k].result = tk.result
    BY <1>1, <2>1 DEF Pass
  <2> QED
    BY <2>2 DEF k
<1> HIDE DEF r, used1
<1>7. next.gen = g /\ Tells(next, r)
  <2>1. AmbiguousNext(tk, r).gen = g /\ Tells(AmbiguousNext(tk, r), r)
    BY <1>1, <1>5, AmbiguousNextFacts, AmbiguousClaims
  <2>2. Done(tk, PublicResult(r)).gen = g /\ Tells(Done(tk, PublicResult(r)), r)
    BY <1>5, DoneFacts, DoneClaims, PublicLegal
  <2>3. ReconcileExisting(used1, r).gen = g /\ Tells(ReconcileExisting(used1, r), r)
    BY <1>1, <1>5, <1>6, ReconcileFacts, ReconcileClaims
  <2> QED
    BY <2>1, <2>2, <2>3
<1>8. Unsettled(g) /\ Keeps(t, g, r)
  BY <1>1, <1>2, CandidateFacts DEF Unsettled, Hashless
<1> HIDE DEF next
<1> QED
  BY <1>1, <1>3, <1>4, <1>5, <1>7, <1>8, ObserveMaps

\* A POST is answered, or is known or believed not to be.
LEMMA PostingMaps ==
  ASSUME Inv, TInv', LedgerInv, NEW t \in Task, Ready(t), Posting(t)
  PROVE  Mapped(t)
<1> DEFINE tk == task[t]
           g == tk.gen
           r0 == row[g]
<1>1. tk.pc = "posting" /\ UNCHANGED blocks
  BY DEF Posting, PostAccepted, PostMisreported, PostRejected, PostNullifierSpent,
         PostAmbiguous, PostUnsent, PostLocalFailure, PostInterrupted, chain, blocks
<1>2. /\ Active(t) /\ tk \in Pass /\ g \in Gen /\ r0 \in Row /\ tk.result = "none"
      /\ TLocal /\ TLocal' /\ Alone(t, g)
  BY <1>1, PostingFacts, RunningFacts, RunningClaims DEF TInv
<1>3. Kind[g] # "imported"
      /\ IF FreshAttempt(tk) THEN r0.st = "Submitting" /\ ~ MayLand(g)
         ELSE Hashless(r0)
  BY <1>1, PostingFacts
<1>4. r0.st = "Submitting" \/ Hashless(r0)
  BY <1>3
<1>5. Unsettled(g) /\ r0.st # "None" /\ \A r : Keeps(t, g, r)
  BY <1>2, <1>4, CandidateFacts DEF Unsettled, Hashless
<1>6. FreshAttempt(tk) => r0.st = "Submitting" /\ ~ Landed(g)
  BY <1>3 DEF MayLand
<1>7. \A res : /\ Done(tk, res).gen = g /\ Done(tk, res).pc = "done"
               /\ Done(tk, res).result = res
               /\ res \notin {"Illegal", "Cancelled"} => \A r : Tells(Done(tk, res), r)
  BY DoneFacts, DoneClaims DEF Done, Idle
<1>8. CASE PostAccepted(t)
  <2> PICK h \in HashesOf(g) : AcceptHash(t, h)
    BY <1>8 DEF PostAccepted
  <2> QED
    BY <1>1, AcceptMaps DEF Answers, HashesOf
<1>9. CASE PostMisreported(t)
  <2> PICK h \in Hash : <<g, h>> \in Misreports /\ AcceptHash(t, h)
    BY <1>9 DEF PostMisreported
  <2> QED
    BY <1>1, AcceptMaps DEF Answers
<1>10. ASSUME NEW code2 \in BOOLEAN, PostRejected(t, code2)
       PROVE  Mapped(t)
  <2> DEFINE r == IF TerminalRejected(tk, code2)
                  THEN OnTerminalRejection(r0, "ChainRejected")
                  ELSE OnDefiniteRejection(r0, "ChainRejected")
             res == IF FreshAttempt(tk) THEN PublicResult(r) ELSE "Err"
  <2>1. Apply(t, g, r, Done(tk, res))
    BY <1>10 DEF PostRejected
  <2>2. CASE TerminalRejected(tk, code2)
    <3>1. Kind[g] = "combined" /\ FreshAttempt(tk)
      BY <2>2 DEF TerminalRejected
    <3>2. r # Illegal /\ r.st = "Rejected" /\ r.cand = NoHash
      BY <1>2, <1>6, <2>2, <3>1, RejectedRow
    <3>3. res \notin {"Illegal", "Cancelled"}
      BY <3>2 DEF PublicResult
    <3> HIDE DEF r, res
    <3> QED
      BY <1>1, <1>2, <1>5, <1>6, <2>1, <3>1, <3>2, <3>3, RejectMaps
  <2>3. CASE ~ TerminalRejected(tk, code2)
    <3>1. r # Illegal /\ r.st = "Recovering" /\ r.cand = NoHash
      BY <1>2, <1>4, <2>3, RejectedRow
    <3>2. res \notin {"Illegal", "Cancelled"}
      BY <3>1 DEF PublicResult
    <3> HIDE DEF r, res
    <3> QED
      BY <1>1, <1>2, <1>5, <1>7, <2>1, <3>1, <3>2, ObserveMaps
  <2> QED
    BY <2>2, <2>3
<1>11. CASE PostNullifierSpent(t)
  <2>1. Spent(g) /\ Landed(g)
    BY <1>2, <1>5, <1>11, SpentByItself DEF PostNullifierSpent
  <2>2. ~ FreshAttempt(tk)
    BY <1>11 DEF PostNullifierSpent, FreshAttempt
  <2>3. r0.st = "Recovering"
    BY <1>3, <2>2 DEF Hashless
  <2>4. CASE EndHashless(t)
    BY <1>1, <1>2, <2>1, <2>3, <2>4, EndHashlessMaps
  <2>5. CASE Step(t, [tk EXCEPT !.pc = "settle"]) /\ UNCHANGED durable
    <3> DEFINE next == [tk EXCEPT !.pc = "settle"]
    <3>1. next.pc = "settle" /\ next.gen = g /\ next.result = tk.result
      BY <1>2 DEF Pass
    <3> HIDE DEF next
    <3>2. Tells(next, row[next.gen])
      BY <1>2, <2>1, <2>3, <3>1 DEF Claims, Tells
    <3> QED
      BY <1>1, <1>2, <2>5, <3>2, StayMaps DEF next
  <2> QED
    BY <1>11, <2>4, <2>5 DEF PostNullifierSpent
<1>12. ASSUME NEW d \in Ambiguities, PostAmbiguous(t, d)
       PROVE  Mapped(t)
  <2> DEFINE r == OnPossiblyDispatched(r0, d)
  <2>1. Apply(t, g, r, AmbiguousNext(tk, r))
    BY <1>12 DEF PostAmbiguous
  <2>2. r # Illegal /\ r.st = "Recovering" /\ r.cand = NoHash
    BY <1>2, <1>4, PostedRow DEF Hashless
  <2>3. r \in Row
    <3>1. d \in Diagnostics /\ NoHash \in MaybeHash
      BY ConstantsAssumption DEF Diagnostics, MaybeHash
    <3>2. r \in AnyRow
      BY <1>2, <3>1, TransitionType
    <3> QED
      BY <2>2, <3>2 DEF AnyRow
  <2> HIDE DEF r
  <2>4. AmbiguousNext(tk, r).gen = g /\ Tells(AmbiguousNext(tk, r), r)
    BY <1>2, <2>3, AmbiguousNextFacts, AmbiguousClaims
  <2> QED
    BY <1>1, <1>2, <1>5, <2>1, <2>2, <2>4, ObserveMaps
<1>13. CASE PostUnsent(t)
  <2> DEFINE r == OnDefinitelyUnsent(r0)
             next == IF tk.path = "retry" \/ FinalAttempt(tk) THEN Done(tk, "Err")
                     ELSE Backoff(tk, tk.amb)
  <2>1. Apply(t, g, r, next)
    BY <1>13 DEF PostUnsent
  <2>2. next.gen = g /\ Tells(next, r)
    BY <1>2, <1>7, BackoffFacts, PostClaims
  <2>3. CASE FreshAttempt(tk)
    <3>1. r = Absent /\ r # Illegal /\ r.st # "Rejected"
      <4>1. Absent.st # "Rejected"
        BY DEF Absent
      <4> QED
        BY <1>2, <1>6, <2>3, <4>1, UnsentRow
    <3> HIDE DEF r, next
    <3>2. RowOnly(g, r) /\ ([LedgerNext]_ledger => Mapped(t))
      BY <1>1, <1>2, <1>5, <2>1, <2>2, <3>1, ApplyMaps
    <3> QED
      BY <1>2, <1>6, <2>3, <3>1, <3>2, WithdrawMaps
  <2>4. CASE ~ FreshAttempt(tk)
    <3>1. r = r0 /\ r # Illegal /\ r.st = "Recovering"
      BY <1>2, <1>3, <2>4, UnsentRow DEF Hashless
    <3> HIDE DEF r, next
    <3> QED
      BY <1>1, <1>2, <1>5, <2>1, <2>2, <3>1, ObserveMaps
  <2> QED
    BY <2>3, <2>4
<1>14. ASSUME NEW res \in {"Err", "Cancelled"}, FreshAttempt(tk),
              Put(t, g, Absent, Done(tk, res))
       PROVE  Mapped(t)
  <2>1. Tells(Done(tk, res), Absent)
    BY CancelledClaims, DoneClaims
  <2>2. RowOnly(g, Absent) /\ ([LedgerNext]_ledger => Mapped(t))
    BY <1>1, <1>2, <1>5, <1>7, <1>14, <2>1, PutMaps
  <2> QED
    BY <1>2, <1>6, <1>14, <2>2, WithdrawMaps
<1>15. CASE PostLocalFailure(t)
  <2>1. CASE FreshAttempt(tk)
    BY <1>14, <1>15, <2>1 DEF PostLocalFailure
  <2>2. CASE ~ FreshAttempt(tk)
    <3> DEFINE r == OnContinueRecovery(r0)
    <3>1. Apply(t, g, r, Done(tk, "Err"))
      BY <1>15, <2>2 DEF PostLocalFailure
    <3>2. r = r0 /\ r # Illegal /\ r.st = "Recovering"
      BY <1>2, <1>3, <2>2, UnsentRow DEF Hashless
    <3> HIDE DEF r
    <3> QED
      BY <1>1, <1>2, <1>5, <1>7, <3>1, <3>2, ObserveMaps
  <2> QED
    BY <2>1, <2>2
<1>16. CASE PostInterrupted(t)
  <2>1. CASE FreshAttempt(tk)
    BY <1>14, <1>16, <2>1 DEF PostInterrupted
  <2>2. CASE ~ FreshAttempt(tk)
    BY <1>1, <1>2, <1>16, <2>2, PublicLegal, ReturnMaps DEF PostInterrupted
  <2> QED
    BY <2>1, <2>2
<1> QED
  BY <1>8, <1>9, <1>10, <1>11, <1>12, <1>13, <1>15, <1>16 DEF Posting

-----------------------------------------------------------------------------
(* The start of a pass, crashes, ballots and the network.                  *)

\* Admission preserves the invariant: a fresh reservation is made only where
\* nothing can land.
LEMMA AdmissionInv ==
  ASSUME Inv, TInv', NEW t \in Task, Admission(t)
  PROVE  Inv'
<1> PICK g \in Gen :
      \/ AdvanceInterrupted(t, g) \/ AdvanceAbandoned(t, g)
      \/ AdvanceTerminal(t, g) \/ AdvanceRefused(t, g)
      \/ \E m \in Modes : AdvanceExisting(t, g, m) \/ AdvanceFresh(t, g, m)
  BY DEF Admission
<1>1. TLocal /\ row[g] \in Row /\ row[g].res \in Nat /\ RowSound(g)
  BY DEF Inv, TInv, TLocal, Row
<1>2. LeaseFree(t, g) /\ UNCHANGED chain
  BY DEF AdvanceInterrupted, AdvanceAbandoned, AdvanceTerminal,
               AdvanceRefused, AdvanceExisting, AdvanceFresh
<1>3. Alone(t, g)
  BY <1>2 DEF LeaseFree, Alone
<1>4. \A m \in Modes : Start(g, m) \in Pass /\ Start(g, m).gen = g
                       /\ Start(g, m).used = 0 /\ Start(g, m).amb = FALSE
  BY StartType DEF Start, Idle
<1>5. CASE AdvanceInterrupted(t, g) \/ AdvanceAbandoned(t, g)
  <2> PICK r, res :
        /\ Put(t, g, r, Done(Start(g, "StatusOnly"), res))
        /\ r \in {row[g], Normalized(row[g])}
        /\ r # row[g] => row[g].st = "Submitting"
    BY <1>5 DEF AdvanceInterrupted, AdvanceAbandoned
  <2>1. /\ Apart(t, g)
        /\ row'[g] = r /\ task'[t] = Done(Start(g, "StatusOnly"), res)
    BY <1>1, PutEffect
  <2>2. task'[t].gen = g /\ task'[t].pc = "done"
    BY <2>1, <1>4, DoneFacts, SMT DEF Modes
  <2>3. r = row[g] \/ (r.st # "None" /\ r.cand = NoHash)
    BY <1>1 DEF Normalized, OnAbandonedSubmitting, Goto, Row
  <2>4. RowStep(g)
    BY <2>1, <2>3 DEF RowStep
  <2> QED
    BY <1>2, <1>3, <2>1, <2>2, <2>4, QuietStep, DoneSound
<1>6. CASE AdvanceTerminal(t, g) \/ AdvanceRefused(t, g)
  <2> PICK res : Step(t, Done(Start(g, "StatusOnly"), res)) /\ UNCHANGED durable
    BY <1>6 DEF AdvanceTerminal, AdvanceRefused
  <2>1. /\ Apart(t, g) /\ RowStep(g)
        /\ task'[t] = Done(Start(g, "StatusOnly"), res)
    BY <1>1, StepEffect
  <2>2. task'[t].gen = g /\ task'[t].pc = "done"
    BY <2>1, <1>4, DoneFacts, SMT DEF Modes
  <2> QED
    BY <1>2, <1>3, <2>1, <2>2, QuietStep, DoneSound
<1>7. ASSUME NEW m \in Modes, AdvanceExisting(t, g, m)
      PROVE  Inv'
  <2> DEFINE tk == Start(g, m)
  <2>1. tk \in Pass /\ tk.gen = g /\ tk.used = 0 /\ tk.amb = FALSE
    BY <1>4
  <2>2. row[g].st \in {"Tracking", "Recovering"}
    BY <1>7 DEF AdvanceExisting
  <2>3. CASE ~ Redispatches(g, m) \/ row[g].res >= MaxReservations \/ ~ Derivable(g)
    <3> PICK next : /\ Step(t, next) /\ UNCHANGED durable
                    /\ \/ next = Done(tk, "Err")
                       \/ next = ReconcileExisting(tk, row[g])
      BY <1>7, <2>3 DEF AdvanceExisting
    <3>1. /\ Apart(t, g) /\ RowStep(g)
          /\ row' = row /\ task'[t] = next
      BY <1>1, StepEffect
    <3>2. /\ next.gen = g /\ next.pc \in {"done", "lookup", "scan"}
          /\ next.pc = "scan" => Kind[g] # "imported"
          /\ next.pc # "done" => next.used = 0
      <4>1. CASE next = Done(tk, "Err")
        BY <2>1, <4>1, DoneFacts
      <4>2. CASE next = ReconcileExisting(tk, row[g])
        BY <2>1, <4>2, ReconcileFacts
      <4> QED
        BY <4>1, <4>2
    <3>3. PassSound(t)'
      BY <1>1, <3>1, <3>2, LookingSound, SMT
    <3> QED
      BY <1>2, <1>3, <3>1, <3>2, <3>3, QuietStep
  <2>4. CASE ~ (~ Redispatches(g, m) \/ row[g].res >= MaxReservations \/ ~ Derivable(g))
    <3>1. Put(t, g, Reserved(row[g]), Post(tk, "loop", TRUE))
      BY <1>7, <2>4 DEF AdvanceExisting
    <3> DEFINE next == Post(tk, "loop", TRUE)
    <3>2. next.gen = g /\ next.pc = "posting" /\ next.used = 0 /\ next.amb
      BY <2>1, PostFacts
    <3>3. Put(t, g, Reserved(row[g]), next)
      BY <3>1
    <3> HIDE DEF next
    <3>4. /\ Apart(t, g)
          /\ row'[g] = Reserved(row[g]) /\ task'[t] = next
      BY <1>1, <3>3, PutEffect
    <3>5. /\ task'[t].gen = g /\ task'[t].pc = "posting"
          /\ task'[t].used = 0 /\ task'[t].amb
      BY <3>2, <3>4
    <3>6. row'[g].res = row[g].res + 1 /\ row'[g].cand = row[g].cand
          /\ row'[g].st = row[g].st
      BY <1>1, <3>4 DEF Reserved, Row
    <3>7. Kind[g] # "imported" /\ Hashless(row[g])
      BY <2>4 DEF Redispatches, permits_ambiguous_retry
    <3>8. PassSound(t)'
      <4>1. Hashless(row'[g])
        BY <3>6, <3>7 DEF Hashless
      <4>2. 0 < row'[g].res /\ 0 < MaxAttempts
        BY <1>1, <3>6, ConstantsAssumption, LedgerAssumption, SMT
      <4>3. ~ FreshAttempt(task'[t])
        BY <3>5 DEF FreshAttempt
      <4> QED
        BY <3>5, <3>7, <4>1, <4>2, <4>3, PostingSound
    <3>9. RowStep(g)
      BY <2>2, <3>6 DEF RowStep
    <3> QED
      BY <1>2, <1>3, <3>4, <3>5, <3>8, <3>9, QuietStep
  <2> QED
    BY <2>3, <2>4
<1>8. ASSUME NEW m \in Modes, AdvanceFresh(t, g, m)
      PROVE  Inv'
  <2> DEFINE tk == Start(g, m)
  <2>1. tk \in Pass /\ tk.gen = g /\ tk.used = 0 /\ tk.amb = FALSE
        /\ tk.path = "loop"
    BY <1>4 DEF Start, Idle
  <2>2. row[g].st = "None"
    BY <1>8, SMT DEF AdvanceFresh, Absent
  <2>3. MayLand(g)' <=> MayLand(g)
    BY <1>2, MayLandStable
  <2>4. ChainStep(g)
    BY <1>2 DEF ChainStep, chain, Inv, ChainSound
  <2>5. CASE Kind[g] = "imported"
    <3>1. Put(t, g, Adopted(g), ReconcileExisting(tk, Adopted(g)))
      BY <1>8, <2>5 DEF AdvanceFresh
    <3> DEFINE next == ReconcileExisting(tk, Adopted(g))
    <3>2. /\ Apart(t, g)
          /\ row'[g] = Adopted(g) /\ task'[t] = next
      BY <1>1, <3>1, PutEffect
    <3>3. RowSound(g)'
      BY <2>5, <3>2 DEF RowSound, Adopted, Absent
    <3>4. /\ next.gen = g /\ next.pc \in {"done", "lookup", "scan"}
          /\ next.pc = "scan" => Kind[g] # "imported"
          /\ next.pc # "done" => next.used = 0
      BY <2>1, ReconcileFacts
    <3>5. row'[g].res = 0
      BY <3>2 DEF Adopted, Absent
    <3>6. PassSound(t)'
      BY <3>2, <3>4, <3>5, LookingSound, SMT
    <3> HIDE DEF next
    <3> QED
      BY <1>3, <2>4, <3>2, <3>3, <3>4, <3>6, PassStep
  <2>6. CASE Kind[g] # "imported"
    <3>1. Put(t, g, Fresh(1), Post(tk, "loop", FALSE))
      BY <1>8, <2>6 DEF AdvanceFresh
    <3> DEFINE next == Post(tk, "loop", FALSE)
    <3>2. /\ next.gen = g /\ next.pc = "posting" /\ next.used = 0
          /\ ~ next.amb /\ next.path = "loop"
      BY <2>1, PostFacts
    <3>3. Put(t, g, Fresh(1), next)
      BY <3>1
    <3> HIDE DEF next
    <3>4. /\ Apart(t, g)
          /\ row'[g] = Fresh(1) /\ task'[t] = next
      BY <1>1, <3>3, PutEffect
    <3>5. row'[g].st = "Submitting" /\ row'[g].cand = NoHash /\ row'[g].res = 1
      BY <3>4 DEF Fresh, Absent
    <3>6. /\ task'[t].gen = g /\ task'[t].pc = "posting"
          /\ task'[t].used = 0 /\ ~ task'[t].amb /\ task'[t].path = "loop"
      BY <3>2, <3>4
    <3>7. ~ MayLand(g)
      BY <1>1, <2>2, <2>6 DEF RowSound
    <3>8. PassSound(t)'
      <4>1. ~ MayLand(task[t].gen)'
        BY <2>3, <3>6, <3>7 DEF MayLand, Landed, HashesOf
      <4> QED
        BY <2>6, <3>5, <3>6, <4>1, ConstantsAssumption, LedgerAssumption, SMT DEF PassSound, FreshAttempt
    <3>9. RowStep(g)
      BY <3>5 DEF RowStep
    <3> QED
      BY <1>2, <1>3, <3>4, <3>6, <3>8, <3>9, QuietStep
  <2> QED
    BY <2>5, <2>6
<1> QED
  BY <1>5, <1>6, <1>7, <1>8

\* So does a crash: a POST it leaves in flight has a row.
LEMMA CrashInv ==
  ASSUME Inv, TInv', Crash
  PROVE  Inv'
<1>1. /\ row' = row /\ pool' = pool /\ UNCHANGED <<committed, leaf>>
      /\ \A t \in Task : task'[t].pc = "idle"
  BY DEF Crash, durable, Idle
<1>2. ChainSound'
  BY <1>1 DEF Inv, ChainSound, Landed, HashesOf
<1>3. NoneLands
  <2> SUFFICES ASSUME NEW g \in Gen, row[g].st = "None"
               PROVE  MayLand(g)' => MayLand(g)
    BY DEF NoneLands
  <2>1. \A t \in Task : task[t].pc = "posting" => task[t].gen # g
    BY PostingFacts DEF Hashless
  <2>2. g \in late' => g \in late
    BY <2>1 DEF Crash
  <2> QED
    BY <1>1, <2>2 DEF MayLand, Landed, HashesOf
<1>4. Rests
  BY <1>1 DEF Rests
<1> QED
  BY <1>1, <1>2, <1>3, <1>4, KeepStep

\* Signing and discarding write neither rows nor passes.
LEMMA BallotInv ==
  ASSUME Inv, TInv', Ballot
  PROVE  Inv'
<1>1. row' = row /\ task' = task /\ UNCHANGED chain
  BY BallotFrame
<1>2. \A g \in Gen : MayLand(g)' => MayLand(g)
  BY <1>1, MayLandStable
<1>3. ChainSound'
  BY <1>1 DEF Inv, ChainSound, chain, Landed, HashesOf
<1>4. NoneLands /\ Rests
  BY <1>1, <1>2 DEF NoneLands, Rests, Stands, Active
<1> QED
  BY <1>1, <1>3, <1>4, KeepStep

\* The chain and the network never make landable what was not.
LEMMA NetworkInv ==
  ASSUME Inv, TInv', Network
  PROVE  Inv'
<1>1. row' = row /\ task' = task
  BY DEF Network, LateDelivery, Evict, CommitOk, CommitFailed, LateLost, durable
<1>2. /\ ChainSound /\ TChain /\ committed \in [Hash -> {"no", "ok", "failed"}]
      /\ pool \subseteq Hash /\ leaf \in [Gen -> Nat] /\ size \in Nat
  BY DEF Inv, TInv, TChain
<1>3. ChainSound' /\ \A g \in Gen : MayLand(g)' => MayLand(g)
  <2>1. ASSUME NEW h \in Hash, LateDelivery(h)
        PROVE  ChainSound' /\ \A g \in Gen : MayLand(g)' => MayLand(g)
    BY <1>2, <2>1, SMT DEF LateDelivery, ChainSound, MayLand, Landed, HashesOf
  <2>2. ASSUME NEW h \in Hash, Evict(h)
        PROVE  ChainSound' /\ \A g \in Gen : MayLand(g)' => MayLand(g)
    BY <1>2, <2>2 DEF Evict, ChainSound, MayLand, Landed, HashesOf
  <2>3. ASSUME NEW h \in Hash, CommitFailed(h)
        PROVE  ChainSound' /\ \A g \in Gen : MayLand(g)' => MayLand(g)
    <3>1. committed[h] = "no" /\ committed' = [committed EXCEPT ![h] = "failed"]
          /\ pool' = pool \ {h} /\ late' = late /\ leaf' = leaf
      BY <1>2, <2>3 DEF CommitFailed, ChainSound
    <3>2. \A h2 \in Hash : committed'[h2] = IF h2 = h THEN "failed" ELSE committed[h2]
      BY <1>2, <3>1
    <3>3. ChainSound'
      BY <1>2, <3>1, <3>2 DEF ChainSound, Landed, HashesOf
    <3> QED
      BY <3>1, <3>2, <3>3 DEF MayLand, Landed, HashesOf
  <2>4. ASSUME NEW h \in Hash, CommitOk(h)
        PROVE  ChainSound' /\ \A g \in Gen : MayLand(g)' => MayLand(g)
    <3> DEFINE k == size + 1
               gg == HashOf[h]
    <3>1. /\ h \in pool /\ committed[h] = "no"
          /\ committed' = [committed EXCEPT ![h] = "ok"]
          /\ pool' = pool \ {h} /\ late' = late
          /\ leaf' = [leaf EXCEPT ![gg] = k]
      BY <1>2, <2>4 DEF CommitOk, ChainSound
    <3>2. gg \in Gen /\ h \in HashesOf(gg)
      BY ConstantsAssumption, LedgerAssumption DEF HashesOf
    <3>3. \A h2 \in Hash : committed'[h2] = IF h2 = h THEN "ok" ELSE committed[h2]
      BY <1>2, <3>1
    <3>4. \A g \in Gen : leaf'[g] = IF g = gg THEN k ELSE leaf[g]
      BY <1>2, <3>1
    <3> HIDE DEF k, gg
    <3>5. MayLand(gg)
      BY <3>1, <3>2 DEF MayLand
    <3>6. ChainSound'
      BY <1>2, <3>1, <3>2, <3>3, <3>4, SMT DEF ChainSound, Landed, HashesOf
    <3> QED
      BY <3>1, <3>3, <3>4, <3>5, <3>6 DEF MayLand, Landed, HashesOf
  <2>5. ASSUME NEW g \in Gen, LateLost(g)
        PROVE  ChainSound' /\ \A g2 \in Gen : MayLand(g2)' => MayLand(g2)
    BY <1>2, <2>5 DEF LateLost, ChainSound, MayLand, Landed, HashesOf
  <2> QED
    BY <2>1, <2>2, <2>3, <2>4, <2>5 DEF Network
<1>4. NoneLands /\ Rests
  BY <1>1, <1>3 DEF NoneLands, Rests, Stands, Active
<1> QED
  BY <1>1, <1>3, <1>4, KeepStep

-----------------------------------------------------------------------------
(* Lookups, scans, and the theorems.                                       *)

\* So do the answers of status lookups: a combined batch is retired only after
\* its one hash failed in a block.
LEMMA LookupInv ==
  ASSUME Inv, TInv', NEW t \in Task, Lookup(t)
  PROVE  Inv'
<1> DEFINE tk == task[t]
           g == task[t].gen
           s == row[g]
<1>1. tk.pc = "lookup" /\ UNCHANGED chain
  BY DEF Lookup, LookupInterrupted, LookupInconclusive,
               LookupCommittedFailure, LookupCommittedSuccess
<1>2. Active(t)
  BY <1>1 DEF Active
<1>3. /\ tk \in Pass /\ g \in Gen /\ s \in Row /\ TLocal
      /\ RowSound(g) /\ tk.used <= s.res
  BY <1>1, <1>2, RunningFacts DEF PassSound
<1>4. \A r : /\ Recover(tk, r).gen = g
             /\ Recover(tk, r).pc \in {"done", "scan"}
             /\ Recover(tk, r).pc = "scan"
                  => Kind[g] # "imported" /\ Recover(tk, r).used = tk.used
  BY <1>3, RecoverFacts
<1>a. CASE LookupInterrupted(t)
  BY <1>1, <1>2, <1>a, EndsPass DEF LookupInterrupted
<1>b. ASSUME NEW failed \in BOOLEAN, NEW expired \in BOOLEAN,
             LookupInconclusive(t, failed, expired)
      PROVE  Inv'
  <2> DEFINE r == IF s.st = "Tracking" /\ expired
                  THEN OnTrackingWindowExpired(s, "TrackingWindowExpired")
                  ELSE IF s.st = "Recovering" /\ failed THEN OnContinueRecovery(s)
                  ELSE OnCandidatePending(s)
             next == IF r.st = "Tracking" /\ failed THEN Done(tk, "Err")
                     ELSE Recover(tk, r)
  <2>1. r # Illegal => /\ r.st \in {"Tracking", "Recovering"}
                       /\ r.cand = s.cand /\ r.res = s.res
    BY <1>3, InconclusiveRow
  <2>2. Apply(t, g, r, next)
    BY <1>b DEF LookupInconclusive
  <2> HIDE DEF r
  <2>3. /\ next.gen = g /\ next.pc \in {"done", "scan"}
        /\ next.pc = "scan" => Kind[g] # "imported" /\ next.used = tk.used
    BY <1>4, DoneFacts
  <2> HIDE DEF next
  <2> QED
    BY <1>1, <1>2, <1>3, <2>1, <2>2, <2>3, ReconcileStep
<1>c. CASE LookupCommittedFailure(t) /\ ~ FailureIsTerminal(g)
  <2> DEFINE r == OnCandidateCommittedFailure(s, "ChainRejected")
             next == IF s.st = "Recovering" /\ ~ FailureIsTerminal(g)
                     THEN Recover(tk, r) ELSE Done(tk, PublicResult(r))
  <2>1. r # Illegal => r.st = "Recovering" /\ r.cand = NoHash /\ r.res = s.res
    BY <1>3, FailedRow
  <2>2. Apply(t, g, r, next)
    BY <1>c DEF LookupCommittedFailure
  <2> HIDE DEF r
  <2>3. /\ next.gen = g /\ next.pc \in {"done", "scan"}
        /\ next.pc = "scan" => Kind[g] # "imported" /\ next.used = tk.used
    BY <1>4, DoneFacts
  <2> HIDE DEF next
  <2> QED
    BY <1>1, <1>2, <1>3, <2>1, <2>2, <2>3, ReconcileStep
<1>d. CASE LookupCommittedFailure(t) /\ FailureIsTerminal(g)
  <2> DEFINE r == OnTerminalCandidateFailure(s, "ChainRejected")
             next == Done(tk, PublicResult(r))
  <2>1. r = Illegal \/ (r.st = "Rejected" /\ r.cand = NoHash)
    BY <1>3, FailedRow
  <2>2. Apply(t, g, r, next)
    BY <1>d DEF LookupCommittedFailure
  <2>3. s.cand \in Hash /\ committed[s.cand] = "failed"
    BY <1>d DEF LookupCommittedFailure
  <2>4. Kind[g] = "combined" => ~ MayLand(g)
    <3> SUFFICES ASSUME Kind[g] = "combined" PROVE ~ MayLand(g)
      OBVIOUS
    <3>1. s.cand \in HashesOf(g)
      BY <1>3, <2>3, NoHashAssumption DEF RowSound
    <3>2. \A h \in HashesOf(g) : h = s.cand
      BY <3>1, GenerationAssumption DEF HashesOf
    <3>3. ~ Landed(g)
      BY <1>3, <2>3, <3>2 DEF Inv, ChainSound
    <3> QED
      BY <2>3, <3>2, <3>3 DEF MayLand
  <2>5. next.gen = g /\ next.pc = "done"
    BY DoneFacts
  <2> HIDE DEF r, next
  <2>6. /\ Apart(t, g) /\ RowStep(g)
        /\ task'[t] = Done(task[t], "Illegal") \/ task'[t] = next
    BY <1>3, <2>1, <2>2, <2>4, ApplyEffect, SMT DEF retires_combined_generation, RowStep
  <2>7. task'[t].gen = g /\ task'[t].pc = "done"
    BY <2>5, <2>6, DoneFacts, SMT
  <2> QED
    BY <1>1, <1>2, <2>6, <2>7, EndingStep
<1>e. CASE LookupCommittedSuccess(t)
  <2>1. CASE Return(t, "Err")
    BY <1>1, <1>2, <2>1, EndsPass
  <2>2. CASE ~ Return(t, "Err")
    <3> DEFINE r == OnConfirmedByHash(s, s.cand)
               pos == leaf[HashOf[s.cand]]
    <3>1. Confirm(t, g, r, pos)
      BY <1>e, <2>2 DEF LookupCommittedSuccess
    <3>2. r # Illegal => r.st = "Confirmed" /\ r.cand \in {NoHash, s.cand}
      BY <1>3, ConfirmedRow
    <3> HIDE DEF r, pos
    <3> QED
      BY <1>1, <1>2, <3>1, <3>2, ConfirmInv
  <2> QED
    BY <2>1, <2>2
<1> QED
  BY <1>a, <1>b, <1>c, <1>d, <1>e DEF Lookup

\* So do scans and the retries they authorize.
LEMMA ScanInv ==
  ASSUME Inv, TInv', NEW t \in Task, Scan(t)
  PROVE  Inv'
<1> DEFINE tk == task[t]
           g == task[t].gen
           s == row[g]
<1>1. tk.pc \in {"scan", "settle", "authorized"} /\ UNCHANGED chain
  BY DEF Scan, ScanInterrupted, ScanFailed, ScanMatch, ScanNoMatch,
         SettleNoMatch, AuthorizedInterrupted, ReserveRecoveryRetry, Scanning
<1>2. Active(t)
  BY <1>1 DEF Active
<1>3. /\ tk \in Pass /\ g \in Gen /\ s \in Row /\ TLocal /\ tk.used \in Nat
      /\ s.res \in Nat /\ PassSound(t)
  BY <1>2, RunningFacts
<1>4. /\ Kind[g] # "imported" /\ tk.used <= s.res
      /\ tk.pc = "authorized" => tk.used < MaxAttempts
  BY <1>1, <1>3 DEF PassSound
<1>a. CASE \E res : Return(t, res)
  BY <1>1, <1>2, <1>a, EndsPass
<1>b. CASE ScanFailed(t)
  <2> DEFINE r == OnContinueRecovery(s)
             next == Done(tk, "Err")
  <2>1. r # Illegal => r.st = "Recovering" /\ r.cand = s.cand
    BY <1>3, ContinuedRow
  <2>2. Apply(t, g, r, next) /\ next.gen = g /\ next.pc = "done"
    BY <1>b DEF ScanFailed, Done, Idle
  <2> HIDE DEF r, next
  <2> QED
    BY <1>1, <1>2, <2>1, <2>2, ReconcileStep
<1>c. CASE ScanMatch(t)
  <2> DEFINE r == OnConfirmedByTree(s)
  <2>1. Confirm(t, g, r, leaf[g])
    BY <1>c DEF ScanMatch
  <2>2. r # Illegal => r.st = "Confirmed" /\ r.cand \in {NoHash, s.cand}
    BY <1>3, MatchedRow
  <2> HIDE DEF r
  <2> QED
    BY <1>1, <1>2, <2>1, <2>2, ConfirmInv
<1>d. CASE /\ Step(t, [tk EXCEPT !.pc = "authorized", !.auth = s.cand])
           /\ UNCHANGED durable /\ tk.used < MaxAttempts
  <2> DEFINE next == [tk EXCEPT !.pc = "authorized", !.auth = s.cand]
  <2>1. next.gen = g /\ next.pc = "authorized" /\ next.used = tk.used
    BY <1>3 DEF Pass
  <2>2. Step(t, next)
    BY <1>d
  <2> HIDE DEF next
  <2>3. /\ Apart(t, g) /\ RowStep(g)
        /\ row' = row /\ task'[t] = next
    BY <1>3, <1>d, <2>2, StepEffect
  <2>4. PassSound(t)'
    BY <1>4, <1>d, <2>1, <2>3 DEF PassSound
  <2> QED
    BY <1>1, <1>2, <2>1, <2>3, <2>4, RunningStep
<1>e. CASE SettleNoMatch(t)
  BY <1>1, <1>2, <1>e, EndHashlessInv DEF SettleNoMatch
<1>f. CASE ReserveRecoveryRetry(t) /\ ~ Return(t, "Err")
  <2> DEFINE r == [Reserved(s) EXCEPT !.cand = NoHash]
             next == Post(tk, "retry", has_unresolved_dispatch(r))
  <2>1. Put(t, g, r, next) /\ s.st = "Recovering" /\ tk.pc = "authorized"
    BY <1>f DEF ReserveRecoveryRetry
  <2>2. r.st = s.st /\ r.cand = NoHash /\ r.res = s.res + 1
    BY <1>3 DEF Reserved, Row
  <2> HIDE DEF r
  <2>3. next.gen = g /\ next.pc = "posting" /\ next.used = tk.used
        /\ next.path = "retry"
    BY <1>3 DEF Post, Pass
  <2> HIDE DEF next
  <2>4. /\ Apart(t, g)
        /\ row'[g] = r /\ task'[t] = next
    BY <1>3, <2>1, PutEffect
  <2>5. PassSound(t)'
    <3>1. Hashless(row'[g])
      BY <2>1, <2>2, <2>4 DEF Hashless
    <3>2. tk.used < MaxAttempts /\ tk.used < row'[g].res
      BY <1>3, <1>4, <2>1, <2>2, <2>4, SMT
    <3>3. ~ FreshAttempt(task'[t])
      BY <2>3, <2>4 DEF FreshAttempt
    <3> QED
      BY <1>4, <2>3, <2>4, <3>1, <3>2, <3>3, PostingSound
  <2>6. RowStep(g)
    BY <2>1, <2>2, <2>4 DEF RowStep
  <2> QED
    BY <1>1, <1>2, <2>3, <2>4, <2>5, <2>6, RunningStep
<1>g. CASE ScanNoMatch(t)
  <2>1. CASE tk.used >= MaxAttempts \/ tk.intr
    BY <1>a, <1>g, <2>1 DEF ScanNoMatch
  <2>2. CASE ~ (tk.used >= MaxAttempts \/ tk.intr)
    <3>1. tk.used < MaxAttempts
      BY <1>3, <2>2, ConstantsAssumption, LedgerAssumption, SMT
    <3> QED
      BY <1>d, <1>g, <2>2, <3>1 DEF ScanNoMatch
  <2> QED
    BY <2>1, <2>2
<1> QED
  BY <1>a, <1>b, <1>c, <1>e, <1>f, <1>g
     DEF Scan, ScanInterrupted, AuthorizedInterrupted

\* So do the caller, a host that interrupts and a store that fails.
LEMMA OtherInv ==
  ASSUME Inv, TInv', NEW t \in Task, Finish(t) \/ Interrupt(t) \/ StoreFails(t)
  PROVE  Inv'
<1>1. TLocal /\ ChainSound
  BY DEF Inv, TInv
<1>2. CASE Finish(t) \/ Interrupt(t)
  <2>1. row' = row /\ UNCHANGED chain
    BY <1>2 DEF Finish, Interrupt, durable
  <2>2. \A g \in Gen : MayLand(g)' => MayLand(g)
    BY <2>1, MayLandStable
  <2>3. ChainSound'
    BY <1>1, <2>1 DEF ChainSound, chain, Landed, HashesOf
  <2>4. \A u \in Task :
           \/ task'[u].pc \in {"idle", "done"}
           \/ /\ Active(u) /\ task'[u].pc = task[u].pc
              /\ task'[u].gen = task[u].gen /\ task'[u].used = task[u].used
              /\ task'[u].amb = task[u].amb /\ task'[u].path = task[u].path
    <3>1. CASE Finish(t)
      BY <1>1, <3>1 DEF Finish, Step, Idle, TLocal, Active
    <3>2. CASE Interrupt(t)
      BY <1>1, <3>2 DEF Interrupt, Step, TLocal, Active, Pass
    <3> QED
      BY <1>2, <3>1, <3>2
  <2>5. NoneLands /\ Rests
    BY <2>2, <2>4 DEF NoneLands, Rests, Stands
  <2> QED
    BY <2>1, <2>3, <2>5, KeepStep
<1>3. CASE StoreFails(t)
  <2> DEFINE g == task[t].gen
  <2>1. Active(t) /\ Return(t, "Err")
    BY <1>3 DEF StoreFails
  <2>2. CASE task[t].pc # "posting"
    BY <1>3, <2>1, <2>2, EndsPass DEF StoreFails, chain
  <2>3. CASE task[t].pc = "posting"
    <3>1. /\ Apart(t, g)
          /\ row' = row /\ task'[t] = Done(task[t], "Err")
      BY <1>1, <2>1, RunningFacts, StepEffect DEF Return
    <3>2. task'[t].gen = g /\ task'[t].pc = "done"
      BY <3>1, DoneFacts, SMT
    <3>3. g \in Gen /\ RowSound(g) /\ Alone(t, g)
      BY <2>1, RunningFacts
    <3>4. row[g].st # "None"
      BY <2>3, PostingFacts DEF Hashless
    <3>5. ChainStep(g)
      BY <1>1, <1>3, <2>3 DEF ChainStep, StoreFails, ChainSound
    <3>6. \A x \in Gen : x = g => RowSound(x)'
      BY <3>1, <3>3, <3>4 DEF RowSound, HashesOf
    <3> HIDE DEF g
    <3> QED
      BY <3>1, <3>2, <3>3, <3>5, <3>6, PassStep, DoneSound
  <2> QED
    BY <2>2, <2>3
<1> QED
  BY <1>2, <1>3

\* The invariant holds at the start.
LEMMA InitInv == Init => Inv
<1> SUFFICES ASSUME Init PROVE Inv
  OBVIOUS
<1>1. TInv
  BY InitType
<1>2. /\ \A t \in Task : task[t].pc = "idle"
      /\ \A g \in Gen : row[g] = Absent /\ leaf[g] = 0
      /\ pool = {} /\ late = {g \in Gen : Kind[g] = "imported"}
  BY DEF Init, Idle
<1>3. OnePassPerBundle /\ ChainSound /\ \A t \in Task : PassSound(t)
  BY <1>2 DEF OnePassPerBundle, Active, ChainSound, Landed, PassSound
<1>4. \A g \in Gen : RowSound(g)
  BY <1>2, SMT DEF RowSound, Absent, MayLand, Landed
<1> QED
  BY <1>1, <1>3, <1>4 DEF Inv

\* And after every step.
LEMMA NextInv == Inv /\ [Next]_vars => Inv'
<1> SUFFICES ASSUME Inv, [Next]_vars PROVE Inv'
  OBVIOUS
<1>1. TInv'
  BY NextType DEF Inv
<1>2. CASE UNCHANGED vars
  <2>1. row' = row /\ task' = task /\ UNCHANGED chain
    BY <1>2 DEF vars, chain
  <2>2. \A g \in Gen : MayLand(g)' => MayLand(g)
    BY <2>1, MayLandStable
  <2>3. ChainSound'
    BY <2>1 DEF Inv, ChainSound, chain, Landed, HashesOf
  <2>4. NoneLands /\ Rests
    BY <2>1, <2>2 DEF NoneLands, Rests, Stands, Active
  <2> QED
    BY <1>1, <2>1, <2>3, <2>4, KeepStep
<1>3. CASE Next
  BY <1>1, <1>3, AdmissionInv, PostingInv, RetryingInv, LookupInv, ScanInv,
     OtherInv, CrashInv, BallotInv, NetworkInv DEF Next
<1> QED
  BY <1>2, <1>3

\* The invariant holds in every reachable state.
THEOREM Invariance == Spec => []Inv
BY InitInv, NextInv, PTL DEF Spec

\* Whatever removed a row, or whatever kept one from being written, nothing of
\* that generation is on chain or can still get there.  The store's removals
\* (remove_fresh_reservation, definitely-unsent attempts, combined retirement)
\* are right for any number of passes, endpoints, crashes and lost replies.
THEOREM NothingForgotten == Spec => []NeverForgotten
<1>1. Inv => NeverForgotten
  BY DEF Inv, RowSound, NeverForgotten
<1> QED
  BY Invariance, <1>1, PTL

\* Every POST in flight has its own reservation committed before it, is within
\* the attempt budget, and is never one of an imported delegation.
THEOREM PostsAreReserved == Spec => []ReservedBeforePost
<1>1. Inv => ReservedBeforePost
  BY DEF Inv, PassSound, ReservedBeforePost
<1> QED
  BY Invariance, <1>1, PTL

-----------------------------------------------------------------------------
(* The three parts together.                                               *)

\* The inductive invariant.
Safe == Inv /\ LedgerInv /\ \A t \in Task : Ready(t)

\* What a step promises beyond the states it connects: "cancelled" hides
\* nothing, and candidates are dropped with cause.
Tidy ==
  /\ \A t \in Task :
       task'[t].result = "Cancelled" /\ task[t].result # "Cancelled"
         => row'[task'[t].gen] = Absent
  /\ \A g \in Gen : row'[g] = row[g] \/ \E t \in Task : Keeps(t, g, row'[g])

-----------------------------------------------------------------------------
(* The steps of a pass after its POST.                                     *)

\* Between two attempts.
LEMMA RetryingMaps ==
  ASSUME Inv, TInv', LedgerInv, NEW t \in Task, Ready(t), Retrying(t)
  PROVE  Mapped(t)
<1> DEFINE tk == task[t]
           g == tk.gen
<1>1. tk.pc = "backoff" /\ UNCHANGED blocks
  BY DEF Retrying, BackoffInterrupted, ReserveAmbiguousRetry, ReAdmit,
         ReAdmitRenewed, chain, blocks
<1>2. Active(t)
  BY <1>1 DEF Active
<1>3. /\ tk \in Pass /\ g \in Gen /\ row[g] \in Row /\ tk.result = "none"
      /\ TLocal /\ TLocal' /\ Alone(t, g)
  BY <1>2, RunningFacts, RunningClaims DEF TInv
<1>4. PublicResult(row[g]) \notin {"Illegal", "Cancelled"}
  BY <1>3, PublicLegal
<1>5. \A res : Return(t, res) /\ res \notin {"Illegal", "Cancelled"} => Mapped(t)
  BY <1>1, <1>2, ReturnMaps
<1>6. \A amb \in BOOLEAN : \A r :
        /\ Post(tk, "loop", amb).gen = g /\ Tells(Post(tk, "loop", amb), r)
        /\ Put(t, g, r, Post(tk, "loop", amb)) /\ Keeps(t, g, r) =>
             RowOnly(g, r) /\ ([LedgerNext]_ledger => Mapped(t))
  <2> TAKE amb \in BOOLEAN
  <2> TAKE r
  <2>1. Post(tk, "loop", amb).gen = g /\ Tells(Post(tk, "loop", amb), r)
    BY <1>3, PostFacts, PostClaims, ZenonT(60)
  <2> HIDE DEF g, tk
  <2> QED
    BY <1>1, <1>3, <2>1, PutMaps
<1>7. CASE BackoffInterrupted(t)
  <2>1. CASE tk.amb
    BY <1>4, <1>5, <1>7, <2>1 DEF BackoffInterrupted
  <2>2. CASE ~ tk.amb
    <3>1. Step(t, Done(tk, "Cancelled")) /\ UNCHANGED durable
      BY <1>7, <2>2 DEF BackoffInterrupted, Return
    <3>2. row[g] = Absent
      BY <1>1, <1>2, <2>2, RunningFacts DEF PassSound
    <3>3. Done(tk, "Cancelled").gen = g
      BY DoneFacts
    <3>4. Tells(Done(tk, "Cancelled"), row[Done(tk, "Cancelled").gen])
      BY <3>2, <3>3, CancelledClaims
    <3> QED
      BY <1>1, <1>3, <3>1, <3>4, StayMaps
  <2> QED
    BY <2>1, <2>2
<1>8. CASE ReserveAmbiguousRetry(t)
  <2> DEFINE r == Reserved(row[g])
  <2>1. Return(t, "Err") \/ (/\ permits_ambiguous_retry(row[g])
                             /\ Put(t, g, r, Post(tk, "loop", TRUE)))
    BY <1>8 DEF ReserveAmbiguousRetry
  <2>2. r.st = row[g].st /\ r.cand = row[g].cand
    BY <1>3 DEF Reserved, Row
  <2> HIDE DEF r
  <2>3. CASE permits_ambiguous_retry(row[g]) /\ Put(t, g, r, Post(tk, "loop", TRUE))
    <3>1. Unsettled(g) /\ r.st = "Recovering" /\ r.cand = row[g].cand
      BY <2>2, <2>3 DEF permits_ambiguous_retry, Hashless, Unsettled
    <3>2. RowOnly(g, r) /\ ([LedgerNext]_ledger => Mapped(t))
      BY <1>6, <2>3, <3>1 DEF Keeps
    <3> QED
      BY <1>3, <3>1, <3>2, MoveMaps
  <2> QED
    BY <1>5, <2>1, <2>3
<1>9. CASE ReAdmit(t)
  <2> DEFINE r == Fresh(tk.used + 1)
  <2>1. \/ \E res \in {"Err", PublicResult(row[g])} : Return(t, res)
        \/ /\ row[g] = Absent /\ ~ HeldByAnother(g) /\ ~ Refused(g)
           /\ Put(t, g, r, Post(tk, "loop", FALSE))
    BY <1>9 DEF ReAdmit
  <2>2. CASE /\ row[g] = Absent /\ ~ HeldByAnother(g) /\ ~ Refused(g)
             /\ Put(t, g, r, Post(tk, "loop", FALSE))
    <3>1. RowOnly(g, r) /\ ([LedgerNext]_ledger => Mapped(t))
      <4>1. Keeps(t, g, r)
        BY <1>3, <2>2, CandidateFacts, SMT DEF Absent
      <4> QED
        BY <1>6, <2>2, <4>1
    <3>2. Fresh(r.res) = r
      BY DEF Fresh, Absent
    <3>3. Kind[g] # "imported"
      BY <1>1, <1>2, RunningFacts DEF PassSound
    <3> HIDE DEF r
    <3>4. AdmitRow(g)
      BY <2>2, <3>1, <3>2, <3>3 DEF AdmitRow, RowOnly
    <3> QED
      BY <1>3, <3>1, <3>4, RowMaps DEF RowNext
  <2> QED
    BY <1>4, <1>5, <2>1, <2>2
<1>10. CASE ReAdmitRenewed(t)
  <2> DEFINE r == Fresh(tk.used + 1)
  <2>1. PICK g2 \in Renewed(g) :
          \/ Return(t, "Err")
          \/ /\ row[g2] = Absent /\ ~ HeldByAnother(g2) /\ ~ Refused(g2)
             /\ Put(t, g2, r, Done(tk, "Err"))
    BY <1>10 DEF ReAdmitRenewed
  <2>2. g2 \in Gen \ {g} /\ SameBundle(g, g2) /\ Kind[g2] = "vote"
    BY <1>3, SameVoteFacts DEF Renewed
  <2>3. CASE /\ row[g2] = Absent /\ ~ HeldByAnother(g2) /\ ~ Refused(g2)
             /\ Put(t, g2, r, Done(tk, "Err"))
    <3> DEFINE next == Done(tk, "Err")
    <3>1. Fresh(r.res) = r
      BY DEF Fresh, Absent
    <3>2. next.gen = g /\ Tells(next, row'[g])
      BY DoneFacts, DoneClaims
    <3>3. Put(t, g2, r, next)
      BY <2>3
    <3> HIDE DEF r, next
    <3>4. Apart(t, g2) /\ row'[g2] = r /\ task'[t] = next
      BY <1>3, <2>2, <3>3, PutEffect
    <3>5. Alone(t, g2) /\ Keeps(t, g2, row'[g2])
      <4>1. Alone(t, g2)
        BY <1>3, <2>2 DEF Alone, SameBundle
      <4>2. row[g2].st = "None"
        <5>1. Absent.st = "None"
          BY DEF Absent
        <5> QED
          BY <2>3, <5>1
      <4> QED
        BY <2>2, <4>1, <4>2, CandidateFacts
    <3>6. /\ UNCHANGED <<material, spends, van, committed, leaf, size>>
          /\ row' \in [Gen -> Row]
      BY <1>1, <1>3, <3>3 DEF Put, blocks, TLocal
    <3>7. Told(t)
      BY <3>4, <3>6, <3>2, ReadyNow
    <3>8. Writes(g2)
      BY <3>4, <3>6 DEF Writes, Apart
    <3>9. AdmitRow(g2)
      BY <2>2, <2>3, <3>4, <3>1, <3>6, <3>8 DEF AdmitRow
    <3> QED
      BY <2>2, <3>4, <3>5, <3>6, <3>7, <3>9, RowMaps DEF Mapped, RowNext
  <2> QED
    BY <1>5, <2>1, <2>3
<1> QED
  BY <1>7, <1>8, <1>9, <1>10 DEF Retrying

\* The status of the candidate hash is answered.
LEMMA LookupMaps ==
  ASSUME Inv, TInv', LedgerInv, NEW t \in Task, Ready(t), Lookup(t)
  PROVE  Mapped(t)
<1> DEFINE tk == task[t]
           g == tk.gen
           s == row[g]
<1>1. tk.pc = "lookup" /\ UNCHANGED blocks
  BY DEF Lookup, LookupInterrupted, LookupInconclusive, LookupCommittedFailure,
         LookupCommittedSuccess, chain, blocks
<1>2. Active(t)
  BY <1>1 DEF Active
<1>3. /\ tk \in Pass /\ g \in Gen /\ s \in Row /\ tk.result = "none"
      /\ TLocal /\ TLocal' /\ Alone(t, g)
  BY <1>2, RunningFacts, RunningClaims DEF TInv
<1>4. s.st \in {"Tracking", "Recovering"} /\ s.cand # NoHash /\ Unsettled(g)
  BY <1>1 DEF Ready, Claims, Tells, Unsettled
<1>5. RowTrue(g) /\ Answers(g, s.cand)
  BY <1>3, <1>4 DEF LedgerInv, RowTrue
<1>6. s.cand \in Hash /\ s # Illegal
  BY <1>3, <1>4 DEF Row, MaybeHash, Illegal, Absent, States
<1>7. \A res : /\ Done(tk, res).gen = g /\ Done(tk, res).pc = "done"
               /\ Done(tk, res).result = res
               /\ res \notin {"Illegal", "Cancelled"} => \A r : Tells(Done(tk, res), r)
  BY DoneFacts, DoneClaims DEF Done, Idle
<1>8. \A r \in Row : Recover(tk, r).gen = g /\ Tells(Recover(tk, r), r)
  BY <1>3, RecoverFacts, ReconcileClaims
<1>9. \A d \in Diagnostics : LET n == Goto(s, "Recovering", s.cand, d) IN
        n \in Row /\ n.st = "Recovering" /\ n.cand = s.cand /\ n # Illegal
  BY <1>3 DEF Goto, Row, States, Illegal, Absent
<1>10. CASE LookupInterrupted(t)
  BY <1>1, <1>2, <1>3, <1>10, PublicLegal, ReturnMaps DEF LookupInterrupted
<1>11. ASSUME NEW failed \in BOOLEAN, NEW expired \in BOOLEAN,
              LookupInconclusive(t, failed, expired)
       PROVE  Mapped(t)
  <2> DEFINE r == IF s.st = "Tracking" /\ expired
                  THEN OnTrackingWindowExpired(s, "TrackingWindowExpired")
                  ELSE IF s.st = "Recovering" /\ failed THEN OnContinueRecovery(s)
                  ELSE OnCandidatePending(s)
             next == IF r.st = "Tracking" /\ failed THEN Done(tk, "Err")
                     ELSE Recover(tk, r)
  <2>1. Apply(t, g, r, next)
    BY <1>11 DEF LookupInconclusive
  <2>2. r = s \/ r = Goto(s, "Recovering", s.cand, "TrackingWindowExpired")
    BY <1>4 DEF OnTrackingWindowExpired, OnContinueRecovery, OnCandidatePending
  <2>3. r \in Row /\ r # Illegal /\ r.st \in {"Tracking", "Recovering"}
        /\ r.cand = s.cand
    BY <1>3, <1>4, <1>6, <1>9, <2>2 DEF Diagnostics
  <2>4. Keeps(t, g, r)
    BY <2>3 DEF Keeps
  <2> HIDE DEF r
  <2>5. next.gen = g /\ Tells(next, r)
    BY <1>7, <1>8, <2>3
  <2> HIDE DEF next
  <2> QED
    BY <1>1, <1>2, <1>4, <2>1, <2>3, <2>5, <2>4, ObserveMaps
<1>12. CASE LookupCommittedFailure(t)
  <2> DEFINE r == IF FailureIsTerminal(g)
                  THEN OnTerminalCandidateFailure(s, "ChainRejected")
                  ELSE OnCandidateCommittedFailure(s, "ChainRejected")
             next == IF s.st = "Recovering" /\ ~ FailureIsTerminal(g)
                     THEN Recover(tk, r) ELSE Done(tk, PublicResult(r))
  <2>1. Apply(t, g, r, next) /\ committed[s.cand] = "failed"
    BY <1>12 DEF LookupCommittedFailure
  <2>2. Keeps(t, g, r)
    BY <2>1 DEF Keeps
  <2>3. CASE FailureIsTerminal(g)
    <3>1. Kind[g] \in {"imported", "combined"}
      BY <2>3 DEF FailureIsTerminal
    <3>2. r = Goto(s, "Rejected", NoHash, "ChainRejected")
      BY <1>4, <2>3 DEF OnTerminalCandidateFailure
    <3>3. r.st = "Rejected" /\ r.cand = NoHash /\ r # Illegal
      BY <1>3, <3>2 DEF Goto, Row, Illegal, Absent
    <3>4. PublicResult(r) \notin {"Illegal", "Cancelled"} /\ next = Done(tk, PublicResult(r))
      BY <2>3, <3>3 DEF PublicResult
    <3>5. s.cand \in HashesOf(g)
      <4>1. <<g, s.cand>> \notin Misreports
        BY <3>1, EndpointAssumption
      <4> QED
        BY <1>5, <4>1 DEF Answers
    <3>6. \A h \in HashesOf(g) : committed[h] = "failed"
      BY <2>1, <3>1, <3>5, GenerationAssumption DEF HashesOf
    <3>7. ~ Landed(g)
      BY <1>3, <3>6 DEF LedgerInv, Inclusion
    <3>8. \/ Kind[g] = "combined" /\ ~ Landed(g)
          \/ Kind[g] = "imported" /\ \A h \in HashesOf(g) : committed[h] = "failed"
      BY <3>1, <3>6, <3>7
    <3> HIDE DEF r, next
    <3> QED
      BY <1>1, <1>2, <1>4, <2>2, <2>1, <3>3, <3>4, <3>8, RejectMaps
  <2>4. CASE ~ FailureIsTerminal(g)
    <3>1. r = Goto(s, "Recovering", NoHash, "ChainRejected")
      BY <1>4, <2>4 DEF OnCandidateCommittedFailure
    <3>2. r.st = "Recovering" /\ r.cand = NoHash /\ r # Illegal /\ r \in Row
      BY <1>3, <3>1 DEF Goto, Row, Illegal, Absent, States, MaybeHash, Diagnostics
    <3> HIDE DEF r
    <3>3. next.gen = g /\ Tells(next, r)
      BY <1>7, <1>8, <3>2, PublicLegal
    <3> HIDE DEF next
    <3> QED
      BY <1>1, <1>2, <1>4, <2>2, <2>1, <3>2, <3>3, ObserveMaps
  <2> QED
    BY <2>3, <2>4
<1>13. CASE LookupCommittedSuccess(t)
  <2> DEFINE h == s.cand
             r == OnConfirmedByHash(s, h)
  <2>1. /\ committed[h] = "ok"
        /\ \/ Return(t, "Err")
           \/ (tk.intr \/ EventsMatch(g, h)) /\ Confirm(t, g, r, leaf[HashOf[h]])
    BY <1>13 DEF LookupCommittedSuccess
  <2>2. r = Goto(s, "Confirmed", h, "none")
    BY <1>4 DEF OnConfirmedByHash
  <2>3. r.st = "Confirmed" /\ r.cand = h /\ r # Illegal
    BY <1>3, <2>2 DEF Goto, Row, Illegal, Absent
  <2>4. EventsMatch(g, h) => HashOf[h] = g
    BY <1>5, EndpointAssumption DEF EventsMatch, Answers, HashesOf
  <2>5. Landed(HashOf[h])
    BY <1>6, <2>1 DEF LedgerInv, IncludedLanded
  <2> HIDE DEF r
  <2>6. CASE (tk.intr \/ EventsMatch(g, h)) /\ Confirm(t, g, r, leaf[HashOf[h]])
    BY <1>1, <1>2, <1>4, <2>3, <2>4, <2>5, <2>6, ConfirmMaps
  <2> QED
    BY <1>1, <1>2, <2>1, <2>6, ReturnMaps
<1> QED
  BY <1>10, <1>11, <1>12, <1>13 DEF Lookup

\* The scan of the tree ends, or its authorization is spent.
LEMMA ScanMaps ==
  ASSUME Inv, TInv', LedgerInv, NEW t \in Task, Ready(t), Scan(t)
  PROVE  Mapped(t)
<1> DEFINE tk == task[t]
           g == tk.gen
           s == row[g]
<1>1. tk.pc \in {"scan", "settle", "authorized"} /\ UNCHANGED blocks
  BY DEF Scan, ScanInterrupted, ScanFailed, ScanMatch, ScanNoMatch, SettleNoMatch,
         AuthorizedInterrupted, ReserveRecoveryRetry, Scanning, chain, blocks
<1>2. Active(t)
  BY <1>1 DEF Active
<1>3. /\ tk \in Pass /\ g \in Gen /\ s \in Row /\ tk.result = "none"
      /\ TLocal /\ TLocal' /\ Alone(t, g)
  BY <1>2, RunningFacts, RunningClaims DEF TInv
<1>4. Scanning(t) => s.st = "Recovering" /\ Unsettled(g)
  BY DEF Ready, Claims, Tells, Unsettled, Scanning
<1>5. PublicResult(s) \notin {"Illegal", "Cancelled"} /\ s # Illegal
  BY <1>3, PublicLegal DEF Row, Illegal, Absent, States
<1>6. \A res : Return(t, res) /\ res \notin {"Illegal", "Cancelled"} => Mapped(t)
  BY <1>1, <1>2, ReturnMaps
<1>7. CASE ScanInterrupted(t) \/ AuthorizedInterrupted(t)
  BY <1>5, <1>6, <1>7 DEF ScanInterrupted, AuthorizedInterrupted
<1>8. CASE ScanFailed(t)
  <2>1. Scanning(t) /\ Apply(t, g, s, Done(tk, "Err"))
    BY <1>4, <1>8 DEF ScanFailed, OnContinueRecovery
  <2>2. Done(tk, "Err").gen = g /\ Tells(Done(tk, "Err"), s)
    BY DoneFacts, DoneClaims
  <2> QED
    BY <1>1, <1>2, <1>4, <1>5, <2>1, <2>2, ObserveMaps DEF Keeps
<1>9. CASE ScanMatch(t)
  <2> DEFINE r == OnConfirmedByTree(s)
  <2>1. Scanning(t) /\ Landed(g) /\ Confirm(t, g, r, leaf[g])
    BY <1>9 DEF ScanMatch
  <2>2. r = Goto(s, "Confirmed", NoHash, "none")
    BY <1>4, <2>1 DEF OnConfirmedByTree
  <2>3. r.st = "Confirmed" /\ r.cand = NoHash /\ r # Illegal
    BY <1>3, <2>2 DEF Goto, Row, Illegal, Absent
  <2> HIDE DEF r
  <2> QED
    BY <1>1, <1>2, <1>4, <2>1, <2>3, ConfirmMaps
<1>10. CASE ScanNoMatch(t)
  <2> DEFINE c == s.cand
             next == [tk EXCEPT !.pc = "authorized", !.auth = c]
  <2>1. \/ Return(t, PublicResult(s))
        \/ Step(t, next) /\ UNCHANGED durable
    BY <1>10 DEF ScanNoMatch
  <2> HIDE DEF c
  <2>2. next.pc = "authorized" /\ next.result = tk.result
    BY <1>3 DEF Pass
  <2> HIDE DEF next
  <2>3. Tells(next, row[next.gen])
    BY <1>3, <2>2 DEF Claims, Tells
  <2> QED
    BY <1>1, <1>3, <1>5, <1>6, <2>1, <2>3, StayMaps
<1>11. CASE SettleNoMatch(t)
  <2>1. tk.pc = "settle" /\ EndHashless(t)
    BY <1>11 DEF SettleNoMatch
  <2>2. Landed(g) /\ Spent(g) /\ s.st = "Recovering"
    BY <1>3, <2>1 DEF Ready, Claims, Tells, Spent, SameNullifier
  <2> QED
    BY <1>1, <1>2, <2>1, <2>2, EndHashlessMaps
<1>12. CASE ReserveRecoveryRetry(t)
  <2> DEFINE r == [Reserved(s) EXCEPT !.cand = NoHash]
             next == Post(tk, "retry", has_unresolved_dispatch(r))
  <2>1. Keeps(t, g, r)
    BY <1>12 DEF ReserveRecoveryRetry, Keeps
  <2>2. \/ Return(t, "Err")
        \/ s.st = "Recovering" /\ Put(t, g, r, next)
    BY <1>12 DEF ReserveRecoveryRetry
  <2>3. r.st = s.st /\ r.cand = NoHash
    BY <1>3 DEF Reserved, Row
  <2> HIDE DEF r
  <2>4. next.gen = g /\ Tells(next, r)
    BY <1>3, PostClaims DEF Post, Pass
  <2> HIDE DEF next
  <2>5. CASE s.st = "Recovering" /\ Put(t, g, r, next)
    <3>1. RowOnly(g, r) /\ ([LedgerNext]_ledger => Mapped(t))
      BY <1>1, <1>3, <2>1, <2>4, <2>5, PutMaps
    <3> QED
      BY <1>3, <2>3, <2>5, <3>1, MoveMaps DEF Unsettled
  <2> QED
    BY <1>6, <2>2, <2>5
<1> QED
  BY <1>7, <1>8, <1>9, <1>10, <1>11, <1>12 DEF Scan

-----------------------------------------------------------------------------
(* All steps.                                                              *)

\* Claims survive while the pass, its row and the chain's leaves stay.
LEMMA ReadyStays ==
  ASSUME NEW u \in Task, Ready(u), task'[u] = task[u], UNCHANGED leaf,
         Active(u) => row'[task[u].gen] = row[task[u].gen]
  PROVE  Ready(u)'
BY DEF Ready, Claims, Active, Landed

\* A mapped step of a pass does no harm to the other passes: the lease kept
\* them off its row.
LEMMA MappedStep ==
  ASSUME Safe, NEW t \in Task, Mapped(t)
  PROVE  /\ \A u \in Task : Ready(u)'
         /\ [LedgerNext]_ledger /\ Tidy
<1> PICK g \in Gen : Apart(t, g) /\ Alone(t, g) /\ Keeps(t, g, row'[g])
  BY DEF Mapped
<1>1. Ready(t)' /\ UNCHANGED leaf
  BY DEF Mapped, Told
<1>2. ASSUME NEW u \in Task \ {t} PROVE Ready(u)'
  <2>1. task'[u] = task[u] /\ Ready(u)
    BY DEF Apart, Safe
  <2>2. Active(u) => task[u].gen \in Gen /\ task[u].gen # g
    BY DEF Safe, Inv, TInv, TLocal, Alone, SameBundle
  <2>3. Active(u) => row'[task[u].gen] = row[task[u].gen]
    BY <2>2 DEF Apart
  <2> QED
    BY <1>1, <2>1, <2>3, ReadyStays
<1>3. Tidy
  <2>1. \A u \in Task \ {t} : task'[u] = task[u]
    BY DEF Apart
  <2>2. task'[t].result = "Cancelled" => row'[task'[t].gen] = Absent
    BY DEF Mapped, Told
  <2>3. \A g2 \in Gen \ {g} : row'[g2] = row[g2]
    BY DEF Apart
  <2> QED
    BY <2>1, <2>2, <2>3 DEF Tidy
<1> QED
  BY <1>1, <1>2, <1>3 DEF Mapped

\* Steps that leave all rows alone and start or end passes quietly.
LEMMA QuietPasses ==
  ASSUME Safe, row' = row, [LedgerNext]_ledger,
         \A g \in Gen : Landed(g) => Landed(g)',
         \A u \in Task : \/ task'[u] = task[u]
                         \/ /\ task'[u].pc \in {"idle", "done"}
                            /\ task'[u].result \notin {"Illegal", "Cancelled"}
                         \/ /\ task'[u].pc = task[u].pc /\ task'[u].gen = task[u].gen
                            /\ task'[u].result = task[u].result
  PROVE  /\ \A u \in Task : Ready(u)'
         /\ [LedgerNext]_ledger /\ Tidy
<1>1. Tidy
  BY DEF Tidy
<1>2. ASSUME NEW u \in Task PROVE Ready(u)'
  <2>1. Ready(u) /\ (task[u].pc = "settle" => task[u].gen \in Gen)
    BY DEF Safe, Inv, TInv, TLocal, Active
  <2> QED
    BY <2>1 DEF Ready, Claims
<1> QED
  BY <1>1, <1>2

\* Callers, hosts, stores and processes.
LEMMA HostStep ==
  ASSUME Safe, TInv', (\E t \in Task : Finish(t) \/ Interrupt(t) \/ StoreFails(t)) \/ Crash
  PROVE  /\ \A u \in Task : Ready(u)'
         /\ [LedgerNext]_ledger /\ Tidy
<1>1. task \in [Task -> Pass]
  BY DEF Safe, Inv, TInv, TLocal
<1>2. Idle.pc = "idle" /\ Idle.result = "none"
  BY DEF Idle
<1>3. ASSUME NEW t \in Task, StoreFails(t)
      PROVE  Mapped(t)
  BY <1>3, ReturnMaps DEF StoreFails, Safe, blocks
<1>4. ASSUME NEW t \in Task, Finish(t)
      PROVE  /\ \A u \in Task : Ready(u)'
             /\ [LedgerNext]_ledger /\ Tidy
  <2>1. row' = row /\ UNCHANGED ledger /\ leaf' = leaf
    BY <1>4 DEF Finish, durable, chain, ledger
  <2>2. \A u \in Task : task'[u] = task[u] \/ task'[u] = Idle
    BY <1>1, <1>4 DEF Finish, Step
  <2> QED
    BY <1>2, <2>1, <2>2, QuietPasses DEF Landed
<1>5. ASSUME NEW t \in Task, Interrupt(t)
      PROVE  /\ \A u \in Task : Ready(u)'
             /\ [LedgerNext]_ledger /\ Tidy
  <2> DEFINE n == [task[t] EXCEPT !.intr = TRUE]
  <2>1. row' = row /\ UNCHANGED ledger /\ leaf' = leaf
    BY <1>5 DEF Interrupt, durable, chain, ledger
  <2>2. n.pc = task[t].pc /\ n.gen = task[t].gen /\ n.result = task[t].result
    BY <1>1 DEF Pass
  <2>3. \A u \in Task : task'[u] = task[u] \/ (u = t /\ task'[u] = n)
    BY <1>1, <1>5 DEF Interrupt, Step
  <2> HIDE DEF n
  <2> QED
    BY <2>1, <2>2, <2>3, QuietPasses DEF Landed
<1>6. CASE Crash
  <2>1. row' = row /\ UNCHANGED ledger /\ leaf' = leaf
    BY <1>6 DEF Crash, durable, ledger
  <2>2. \A u \in Task : task'[u] = Idle
    BY <1>6 DEF Crash
  <2> QED
    BY <1>2, <2>1, <2>2, QuietPasses DEF Landed
<1> QED
  BY <1>3, <1>4, <1>5, <1>6, MappedStep

\* Signing and discarding.
LEMMA BallotStep ==
  ASSUME Safe, Ballot
  PROVE  /\ \A u \in Task : Ready(u)'
         /\ [LedgerNext]_ledger /\ Tidy
<1>1. row' = row /\ task' = task /\ leaf' = leaf
  BY BallotFrame DEF chain
<1>2. [LedgerNext]_ledger
  <2>1. ASSUME NEW g \in Gen, \/ SetupDelegation(g) \/ SignVote(g) \/ SignCombined(g)
                              \/ DiscardDelegation(g)
        PROVE  BallotNext
    BY <2>1 DEF SetupDelegation, SignVote, SignCombined, DiscardDelegation, BallotNext
  <2>2. ASSUME NEW S \in SUBSET Gen, DiscardVotes(S) \/ ChangeIntent(S)
        PROVE  BallotNext
    BY <2>2 DEF DiscardVotes, ChangeIntent, BallotNext
  <2>3. ASSUME NEW b \in Bundles, RetryBlockedCast(b)
        PROVE  UNCHANGED ledger
    BY <2>3 DEF RetryBlockedCast, chain, ledger
  <2> QED
    BY <2>1, <2>2, <2>3 DEF Ballot, LedgerNext
<1> QED
  BY <1>1, <1>2, QuietPasses DEF Landed

\* The chain includes only what a row stands for: a hash in the mempool can
\* land, and what can land is not forgotten.
LEMMA NetworkStep ==
  ASSUME Safe, Network
  PROVE  /\ \A u \in Task : Ready(u)'
         /\ [LedgerNext]_ledger /\ Tidy
<1>1. /\ \A h \in pool : committed[h] = "no"
      /\ leaf \in [Gen -> Nat] /\ size \in Nat /\ pool \subseteq Hash
  BY DEF Safe, Inv, TInv, TChain, ChainSound
<1>2. ASSUME NEW h \in Hash, CommitOk(h) PROVE Include(h)
  <2> DEFINE g == HashOf[h]
  <2>1. g \in Gen /\ h \in HashesOf(g)
    BY LedgerAssumption DEF HashesOf
  <2>2. h \in pool /\ committed[h] = "no"
    BY <1>1, <1>2 DEF CommitOk
  <2>3. MayLand(g)
    BY <2>1, <2>2 DEF MayLand
  <2>4. row[g].st # "None" \/ Kind[g] = "imported"
    BY <2>1, <2>3 DEF Safe, Inv, RowSound
  <2> QED
    BY <1>2, <2>2, <2>4 DEF CommitOk, Include, durable
<1>3. ASSUME NEW h \in Hash, CommitFailed(h) PROVE Exclude(h)
  BY <1>1, <1>3 DEF CommitFailed, Exclude, durable
<1>4. ASSUME NEW h \in Hash, LateDelivery(h) \/ Evict(h) PROVE UNCHANGED ledger
  BY <1>4 DEF LateDelivery, Evict, durable, ledger
<1>5. ASSUME NEW g \in Gen, LateLost(g) PROVE UNCHANGED ledger
  BY <1>5 DEF LateLost, durable, ledger
<1>6. row' = row /\ task' = task
  BY DEF Network, LateDelivery, Evict, CommitOk, CommitFailed, LateLost, durable
<1>7. [LedgerNext]_ledger
  BY <1>2, <1>3, <1>4, <1>5 DEF Network, LedgerNext
<1>8. \A g \in Gen : Landed(g) => Landed(g)'
  <2>1. ASSUME NEW h \in Hash, Include(h) PROVE \A g \in Gen : Landed(g) => Landed(g)'
    BY <1>1, <2>1, SMT DEF Include, Landed
  <2>2. ASSUME NEW h \in Hash, Exclude(h) PROVE leaf' = leaf
    BY <2>2 DEF Exclude
  <2>3. UNCHANGED ledger => leaf' = leaf
    BY DEF ledger
  <2> QED
    BY <1>2, <1>3, <1>4, <1>5, <2>1, <2>2, <2>3 DEF Network, Landed
<1> QED
  BY <1>6, <1>7, <1>8, QuietPasses

\* Every step of the system is a step of the ledger or leaves it alone.
LEMMA StepMaps ==
  ASSUME Safe, Inv', [Next]_vars
  PROVE  /\ \A u \in Task : Ready(u)'
         /\ [LedgerNext]_ledger /\ Tidy
<1>1. Inv /\ LedgerInv /\ TInv' /\ \A t \in Task : Ready(t)
  BY DEF Safe, Inv
<1>2. ASSUME NEW t \in Task, Admission(t) \/ Posting(t) \/ Retrying(t) \/ Lookup(t) \/ Scan(t)
      PROVE  Mapped(t)
  BY <1>1, <1>2, AdmissionMaps, PostingMaps, RetryingMaps, LookupMaps, ScanMaps
<1>3. CASE UNCHANGED vars
  <2>1. row' = row /\ task' = task /\ leaf' = leaf /\ UNCHANGED ledger
    BY <1>3 DEF vars, ledger
  <2> QED
    BY <2>1, QuietPasses DEF Landed
<1>4. CASE Next
  <2>1. CASE \E t \in Task : Admission(t) \/ Posting(t) \/ Retrying(t) \/ Lookup(t) \/ Scan(t)
    BY <1>2, <2>1, MappedStep
  <2>2. CASE (\E t \in Task : Finish(t) \/ Interrupt(t) \/ StoreFails(t)) \/ Crash
    BY <1>1, <2>2, HostStep
  <2> QED
    BY <1>4, <2>1, <2>2, BallotStep, NetworkStep DEF Next
<1> QED
  BY <1>3, <1>4

-----------------------------------------------------------------------------
(* Theorems.                                                               *)

\* The invariant holds initially: no pass runs and nothing is stored.
LEMMA InitSafe == Init => Safe /\ LedgerInit
<1> SUFFICES ASSUME Init PROVE Safe /\ LedgerInit
  OBVIOUS
<1>1. LedgerInit
  BY DEF Init, LedgerInit
<1>2. Inv /\ LedgerInv
  BY <1>1, InitInv, LedgerStart
<1>3. \A t \in Task : Ready(t)
  <2>1. \A t \in Task : task[t] = Idle
    BY DEF Init
  <2>2. Idle.pc = "idle" /\ Idle.result = "none"
    BY DEF Idle
  <2> QED
    BY <2>1, <2>2 DEF Ready, Claims
<1> QED
  BY <1>1, <1>2, <1>3 DEF Safe

\* It is inductive, and each step is one of the ledger.
LEMMA StepSafe == Safe /\ [Next]_vars => Safe' /\ [LedgerNext]_ledger /\ Tidy
<1> SUFFICES ASSUME Safe, [Next]_vars PROVE Safe' /\ [LedgerNext]_ledger /\ Tidy
  OBVIOUS
<1>1. Inv' /\ LedgerInv
  BY NextInv DEF Safe
<1>2. (\A u \in Task : Ready(u)') /\ [LedgerNext]_ledger /\ Tidy
  BY <1>1, StepMaps
<1>3. LedgerInv'
  BY <1>1, <1>2, LedgerStep
<1> QED
  BY <1>1, <1>2, <1>3 DEF Safe

\* Passes, rows, signed material and chain are consistent in every state: what
\* a pass of ChainSubmissionCoordinator established before an await still holds
\* when it resumes.
THEOREM Safety == Spec => []Safe
<1>1. Init => Safe
  BY InitSafe
<1>2. Safe /\ [Next]_vars => Safe'
  BY StepSafe
<1> QED
  BY <1>1, <1>2, PTL DEF Spec

\* The coordinator, its passes, the network and the hosts together implement
\* the ledger: nothing they do changes the database or the chain in a way the
\* ledger does not allow.
THEOREM ImplementsLedger == Spec => LedgerSpec
<1>1. Init => LedgerInit
  BY InitSafe
<1>2. Safe /\ [Next]_vars => [LedgerNext]_ledger
  BY StepSafe
<1> QED
  BY <1>1, <1>2, Safety, PTL DEF Spec, LedgerSpec

\* What the ledger promises holds of the implementation.
THEOREM LedgerPromises ==
  Spec => [](RecoveryMaterialKept /\ UniqueCandidate /\ VanNeverBehind
             /\ SignedWorkStaysViable)
BY ImplementsLedger, LedgerKeepsPromises, PTL

\* The signed material of every stored row is kept: no discard, replacement or
\* retirement (discard_unbroadcast_delegation_setup, write_ballot_intent_in_tx,
\* retire_undispatched_votes_outside_roster) takes it from under the row.  Only
\* signing the same singleton vote again does (store_commitment_bundle), and
\* then the vote has its renewed material and was not confirmed.
THEOREM MaterialIsKept == Spec => []RecoveryMaterialKept
BY LedgerPromises, PTL

\* No two rows have one candidate or confirmation hash, whatever an endpoint
\* answers (apply_observation and admit refuse a hash owned elsewhere).
THEOREM CandidatesAreUnique == Spec => []UniqueCandidate
BY LedgerPromises, PTL

\* A bundle's VAN position is at or past that of each of its confirmed
\* generations, in whatever order they are confirmed
\* (advance_van_position_in_tx, delegation_van_position_should_update).
THEOREM VanIsNeverBehind == Spec => []VanNeverBehind
BY LedgerPromises, PTL

\* What a signed vote spends is spent by nobody else, or by the same vote as it
\* was signed before, whose row then is still there
\* (ensure_no_competing_pending_vote_chain, validate_fresh and admit).
THEOREM SignedWorkIsViable == Spec => []SignedWorkStaysViable
BY LedgerPromises, PTL

\* Of two generations that spend one nullifier one at most can land: admission,
\* signing and discarding keep one spender of each (admit,
\* ensure_no_competing_pending_vote_chain), and what has no row cannot land.
THEOREM OneSpenderOnly == Spec => []OneSpender
<1>1. Safe => OneSpender
  <2> SUFFICES ASSUME Safe, NEW g1 \in Gen, NEW g2 \in Gen, SameNullifier(g1, g2),
                      MayLand(g1), MayLand(g2)
               PROVE  g1 = g2
    BY DEF OneSpender
  <2>1. \A g \in {g1, g2} : row[g].st # "None" \/ Kind[g] = "imported"
    BY DEF Safe, Inv, RowSound
  <2> QED
    BY <2>1, SpendersAlone DEF Safe
<1> QED
  BY <1>1, Safety, PTL

\* What a settled row says is true of the chain: it is confirmed, or submitted
\* without a hash, only if its generation landed, and rejected only if no copy
\* of it can land (reconcile_existing, settle_nullifier_spent_after_dispatch).
THEOREM SettledRowsAreTrue == Spec => []SettledIsTrue
<1>1. Safe => SettledIsTrue
  <2> SUFFICES ASSUME Safe, NEW g \in Gen
               PROVE  /\ row[g].st \in {"Confirmed", "SubmittedWithoutHash"} => Landed(g)
                      /\ row[g].st = "Rejected" => ~ MayLand(g)
    BY DEF SettledIsTrue
  <2>1. RowTrue(g) /\ Inclusion(g)
    BY DEF Safe, LedgerInv
  <2> QED
    BY <2>1 DEF RowTrue, Inclusion, MayLand
<1> QED
  BY <1>1, Safety, PTL

\* No pass asks apply_submission_observation for a transition it refuses.
THEOREM TransitionsAreLegal == Spec => []NoIllegalTransition
<1>1. Safe => NoIllegalTransition
  BY DEF Safe, Ready, Claims, NoIllegalTransition
<1> QED
  BY <1>1, Safety, PTL

\* A pass that answers "cancelled" leaves nothing behind that could land
\* (interrupted_without_state after remove_fresh_reservation).
THEOREM CancellationIsHonest == Spec => CancelledHidesNothing
<1>1. ASSUME Safe, Safe', [Next]_vars, NEW t \in Task, NEW g \in Gen,
             task'[t].result = "Cancelled", task[t].result # "Cancelled",
             task'[t].gen = g, Kind[g] # "imported"
      PROVE  row'[g] = Absent /\ ~ MayLand(g)'
  <2>1. row'[g] = Absent
    BY <1>1, StepSafe DEF Tidy
  <2>2. row'[g].st = "None"
    BY <2>1, SMT DEF Absent
  <2>3. RowSound(g)'
    BY <1>1 DEF Safe, Inv
  <2> QED
    BY <1>1, <2>1, <2>2, <2>3 DEF RowSound
<1>2. Safe /\ Safe' /\ [Next]_vars =>
        [\A t \in Task, g \in Gen :
           /\ task'[t].result = "Cancelled" /\ task[t].result # "Cancelled"
           /\ task'[t].gen = g /\ Kind[g] # "imported"
           => row'[g] = Absent /\ ~ MayLand(g)']_vars
  BY <1>1
<1> QED
  BY <1>2, Safety, PTL DEF Spec, CancelledHidesNothing

\* A candidate hash is dropped for a cause only: its generation is settled,
\* its transaction failed or a pass was authorized to retry
\* (apply_submission_observation, reserve_recovery_retry).
THEOREM CandidatesAreKept == Spec => CandidateDroppedWithCause
<1>1. Safe /\ [Next]_vars =>
        [\A g \in Gen :
           /\ row[g].cand # NoHash /\ row'[g].cand # row[g].cand
           => \/ row'[g].st \in {"Confirmed", "SubmittedWithoutHash"}
              \/ committed[row[g].cand] = "failed"
              \/ \E t \in Task : task[t].gen = g /\ task[t].pc = "authorized"]_vars
  BY StepSafe DEF Tidy, Keeps
<1> QED
  BY <1>1, Safety, PTL DEF Spec, CandidateDroppedWithCause

=============================================================================
