--------------------------- MODULE EvidenceProofs ---------------------------
(***************************************************************************)
(* What is known of the helpers: the journal of a share, the status poll   *)
(* that reads it, and the client whose outcomes both rely on, each for     *)
(* every fleet, every number of generations and requests at a time, and    *)
(* every interleaving of answers, cancellation, deadline and replaced rows.*)
(***************************************************************************)
EXTENDS ShareLedger, StatusPoll, HelperClient, FiniteSetTheorems, SequenceTheorems, TLAPS

USE Zenon

(***************************************************************************)
(* The journal.  ConfirmedIsPublic is inductive with the types; a row that *)
(* says nothing about a helper promises that the helper has nothing of the *)
(* row's generation, which needs that a row without a generation is empty. *)
(***************************************************************************)

Evidences == {"none", "attempting", "unknown", "accepted"}

\* The inductive invariant: types, the two promises, and that the row that is
\* not there confirms nothing and only generations become public.
LedgerInv ==
  /\ gen \in Gen \cup {NoGen} /\ evidence \in [Helper -> Evidences]
  /\ confirmed \in BOOLEAN /\ public \subseteq Gen
  /\ gen = NoGen => ~ confirmed /\ evidence = NoEvidence
  /\ NothingForgotten /\ ConfirmedIsPublic

\* It holds of the empty journal.
LEMMA LedgerStarts == LedgerInit => LedgerInv
BY DEF LedgerInit, LedgerInv, NoEvidence, Evidences, NothingForgotten,
       ConfirmedIsPublic

\* The steps that change the evidence about one helper.
LEMMA EvidenceKept ==
  ASSUME LedgerInv, NEW h \in Helper,
         Reserve(h) \/ Release(h) \/ Doubt(h) \/ Accept(h)
  PROVE  LedgerInv'
<1>1. gen # NoGen
  BY DEF LedgerInv, Reserve, Release, Doubt, Accept, NoEvidence
<1>2. PICK e \in Evidences :
        /\ evidence' = [evidence EXCEPT ![h] = e]
        /\ e = "none" => <<h, gen>> \notin reach
  BY DEF Reserve, Release, Doubt, Accept, Evidences
<1>3. UNCHANGED <<gen, confirmed, reach, public>>
  BY DEF Reserve, Release, Doubt, Accept
<1>4. \A x \in Helper : evidence'[x] = IF x = h THEN e ELSE evidence[x]
  BY <1>2 DEF LedgerInv
<1>5. NothingForgotten'
  BY <1>2, <1>3, <1>4 DEF LedgerInv, NothingForgotten
<1> QED
  BY <1>1, <1>2, <1>3, <1>5 DEF LedgerInv, ConfirmedIsPublic

\* Every step keeps it.
LEMMA LedgerKept == LedgerInv /\ [LedgerNext]_ledgerVars => LedgerInv'
<1> SUFFICES ASSUME LedgerInv, [LedgerNext]_ledgerVars PROVE LedgerInv'
  OBVIOUS
<1>1. ASSUME NEW g \in Gen, Open(g) PROVE LedgerInv'
  BY <1>1, LedgerAssumption
     DEF Open, LedgerInv, NothingForgotten, ConfirmedIsPublic
<1>2. ASSUME NEW g \in Gen, Publish(g) PROVE LedgerInv'
  BY <1>2 DEF Publish, LedgerInv, NothingForgotten, ConfirmedIsPublic
<1>3. CASE Forget
  BY Zenon, <1>3 DEF Forget, LedgerInv, NoEvidence, Evidences, NothingForgotten,
              ConfirmedIsPublic
<1>4. CASE Vanish
  BY <1>4 DEF Vanish, LedgerInv, NothingForgotten, ConfirmedIsPublic
<1>5. CASE Confirm
  BY <1>5, LedgerAssumption DEF Confirm, LedgerInv, NothingForgotten, ConfirmedIsPublic
<1>6. ASSUME NEW h \in Helper, NEW g \in Gen, Ask(h, g) PROVE LedgerInv'
  BY <1>6 DEF Ask, LedgerInv, NothingForgotten, ConfirmedIsPublic
<1>7. CASE UNCHANGED ledgerVars
  BY <1>7 DEF ledgerVars, LedgerInv, NothingForgotten, ConfirmedIsPublic
<1> QED
  BY <1>1, <1>2, <1>3, <1>4, <1>5, <1>6, <1>7, EvidenceKept DEF LedgerNext

\* The invariant holds in every reachable state of the ledger.
LEMMA LedgerInvariance == LedgerSpec => []LedgerInv
BY LedgerStarts, LedgerKept, PTL DEF LedgerSpec

\* No sequence of reservations, answers, retries and replaced generations makes
\* the journal forget a helper that may have the share, for any fleet: every
\* reservation precedes its request and is released only when it had no effect.
THEOREM LedgerForgetsNothing == LedgerSpec => []NothingForgotten
<1>1. LedgerInv => NothingForgotten
  BY DEF LedgerInv
<1> QED
  BY LedgerInvariance, <1>1, PTL

\* A row marked confirmed is that of a public share: replacing the commitment
\* or clearing the round removes the mark with the generation.
THEOREM LedgerConfirmsPublic == LedgerSpec => []ConfirmedIsPublic
<1>1. LedgerInv => ConfirmedIsPublic
  BY DEF LedgerInv
<1> QED
  BY LedgerInvariance, <1>1, PTL

(***************************************************************************)
(* The poll.  Its tally is a number; what it stands for is the set of the  *)
(* helpers whose confirmation has been joined.  The invariant ties the two *)
(* together and says that, until the poll ends, the helpers in flight are  *)
(* exactly those with a request that is not joined.                        *)
(***************************************************************************)

Polling == {"drain", "check", "wait"}

\* The helpers whose confirmation the poll has counted.
Counted == {h \in DOMAIN request : request[h].at = "joined" /\ request[h].said = "confirmed"}

Unjoined == AtState("running") \cup AtState("finished")

PollsOf(helpers) ==
  [fleet : PollFleets, at : {"load", "lock", "settle", "reported"} \cup Polling,
   gen : PollGens \cup {"none"}, left : Seq(helpers),
   inFlight : SUBSET helpers, confirmations : Nat,
   outcome : {"none", "quorum", "noQuorum", "cancelled"},
   report : {"none", "missing", "cancelled", "pending", "confirmed"}]

PollShape ==
  /\ poll \in PollsOf(Asked(poll.fleet))
  /\ request \in [Asked(poll.fleet) -> RequestStates]
  /\ shareRow \in Rows
  /\ pollCancelled \in BOOLEAN /\ pollExpired \in BOOLEAN
  /\ degraded \subseteq Asked(poll.fleet)
  /\ poll.at \notin {"load", "reported"} => poll.gen \in PollGens

\* Who is still to be asked was not asked, and is listed once.
ToAsk ==
  /\ \A h \in Asked(poll.left) : request[h] = Unsent
  /\ \A i, k \in DOMAIN poll.left : poll.left[i] = poll.left[k] => i = k

\* The tally counts the joined confirmations, and is no quorum while the poll
\* goes on.
Tallied ==
  /\ poll.at \in {"load", "lock"} =>
       /\ \A h \in DOMAIN request : request[h] = Unsent
       /\ poll.inFlight = {} /\ poll.confirmations = 0
  /\ poll.at \in {"load", "lock"} \cup Polling => poll.outcome = "none" /\ degraded = {}
  /\ poll.at \in Polling =>
       /\ poll.inFlight = Unjoined
       /\ poll.confirmations = Cardinality(Counted) /\ poll.confirmations < Needed
  /\ poll.confirmations <= RequiredConfirmations
  /\ poll.at \in {"settle", "reported"} => AtState("running") = {}
  /\ poll.at # "reported" => poll.report = "none"
  /\ Cardinality(Unjoined) <= MaxPolls

PollInv == PollShape /\ ToAsk /\ Tallied /\ PollDecidesByEvidence

-----------------------------------------------------------------------------
(* Sizes.                                                                  *)

\* A fleet is finite, has as many helpers as its list is long, and so is every
\* part of it.
LEMMA FleetFinite ==
  ASSUME NEW f \in PollFleets, NEW S \in SUBSET Asked(f)
  PROVE  IsFiniteSet(S) /\ Cardinality(S) \in Nat
<1> DEFINE F == [i \in 1..Len(f) |-> f[i]]
<1>1. Len(f) \in Nat /\ DOMAIN f = 1..Len(f)
  BY PollAssumption, SMT
<1>2. IsFiniteSet(1..Len(f))
  BY <1>1, FS_Interval, SMT
<1>3. F \in Surjection(1..Len(f), Asked(f))
  BY <1>1 DEF Surjection, Asked
<1>4. IsFiniteSet(Asked(f))
  BY <1>2, <1>3, FS_Surjection
<1>5. IsFiniteSet(S)
  BY <1>4, FS_Subset
<1> QED
  BY <1>5, FS_CardinalityType

\* A list names at most as many helpers as it is long.
LEMMA ListSize ==
  ASSUME NEW T, NEW s \in Seq(T)
  PROVE  Cardinality(Asked(s)) <= Len(s) /\ IsFiniteSet(Asked(s))
<1> DEFINE F == [i \in 1..Len(s) |-> s[i]]
<1>1. Len(s) \in Nat /\ DOMAIN s = 1..Len(s)
  BY SMT
<1>2. IsFiniteSet(1..Len(s)) /\ Cardinality(1..Len(s)) = Len(s)
  BY <1>1, FS_Interval, SMTT(30)
<1>3. F \in Surjection(1..Len(s), Asked(s))
  BY <1>1 DEF Surjection, Asked
<1> QED
  BY <1>2, <1>3, FS_Surjection, SMT

\* The requests of a poll fall into finite groups, those that confirm among them.
LEMMA Groups ==
  ASSUME PollShape
  PROVE  /\ \A S \in SUBSET DOMAIN request : IsFiniteSet(S) /\ Cardinality(S) \in Nat
         /\ Counted \subseteq DOMAIN request /\ Confirming \subseteq DOMAIN request
         /\ Unjoined \subseteq DOMAIN request
         /\ \A st : AtState(st) \subseteq DOMAIN request
         /\ Counted \subseteq Confirming
         /\ Confirming = Counted \cup (AtState("finished") \cap Confirming)
         /\ Counted \cap (AtState("finished") \cap Confirming) = {}
<1>1. DOMAIN request = Asked(poll.fleet) /\ poll.fleet \in PollFleets
  BY DEF PollShape, PollsOf
<1>2. \A h \in DOMAIN request : request[h].said = "confirmed" => request[h].at \in {"finished", "joined"}
  BY DEF PollShape, RequestStates, Answers
<1> QED
  BY <1>1, <1>2, FleetFinite DEF Counted, Confirming, Unjoined, AtState

\* Needed is what the code calls required_confirmations.
LEMMA NeededBounds ==
  ASSUME PollShape
  PROVE  /\ Needed \in 0..2 /\ (poll.fleet # <<>> => Needed > 0)
         /\ Len(poll.fleet) \in Nat
<1>1. poll.fleet \in Seq(Asked(poll.fleet))
  BY PollAssumption DEF PollShape, PollsOf
<1>2. Len(poll.fleet) \in Nat /\ (poll.fleet # <<>> => Len(poll.fleet) # 0)
  BY <1>1, SMT
<1>3. \A n \in Nat : LET m == IF n < 2 THEN n ELSE 2 IN m \in 0..2 /\ (n # 0 => m > 0)
  BY SMT
<1> QED
  BY <1>2, <1>3 DEF Needed, RequiredConfirmations

-----------------------------------------------------------------------------
(* The steps.                                                              *)

\* The tally before and after a request was joined.
LEMMA JoinCounts ==
  ASSUME PollShape, NEW h \in DOMAIN request, request[h].at = "finished",
         request' = [request EXCEPT ![h].at = "joined"]
            \/ request' = [Aborted EXCEPT ![h].at = "joined"]
  PROVE  /\ Cardinality(Counted') =
              Cardinality(Counted) + IF request[h].said = "confirmed" THEN 1 ELSE 0
         /\ Confirming' = Confirming
         /\ Unjoined' \subseteq Unjoined
         /\ request' \in [Asked(poll.fleet) -> RequestStates]
         /\ \A k \in DOMAIN request : request[k] = Unsent => request'[k] = Unsent
<1> DEFINE st(k) == request[k].at
<1>1. /\ DOMAIN request = Asked(poll.fleet) /\ DOMAIN request' = DOMAIN request
      /\ \A k \in DOMAIN request : request[k] \in RequestStates
  BY DEF PollShape, Aborted
<1>2. request'[h] = [at |-> "joined", said |-> request[h].said] /\ request[h].said \in Answers
  BY <1>1 DEF Aborted, RequestStates
<1>3. \A k \in DOMAIN request : k # h =>
        \/ request'[k] = request[k]
        \/ request[k].at = "running" /\ request'[k] = [at |-> "aborted", said |-> "nothing"]
  BY <1>1 DEF Aborted
<1>4. \A k \in DOMAIN request : request[k].said = "confirmed" => request[k].at \in {"finished", "joined"}
  BY <1>1 DEF RequestStates, Answers
<1>5. Counted' = IF request[h].said = "confirmed" THEN Counted \cup {h} ELSE Counted
  BY <1>1, <1>2, <1>3, <1>4, SMT DEF Counted
<1>6. IsFiniteSet(Counted) /\ Cardinality(Counted) \in Nat /\ h \notin Counted
  BY Groups DEF Counted
<1>7. Cardinality(Counted \cup {h}) = Cardinality(Counted) + 1
  BY <1>6, FS_AddElement
<1>8. Confirming' = Confirming
  BY <1>1, <1>2, <1>3, <1>4, SMT DEF Confirming
<1>9. Unjoined' \subseteq Unjoined
  BY <1>1, <1>2, <1>3 DEF Unjoined, AtState
<1>10. \A k \in DOMAIN request : request'[k] \in RequestStates
  BY <1>1, <1>2, <1>3, SMT DEF RequestStates
<1>11. request' \in [Asked(poll.fleet) -> RequestStates]
  BY <1>1, <1>10 DEF Aborted
<1> QED
  BY <1>1, <1>2, <1>3, <1>5, <1>6, <1>7, <1>8, <1>9, <1>11, SMT DEF Unsent

\* A smaller group of requests is within the bound too.
LEMMA StillBounded ==
  ASSUME PollInv, NEW S \in SUBSET Unjoined
  PROVE  Cardinality(S) <= MaxPolls
<1>1. Unjoined \in SUBSET DOMAIN request /\ IsFiniteSet(Unjoined) /\ Cardinality(Unjoined) \in Nat
      /\ S \in SUBSET DOMAIN request /\ Cardinality(S) \in Nat
  BY Groups DEF PollInv
<1>2. Cardinality(S) <= Cardinality(Unjoined)
  BY <1>1, FS_Subset
<1> QED
  BY <1>1, <1>2, PollAssumption, SMT DEF PollInv, Tallied

\* A finished request is joined.
LEMMA RecordKeeps ==
  ASSUME PollInv, NEW h \in DOMAIN request, poll.at \in {"drain", "wait"},
         record_completed_poll(h), UNCHANGED <<shareRow, pollCancelled, pollExpired, degraded>>
  PROVE  PollInv'
<1> DEFINE p == Joined(poll, h)
           one == IF request[h].said = "confirmed" THEN 1 ELSE 0
<1> USE DEF Polling
<1>1. PollShape /\ ToAsk /\ Tallied /\ PollDecidesByEvidence /\ request[h].at = "finished"
  BY DEF PollInv, record_completed_poll
<1>2. poll \in PollsOf(Asked(poll.fleet))
  BY <1>1 DEF PollShape
<1>3. /\ \/ request' = [request EXCEPT ![h].at = "joined"]
         \/ request' = [Aborted EXCEPT ![h].at = "joined"]
      /\ poll' = IF p.confirmations = Needed THEN Ends(p, "quorum") ELSE [p EXCEPT !.at = "drain"]
  BY DEF record_completed_poll
<1>4. /\ p \in PollsOf(Asked(poll.fleet)) /\ p.fleet = poll.fleet /\ p.gen = poll.gen
      /\ p.left = poll.left /\ p.inFlight = poll.inFlight \ {h} /\ p.report = poll.report
      /\ p.confirmations = poll.confirmations + one /\ p.outcome = poll.outcome
  <2>1. one \in Nat /\ p = [poll EXCEPT !.inFlight = poll.inFlight \ {h},
                                          !.confirmations = poll.confirmations + one]
    BY DEF Joined
  <2> HIDE DEF p, one
  <2>2. poll.inFlight \ {h} \in SUBSET Asked(poll.fleet) /\ poll.confirmations + one \in Nat
    BY <1>2, <2>1, SMT DEF PollsOf
  <2>3. PICK i \in SUBSET Asked(poll.fleet), c \in Nat :
          /\ i = poll.inFlight \ {h} /\ c = poll.confirmations + one
          /\ p = [poll EXCEPT !.inFlight = i, !.confirmations = c]
    BY <2>1, <2>2
  <2> QED
    BY <1>2, <2>3 DEF PollsOf
<1> HIDE DEF p
<1>5. /\ poll' \in PollsOf(Asked(poll.fleet)) /\ poll'.fleet = poll.fleet
      /\ poll'.gen = poll.gen /\ poll'.left = poll.left /\ poll'.inFlight = poll.inFlight \ {h}
      /\ poll'.confirmations = poll.confirmations + one /\ poll'.report = poll.report
      /\ p.confirmations = Needed => poll'.at = "settle" /\ poll'.outcome = "quorum"
      /\ p.confirmations # Needed => poll'.at = "drain" /\ poll'.outcome = poll.outcome
  BY <1>3, <1>4 DEF Ends, PollsOf
<1>6. /\ Cardinality(Counted') = Cardinality(Counted) + one
      /\ Confirming' = Confirming /\ Unjoined' \subseteq Unjoined
      /\ request' \in [Asked(poll.fleet) -> RequestStates]
      /\ \A k \in DOMAIN request : request[k] = Unsent => request'[k] = Unsent
  BY <1>1, <1>3, JoinCounts
<1>7. Needed' = Needed /\ Needed \in 0..2
  BY <1>1, <1>4, <1>5, NeededBounds DEF Needed
<1>8. /\ poll.inFlight = Unjoined /\ poll.confirmations = Cardinality(Counted)
      /\ poll.confirmations < Needed /\ poll.confirmations \in Nat
      /\ poll.outcome = "none" /\ degraded = {} /\ poll.report = "none"
  BY <1>1, <1>2 DEF Tallied, PollsOf
<1>9. poll'.confirmations = Cardinality(Counted') /\ poll'.confirmations \in Nat
      /\ poll'.confirmations <= Needed
  BY <1>4, <1>5, <1>6, <1>7, <1>8, SMT
<1>10. PollShape'
  BY <1>1, <1>4, <1>5, <1>6, <1>9 DEF PollShape
<1>11. ToAsk'
  <2>1. Asked(poll.left) \subseteq DOMAIN request
    BY <1>1, <1>2, SMT DEF PollShape, PollsOf, Asked
  <2>2. Asked(poll'.left) = Asked(poll.left)
    BY <1>5
  <2> QED
    BY <1>1, <1>5, <1>6, <2>1, <2>2 DEF ToAsk, Asked
<1>12. Cardinality(Unjoined') <= MaxPolls
  BY <1>6, StillBounded
<1>13. CASE p.confirmations = Needed
  <2>1. request' = [Aborted EXCEPT ![h].at = "joined"]
    BY <1>13 DEF record_completed_poll, p
  <2>2. AtState("running")' = {}
    BY <2>1, <1>1 DEF Aborted, AtState, PollShape, RequestStates
  <2>3. Tallied'
    BY <1>4, <1>5, <1>7, <1>8, <1>9, <1>12, <1>13, <2>2, SMT DEF Tallied, RequiredConfirmations
  <2>4. Counted' \subseteq Confirming' /\ IsFiniteSet(Confirming')
        /\ Cardinality(Counted') \in Nat /\ Cardinality(Confirming') \in Nat
    BY <1>1, <1>6, <1>8, Groups DEF Counted, Confirming
  <2>5. Cardinality(Counted') <= Cardinality(Confirming')
    BY <2>4, FS_Subset
  <2>6. PollDecidesByEvidence'
    BY <1>2, <1>4, <1>5, <1>7, <1>8, <1>9, <1>13, <2>4, <2>5 DEF PollDecidesByEvidence
  <2> QED
    BY <1>10, <1>11, <2>3, <2>6 DEF PollInv
<1>14. CASE p.confirmations # Needed
  <2>1. request' = [request EXCEPT ![h].at = "joined"]
    BY <1>14 DEF record_completed_poll, p
  <2>2. Unjoined' = Unjoined \ {h}
    BY <2>1, <1>1 DEF Unjoined, AtState, PollShape, RequestStates
  <2>3. poll'.confirmations < Needed
    BY <1>2, <1>4, <1>5, <1>7, <1>9, <1>14, SMT
  <2>4. Tallied'
    BY <1>4, <1>5, <1>7, <1>8, <1>9, <1>12, <1>14, <2>2, <2>3, SMT DEF Tallied, RequiredConfirmations
  <2>5. PollDecidesByEvidence'
    BY <1>4, <1>5, <1>8, <1>14 DEF PollDecidesByEvidence
  <2> QED
    BY <1>10, <1>11, <2>4, <2>5 DEF PollInv
<1> QED
  BY <1>13, <1>14

\* A step that leaves requests, row and records alone.
LEMMA MoveKeeps ==
  ASSUME PollInv, UNCHANGED <<request, degraded>>, shareRow' \in Rows,
         pollCancelled' \in BOOLEAN, pollExpired' \in BOOLEAN,
         poll' \in PollsOf(Asked(poll.fleet)), poll'.fleet = poll.fleet,
         poll'.left = poll.left, poll'.inFlight = poll.inFlight,
         poll'.confirmations = poll.confirmations,
         poll'.at \notin {"load", "reported"} => poll'.gen \in PollGens,
         Tallied', PollDecidesByEvidence'
  PROVE  PollInv'
<1>1. PollShape'
  BY DEF PollInv, PollShape
<1>2. ToAsk'
  BY SMT DEF PollInv, ToAsk, Asked
<1> QED
  BY <1>1, <1>2 DEF PollInv

LEMMA LoadKeeps == PollInv /\ load_share => PollInv'
<1> SUFFICES ASSUME PollInv, load_share PROVE PollInv'
  OBVIOUS
<1> USE DEF Polling
<1>1. PollShape /\ Tallied /\ PollDecidesByEvidence /\ poll.at = "load"
      /\ UNCHANGED <<request, shareRow, pollCancelled, pollExpired, degraded>>
  BY DEF PollInv, load_share
<1>2. shareRow = NoRow \/ shareRow.gen \in PollGens
  BY <1>1 DEF PollShape, Rows
<1>3. poll \in PollsOf(Asked(poll.fleet))
  BY <1>1 DEF PollShape
<1>4. /\ poll' \in PollsOf(Asked(poll.fleet)) /\ poll'.fleet = poll.fleet
      /\ poll'.left = poll.left /\ poll'.inFlight = poll.inFlight
      /\ poll'.confirmations = poll.confirmations /\ poll'.outcome = poll.outcome
      /\ \/ poll'.at = "lock" /\ poll'.gen \in PollGens /\ poll'.report = poll.report
         \/ poll'.at = "reported"
  BY <1>1, <1>2, <1>3 DEF load_share, Report, PollsOf
<1>5. Tallied'
  BY <1>1, <1>4, SMT DEF Tallied, Unjoined, AtState, Counted, Unsent
<1>6. PollDecidesByEvidence'
  BY <1>1, <1>4 DEF Tallied, PollDecidesByEvidence, AtState
<1> QED
  BY <1>1, <1>4, <1>5, <1>6, MoveKeeps DEF PollShape

LEMMA LockKeeps == PollInv /\ lock_share_operation_or_cancel => PollInv'
<1> SUFFICES ASSUME PollInv, lock_share_operation_or_cancel PROVE PollInv'
  OBVIOUS
<1> USE DEF Polling
<1>1. PollShape /\ Tallied /\ PollDecidesByEvidence /\ poll.at = "lock"
      /\ UNCHANGED <<request, shareRow, pollCancelled, pollExpired, degraded>>
  BY DEF PollInv, lock_share_operation_or_cancel
<1>2. poll \in PollsOf(Asked(poll.fleet)) /\ poll.gen \in PollGens
  BY <1>1 DEF PollShape
<1>3. /\ poll' \in PollsOf(Asked(poll.fleet)) /\ poll'.fleet = poll.fleet
      /\ poll'.left = poll.left /\ poll'.inFlight = poll.inFlight /\ poll'.gen = poll.gen
      /\ poll'.confirmations = poll.confirmations /\ poll'.outcome = poll.outcome
      /\ \/ poll'.at = "drain" /\ poll.fleet # <<>> /\ poll'.report = poll.report
         \/ poll'.at = "reported"
  <2>1. \/ \E how \in {"cancelled", "pending", "confirmed"} : poll' = Report(how)
        \/ poll' = [poll EXCEPT !.at = "drain"] /\ poll.fleet # <<>>
    BY DEF lock_share_operation_or_cancel
  <2> QED
    BY <1>2, <2>1 DEF Report, PollsOf
<1>4. Counted = {} /\ Unjoined = {} /\ AtState("running") = {}
  BY <1>1, SMT DEF Tallied, Counted, Unjoined, AtState, Unsent
<1>5. Cardinality({}) = 0 /\ Needed' = Needed /\ (poll.fleet # <<>> => Needed > 0)
  BY <1>1, <1>3, FS_EmptySet, NeededBounds DEF Needed
<1>6. Counted' = Counted /\ Unjoined' = Unjoined /\ AtState("running")' = AtState("running")
  BY <1>1 DEF Counted, Unjoined, AtState
<1>7. Tallied'
  BY <1>1, <1>3, <1>4, <1>5, <1>6 DEF Tallied
<1>8. PollDecidesByEvidence'
  BY <1>1, <1>3 DEF Tallied, PollDecidesByEvidence, AtState
<1> QED
  BY <1>1, <1>2, <1>3, <1>7, <1>8, MoveKeeps DEF PollShape

\* Nothing is left to join: the tally is all there will be.
LEMMA DrainKeeps == PollInv /\ drain_completed => PollInv'
<1> SUFFICES ASSUME PollInv, drain_completed PROVE PollInv'
  OBVIOUS
<1> USE DEF Polling
<1>1. PollShape /\ Tallied /\ PollDecidesByEvidence /\ poll.at = "drain"
      /\ UNCHANGED <<shareRow, pollCancelled, pollExpired, degraded>>
  BY DEF PollInv, drain_completed
<1>2. CASE \E h \in DOMAIN request : record_completed_poll(h)
  BY <1>1, <1>2, RecordKeeps
<1>3. CASE /\ AtState("finished") = {} /\ UNCHANGED request
           /\ poll' = IF AtState("running") = {} /\ poll.left = <<>>
                      THEN Ends(poll, "noQuorum") ELSE [poll EXCEPT !.at = "check"]
  <2>1. poll \in PollsOf(Asked(poll.fleet)) /\ poll.gen \in PollGens
    BY <1>1 DEF PollShape
  <2>2. \/ poll' = [poll EXCEPT !.at = "settle", !.outcome = "noQuorum"] /\ AtState("running") = {}
        \/ poll' = [poll EXCEPT !.at = "check"]
    BY <1>3 DEF Ends
  <2>3. /\ poll' \in PollsOf(Asked(poll.fleet)) /\ poll'.fleet = poll.fleet
        /\ poll'.left = poll.left /\ poll'.inFlight = poll.inFlight /\ poll'.gen = poll.gen
        /\ poll'.confirmations = poll.confirmations /\ poll'.report = poll.report
        /\ \/ poll'.at = "settle" /\ poll'.outcome = "noQuorum" /\ AtState("running") = {}
           \/ poll'.at = "check" /\ poll'.outcome = poll.outcome
    BY <2>1, <2>2 DEF PollsOf
  <2>4. /\ Counted' = Counted /\ Unjoined' = Unjoined /\ AtState("running")' = AtState("running")
        /\ AtState("aborted")' = AtState("aborted") /\ Confirming' = Confirming
    BY <1>3 DEF Counted, Unjoined, AtState, Confirming
  <2>5. Needed' = Needed /\ Confirming = Counted
    BY <1>1, <1>3, <2>3, Groups DEF Needed
  <2>6. Tallied'
    BY <1>1, <2>3, <2>4, <2>5 DEF Tallied
  <2>7. PollDecidesByEvidence'
    BY <1>1, <2>3, <2>4, <2>5 DEF Tallied, PollDecidesByEvidence
  <2> QED
    BY <1>1, <1>3, <2>1, <2>3, <2>6, <2>7, MoveKeeps DEF PollShape
<1> QED
  BY <1>2, <1>3 DEF drain_completed

LEMMA WaitKeeps == PollInv /\ wait_join_or_tick => PollInv'
<1> SUFFICES ASSUME PollInv, wait_join_or_tick PROVE PollInv'
  OBVIOUS
<1> USE DEF Polling
<1>1. PollShape /\ Tallied /\ PollDecidesByEvidence /\ poll.at = "wait"
      /\ UNCHANGED <<shareRow, pollCancelled, pollExpired, degraded>>
  BY DEF PollInv, wait_join_or_tick
<1>2. CASE \E h \in DOMAIN request : record_completed_poll(h)
  BY <1>1, <1>2, RecordKeeps
<1>3. CASE poll' = [poll EXCEPT !.at = "drain"] /\ UNCHANGED request
  <2>1. poll \in PollsOf(Asked(poll.fleet)) /\ poll.gen \in PollGens
    BY <1>1 DEF PollShape
  <2>2. /\ poll' \in PollsOf(Asked(poll.fleet)) /\ poll'.fleet = poll.fleet
        /\ poll'.left = poll.left /\ poll'.inFlight = poll.inFlight /\ poll'.gen = poll.gen
        /\ poll'.confirmations = poll.confirmations /\ poll'.report = poll.report
        /\ poll'.at = "drain" /\ poll'.outcome = poll.outcome
    BY <1>3, <2>1 DEF PollsOf
  <2>3. /\ Counted' = Counted /\ Unjoined' = Unjoined /\ AtState("running")' = AtState("running")
        /\ AtState("aborted")' = AtState("aborted") /\ Confirming' = Confirming
        /\ Needed' = Needed
    BY <1>3, <2>2, SMT DEF Counted, Unjoined, AtState, Confirming, Needed
  <2>4. Tallied' /\ PollDecidesByEvidence'
    BY <1>1, <2>2, <2>3 DEF Tallied, PollDecidesByEvidence
  <2> QED
    BY <1>1, <1>3, <2>1, <2>2, <2>4, MoveKeeps DEF PollShape
<1> QED
  BY <1>2, <1>3 DEF wait_join_or_tick

\* Aborting the running requests.
LEMMA AbortFacts ==
  ASSUME PollShape, NEW late \in {{}, AtState("finished")},
         request' = [h \in DOMAIN request |->
                       IF h \in late THEN [request[h] EXCEPT !.at = "joined"] ELSE Aborted[h]]
  PROVE  /\ request' \in [Asked(poll.fleet) -> RequestStates]
         /\ AtState("running")' = {} /\ AtState("running") \subseteq AtState("aborted")'
         /\ Confirming' = Confirming /\ Unjoined' \subseteq Unjoined
         /\ \A h \in DOMAIN request : request[h] = Unsent => request'[h] = Unsent
<1>1. /\ DOMAIN request = Asked(poll.fleet) /\ DOMAIN request' = DOMAIN request
      /\ \A h \in DOMAIN request : request[h] \in RequestStates
  BY DEF PollShape
<1>2. \A h \in late : /\ request[h].at = "finished" /\ request[h].said \in Answers
                      /\ request'[h] = [at |-> "joined", said |-> request[h].said]
  <2> SUFFICES ASSUME NEW h \in late
               PROVE  /\ request[h].at = "finished" /\ request[h].said \in Answers
                      /\ request'[h] = [at |-> "joined", said |-> request[h].said]
    OBVIOUS
  <2>1. h \in DOMAIN request /\ request[h].at = "finished"
    BY DEF AtState
  <2>2. request[h] \in [at : {"finished", "joined"}, said : Answers]
    BY <1>1, <2>1 DEF RequestStates
  <2> QED
    BY <2>1, <2>2
<1>3. \A h \in DOMAIN request \ late :
        \/ request[h].at # "running" /\ request'[h] = request[h]
        \/ request[h].at = "running" /\ request'[h] = [at |-> "aborted", said |-> "nothing"]
  BY DEF Aborted
<1>4. \A h \in DOMAIN request : request[h].at = "running" => request[h].said = "nothing"
  BY <1>1 DEF RequestStates
<1>5. \A h \in DOMAIN request : request'[h] \in RequestStates
  <2>1. \A h \in late : request'[h] \in RequestStates
    <3>1. \A a \in Answers : [at |-> "joined", said |-> a] \in RequestStates
      BY DEF RequestStates
    <3> QED
      BY <1>2, <3>1
  <2>2. [at |-> "aborted", said |-> "nothing"] \in RequestStates
    BY DEF RequestStates
  <2> QED
    BY <1>1, <1>3, <2>1, <2>2
<1>6. request' \in [Asked(poll.fleet) -> RequestStates]
  BY <1>1, <1>5
<1>7. AtState("running")' = {} /\ AtState("running") \subseteq AtState("aborted")'
  BY <1>1, <1>2, <1>3, SMT DEF AtState
<1>8. Confirming' = Confirming
  BY <1>1, <1>2, <1>3, <1>4, SMT DEF Confirming
<1>9. Unjoined' \subseteq Unjoined
  BY <1>1, <1>2, <1>3 DEF Unjoined, AtState
<1> QED
  BY <1>2, <1>3, <1>6, <1>7, <1>8, <1>9, SMT DEF Unsent

\* The caller has cancelled.
LEMMA CancelledKeeps ==
  ASSUME PollInv, poll.at = "check", poll' = Ends(poll, "cancelled"), request' = Aborted,
         UNCHANGED <<shareRow, pollCancelled, pollExpired, degraded>>
  PROVE  PollInv'
<1> USE DEF Polling
<1>1. PollShape /\ ToAsk /\ Tallied /\ PollDecidesByEvidence
  BY DEF PollInv
<1>2. poll \in PollsOf(Asked(poll.fleet)) /\ poll.gen \in PollGens
  BY <1>1 DEF PollShape
<1>3. /\ poll' \in PollsOf(Asked(poll.fleet)) /\ poll'.fleet = poll.fleet
      /\ poll'.left = poll.left /\ poll'.gen = poll.gen
      /\ poll'.confirmations = poll.confirmations /\ poll'.report = poll.report
      /\ poll'.at = "settle" /\ poll'.outcome = "cancelled"
  BY <1>2 DEF Ends, PollsOf
<1>4. request' = [h \in DOMAIN request |->
                    IF h \in {} THEN [request[h] EXCEPT !.at = "joined"] ELSE Aborted[h]]
  BY DEF Aborted
<1>5. /\ request' \in [Asked(poll.fleet) -> RequestStates]
      /\ AtState("running")' = {} /\ Unjoined' \subseteq Unjoined
      /\ \A h \in DOMAIN request : request[h] = Unsent => request'[h] = Unsent
  BY <1>1, <1>4, AbortFacts
<1>6. Asked(poll.left) \subseteq DOMAIN request /\ Asked(poll'.left) = Asked(poll.left)
  BY <1>1, <1>2, <1>3, SMT DEF PollShape, PollsOf, Asked
<1>7. PollShape'
  BY <1>1, <1>2, <1>3, <1>5 DEF PollShape
<1>8. ToAsk'
  BY <1>1, <1>3, <1>5, <1>6, SMT DEF ToAsk
<1>9. Tallied'
  BY <1>1, <1>3, <1>5, StillBounded DEF Tallied
<1>10. PollDecidesByEvidence'
  BY <1>1, <1>3 DEF Tallied, PollDecidesByEvidence
<1> QED
  BY <1>7, <1>8, <1>9, <1>10 DEF PollInv

\* The budget has run out.
LEMMA ExpiredKeeps ==
  ASSUME PollInv, poll.at = "check", finish_expired_polls,
         UNCHANGED <<shareRow, pollCancelled, pollExpired>>
  PROVE  PollInv'
<1> USE DEF Polling
<1> DEFINE late  == AtState("finished")
           found == poll.confirmations + Cardinality(late \cap Confirming) >= Needed
           how   == IF found THEN "quorum" ELSE "noQuorum"
<1>1. PollShape /\ ToAsk /\ Tallied /\ PollDecidesByEvidence
  BY DEF PollInv
<1>2. poll \in PollsOf(Asked(poll.fleet)) /\ poll.gen \in PollGens
  BY <1>1 DEF PollShape
<1>3. PICK rest \in SUBSET Asked(poll.fleet) :
        /\ poll' = Ends([poll EXCEPT !.inFlight = rest], how)
        /\ degraded' = IF found THEN degraded ELSE degraded \cup (poll.inFlight \ late)
  <2> DEFINE rest == IF found THEN poll.inFlight \ late ELSE {}
  <2>1. rest \in SUBSET Asked(poll.fleet)
    BY <1>2 DEF PollsOf
  <2>2. /\ poll' = Ends([poll EXCEPT !.inFlight = rest], how)
        /\ degraded' = IF found THEN degraded ELSE degraded \cup (poll.inFlight \ late)
    BY DEF finish_expired_polls
  <2> HIDE DEF rest
  <2> QED
    BY <2>1, <2>2
<1>4. /\ poll' \in PollsOf(Asked(poll.fleet)) /\ poll'.fleet = poll.fleet
      /\ poll'.left = poll.left /\ poll'.gen = poll.gen
      /\ poll'.confirmations = poll.confirmations /\ poll'.report = poll.report
      /\ poll'.at = "settle" /\ poll'.outcome = how
  <2>1. how \in {"quorum", "noQuorum"}
    OBVIOUS
  <2> HIDE DEF how
  <2> QED
    BY <1>2, <1>3, <2>1 DEF Ends, PollsOf
<1>5. /\ request' \in [Asked(poll.fleet) -> RequestStates]
      /\ AtState("running")' = {} /\ AtState("running") \subseteq AtState("aborted")'
      /\ Confirming' = Confirming /\ Unjoined' \subseteq Unjoined
      /\ \A h \in DOMAIN request : request[h] = Unsent => request'[h] = Unsent
  BY <1>1, AbortFacts DEF finish_expired_polls
<1>6. Asked(poll.left) \subseteq DOMAIN request /\ Asked(poll'.left) = Asked(poll.left)
  BY <1>1, <1>2, <1>4, SMT DEF PollShape, PollsOf, Asked
<1>7. Cardinality(Confirming) = poll.confirmations + Cardinality(late \cap Confirming)
  <2>1. /\ IsFiniteSet(Counted) /\ IsFiniteSet(late \cap Confirming)
        /\ Confirming = Counted \cup (late \cap Confirming)
        /\ Counted \cap (late \cap Confirming) = {}
        /\ Cardinality(Counted) \in Nat /\ Cardinality(late \cap Confirming) \in Nat
    BY <1>1, Groups
  <2> DEFINE more == late \cap Confirming
  <2>2. IsFiniteSet(Counted) /\ IsFiniteSet(more) /\ Counted \cap more = {} /\ Confirming = Counted \cup more
        /\ Cardinality(Counted) \in Nat /\ Cardinality(more) \in Nat
    BY <2>1
  <2> HIDE DEF more
  <2>3. Cardinality(Counted \cup more) = Cardinality(Counted) + Cardinality(more) - Cardinality(Counted \cap more)
    BY <2>2, FS_Union
  <2>4. Cardinality(Counted \cap more) = 0
    BY <2>2, FS_EmptySet
  <2>5. Cardinality(Confirming) = Cardinality(Counted) + Cardinality(more)
    BY <2>2, <2>3, <2>4, SMT
  <2> QED
    BY <1>1, <2>5 DEF Tallied, more
<1>8. Needed' = Needed /\ Needed \in Nat /\ Cardinality(Confirming) \in Nat
  BY <1>1, <1>4, NeededBounds, Groups, SMT DEF Needed
<1>9. poll.inFlight \ late \subseteq AtState("running") /\ degraded = {}
  BY <1>1 DEF Tallied, Unjoined
<1>10. degraded' \subseteq AtState("aborted")' /\ AtState("running") \subseteq DOMAIN request
  BY <1>3, <1>5, <1>9 DEF AtState
<1>11. PollShape'
  <2>1. degraded' \subseteq Asked(poll.fleet)
    BY <1>1, <1>3, <1>9, <1>10 DEF PollShape
  <2> QED
    BY <1>1, <1>2, <1>4, <1>5, <2>1 DEF PollShape
<1>12. ToAsk'
  BY <1>1, <1>4, <1>5, <1>6 DEF ToAsk
<1>13. Tallied'
  BY <1>1, <1>4, <1>5, StillBounded DEF Tallied
<1>14. PollDecidesByEvidence'
  <2>1. /\ how = "quorum" => Cardinality(Confirming) >= Needed
        /\ how = "noQuorum" => Cardinality(Confirming) < Needed
    BY <1>7, <1>8, SMT
  <2>2. poll'.report = "none"
    BY <1>1, <1>4 DEF Tallied
  <2> HIDE DEF how
  <2> QED
    BY <1>4, <1>5, <1>8, <1>10, <2>1, <2>2 DEF PollDecidesByEvidence
<1> QED
  BY <1>11, <1>12, <1>13, <1>14 DEF PollInv

\* A list of distinct helpers cut in two.
LEMMA Cut ==
  ASSUME NEW T, NEW s \in Seq(T), NEW n \in 0..Len(s),
         \A i, k \in DOMAIN s : s[i] = s[k] => i = k
  PROVE  LET a == SubSeq(s, 1, n)
             b == SubSeq(s, n + 1, Len(s))
         IN /\ a \in Seq(T) /\ Len(a) = n /\ b \in Seq(T)
            /\ Asked(a) \subseteq Asked(s) /\ Asked(b) \subseteq Asked(s)
            /\ Asked(a) \cap Asked(b) = {}
            /\ \A i, k \in DOMAIN b : b[i] = b[k] => i = k
<1> DEFINE a == SubSeq(s, 1, n)
           b == SubSeq(s, n + 1, Len(s))
<1>1. Len(s) \in Nat /\ n \in Nat /\ n <= Len(s) /\ DOMAIN s = 1..Len(s)
  BY SMT
<1>2. a \in Seq(T) /\ Len(a) = n /\ DOMAIN a = 1..n /\ \A i \in 1..n : a[i] = s[i]
  BY <1>1, SMT
<1>3. /\ b \in Seq(T) /\ Len(b) = Len(s) - n /\ DOMAIN b = 1..(Len(s) - n)
      /\ \A i \in 1..(Len(s) - n) : b[i] = s[n + i]
  <2>1. Len(s) - n \in Nat /\ (Len(s) - (n + 1)) + 1 = Len(s) - n
        /\ \A i \in 1..(Len(s) - n) : (n + 1) + i - 1 = n + i /\ n + i \in 1..Len(s)
    BY <1>1, SMT
  <2>2. n + 1 \in Int /\ Len(s) \in Int /\ \A i \in (n + 1)..Len(s) : s[i] \in T
    BY <1>1, SMT
  <2>3. /\ b \in Seq(T) /\ Len(b) = IF n + 1 <= Len(s) THEN Len(s) - (n + 1) + 1 ELSE 0
        /\ \A i \in 1..(Len(s) - (n + 1) + 1) : b[i] = s[(n + 1) + i - 1]
    BY <2>2, SubSeqProperties, SMT
  <2> HIDE DEF b
  <2>4. Len(b) = Len(s) - n
    <3>1. \A m, k \in Nat : m <= k => (IF m + 1 <= k THEN k - (m + 1) + 1 ELSE 0) = k - m
      BY SMT
    <3> QED
      BY <1>1, <2>3, <3>1
  <2>5. ASSUME NEW i \in 1..(Len(s) - n) PROVE b[i] = s[n + i]
    <3>1. i \in 1..(Len(s) - (n + 1) + 1) /\ (n + 1) + i - 1 = n + i
      BY <1>1, SMT
    <3> QED
      BY <2>3, <3>1
  <2> QED
    BY <2>3, <2>4, <2>5, SMT
<1> HIDE DEF a, b
<1>4. \A i \in DOMAIN b : n + i \in DOMAIN s /\ n + i > n /\ b[i] = s[n + i]
  BY <1>1, <1>3, SMT
<1>5. \A i \in DOMAIN a : i \in DOMAIN s /\ i <= n /\ a[i] = s[i]
  BY <1>1, <1>2, SMT
<1>6. Asked(a) \subseteq Asked(s) /\ Asked(b) \subseteq Asked(s)
  BY <1>4, <1>5, SMT DEF Asked
<1>7. Asked(a) \cap Asked(b) = {}
  <2>1. ASSUME NEW i \in DOMAIN a, NEW k \in DOMAIN b, a[i] = b[k] PROVE FALSE
    <3>1. i = n + k
      BY <1>4, <1>5, <2>1
    <3> QED
      BY <1>1, <1>2, <1>3, <3>1, SMT
  <2> QED
    BY <2>1 DEF Asked
<1>8. \A i, k \in DOMAIN b : b[i] = b[k] => i = k
  BY <1>1, <1>3, <1>4, SMT
<1> QED
  BY <1>2, <1>3, <1>6, <1>7, <1>8 DEF a, b

\* The requests sent next are the first ones to ask, and fit in the limit.
LEMMA SpawnFits ==
  ASSUME PollInv, poll.at = "check"
  PROVE  \E n \in 0..Len(poll.left) :
           /\ Spawned = SubSeq(poll.left, 1, n)
           /\ Cardinality(Unjoined) + n <= MaxPolls
<1>1. Cardinality(Unjoined) \in Nat /\ Cardinality(Unjoined) <= MaxPolls /\ MaxPolls \in Nat
  BY Groups, PollAssumption DEF PollInv, Tallied
<1>2. Len(poll.left) \in Nat
  BY SMT DEF PollInv, PollShape, PollsOf
<1> DEFINE u == Cardinality(Unjoined)
           room == IF u >= MaxPolls THEN 0 ELSE MaxPolls - u
           n == IF room < Len(poll.left) THEN room ELSE Len(poll.left)
<1>3. Spawned = SubSeq(poll.left, 1, n)
  BY DEF Spawned, Unjoined
<1>4. n \in 0..Len(poll.left) /\ u + n <= MaxPolls
  BY <1>1, <1>2, SMT
<1> HIDE DEF n, room
<1> QED
  BY <1>3, <1>4

\* Sending further requests.
LEMMA SpawnKeeps ==
  ASSUME PollInv, poll.at = "check",
         poll' = [poll EXCEPT !.at = "wait",
                              !.left = SubSeq(@, Len(Spawned) + 1, Len(@)),
                              !.inFlight = @ \cup Asked(Spawned)],
         request' = [h \in DOMAIN request |->
                       IF h \in Asked(Spawned) THEN [at |-> "running", said |-> "nothing"]
                                               ELSE request[h]],
         UNCHANGED <<shareRow, pollCancelled, pollExpired, degraded>>
  PROVE  PollInv'
<1> USE DEF Polling
<1>1. PollShape /\ ToAsk /\ Tallied /\ PollDecidesByEvidence
  BY DEF PollInv
<1>2. poll \in PollsOf(Asked(poll.fleet)) /\ poll.gen \in PollGens
  BY <1>1 DEF PollShape
<1>3. poll.left \in Seq(Asked(poll.fleet)) /\ poll.inFlight \subseteq Asked(poll.fleet)
  BY <1>2 DEF PollsOf
<1>4. PICK n \in 0..Len(poll.left) :
        /\ Spawned = SubSeq(poll.left, 1, n) /\ Cardinality(Unjoined) + n <= MaxPolls
  BY SpawnFits
<1> DEFINE rest == SubSeq(poll.left, n + 1, Len(poll.left))
           sent == Asked(Spawned)
           flight == poll.inFlight \cup sent
<1>5. /\ Spawned \in Seq(Asked(poll.fleet)) /\ Len(Spawned) = n /\ rest \in Seq(Asked(poll.fleet))
      /\ sent \subseteq Asked(poll.left) /\ Asked(rest) \subseteq Asked(poll.left)
      /\ sent \cap Asked(rest) = {}
      /\ \A i, k \in DOMAIN rest : rest[i] = rest[k] => i = k
  <2>1. \A i, k \in DOMAIN poll.left : poll.left[i] = poll.left[k] => i = k
    BY <1>1 DEF ToAsk
  <2> DEFINE first == SubSeq(poll.left, 1, n)
  <2>2. /\ first \in Seq(Asked(poll.fleet)) /\ Len(first) = n /\ rest \in Seq(Asked(poll.fleet))
        /\ Asked(first) \subseteq Asked(poll.left) /\ Asked(rest) \subseteq Asked(poll.left)
        /\ Asked(first) \cap Asked(rest) = {}
        /\ \A i, k \in DOMAIN rest : rest[i] = rest[k] => i = k
    BY <1>3, <2>1, Cut
  <2> HIDE DEF first, rest
  <2> QED
    BY <1>4, <2>2 DEF first, sent
<1>6. Asked(poll.left) \subseteq Asked(poll.fleet)
  BY <1>3, SMT DEF Asked
<1>7. flight \in SUBSET Asked(poll.fleet) /\ IsFiniteSet(sent) /\ Cardinality(sent) <= n
  BY <1>3, <1>5, <1>6, ListSize
<1>8. poll' = [poll EXCEPT !.at = "wait", !.left = rest, !.inFlight = flight]
  BY <1>5
<1>9. \A h \in DOMAIN request :
        request'[h] = IF h \in sent THEN [at |-> "running", said |-> "nothing"] ELSE request[h]
  OBVIOUS
<1> HIDE DEF rest, sent, flight
<1>10. /\ poll' \in PollsOf(Asked(poll.fleet)) /\ poll'.fleet = poll.fleet
       /\ poll'.left = rest /\ poll'.gen = poll.gen /\ poll'.inFlight = flight
       /\ poll'.confirmations = poll.confirmations /\ poll'.report = poll.report
       /\ poll'.at = "wait" /\ poll'.outcome = poll.outcome
  BY <1>2, <1>5, <1>7, <1>8 DEF PollsOf
<1>11. DOMAIN request = Asked(poll.fleet) /\ DOMAIN request' = DOMAIN request
  BY <1>1 DEF PollShape
<1>12. \A h \in sent : h \in DOMAIN request /\ request[h] = [at |-> "unsent", said |-> "nothing"]
  BY <1>1, <1>5, <1>6, <1>11 DEF ToAsk, Unsent
<1>13. Confirming' = Confirming /\ Counted' = Counted /\ AtState("aborted")' = AtState("aborted")
  BY <1>9, <1>11, <1>12, SMT DEF Confirming, Counted, AtState
<1>14. Unjoined' = Unjoined \cup sent
  BY <1>9, <1>11, <1>12, SMT DEF Unjoined, AtState
<1>15. Cardinality(Unjoined') <= MaxPolls
  <2>1. IsFiniteSet(Unjoined) /\ Cardinality(Unjoined) \in Nat
    BY <1>1, Groups
  <2>2. Cardinality(sent) \in Nat /\ Cardinality(Unjoined \cap sent) \in Nat
    BY <1>7, <2>1, FS_CardinalityType, FS_Intersection
  <2>3. Cardinality(Unjoined \cup sent)
          = Cardinality(Unjoined) + Cardinality(sent) - Cardinality(Unjoined \cap sent)
    BY <1>7, <2>1, FS_Union
  <2> QED
    BY <1>4, <1>7, <1>14, <2>1, <2>2, <2>3, PollAssumption, SMT
<1>16. PollShape'
  <2>1. \A h \in DOMAIN request : request'[h] \in RequestStates
    BY <1>1, <1>9, <1>11 DEF PollShape, RequestStates
  <2>2. request' \in [Asked(poll.fleet) -> RequestStates]
    BY <1>11, <2>1
  <2> QED
    BY <1>1, <1>2, <1>10, <2>2 DEF PollShape
<1>17. ToAsk'
  <2>1. \A h \in Asked(rest) : h \in DOMAIN request /\ h \notin sent /\ request[h] = Unsent
    BY <1>1, <1>5, <1>6, <1>11 DEF ToAsk
  <2>2. \A h \in Asked(rest) : request'[h] = Unsent
    BY <1>9, <2>1
  <2>3. Asked(poll'.left) = Asked(rest)
    BY <1>10
  <2>4. \A i, k \in DOMAIN poll'.left : poll'.left[i] = poll'.left[k] => i = k
    <3>1. \A l : l = rest => \A i, k \in DOMAIN l : l[i] = l[k] => i = k
      BY <1>5
    <3>2. poll'.left = rest
      BY <1>10
    <3> QED
      BY <3>1, <3>2
  <2> QED
    BY <2>2, <2>3, <2>4 DEF ToAsk, Unsent
<1>18. Tallied'
  <2>1. Needed' = Needed
    BY <1>10, SMT DEF Needed
  <2> QED
    BY <1>1, <1>10, <1>13, <1>14, <1>15, <2>1 DEF Tallied, flight
<1>19. PollDecidesByEvidence'
  BY <1>1, <1>10, <1>13 DEF Tallied, PollDecidesByEvidence
<1> QED
  BY <1>16, <1>17, <1>18, <1>19 DEF PollInv

LEMMA CheckKeeps ==
  ASSUME PollInv, check_and_spawn
  PROVE  PollInv'
<1>1. CASE pollCancelled
  BY <1>1, CancelledKeeps DEF check_and_spawn
<1>2. CASE pollExpired /\ ~pollCancelled
  BY <1>2, ExpiredKeeps DEF check_and_spawn
<1>3. CASE ~pollCancelled /\ ~pollExpired
  BY <1>3, SpawnKeeps DEF check_and_spawn
<1> QED
  BY <1>1, <1>2, <1>3

\* poll_and_confirm_share writes to the row it polled, or to none.
LEMMA ConfirmKeeps ==
  ASSUME PollInv, confirm_polled_share
  PROVE  PollInv'
<1> USE DEF Polling
<1> DEFINE writes == poll.outcome = "quorum" /\ shareRow.gen = poll.gen
           how == IF writes THEN "confirmed"
                  ELSE IF poll.outcome = "cancelled" THEN "cancelled" ELSE "pending"
<1>1. PollShape /\ ToAsk /\ Tallied /\ PollDecidesByEvidence
  BY DEF PollInv
<1>2. /\ poll.at = "settle" /\ poll' = Report(how)
      /\ shareRow' = IF writes THEN [shareRow EXCEPT !.confirmed = TRUE] ELSE shareRow
      /\ UNCHANGED <<request, pollCancelled, pollExpired, degraded>>
  BY DEF confirm_polled_share
<1>3. poll \in PollsOf(Asked(poll.fleet)) /\ shareRow \in Rows /\ poll.gen \in PollGens
  BY <1>1, <1>2 DEF PollShape
<1>4. shareRow' \in Rows /\ (writes => shareRow'.gen = poll.gen)
  <2>1. CASE writes
    <3>1. \/ shareRow = NoRow /\ "none" \in PollGens
          \/ shareRow \in [gen : PollGens, confirmed : BOOLEAN]
      BY <1>3, <2>1, SMT DEF Rows, NoRow
    <3>2. shareRow \in [gen : PollGens, confirmed : BOOLEAN]
      <4>1. \A g \in PollGens : [gen |-> g, confirmed |-> FALSE] \in [gen : PollGens, confirmed : BOOLEAN]
        OBVIOUS
      <4> QED
        BY <3>1, <4>1 DEF NoRow
    <3>3. shareRow' \in [gen : PollGens, confirmed : BOOLEAN] /\ shareRow'.gen = shareRow.gen
      BY <1>2, <2>1, <3>2
    <3> QED
      BY <2>1, <3>3 DEF Rows
  <2>2. CASE ~writes
    BY <1>2, <1>3, <2>2
  <2> QED
    BY <2>1, <2>2
<1>5. how \in {"confirmed", "cancelled", "pending"} /\ (how = "confirmed" => writes)
  OBVIOUS
<1> HIDE DEF how
<1>6. /\ poll' \in PollsOf(Asked(poll.fleet)) /\ poll'.fleet = poll.fleet
      /\ poll'.left = poll.left /\ poll'.gen = poll.gen
      /\ poll'.confirmations = poll.confirmations /\ poll'.report = how
      /\ poll'.at = "reported" /\ poll'.outcome = poll.outcome
  BY <1>2, <1>3, <1>5 DEF Report, PollsOf
<1>7. PollShape'
  BY <1>1, <1>2, <1>4, <1>6 DEF PollShape
<1>8. ToAsk'
  BY <1>1, <1>2, <1>6, SMT DEF ToAsk
<1>9. Tallied'
  BY <1>1, <1>2, <1>6 DEF Tallied, Unjoined, AtState
<1>10. PollDecidesByEvidence'
  <2>1. Needed' = Needed /\ Confirming' = Confirming /\ AtState("aborted")' = AtState("aborted")
    BY <1>2, <1>6 DEF Needed, Confirming, AtState
  <2>2. how = "confirmed" => shareRow'.gen = poll'.gen /\ Cardinality(Confirming) >= Needed
    BY <1>1, <1>4, <1>5, <1>6 DEF PollDecidesByEvidence
  <2> QED
    BY <1>1, <1>2, <1>6, <2>1, <2>2 DEF PollDecidesByEvidence
<1> QED
  BY <1>7, <1>8, <1>9, <1>10 DEF PollInv

\* An answer arrives: the poll has not joined it yet.
LEMMA StatusKeeps ==
  ASSUME PollInv, NEW h \in DOMAIN request, share_status(h)
  PROVE  PollInv'
<1> USE DEF Polling
<1>1. PollShape /\ ToAsk /\ Tallied /\ PollDecidesByEvidence
  BY DEF PollInv
<1>2. PICK a \in Answers : request' = [request EXCEPT ![h] = [at |-> "finished", said |-> a]]
  BY DEF share_status
<1>3. request[h].at = "running" /\ UNCHANGED <<poll, shareRow, pollCancelled, pollExpired, degraded>>
  BY DEF share_status
<1>4. /\ DOMAIN request' = DOMAIN request /\ DOMAIN request = Asked(poll.fleet)
      /\ request'[h] = [at |-> "finished", said |-> a]
      /\ \A g \in DOMAIN request : g # h => request'[g] = request[g]
  BY <1>1, <1>2 DEF PollShape
<1>5. poll.at \notin {"load", "lock", "settle", "reported"}
  <2>1. poll.at \in {"load", "lock"} => request[h].at = "unsent"
    BY <1>1, SMT DEF Tallied, Unsent
  <2>2. poll.at \in {"settle", "reported"} => h \notin AtState("running")
    BY <1>1 DEF Tallied
  <2> QED
    BY <1>3, <2>1, <2>2 DEF AtState
<1>6. poll.at \in Polling
  BY <1>1, <1>5 DEF PollShape, PollsOf
<1>7. Unjoined' = Unjoined /\ Counted' = Counted /\ AtState("aborted")' = AtState("aborted")
  BY <1>3, <1>4, SMT DEF Unjoined, Counted, AtState
<1>8. PollShape'
  <2>1. request'[h] \in RequestStates
    BY <1>4, SMT DEF RequestStates
  <2>2. \A g \in DOMAIN request : request'[g] \in RequestStates
    BY <1>1, <1>4, <2>1 DEF PollShape
  <2>3. request' \in [Asked(poll.fleet) -> RequestStates]
    BY <1>2, <1>4, <2>2
  <2> QED
    BY <1>1, <1>3, <2>3 DEF PollShape
<1>9. ToAsk'
  <2>1. \A g \in Asked(poll.left) : g \in DOMAIN request /\ g # h
    BY <1>1, <1>3, <1>4, SMT DEF ToAsk, Unsent, PollShape, PollsOf, Asked
  <2> QED
    BY <1>1, <1>3, <1>4, <2>1 DEF ToAsk
<1>10. Tallied'
  BY <1>1, <1>3, <1>6, <1>7 DEF Tallied, Needed
<1>11. PollDecidesByEvidence'
  <2>1. poll.outcome = "none" /\ degraded = {} /\ poll.report = "none"
    BY <1>1, <1>6 DEF Tallied
  <2> QED
    BY <1>3, <2>1 DEF PollDecidesByEvidence
<1> QED
  BY <1>8, <1>9, <1>10, <1>11 DEF PollInv

\* What the caller, the clock and other writers of the row do meanwhile.
LEMMA WorldKeeps ==
  ASSUME PollInv, cancel_poll \/ poll_budget_runs_out \/ replace_share_row \/ UNCHANGED pollVars
  PROVE  PollInv'
<1>1. UNCHANGED <<poll, request, degraded>>
  BY DEF cancel_poll, poll_budget_runs_out, replace_share_row, pollVars
<1>2. /\ shareRow' \in Rows /\ pollCancelled' \in BOOLEAN /\ pollExpired' \in BOOLEAN
      /\ shareRow' = shareRow \/ poll.at # "reported"
  <2>1. shareRow \in Rows /\ pollCancelled \in BOOLEAN /\ pollExpired \in BOOLEAN
    BY DEF PollInv, PollShape
  <2>2. replace_share_row => shareRow' \in Rows
    <3>1. \A g \in PollGens : [gen |-> g, confirmed |-> FALSE] \in [gen : PollGens, confirmed : BOOLEAN]
      OBVIOUS
    <3> QED
      BY <3>1 DEF replace_share_row, Rows
  <2> QED
    BY <2>1, <2>2 DEF cancel_poll, poll_budget_runs_out, replace_share_row, pollVars
<1>3. PollShape'
  BY <1>1, <1>2 DEF PollInv, PollShape
<1>4. ToAsk' /\ Tallied'
  BY <1>1 DEF PollInv, ToAsk, Tallied, Unjoined, Counted, AtState, Needed
<1>5. PollDecidesByEvidence'
  BY <1>1, <1>2 DEF PollInv, PollDecidesByEvidence, Confirming, Needed, AtState, Tallied
<1> QED
  BY <1>3, <1>4, <1>5 DEF PollInv

LEMMA PollStart ==
  ASSUME PollInit
  PROVE  PollInv
<1> USE DEF Polling
<1>1. PICK fleet \in PollFleets, row \in Rows :
        /\ poll = [fleet |-> fleet, at |-> "load", gen |-> "none", left |-> fleet,
                   inFlight |-> {}, confirmations |-> 0, outcome |-> "none", report |-> "none"]
        /\ request = [h \in Asked(fleet) |-> Unsent] /\ shareRow = row
  BY DEF PollInit
<1>2. pollCancelled = FALSE /\ pollExpired = FALSE /\ degraded = {}
  BY DEF PollInit
<1>3. /\ poll.fleet = fleet /\ poll.at = "load" /\ poll.left = fleet /\ poll.inFlight = {}
      /\ poll.confirmations = 0 /\ poll.outcome = "none" /\ poll.report = "none"
  BY <1>1
<1>4. fleet \in Seq(Asked(fleet)) /\ \A i, k \in DOMAIN fleet : fleet[i] = fleet[k] => i = k
  BY PollAssumption
<1>5. poll \in PollsOf(Asked(fleet))
  BY <1>1, <1>4 DEF PollsOf
<1>6. Unsent \in RequestStates /\ Unsent.at = "unsent"
  BY DEF Unsent, RequestStates
<1>7. DOMAIN request = Asked(fleet) /\ \A h \in DOMAIN request : request[h] = Unsent
  BY <1>1
<1>8. PollShape
  BY <1>1, <1>2, <1>3, <1>5, <1>6 DEF PollShape
<1>9. ToAsk
  BY <1>3, <1>4, <1>7 DEF ToAsk
<1>10. Tallied
  <2>1. Unjoined = {}
    BY <1>6, <1>7 DEF Unjoined, AtState
  <2>2. Cardinality(Unjoined) <= MaxPolls
    BY <2>1, FS_EmptySet, PollAssumption, SMT
  <2> QED
    BY <1>2, <1>3, <1>7, <2>2, SMT DEF Tallied, RequiredConfirmations
<1>11. PollDecidesByEvidence
  BY <1>2, <1>3 DEF PollDecidesByEvidence
<1> QED
  BY <1>8, <1>9, <1>10, <1>11 DEF PollInv

LEMMA PollStepKeeps ==
  ASSUME PollInv, [PollNext]_pollVars
  PROVE  PollInv'
<1>1. CASE load_share
  BY <1>1, LoadKeeps
<1>2. CASE lock_share_operation_or_cancel
  BY <1>2, LockKeeps
<1>3. CASE drain_completed
  BY <1>3, DrainKeeps
<1>4. CASE check_and_spawn
  BY <1>4, CheckKeeps
<1>5. CASE wait_join_or_tick
  BY <1>5, WaitKeeps
<1>6. CASE confirm_polled_share
  BY <1>6, ConfirmKeeps
<1>7. CASE \E h \in DOMAIN request : share_status(h)
  BY <1>7, StatusKeeps
<1>8. CASE cancel_poll \/ poll_budget_runs_out \/ replace_share_row \/ UNCHANGED pollVars
  BY <1>8, WorldKeeps
<1> QED
  BY <1>1, <1>2, <1>3, <1>4, <1>5, <1>6, <1>7, <1>8 DEF PollNext

\* The invariant of a status poll: the helpers still to ask, the requests in
\* flight and the tally of poll_share_helpers_with_budget agree in every state.
THEOREM PollInvariant == PollSpec => []PollInv
<1>1. PollInit => PollInv
  BY PollStart
<1>2. PollInv /\ [PollNext]_pollVars => PollInv'
  BY PollStepKeeps
<1> QED
  BY <1>1, <1>2, PTL DEF PollSpec

\* A status poll never has more than SHARE_STATUS_MAX_CONCURRENT_POLLS requests
\* running, never counts more than two confirmations, and keeps its shape,
\* whatever the fleet and the limit.
THEOREM PollStaysInBounds == PollSpec => []PollTypes
<1>1. PollInv => PollTypes
  <2> SUFFICES ASSUME PollInv PROVE PollTypes
    OBVIOUS
  <2>1. PollShape /\ Tallied
    BY DEF PollInv
  <2>2. AtState("running") \subseteq Unjoined
    BY DEF Unjoined
  <2>3. Cardinality(AtState("running")) <= MaxPolls
    BY <2>2, StillBounded
  <2>4. poll.confirmations \in 0..RequiredConfirmations
    BY <2>1, SMT DEF PollShape, PollsOf, Tallied, RequiredConfirmations
  <2> QED
    BY <2>1, <2>3, <2>4 DEF PollShape, PollsOf, PollTypes, Polling
<1> QED
  BY <1>1, PollInvariant, PTL

\* poll_and_confirm_share decides by all the evidence that had arrived, for every
\* fleet: a quorum is that many distinct confirming helpers, none is reported
\* while the late answers make one, only aborted helpers are degraded, and no row
\* of another generation is confirmed.
THEOREM PollsDecideByEvidence == PollSpec => []PollDecidesByEvidence
<1>1. PollInv => PollDecidesByEvidence
  BY DEF PollInv
<1> QED
  BY <1>1, PollInvariant, PTL

(***************************************************************************)
(* The client.  A stage of a request says what can have become of its POST:*)
(* only a POST that certainly did not arrive is followed by another one,   *)
(* so there is nothing under way when an attempt begins.                   *)
(***************************************************************************)

NotPosted == [flying |-> FALSE, got |-> 0]

Posts == [flying : BOOLEAN, got : Nat]

Replies == HelperAnswer("status") \cup HelperAnswer("submit") \cup {"timeout"}

Results == {"none", "read", "accepted", "unknown", "definite", "overslept"}

Requests == [pc : {"idle", "check", "flight", "backoff", "done"},
             op : {"none", "status", "submit", "resubmit"}, to : Endpoint \cup {"none"},
             start : Nat, deadline : Int, attempt : Nat, until : Int, held : Replies \cup {"none"},
             result : Results, stop : BOOLEAN]

\* What a request's stage says of its POSTs: before an attempt and in a backoff none
\* is under way or has arrived, and a backoff ends before the deadline.
RequestOk(q, p) ==
  /\ p.got <= 1
  /\ p.flying => p.got = 0
  /\ q.pc # "done" => q.result = "none"
  /\ q.pc \in {"idle", "check", "backoff"} \/ q.op = "status" => p = NotPosted
  /\ q.pc \in {"check", "flight", "backoff"} => q.to \in Endpoint /\ q.attempt <= Backoffs(q.op)
  /\ q.pc = "backoff" => q.attempt # Backoffs(q.op) /\ q.until < q.deadline
  /\ q.result = "definite" => p = NotPosted
  /\ q.result # "overslept"

RequestInv ==
  /\ instant \in Nat
  /\ requests \in [Request -> Requests]
  /\ posted \in [Request -> Posts]
  /\ \A r \in Request : RequestOk(requests[r], posted[r])

\* What the end of an attempt with e may say of the POST p.
EndsAs(op, e, p) ==
  /\ p \in Posts /\ p.got <= 1 /\ (p.flying => p.got = 0)
  /\ op = "status" => p = NotPosted
  /\ Booked(op, e) = "definite" \/ retryable(op, e) => p = NotPosted

LEMMA Constants ==
  /\ Threshold \in Nat \ {0} /\ Cooldown \in Nat /\ MaxInstant \in Nat
  /\ HelperTimeout \in Nat /\ Unbounded \in Nat
BY HelperAssumption, SMT DEF Unbounded

LEMMA MinOfTwo ==
  ASSUME NEW a \in Int, NEW b \in Int
  PROVE  Min({a, b}) \in {a, b}
<1>1. \E x \in {a, b} : \A y \in {a, b} : x <= y
  BY SMT
<1> QED
  BY <1>1 DEF Min

\* Every operation has its number of backoffs, and the pauses are times.
LEMMA Pauses ==
  /\ \A op : Backoffs(op) \in Nat
  /\ \A op : \A k \in Nat : k <= Backoffs(op) /\ k # Backoffs(op) =>
       RetryDelays[k + 1] \in Nat /\ k + 1 <= Backoffs(op)
BY HelperAssumption, SMT DEF Backoffs

LEMMA BookedNames ==
  ASSUME NEW op, NEW e
  PROVE  Booked(op, e) \in Results /\ Booked(op, e) # "overslept" /\ Booked(op, e) # "none"
<1>1. Booked(op, e) \in {"read", "accepted", "unknown", "definite"}
  BY DEF Booked
<1> QED
  BY <1>1 DEF Results

\* A step that writes one request and its POST, and leaves the others alone.
LEMMA OneRequest ==
  ASSUME RequestInv, NEW r \in Request, NEW q \in Requests, NEW p \in Posts,
         RequestOk(q, p), instant' \in Nat,
         requests' = [requests EXCEPT ![r] = q], posted' = [posted EXCEPT ![r] = p]
  PROVE  RequestInv'
BY DEF RequestInv

LEMMA EndKeepsRequests ==
  ASSUME RequestInv, NEW r \in Request, NEW res, EndRequest(r, res), NEW p \in Posts,
         posted' = [posted EXCEPT ![r] = p], p.got <= 1, p.flying => p.got = 0,
         Booked(requests[r].op, res) = "definite" => p = NotPosted
  PROVE  RequestInv'
<1>1. PICK b : b = Booked(requests[r].op, res)
  OBVIOUS
<1>2. b \in Results /\ b # "overslept" /\ b # "none"
  BY <1>1, BookedNames
<1>3. PICK q : q = [IdleRequest EXCEPT !.pc = "done", !.result = b]
  OBVIOUS
<1>4. /\ q \in Requests /\ q.pc = "done" /\ q.result = b /\ q.op = "none"
  <2>1. q = [pc |-> "done", op |-> "none", to |-> "none", start |-> 0, deadline |-> Unbounded,
             attempt |-> 0, until |-> 0, held |-> "none", result |-> b, stop |-> FALSE]
    BY <1>3 DEF IdleRequest
  <2>2. Unbounded \in Int /\ 0 \in Int /\ 0 \in Nat
    BY Constants, SMT
  <2> QED
    BY <1>2, <2>1, <2>2 DEF Requests
<1>5. RequestOk(q, p)
  BY <1>1, <1>2, <1>4, SMT DEF RequestOk
<1>6. requests' = [requests EXCEPT ![r] = q] /\ instant' = instant
  BY <1>1, <1>3 DEF EndRequest
<1> QED
  BY <1>4, <1>5, <1>6, OneRequest DEF RequestInv

\* An attempt ends: with an answer or an error that is returned, or with one that
\* says the helper has nothing and is followed by a pause.
LEMMA AttemptKeepsRequests ==
  ASSUME RequestInv, NEW r \in Request, NEW e \in Replies, requests[r].pc = "flight", AttemptEnds(r, e),
         NEW p, posted' = [posted EXCEPT ![r] = p], EndsAs(requests[r].op, e, p)
  PROVE  RequestInv'
<1>1. PICK q \in Requests : q = requests[r] /\ RequestOk(q, posted[r])
  BY DEF RequestInv
<1>2. p \in Posts /\ p.got <= 1 /\ (p.flying => p.got = 0)
  BY DEF EndsAs
<1>3. CASE EndRequest(r, e)
  BY <1>2, <1>3, EndKeepsRequests DEF EndsAs
<1>4. CASE /\ q.attempt # Backoffs(q.op) /\ retryable(q.op, e)
           /\ \/ EndRequest(r, "cancelled")
              \/ /\ FitsBackoff(q, instant + RetryDelays[q.attempt + 1])
                 /\ SetRequest(r, [q EXCEPT !.pc = "backoff",
                                            !.until = instant + RetryDelays[q.attempt + 1], !.held = e])
                 /\ UNCHANGED instant
  <2>1. p = NotPosted
    BY <1>1, <1>4 DEF EndsAs
  <2>2. CASE EndRequest(r, "cancelled")
    BY <1>2, <2>1, <2>2, EndKeepsRequests
  <2>3. CASE /\ FitsBackoff(q, instant + RetryDelays[q.attempt + 1])
             /\ SetRequest(r, [q EXCEPT !.pc = "backoff",
                                        !.until = instant + RetryDelays[q.attempt + 1], !.held = e])
             /\ UNCHANGED instant
    <3>1. q.attempt \in Nat /\ q.attempt <= Backoffs(q.op)
      BY <1>1 DEF RequestOk, Requests
    <3>2. PICK wake : wake = instant + RetryDelays[q.attempt + 1]
      OBVIOUS
    <3>3. wake \in Int
      BY <1>4, <3>1, <3>2, Pauses, SMT DEF RequestInv
    <3>4. PICK n : n = [q EXCEPT !.pc = "backoff", !.until = wake, !.held = e]
      OBVIOUS
    <3>5. /\ n \in Requests /\ n.pc = "backoff" /\ n.op = q.op /\ n.to = q.to /\ n.until = wake
          /\ n.deadline = q.deadline /\ n.attempt = q.attempt /\ n.result = q.result
      BY <3>3, <3>4 DEF Requests
    <3>6. wake < q.deadline
      BY <2>3, <3>2 DEF FitsBackoff
    <3>7. RequestOk(n, p)
      BY <1>1, <1>2, <1>4, <2>1, <3>5, <3>6 DEF RequestOk, NotPosted
    <3>8. requests' = [requests EXCEPT ![r] = n] /\ instant' \in Nat
      BY <2>3, <3>2, <3>4 DEF SetRequest, RequestInv
    <3> QED
      BY <1>2, <3>5, <3>7, <3>8, OneRequest
  <2> QED
    BY <1>4, <2>2, <2>3
<1> QED
  BY <1>1, <1>3, <1>4 DEF AttemptEnds

\* A request begins with nothing posted.
LEMMA BeginKeepsRequests ==
  ASSUME RequestInv, NEW r \in Request, begin_request(r)
  PROVE  RequestInv'
<1>1. PICK op \in OpsOf[r], h \in Endpoint, valid \in BOOLEAN,
           d \in {Unbounded} \cup {instant + b : b \in DeliveryBudgets} :
        SetRequest(r, IF valid THEN [IdleRequest EXCEPT !.pc = "check", !.op = op, !.to = h,
                                                        !.start = instant, !.deadline = d]
                               ELSE [IdleRequest EXCEPT !.pc = "done", !.result = Booked(op, "invalid")])
  BY DEF begin_request
<1>2. op \in {"status", "submit", "resubmit"}
  BY HelperAssumption
<1>3. d \in Int /\ 0 \in Nat /\ 0 \in Int /\ instant \in Nat
  BY Constants, HelperAssumption, SMT DEF RequestInv
<1>4. posted[r] \in Posts /\ posted[r] = NotPosted /\ posted' = [posted EXCEPT ![r] = posted[r]]
      /\ instant' = instant
  BY DEF begin_request, RequestInv, RequestOk
<1>5. 0 <= Backoffs(op)
  BY Pauses, SMT
<1>6. CASE valid
  <2>1. PICK n : n = [IdleRequest EXCEPT !.pc = "check", !.op = op, !.to = h, !.start = instant, !.deadline = d]
    OBVIOUS
  <2>2. n = [pc |-> "check", op |-> op, to |-> h, start |-> instant, deadline |-> d,
             attempt |-> 0, until |-> 0, held |-> "none", result |-> "none", stop |-> FALSE]
    BY <2>1 DEF IdleRequest
  <2>3. n \in Requests
    BY <1>2, <1>3, <2>2 DEF Requests, Results
  <2>4. RequestOk(n, posted[r])
    BY <1>4, <1>5, <2>2, SMT DEF RequestOk, NotPosted
  <2>5. requests' = [requests EXCEPT ![r] = n]
    BY <1>1, <1>6, <2>1 DEF SetRequest
  <2> QED
    BY <1>3, <1>4, <2>3, <2>4, <2>5, OneRequest
<1>7. CASE ~valid
  <2>1. PICK b : b = Booked(op, "invalid")
    OBVIOUS
  <2>2. b \in Results /\ b # "overslept"
    BY <2>1, BookedNames
  <2>3. PICK n : n = [IdleRequest EXCEPT !.pc = "done", !.result = b]
    OBVIOUS
  <2>4. n = [pc |-> "done", op |-> "none", to |-> "none", start |-> 0, deadline |-> Unbounded,
             attempt |-> 0, until |-> 0, held |-> "none", result |-> b, stop |-> FALSE]
    BY <2>3 DEF IdleRequest
  <2>5. n \in Requests
    <3>1. Unbounded \in Int
      BY Constants, SMT
    <3> QED
      BY <1>3, <2>2, <2>4, <3>1 DEF Requests
  <2>6. RequestOk(n, posted[r])
    BY <1>4, <2>2, <2>4, SMT DEF RequestOk, NotPosted
  <2>7. requests' = [requests EXCEPT ![r] = n]
    BY <1>1, <1>7, <2>1, <2>3 DEF SetRequest
  <2> QED
    BY <1>3, <1>4, <2>5, <2>6, <2>7, OneRequest
<1> QED
  BY <1>6, <1>7

\* The checks before an attempt, the attempt, and the pause after one.
LEMMA CheckKeepsRequests ==
  ASSUME RequestInv, NEW r \in Request, begin_attempt(r)
  PROVE  RequestInv'
<1>1. PICK q \in Requests : q = requests[r] /\ q.pc = "check" /\ RequestOk(q, posted[r])
  BY DEF RequestInv, begin_attempt
<1>2. posted[r] = NotPosted /\ posted[r] \in Posts
  BY <1>1 DEF RequestOk, RequestInv
<1>3. /\ NotPosted.got <= 1 /\ NotPosted.got = 0 /\ ~NotPosted.flying
      /\ NotPosted \in Posts
  BY SMT DEF NotPosted, Posts
<1>4. CASE (\E res : EndRequest(r, res)) /\ UNCHANGED posted
  <2>1. posted' = [posted EXCEPT ![r] = NotPosted]
    BY <1>2, <1>4 DEF RequestInv
  <2> QED
    BY <1>3, <1>4, <2>1, EndKeepsRequests
<1>5. CASE /\ SetRequest(r, [q EXCEPT !.pc = "flight", !.until = Min({instant + HelperTimeout, q.deadline})])
           /\ posted' = [posted EXCEPT ![r].flying = q.op # "status"]
           /\ UNCHANGED instant
  <2>1. PICK u : u = Min({instant + HelperTimeout, q.deadline})
    OBVIOUS
  <2>2. instant + HelperTimeout \in Int /\ q.deadline \in Int
    BY Constants, SMT DEF RequestInv, Requests
  <2>3. u \in Int
    BY <2>1, <2>2, MinOfTwo
  <2>4. PICK n : n = [q EXCEPT !.pc = "flight", !.until = u]
    OBVIOUS
  <2>5. /\ n \in Requests /\ n.pc = "flight" /\ n.op = q.op /\ n.to = q.to
        /\ n.attempt = q.attempt /\ n.result = q.result
    BY <2>3, <2>4 DEF Requests
  <2>6. PICK p : p = [NotPosted EXCEPT !.flying = q.op # "status"]
    OBVIOUS
  <2>7. p \in Posts /\ p.got = 0 /\ (q.op = "status" => p = NotPosted)
    BY <2>6, <1>3 DEF NotPosted, Posts
  <2>8. RequestOk(n, p)
    BY <1>1, <2>5, <2>7, SMT DEF RequestOk
  <2>9. /\ requests' = [requests EXCEPT ![r] = n] /\ posted' = [posted EXCEPT ![r] = p]
        /\ instant' \in Nat
    BY <1>2, <1>5, <2>1, <2>4, <2>6 DEF SetRequest, RequestInv
  <2> QED
    BY <2>5, <2>7, <2>8, <2>9, OneRequest
<1> QED
  BY <1>1, <1>4, <1>5 DEF begin_attempt

LEMMA RetryKeepsRequests ==
  ASSUME RequestInv, NEW r \in Request, retry_wait(r)
  PROVE  RequestInv'
<1>1. PICK q \in Requests : q = requests[r] /\ q.pc = "backoff" /\ RequestOk(q, posted[r])
  BY DEF RequestInv, retry_wait
<1>2. /\ posted[r] = NotPosted /\ posted[r] \in Posts
      /\ posted' = [posted EXCEPT ![r] = posted[r]]
  BY <1>1 DEF RequestOk, RequestInv, retry_wait
<1>3. CASE EndRequest(r, "cancelled")
  BY <1>1, <1>2, <1>3, EndKeepsRequests DEF RequestOk
<1>4. CASE SetRequest(r, [q EXCEPT !.pc = "check", !.attempt = @ + 1]) /\ UNCHANGED instant
  <2>1. q.attempt \in Nat /\ q.attempt <= Backoffs(q.op) /\ q.attempt # Backoffs(q.op)
    BY <1>1 DEF RequestOk, Requests
  <2>2. PICK a : a = q.attempt + 1
    OBVIOUS
  <2>3. a \in Nat /\ a <= Backoffs(q.op)
    BY <2>1, <2>2, Pauses, SMT
  <2>4. PICK n : n = [q EXCEPT !.pc = "check", !.attempt = a]
    OBVIOUS
  <2>5. /\ n \in Requests /\ n.pc = "check" /\ n.op = q.op /\ n.to = q.to
        /\ n.attempt = a /\ n.result = q.result
    BY <2>3, <2>4 DEF Requests
  <2>6. RequestOk(n, posted[r])
    BY <1>1, <1>2, <2>3, <2>5 DEF RequestOk
  <2>7. requests' = [requests EXCEPT ![r] = n] /\ instant' \in Nat
    BY <1>4, <2>2, <2>4 DEF SetRequest, RequestInv
  <2> QED
    BY <1>2, <2>5, <2>6, <2>7, OneRequest
<1> QED
  BY <1>1, <1>3, <1>4 DEF retry_wait

\* An answer and a timeout, with what they say of the POST.
LEMMA AnswerKeepsRequests ==
  ASSUME RequestInv, NEW r \in Request, transport_answer(r)
  PROVE  RequestInv'
<1>1. PICK q \in Requests : q = requests[r] /\ q.pc = "flight" /\ RequestOk(q, posted[r])
  BY DEF RequestInv, transport_answer
<1>2. PICK e \in HelperAnswer(q.op) :
        /\ \/ /\ e \in {"transport", "429", "4xx"}
              /\ posted[r].flying \/ q.op = "status"
              /\ posted' = [posted EXCEPT ![r].flying = FALSE]
           \/ /\ e \in {"queued", "duplicate"} /\ ~posted[r].flying
              /\ UNCHANGED posted
           \/ /\ e \notin {"transport", "429", "4xx", "queued", "duplicate"}
              /\ UNCHANGED posted
        /\ AttemptEnds(r, e)
  BY <1>1 DEF transport_answer
<1>3. e \in Replies
  BY <1>2 DEF Replies, HelperAnswer
<1>4. posted[r] \in Posts /\ posted[r].got <= 1 /\ (posted[r].flying => posted[r].got = 0)
  BY <1>1 DEF RequestInv, RequestOk
<1>5. q.op = "status" => posted[r] = NotPosted
  BY <1>1 DEF RequestOk
<1>6. CASE /\ e \in {"transport", "429", "4xx"} /\ posted' = [posted EXCEPT ![r].flying = FALSE]
           /\ posted[r].flying \/ q.op = "status"
  <2>1. PICK p : p = [posted[r] EXCEPT !.flying = FALSE]
    OBVIOUS
  <2>2. posted[r].got = 0
    <3>1. NotPosted.got = 0
      BY SMT DEF NotPosted
    <3> QED
      BY <1>4, <1>5, <1>6, <3>1
  <2>3. p = NotPosted /\ p \in Posts /\ p.got <= 1
    <3>1. p = NotPosted
      BY <1>4, <2>1, <2>2 DEF Posts, NotPosted
    <3> QED
      BY <3>1, SMT DEF NotPosted, Posts
  <2>4. posted' = [posted EXCEPT ![r] = p]
    BY <1>6, <2>1
  <2>5. EndsAs(q.op, e, p)
    BY <2>3 DEF EndsAs, NotPosted
  <2> QED
    BY <1>1, <1>2, <1>3, <2>4, <2>5, AttemptKeepsRequests
<1>7. CASE UNCHANGED posted /\ e \notin {"transport", "429", "4xx"}
  <2>1. posted' = [posted EXCEPT ![r] = posted[r]]
    BY <1>7 DEF RequestInv
  <2>2. q.op # "status" => Booked(q.op, e) # "definite" /\ ~retryable(q.op, e)
    BY <1>2, <1>7 DEF Booked, retryable, is_transient, is_ambiguous, Usable, HelperAnswer
  <2>3. EndsAs(q.op, e, posted[r])
    BY <1>4, <1>5, <2>2 DEF EndsAs
  <2> QED
    BY <1>1, <1>2, <1>3, <2>1, <2>3, AttemptKeepsRequests
<1> QED
  BY <1>2, <1>6, <1>7

LEMMA TimeoutKeepsRequests ==
  ASSUME RequestInv, NEW r \in Request, attempt_times_out(r)
  PROVE  RequestInv'
<1>1. PICK q \in Requests : q = requests[r] /\ q.pc = "flight" /\ RequestOk(q, posted[r])
  BY DEF RequestInv, attempt_times_out
<1>2. posted' = [posted EXCEPT ![r] = posted[r]] /\ AttemptEnds(r, "timeout")
  BY DEF attempt_times_out, RequestInv
<1>3. posted[r] \in Posts /\ posted[r].got <= 1 /\ (posted[r].flying => posted[r].got = 0)
  BY <1>1 DEF RequestInv, RequestOk
<1>4. q.op = "status" => posted[r] = NotPosted
  BY <1>1 DEF RequestOk
<1>5. q.op # "status" => Booked(q.op, "timeout") # "definite" /\ ~retryable(q.op, "timeout")
  BY DEF Booked, retryable, is_transient, is_ambiguous, Usable
<1>6. EndsAs(q.op, "timeout", posted[r])
  BY <1>3, <1>4, <1>5 DEF EndsAs
<1> QED
  BY <1>1, <1>2, <1>6, AttemptKeepsRequests DEF Replies

\* The delivery deadline drops a request in flight; one that sleeps wakes before it.
LEMMA DropKeepsRequests ==
  ASSUME RequestInv, NEW r \in Request, drop_request(r)
  PROVE  RequestInv'
<1>1. PICK q \in Requests : q = requests[r] /\ RequestOk(q, posted[r])
  BY DEF RequestInv
<1>2. q.pc = "flight"
  <2>1. ~(q.pc = "backoff" /\ instant < q.until)
    <3>1. q.pc = "backoff" => q.until < q.deadline
      BY <1>1 DEF RequestOk
    <3>2. instant >= q.deadline
      BY <1>1 DEF drop_request
    <3>3. q.until \in Int /\ q.deadline \in Int /\ instant \in Int
      BY SMT DEF Requests, RequestInv
    <3> QED
      BY <3>1, <3>2, <3>3, SMT
  <2> QED
    BY <1>1, <2>1 DEF drop_request
<1>3. PICK n : n = [q EXCEPT !.pc = "done", !.result = "unknown"]
  OBVIOUS
<1>4. n \in Requests /\ n.pc = "done" /\ n.result = "unknown" /\ n.op = q.op
  BY <1>3 DEF Requests, Results
<1>5. RequestOk(n, posted[r])
  BY <1>1, <1>4 DEF RequestOk
<1>6. /\ requests' = [requests EXCEPT ![r] = n] /\ instant' \in Nat
      /\ posted' = [posted EXCEPT ![r] = posted[r]] /\ posted[r] \in Posts
  BY <1>1, <1>2, <1>3 DEF drop_request, SetRequest, RequestInv
<1> QED
  BY <1>4, <1>5, <1>6, OneRequest

\* A POST arrives once, and only while it is under way.
LEMMA ArrivalKeepsRequests ==
  ASSUME RequestInv, NEW r \in Request, share_arrives(r)
  PROVE  RequestInv'
<1>1. PICK q \in Requests : q = requests[r] /\ RequestOk(q, posted[r])
  BY DEF RequestInv
<1>2. posted[r].flying /\ posted[r].got = 0 /\ posted[r] # NotPosted
  <2>1. posted[r].flying /\ ~NotPosted.flying
    BY SMT DEF share_arrives, NotPosted
  <2> QED
    BY <1>1, <2>1 DEF RequestOk
<1>3. PICK p : p = [flying |-> FALSE, got |-> 1]
  OBVIOUS
<1>4. posted' = [posted EXCEPT ![r] = p] /\ requests' = [requests EXCEPT ![r] = q] /\ instant' \in Nat
  <2>1. 0 + 1 = 1
    BY SMT
  <2>2. posted' = [posted EXCEPT ![r] = [flying |-> FALSE, got |-> posted[r].got + 1]]
    BY DEF share_arrives
  <2> QED
    BY <1>1, <1>2, <1>3, <2>1, <2>2 DEF share_arrives, RequestInv
<1>5. p \in Posts /\ p.got <= 1 /\ ~p.flying
  BY <1>3, SMT DEF Posts
<1>6. RequestOk(q, p)
  BY <1>1, <1>2, <1>5 DEF RequestOk
<1> QED
  BY <1>4, <1>5, <1>6, OneRequest

LEMMA CancelKeepsRequests ==
  ASSUME RequestInv, NEW r \in Request, cancel_request(r)
  PROVE  RequestInv'
<1>1. PICK q \in Requests : q = requests[r] /\ RequestOk(q, posted[r])
  BY DEF RequestInv
<1>2. PICK n : n = [q EXCEPT !.stop = TRUE]
  OBVIOUS
<1>3. /\ n \in Requests /\ n.pc = q.pc /\ n.op = q.op /\ n.to = q.to /\ n.attempt = q.attempt
      /\ n.until = q.until /\ n.deadline = q.deadline /\ n.result = q.result
  BY <1>2 DEF Requests
<1>4. RequestOk(n, posted[r])
  BY <1>1, <1>3 DEF RequestOk
<1>5. /\ requests' = [requests EXCEPT ![r] = n] /\ instant' \in Nat
      /\ posted' = [posted EXCEPT ![r] = posted[r]] /\ posted[r] \in Posts
  BY <1>1, <1>2 DEF cancel_request, SetRequest, RequestInv
<1> QED
  BY <1>3, <1>4, <1>5, OneRequest

\* Every step of the client keeps what the stages say.
LEMMA StepKeepsRequests ==
  ASSUME RequestInv, [ClientNext]_clientVars
  PROVE  RequestInv'
<1>1. CASE client_clock
  BY <1>1, SMT DEF client_clock, RequestInv
<1>2. CASE candidate_servers \/ UNCHANGED clientVars
  BY <1>2 DEF candidate_servers, clientVars, RequestInv
<1>3. CASE \E r \in Request : begin_request(r) \/ cancel_request(r) \/ begin_attempt(r)
  BY <1>3, BeginKeepsRequests, CancelKeepsRequests, CheckKeepsRequests
<1>4. CASE \E r \in Request : transport_answer(r) \/ attempt_times_out(r) \/ retry_wait(r)
  BY <1>4, AnswerKeepsRequests, TimeoutKeepsRequests, RetryKeepsRequests
<1>5. CASE \E r \in Request : drop_request(r) \/ share_arrives(r)
  BY <1>5, DropKeepsRequests, ArrivalKeepsRequests
<1> QED
  BY <1>1, <1>2, <1>3, <1>4, <1>5 DEF ClientNext

LEMMA InitRequests == ClientInit => RequestInv
<1> SUFFICES ASSUME ClientInit PROVE RequestInv
  OBVIOUS
<1>1. 0 \in Nat /\ 0 \in Int /\ 0 <= 1 /\ Unbounded \in Int
  BY Constants, SMT
<1>2. IdleRequest \in Requests /\ IdleRequest.pc = "idle" /\ IdleRequest.result = "none"
  BY <1>1 DEF IdleRequest, Requests, Results
<1>3. NotPosted \in Posts /\ NotPosted.got <= 1 /\ ~NotPosted.flying
  BY <1>1 DEF NotPosted, Posts
<1>4. RequestOk(IdleRequest, NotPosted)
  BY <1>2, <1>3 DEF RequestOk
<1> QED
  BY <1>1, <1>2, <1>3, <1>4 DEF ClientInit, RequestInv, NotPosted

(***************************************************************************)
(* The health table.  Readmission leaves a helper one failure short of its *)
(* next demotion; the failures it really had in a row are never fewer.     *)
(***************************************************************************)
Scores == [fails : Nat, opened : Int]

ScoreOk(s, k, t) ==
  /\ s.fails <= k
  /\ s.opened # NotOpen => k >= Threshold /\ s.opened = t

HealthInv ==
  /\ health \in [Endpoint -> Scores]
  /\ streak \in [Endpoint -> Nat]
  /\ since \in [Endpoint -> Int]
  /\ \A h \in Endpoint : ScoreOk(health[h], streak[h], since[h])

FairTo(h) ==
  /\ health'[h].opened # NotOpen => streak'[h] >= Threshold
  /\ health[h].opened # NotOpen /\ health'[h].opened # health[h].opened
       => streak'[h] = 0 \/ instant - since[h] >= Cooldown

LEMMA Readmission ==
  ASSUME NEW s \in Scores, NEW k \in Nat, NEW i \in Int, NEW t \in Int, ScoreOk(s, k, i)
  PROVE  LET e == expire_cooldown_if_elapsed(s, t)
         IN  /\ e \in Scores /\ ScoreOk(e, k, i)
             /\ s.opened # NotOpen /\ e.opened # s.opened => t - i >= Cooldown
<1>1. s.fails \in Nat /\ s.opened \in Int
  BY DEF Scores
<1>2. CASE s.opened # NotOpen /\ t - s.opened >= Cooldown
  <2>1. PICK e : e = [fails |-> Threshold - 1, opened |-> NotOpen]
    OBVIOUS
  <2>2. e \in Scores
    BY <2>1, Constants, SMT DEF Scores, NotOpen
  <2>3. ScoreOk(e, k, i) /\ t - i >= Cooldown
    BY <1>1, <1>2, <2>1, Constants, SMT DEF ScoreOk, NotOpen
  <2>4. expire_cooldown_if_elapsed(s, t) = e
    BY <1>2, <2>1 DEF expire_cooldown_if_elapsed
  <2> QED
    BY <2>2, <2>3, <2>4
<1>3. CASE ~(s.opened # NotOpen /\ t - s.opened >= Cooldown)
  BY <1>3 DEF expire_cooldown_if_elapsed
<1> QED
  BY <1>2, <1>3

LEMMA Failure ==
  ASSUME NEW s \in Scores, NEW k \in Nat, NEW i \in Int, NEW t \in Int, ScoreOk(s, k, i)
  PROVE  LET n == ScoredFailure(s, t)
             j == IF n.opened # NotOpen /\ expire_cooldown_if_elapsed(s, t).opened = NotOpen
                    THEN t ELSE i
         IN  /\ n \in Scores /\ ScoreOk(n, k + 1, j)
             /\ s.opened # NotOpen /\ n.opened # s.opened => t - i >= Cooldown
<1>1. PICK e : e = expire_cooldown_if_elapsed(s, t)
  OBVIOUS
<1>2. /\ e \in Scores /\ ScoreOk(e, k, i)
      /\ s.opened # NotOpen /\ e.opened # s.opened => t - i >= Cooldown
  BY <1>1, Readmission
<1>3. PICK n : n = ScoredFailure(s, t)
  OBVIOUS
<1>4. n = [fails |-> e.fails + 1,
           opened |-> IF e.fails + 1 >= Threshold /\ e.opened = NotOpen THEN t ELSE e.opened]
  BY <1>1, <1>3 DEF ScoredFailure
<1>5. e.fails \in Nat /\ e.opened \in Int
  BY <1>2 DEF Scores
<1>6. n \in Scores
  BY <1>4, <1>5, SMT DEF Scores
<1>7. PICK j : j = IF n.opened # NotOpen /\ e.opened = NotOpen THEN t ELSE i
  OBVIOUS
<1>8. ScoreOk(n, k + 1, j)
  BY <1>2, <1>4, <1>5, <1>7, Constants, SMT DEF ScoreOk
<1>9. s.opened # NotOpen /\ n.opened # s.opened => t - i >= Cooldown
  BY <1>2, <1>4, <1>5, SMT
<1> QED
  BY <1>1, <1>3, <1>6, <1>7, <1>8, <1>9

\* Writing one helper's entries, with what the step owes that helper.
LEMMA OneHelper ==
  ASSUME HealthInv, NEW h \in Endpoint, NEW s \in Scores, NEW k \in Nat, NEW i \in Int,
         ScoreOk(s, k, i),
         health[h].opened # NotOpen /\ s.opened # health[h].opened
           => k = 0 \/ instant - since[h] >= Cooldown,
         health' = [health EXCEPT ![h] = s], streak' = [streak EXCEPT ![h] = k],
         since' = [since EXCEPT ![h] = i]
  PROVE  HealthInv' /\ \A g \in Endpoint : FairTo(g)
<1>1. HealthInv'
  BY DEF HealthInv
<1>2. ASSUME NEW g \in Endpoint
      PROVE  FairTo(g)
  <2>1. health'[g].opened # NotOpen => streak'[g] >= Threshold
    BY <1>1 DEF HealthInv, ScoreOk
  <2>2. CASE g = h
    BY <2>1, <2>2 DEF FairTo, HealthInv
  <2>3. CASE g # h
    BY <2>1, <2>3 DEF FairTo, HealthInv
  <2> QED
    BY <2>2, <2>3
<1> QED
  BY <1>1, <1>2

LEMMA ScoringIsFair ==
  ASSUME RequestInv, HealthInv, NEW r \in Request, requests[r].to \in Endpoint,
         NEW result, score(r, result)
  PROVE  HealthInv' /\ \A g \in Endpoint : FairTo(g)
<1>1. PICK h \in Endpoint : h = requests[r].to
  OBVIOUS
<1>2. /\ health[h] \in Scores /\ streak[h] \in Nat /\ since[h] \in Int
      /\ ScoreOk(health[h], streak[h], since[h])
  BY DEF HealthInv
<1>3. CASE result \in Usable
  <2>1. CleanScore \in Scores /\ 0 \in Nat /\ ScoreOk(CleanScore, 0, since[h])
    BY <1>2, SMT DEF CleanScore, Scores, ScoreOk, NotOpen
  <2>2. /\ health' = [health EXCEPT ![h] = CleanScore] /\ streak' = [streak EXCEPT ![h] = 0]
        /\ since' = [since EXCEPT ![h] = since[h]]
    <3>1. /\ health' = [health EXCEPT ![h] = CleanScore] /\ streak' = [streak EXCEPT ![h] = 0]
          /\ UNCHANGED since
      BY <1>1, <1>3 DEF score, Usable
    <3> QED
      BY <3>1 DEF HealthInv
  <2> QED
    BY <1>2, <2>1, <2>2, OneHelper
<1>4. CASE result \in {"invalid", "cancelled", "deadline"}
  <2>1. UNCHANGED <<health, streak, since>>
    BY <1>4 DEF score, Usable
  <2> QED
    BY <2>1 DEF HealthInv, FairTo, ScoreOk
<1>5. CASE result \notin Usable /\ result \notin {"invalid", "cancelled", "deadline"}
  <2>1. ScoreTime(r) = instant /\ instant \in Int
    <3>1. requests[r].start \in Nat /\ instant \in Nat
      BY DEF RequestInv, Requests
    <3> QED
      BY <3>1, SMT DEF ScoreTime
  <2>2. PICK n : n = ScoredFailure(health[h], instant)
    OBVIOUS
  <2>3. PICK j : j = IF n.opened # NotOpen
                          /\ expire_cooldown_if_elapsed(health[h], instant).opened = NotOpen
                       THEN instant ELSE since[h]
    OBVIOUS
  <2>4. /\ n \in Scores /\ ScoreOk(n, streak[h] + 1, j)
        /\ health[h].opened # NotOpen /\ n.opened # health[h].opened
             => instant - since[h] >= Cooldown
    BY <1>2, <2>1, <2>2, <2>3, Failure
  <2>5. streak[h] + 1 \in Nat /\ j \in Int
    BY <1>2, <2>1, <2>3, SMT
  <2>6. health' = [health EXCEPT ![h] = n] /\ streak' = [streak EXCEPT ![h] = streak[h] + 1]
    BY <1>1, <1>5, <2>1, <2>2 DEF score
  <2>7. since' = [since EXCEPT ![h] = j]
    <3>1. health'[h] = n
      BY <2>6 DEF HealthInv
    <3>2. since' = [since EXCEPT ![h] =
                      IF health'[h].opened # NotOpen
                           /\ expire_cooldown_if_elapsed(health[h], instant).opened = NotOpen
                        THEN instant ELSE since[h]]
      BY <1>1, <1>5 DEF score
    <3> QED
      BY <2>3, <3>1, <3>2
  <2> QED
    BY <2>4, <2>5, <2>6, <2>7, OneHelper
<1> QED
  BY <1>3, <1>4, <1>5

\* Ordering the helpers readmits only those whose cooldown is over.
LEMMA OrderingIsFair ==
  ASSUME RequestInv, HealthInv, candidate_servers
  PROVE  HealthInv' /\ \A g \in Endpoint : FairTo(g)
<1>1. PICK H : health' = AfterOrdering(health, H, instant)
  BY DEF candidate_servers
<1>2. UNCHANGED <<streak, since>> /\ instant \in Int
  BY SMT DEF candidate_servers, RequestInv
<1>3. ASSUME NEW g \in Endpoint
      PROVE  health'[g] \in Scores /\ ScoreOk(health'[g], streak'[g], since'[g]) /\ FairTo(g)
  <2>1. /\ health[g] \in Scores /\ streak[g] \in Nat /\ since[g] \in Int
        /\ ScoreOk(health[g], streak[g], since[g])
    BY DEF HealthInv
  <2>2. health'[g] \in {health[g], expire_cooldown_if_elapsed(health[g], instant)}
    BY <1>1 DEF AfterOrdering
  <2>3. PICK e : e = expire_cooldown_if_elapsed(health[g], instant)
    OBVIOUS
  <2>4. /\ e \in Scores /\ ScoreOk(e, streak[g], since[g])
        /\ health[g].opened # NotOpen /\ e.opened # health[g].opened => instant - since[g] >= Cooldown
    BY <1>2, <2>1, <2>3, Readmission
  <2>5. health'[g] \in Scores /\ ScoreOk(health'[g], streak'[g], since'[g])
    BY <1>2, <2>1, <2>2, <2>3, <2>4
  <2>6. FairTo(g)
    BY <2>2, <2>3, <2>4, <2>5 DEF FairTo, ScoreOk
  <2> QED
    BY <2>5, <2>6
<1>4. health' \in [Endpoint -> Scores]
  BY <1>1, <1>3 DEF AfterOrdering
<1> QED
  BY <1>2, <1>3, <1>4 DEF HealthInv

LEMMA EndIsFair ==
  ASSUME RequestInv, HealthInv, NEW r \in Request, NEW res, EndRequest(r, res),
         requests[r].pc \in {"check", "flight", "backoff"}
  PROVE  HealthInv' /\ \A g \in Endpoint : FairTo(g)
<1>1. requests[r].to \in Endpoint
  BY DEF RequestInv, RequestOk
<1> QED
  BY <1>1, ScoringIsFair DEF EndRequest

LEMMA AttemptIsFair ==
  ASSUME RequestInv, HealthInv, NEW r \in Request, NEW e, AttemptEnds(r, e),
         requests[r].pc = "flight"
  PROVE  HealthInv' /\ \A g \in Endpoint : FairTo(g)
<1>1. (\E res : EndRequest(r, res)) \/ UNCHANGED <<health, streak, since>>
  BY DEF AttemptEnds
<1>2. CASE \E res : EndRequest(r, res)
  BY <1>2, EndIsFair
<1>3. CASE UNCHANGED <<health, streak, since>>
  BY <1>3 DEF HealthInv, FairTo, ScoreOk
<1> QED
  BY <1>1, <1>2, <1>3

\* Every step of the client keeps the table and is fair to every helper.
LEMMA StepIsFair ==
  ASSUME RequestInv, HealthInv, [ClientNext]_clientVars
  PROVE  HealthInv' /\ \A g \in Endpoint : FairTo(g)
<1>1. ASSUME UNCHANGED <<health, streak, since>>
      PROVE  HealthInv' /\ \A g \in Endpoint : FairTo(g)
  BY <1>1 DEF HealthInv, FairTo, ScoreOk
<1>2. CASE client_clock \/ UNCHANGED clientVars
  BY <1>1, <1>2 DEF client_clock, clientVars
<1>3. CASE candidate_servers
  BY <1>3, OrderingIsFair
<1>4. CASE \E r \in Request : begin_request(r) \/ cancel_request(r) \/ drop_request(r) \/ share_arrives(r)
  BY <1>1, <1>4 DEF begin_request, cancel_request, drop_request, share_arrives
<1>5. CASE \E r \in Request : begin_attempt(r) \/ retry_wait(r)
  <2>1. PICK r \in Request : begin_attempt(r) \/ retry_wait(r)
    BY <1>5
  <2>2. /\ requests[r].pc \in {"check", "backoff"}
        /\ (\E res : EndRequest(r, res)) \/ UNCHANGED <<health, streak, since>>
    BY <2>1 DEF begin_attempt, retry_wait
  <2> QED
    BY <1>1, <2>2, EndIsFair
<1>6. CASE \E r \in Request : transport_answer(r) \/ attempt_times_out(r)
  <2>1. PICK r \in Request : transport_answer(r) \/ attempt_times_out(r)
    BY <1>6
  <2>2. requests[r].pc = "flight" /\ \E e : AttemptEnds(r, e)
    BY <2>1 DEF transport_answer, attempt_times_out
  <2> QED
    BY <2>2, AttemptIsFair
<1> QED
  BY <1>2, <1>3, <1>4, <1>5, <1>6 DEF ClientNext

\* For any helpers, calls, pauses and limits, over timeouts, retries, cancellations,
\* deadlines and late arrivals: a share reaches a helper's queue at most once per
\* call, a failure booked as definite is one the helper never saw, and no deadline
\* drops a call that sleeps with its error in hand.
THEOREM ClientOutcomesAreTrue == ClientSpec => []OutcomesAreTrue
<1>1. RequestInv => OutcomesAreTrue
  BY DEF RequestInv, RequestOk, OutcomesAreTrue, NotPosted
<1> QED
  BY <1>1, InitRequests, StepKeepsRequests, PTL DEF ClientSpec

\* For any threshold and cooldown, a helper is demoted only after that many failures
\* in a row and stays behind for the whole cooldown unless it answers, whatever
\* requests to it end in between and in whatever order.
THEOREM HelpersAreDemotedFairly == ClientSpec => DemotionIsFair
<1>1. ClientInit => HealthInv
  <2>1. CleanScore \in Scores /\ 0 \in Nat /\ 0 \in Int /\ ScoreOk(CleanScore, 0, 0)
    BY SMT DEF CleanScore, Scores, ScoreOk, NotOpen
  <2> QED
    BY <2>1 DEF ClientInit, HealthInv
<1>2. RequestInv /\ HealthInv /\ [ClientNext]_clientVars =>
        RequestInv' /\ HealthInv' /\ \A g \in Endpoint : FairTo(g)
  BY StepKeepsRequests, StepIsFair
<1>3. (\A g \in Endpoint : FairTo(g)) =>
        \A h \in Endpoint :
          /\ health'[h].opened # NotOpen => streak'[h] >= Threshold
          /\ health[h].opened # NotOpen /\ health'[h].opened # health[h].opened
               => streak'[h] = 0 \/ instant - since[h] >= Cooldown
  BY DEF FairTo
<1> QED
  BY <1>1, <1>2, <1>3, InitRequests, PTL DEF ClientSpec, DemotionIsFair

=============================================================================
