-------------------------- MODULE SubmissionState --------------------------
(***************************************************************************)
(* The durable row of one semantic generation and the pure transition      *)
(* function over it (chain_submission/state.rs).                           *)
(*                                                                         *)
(* apply_submission_observation matches on a pair (current state,          *)
(* observation).  Here each observation is one operator On<Observation>    *)
(* that maps the current row to the next one, or to Illegal where the code *)
(* returns a SubmissionTransitionError.  A row keeps its reservation count *)
(* `res` across every transition; only the store's reserve operations      *)
(* change it.                                                              *)
(***************************************************************************)
EXTENDS Naturals

CONSTANTS Hash,    \* transaction hashes
          NoHash   \* the NULL of the candidate column

ASSUME NoHashAssumption == NoHash \notin Hash

MaybeHash == Hash \cup {NoHash}

States == {"Submitting", "Tracking", "Recovering", "SubmittedWithoutHash",
           "Confirmed", "Rejected"}

\* The diagnostic kinds that say a POST may have been dispatched.
DispatchAmbiguities == {"AmbiguousDispatch", "InvalidProtocolResponse",
                        "EndpointUnsupported", "RouteAnswerReplaced"}

Diagnostics == DispatchAmbiguities \cup
               {"none", "TrackingWindowExpired", "ChainRejected",
                "NullifierAlreadySpent"}

Row == [st : States \cup {"None"}, cand : MaybeHash, diag : Diagnostics,
        res : Nat]

\* No row is stored.
Absent == [st |-> "None", cand |-> NoHash, diag |-> "none", res |-> 0]

\* The value standing for SubmissionTransitionError.
Illegal == [Absent EXCEPT !.st = "Illegal"]

Goto(s, st, cand, diag) ==
  [s EXCEPT !.st = st, !.cand = cand, !.diag = diag]

Hashless(s) == s.st = "Recovering" /\ s.cand = NoHash

-----------------------------------------------------------------------------
permits_ambiguous_retry(s) == Hashless(s) /\ s.diag \in DispatchAmbiguities

has_unresolved_dispatch(s) ==
  /\ s.st = "Recovering"
  /\ s.diag \in DispatchAmbiguities \cup {"TrackingWindowExpired"}

-----------------------------------------------------------------------------
OnAbandonedSubmitting(s, d) ==
  IF s.st = "Submitting" THEN Goto(s, "Recovering", NoHash, d) ELSE Illegal

OnUsableCandidateHash(s, h) ==
  IF s.st = "Submitting" \/ Hashless(s) THEN Goto(s, "Tracking", h, "none")
  ELSE IF s.st = "Recovering" /\ s.cand = h THEN s
  ELSE Illegal

OnPossiblyDispatched(s, d) ==
  IF s.st = "Submitting" \/ Hashless(s) THEN Goto(s, "Recovering", NoHash, d)
  ELSE IF s.st = "Recovering" THEN s
  ELSE Illegal

OnDefiniteRejection(s, d) ==
  IF s.st = "Submitting" THEN Goto(s, "Recovering", NoHash, d)
  ELSE IF s.st = "Recovering" THEN s
  ELSE Illegal

\* Only a row no attempt of which was possibly dispatched may end here.
OnTerminalRejection(s, d) ==
  IF s.st = "Submitting" THEN Goto(s, "Rejected", NoHash, d) ELSE Illegal

OnSubmittedWithoutHash(s, d) ==
  IF s.st \in {"Submitting", "Recovering"}
  THEN Goto(s, "SubmittedWithoutHash", NoHash, d) ELSE Illegal

OnDefinitelyUnsent(s) ==
  IF s.st = "Submitting" THEN Absent
  ELSE IF s.st = "Recovering" THEN s
  ELSE Illegal

OnContinueRecovery(s) == IF s.st = "Recovering" THEN s ELSE Illegal

-----------------------------------------------------------------------------
OnCandidatePending(s) ==
  IF s.st \in {"Tracking", "Recovering"} /\ s.cand # NoHash THEN s ELSE Illegal

\* Faulty variant: the expired window forgets the candidate hash.
ExpiryDropsCandidate(s, d) ==
  IF s.st = "Tracking" THEN Goto(s, "Recovering", NoHash, d) ELSE Illegal

OnTrackingWindowExpired(s, d) ==
  IF s.st = "Tracking" THEN Goto(s, "Recovering", s.cand, d) ELSE Illegal

OnCandidateCommittedFailure(s, d) ==
  IF s.st \in {"Tracking", "Recovering"} /\ s.cand # NoHash
  THEN Goto(s, "Recovering", NoHash, d) ELSE Illegal

OnTerminalCandidateFailure(s, d) ==
  IF s.st \in {"Tracking", "Recovering"}
  THEN Goto(s, "Rejected", NoHash, d) ELSE Illegal

\* Confirmation by committed events: the hash must be the row's candidate.
OnConfirmedByHash(s, h) ==
  IF s.st \in {"Tracking", "Recovering", "Confirmed"} /\ s.cand = h
  THEN Goto(s, "Confirmed", h, "none") ELSE Illegal

\* Confirmation by an exact tree layout, which names no hash.
OnConfirmedByTree(s) ==
  IF s.st = "Recovering" \/ (s.st = "Confirmed" /\ s.cand = NoHash)
  THEN Goto(s, "Confirmed", NoHash, "none") ELSE Illegal
=============================================================================
