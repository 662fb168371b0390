---------------------------- MODULE ShareLedger ----------------------------
(***************************************************************************)
(* What the delivery journal of a share promises, whatever the operations  *)
(* over it do: a helper is never asked to take the share before the ledger *)
(* says so, evidence about a helper only grows stronger until its request  *)
(* is known to have had no effect, and the share is confirmed only when    *)
(* its reveal is public.  ShareDelivery implements it.                     *)
(***************************************************************************)
CONSTANTS Helper, Faulty, Gen, NoGen

ASSUME LedgerAssumption == NoGen \notin Gen

VARIABLES
  gen,        \* the generation of the journal row, NoGen without a row
  evidence,   \* what the row says about each helper
  confirmed,  \* whether the row says the share is on chain
  reach,      \* <<helper, generation>>: a request is under way or was taken
  public      \* the generations whose reveal is on chain

ledgerVars == <<gen, evidence, confirmed, reach, public>>

NoEvidence == [h \in Helper |-> "none"]

LedgerInit ==
  /\ gen = NoGen /\ evidence = NoEvidence /\ confirmed = FALSE
  /\ reach = {} /\ public = {}

\* A row is opened for a generation no helper has been asked to take.
Open(g) ==
  /\ gen = NoGen /\ \A h \in Helper : <<h, g>> \notin reach
  /\ gen' = g
  /\ UNCHANGED <<evidence, confirmed, reach, public>>

ForgetEvidenceOnly ==
  /\ gen' = NoGen /\ evidence' = NoEvidence
  /\ UNCHANGED <<confirmed, reach, public>>

\* The round is cleared, or the commitment replaced, and the row goes.
Forget ==
  /\ gen' = NoGen /\ evidence' = NoEvidence /\ confirmed' = FALSE
  /\ UNCHANGED <<reach, public>>

Reserve(h) ==
  /\ gen # NoGen /\ ~confirmed /\ evidence[h] = "none"
  /\ evidence' = [evidence EXCEPT ![h] = "attempting"]
  /\ UNCHANGED <<gen, confirmed, reach, public>>

\* A request goes out for the current row only under evidence that says so,
\* and never once the share is confirmed; a forgotten row constrains nothing.
Ask(h, g) ==
  /\ g = gen => evidence[h] # "none" /\ ~confirmed
  /\ reach' = reach \cup {<<h, g>>}
  /\ UNCHANGED <<gen, evidence, confirmed, public>>

\* Requests fail without effect.
Vanish ==
  /\ reach' \in SUBSET reach
  /\ UNCHANGED <<gen, evidence, confirmed, public>>

\* A reservation is taken back only when the helper can not have the share.
ReleaseAnyway(h) ==
  /\ evidence[h] = "attempting"
  /\ evidence' = [evidence EXCEPT ![h] = "none"]
  /\ UNCHANGED <<gen, confirmed, reach, public>>

Release(h) ==
  /\ evidence[h] = "attempting" /\ <<h, gen>> \notin reach
  /\ evidence' = [evidence EXCEPT ![h] = "none"]
  /\ UNCHANGED <<gen, confirmed, reach, public>>

Doubt(h) ==
  /\ evidence[h] = "attempting"
  /\ evidence' = [evidence EXCEPT ![h] = "unknown"]
  /\ UNCHANGED <<gen, confirmed, reach, public>>

Accept(h) ==
  /\ evidence[h] \in {"attempting", "unknown"}
  /\ h \in Faulty \/ <<h, gen>> \in reach
  /\ evidence' = [evidence EXCEPT ![h] = "accepted"]
  /\ UNCHANGED <<gen, confirmed, reach, public>>

Publish(g) ==
  /\ public' = public \cup {g}
  /\ UNCHANGED <<gen, evidence, confirmed, reach>>

Confirm ==
  /\ gen \in public
  /\ confirmed' = TRUE
  /\ UNCHANGED <<gen, evidence, reach, public>>

LedgerNext ==
  \/ \E g \in Gen : Open(g) \/ Publish(g)
  \/ Forget \/ Vanish \/ Confirm
  \/ \E h \in Helper : \/ Reserve(h) \/ Release(h) \/ Doubt(h) \/ Accept(h)
                       \/ \E g \in Gen : Ask(h, g)

LedgerSpec == LedgerInit /\ [][LedgerNext]_ledgerVars

\* A helper that may have the share of the current row is in the row: no
\* sequence of reservations, answers and retries makes the journal forget a
\* helper that can still reveal the share (share.rs, ShareDeliveryState).
NothingForgotten ==
  \A h \in Helper : <<h, gen>> \in reach /\ gen # NoGen => evidence[h] # "none"

\* A confirmed share is public.
ConfirmedIsPublic == confirmed => gen \in public
=============================================================================
