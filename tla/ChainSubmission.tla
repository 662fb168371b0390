-------------------------- MODULE ChainSubmission --------------------------
(***************************************************************************)
(* The chain-submission lifecycle of zcash_voting: how delegations, votes, *)
(* vote batches and combined delegate-and-cast batches are POSTed to the   *)
(* vote chain, tracked by hash, recovered by an exact-tree scan and        *)
(* confirmed, over crashes, lost replies and host interruptions.           *)
(*                                                                         *)
(* A pass (member of Task) is one call of                                  *)
(* ChainSubmissionCoordinator::advance_in_epoch; it holds the bundle lease *)
(* and runs, between two awaits, as one step of this model.  What the store*)
(* holds and checks is in SubmissionLedger; every store call is one atomic *)
(* transaction.  The vote chain, its mempool and the network are external. *)
(***************************************************************************)
EXTENDS SubmissionLedger

CONSTANTS
  NoGen,            \* "no generation", the gen of an idle pass
  Task,             \* concurrent passes
  MaxAttempts,      \* CoordinatorPolicy::maximum_post_attempts
  MaxReservations,  \* stands for i64::MAX, where reserving fails
  Ambiguities       \* dispatch-ambiguity diagnostics an endpoint produces

ASSUME ConstantsAssumption ==
  /\ NoGen \notin Gen
  /\ MaxAttempts \in Nat \ {0}
  /\ MaxReservations \in Nat /\ MaxAttempts <= MaxReservations
  /\ Ambiguities \subseteq DispatchAmbiguities
  /\ "AmbiguousDispatch" \in Ambiguities

\* validate_hash_confirmation accepts the events committed under h.
EventsMatch(g, h) == SameEvents(g, HashOf[h])

VARIABLES
  streak,     \* Bundles -> combined_cast_rejections.consecutive_rejections
  task,       \* Task -> the pass, in memory
  late,       \* generations some POSTed copy of which is still travelling
  pool        \* hashes in the chain's mempool

durable == <<row, material, spends, van, streak>>
chain == <<late, pool, committed, leaf, size>>
vars == <<row, material, spends, van, streak, task,
          late, pool, committed, leaf, size>>

Modes == {"StatusOnly", "ExactTree"}

Pcs == {"idle", "posting", "lookup", "scan", "settle", "authorized",
        "backoff", "done"}

Results == States \cup {"none", "Cancelled", "Err", "Illegal"}

\* A pass: `used` POST attempts consumed; `amb` is ambiguity_seen in the
\* attempt loop and ambiguity_preceded in a recovery retry; `path` tells the
\* two apart; `intr`: the host cancelled or changed its epoch; `auth`: the
\* candidate a no-match scan authorized to replace.
Pass == [pc : Pcs, gen : Gen \cup {NoGen}, mode : Modes, used : Nat,
         amb : BOOLEAN, path : {"loop", "retry"}, intr : BOOLEAN,
         auth : MaybeHash, result : Results]

Idle == [pc |-> "idle", gen |-> NoGen, mode |-> "StatusOnly", used |-> 0,
         amb |-> FALSE, path |-> "loop", intr |-> FALSE, auth |-> NoHash,
         result |-> "none"]

-----------------------------------------------------------------------------
(* The vote chain (external).                                              *)

\* Some copy of g is on chain or can still get there.
MayLand(g) ==
  \/ Landed(g)
  \/ \E h \in HashesOf(g) :
       committed[h] = "no" /\ (h \in pool \/ g \in late)

-----------------------------------------------------------------------------
(* Passes.                                                                 *)

Active(t) == task[t].pc \notin {"idle", "done"}

Start(g, m) == [Idle EXCEPT !.gen = g, !.mode = m]

Done(tk, r) == [Idle EXCEPT !.pc = "done", !.gen = tk.gen, !.result = r]

PublicResult(r) == IF r.st \in {"None", "Submitting"} THEN "Err" ELSE r.st

Step(t, tk) == task' = [task EXCEPT ![t] = tk]

Post(tk, path, amb) ==
  [tk EXCEPT !.pc = "posting", !.path = path, !.amb = amb, !.auth = NoHash]

\* Faulty variants: an imported delegation is recovered like a local one, or a
\* row with a candidate is never scanned for.
RecoverImportedToo(tk, r) ==
  IF tk.mode = "StatusOnly" \/ r.st # "Recovering" \/ tk.intr
  THEN Done(tk, PublicResult(r))
  ELSE [tk EXCEPT !.pc = "scan"]
RecoverHashless(tk, r) ==
  IF \/ tk.mode = "StatusOnly" \/ Kind[tk.gen] = "imported"
     \/ ~ Hashless(r) \/ tk.intr
  THEN Done(tk, PublicResult(r))
  ELSE [tk EXCEPT !.pc = "scan"]

\* recover_if_enabled, up to the start of the scan.
Recover(tk, r) ==
  IF \/ tk.mode = "StatusOnly" \/ Kind[tk.gen] = "imported"
     \/ r.st # "Recovering" \/ tk.intr
  THEN Done(tk, PublicResult(r))
  ELSE [tk EXCEPT !.pc = "scan"]

\* reconcile_existing, up to the start of the status lookup or scan.
ReconcileExisting(tk, r) ==
  IF r.st \in {"Tracking", "Recovering"} /\ r.cand # NoHash
  THEN IF tk.intr THEN Done(tk, PublicResult(r))
       ELSE [tk EXCEPT !.pc = "lookup"]
  ELSE Recover(tk, r)

FinalAttempt(tk) == tk.used + 1 = MaxAttempts

Backoff(tk, amb) ==
  [tk EXCEPT !.pc = "backoff", !.path = "loop", !.amb = amb,
             !.used = tk.used + 1]

\* After an ambiguous attempt: the next one waits for a backoff, unless the
\* budget is used up or the host interrupted.
AmbiguousNext(tk, r) ==
  IF FinalAttempt(tk) \/ tk.intr THEN Done(tk, PublicResult(r))
  ELSE Backoff(tk, TRUE)

-----------------------------------------------------------------------------
(* The store.                                                              *)

\* One more reservation; every caller has checked that the count can grow.
Reserved(r) == [r EXCEPT !.res = r.res + 1]

retires_combined_generation(g, r) ==
  Kind[g] = "combined" /\ r.st = "Rejected"

\* apply_observation: writes the row `r` the observation leads to and goes on
\* as `tk`.  A combined generation that becomes rejected leaves no row: its
\* members' recovery and its authorization are cleared and its rejection is
\* counted.  An illegal transition rolls back.
Apply(t, g, r, tk) ==
  IF r = Illegal
  THEN Step(t, Done(task[t], "Illegal")) /\ UNCHANGED durable
  ELSE LET retires == retires_combined_generation(g, r) IN
       /\ Step(t, tk)
       /\ row' = [row EXCEPT ![g] = IF retires THEN Absent ELSE r]
       /\ material' = IF retires THEN [material EXCEPT ![g] = "retired"]
                      ELSE material
       /\ streak' = IF retires
                    THEN [streak EXCEPT ![Bundle[g]] = streak[Bundle[g]] + 1]
                    ELSE streak
       /\ UNCHANGED <<spends, van>>

\* Writes a row without an observation (reservations, removal, insertion).
Put(t, g, r, tk) ==
  /\ Step(t, tk)
  /\ row' = [row EXCEPT ![g] = r]
  /\ UNCHANGED <<material, spends, van, streak>>

\* Leaves everything durable as it is.
Return(t, res) == Step(t, Done(task[t], res)) /\ UNCHANGED durable

\* confirm_committed and confirm_tree: the generation must still derive, the
\* host must still allow the commit, and a delegation must not contradict the
\* stored VAN position.
Confirm(t, g, r, pos) ==
  LET b == Bundle[g] IN
  IF ~ Derivable(g) THEN Return(t, "Err")
  ELSE IF task[t].intr THEN Return(t, PublicResult(row[g]))
  ELSE IF r = Illegal THEN Return(t, "Illegal")
  ELSE IF VanConflict(g, pos) THEN Return(t, "Err")
  ELSE /\ Step(t, Done(task[t], "Confirmed"))
       /\ row' = [row EXCEPT ![g] = r]
       /\ van' = [van EXCEPT ![b] = NewVan(g, pos)]
       /\ streak' = IF Kind[g] = "combined" THEN [streak EXCEPT ![b] = 0]
                    ELSE streak
       /\ UNCHANGED <<material, spends>>

-----------------------------------------------------------------------------
(* Admission: the start of a pass.                                         *)

\* SubmissionCoordination::acquire got the bundle's lease.
LeaseFree(t, g) ==
  /\ task[t].pc = "idle"
  /\ \A u \in Task : Active(u) => ~ SameBundle(task[u].gen, g)

\* Faulty variant: the abandoned row is normalised by another observation.
NormalizedByContinuing(r) == OnContinueRecovery(r)

\* normalize_abandoned: a Submitting row found at admission belongs to a
\* process that died.
Normalized(r) == OnAbandonedSubmitting(r, "AmbiguousDispatch")

\* Work is not allowed any more: an abandoned reservation is still
\* normalised, and whatever the store knows is returned.
AdvanceInterrupted(t, g) ==
  LET tk == Start(g, "StatusOnly")
      r == IF row[g].st = "Submitting" THEN Normalized(row[g])
           ELSE row[g] IN
  /\ LeaseFree(t, g)
  /\ Put(t, g, r, Done(tk, IF r = Absent THEN "Cancelled" ELSE PublicResult(r)))
  /\ UNCHANGED chain

AdvanceAbandoned(t, g) ==
  LET r == Normalized(row[g]) IN
  /\ LeaseFree(t, g)
  /\ row[g].st = "Submitting"
  /\ Put(t, g, r, Done(Start(g, "StatusOnly"), PublicResult(r)))
  /\ UNCHANGED chain

AdvanceTerminal(t, g) ==
  /\ LeaseFree(t, g)
  /\ row[g].st \in {"Confirmed", "Rejected", "SubmittedWithoutHash"}
  /\ Step(t, Done(Start(g, "StatusOnly"),
                  IF Derivable(g) THEN row[g].st ELSE "Err"))
  /\ UNCHANGED <<durable, chain>>

\* Status-only advancement re-POSTs a dispatch ambiguity without a scan.
Redispatches(g, m) ==
  /\ m = "StatusOnly" /\ Kind[g] # "imported"
  /\ permits_ambiguous_retry(row[g])

AdvanceExisting(t, g, m) ==
  LET tk == Start(g, m) IN
  /\ LeaseFree(t, g)
  /\ row[g].st \in {"Tracking", "Recovering"}
  /\ UNCHANGED chain
  /\ IF ~ Derivable(g) THEN Step(t, Done(tk, "Err")) /\ UNCHANGED durable
     ELSE IF ~ Redispatches(g, m)
     THEN Step(t, ReconcileExisting(tk, row[g])) /\ UNCHANGED durable
     ELSE IF row[g].res >= MaxReservations
     THEN Step(t, Done(tk, "Err")) /\ UNCHANGED durable
     ELSE Put(t, g, Reserved(row[g]), Post(tk, "loop", TRUE))

AdvanceRefused(t, g) ==
  /\ LeaseFree(t, g)
  /\ row[g] = Absent /\ Refused(g)
  /\ Step(t, Done(Start(g, "StatusOnly"), "Err"))
  /\ UNCHANGED <<durable, chain>>

AdvanceFresh(t, g, m) ==
  LET tk == Start(g, m) IN
  /\ LeaseFree(t, g)
  /\ row[g] = Absent /\ ~ Refused(g)
  /\ UNCHANGED chain
  /\ IF Kind[g] = "imported"
     THEN Put(t, g, Adopted(g), ReconcileExisting(tk, Adopted(g)))
     ELSE Put(t, g, Fresh(1), Post(tk, "loop", FALSE))

-----------------------------------------------------------------------------
(* One POST attempt (submit_reserved_attempts, submit_recovery_retry).     *)

\* The attempt is the first of its reservation and no copy ever left.
FreshAttempt(tk) == tk.path = "loop" /\ ~ tk.amb

\* classify_dispatched_post of a returned hash: one that another generation
\* owns is dispatch ambiguity, not acceptance.
AcceptHash(t, h) ==
  LET tk == task[t]
      g == tk.gen
      r == IF OwnedElsewhere(g, h)
           THEN OnPossiblyDispatched(row[g], "InvalidProtocolResponse")
           ELSE OnUsableCandidateHash(row[g], h) IN
  Apply(t, g, r,
        IF Hashless(r) THEN AmbiguousNext(tk, r)
        ELSE IF tk.path = "retry" THEN Done(tk, PublicResult(r))
        ELSE ReconcileExisting([tk EXCEPT !.used = tk.used + 1], r))

PostAccepted(t) ==
  /\ task[t].pc = "posting"
  /\ ~ Spent(task[t].gen)
  /\ \E h \in HashesOf(task[t].gen) :
       /\ committed[h] = "no"
       /\ AcceptHash(t, h)
       /\ pool' = pool \cup {h}
  /\ UNCHANGED <<late, committed, leaf, size>>

\* The endpoint relays the POST and answers with another transaction's hash.
PostMisreported(t) ==
  /\ task[t].pc = "posting"
  /\ \E h \in Hash : <<task[t].gen, h>> \in Misreports /\ AcceptHash(t, h)
  /\ late' = late \cup {task[t].gen}
  /\ UNCHANGED <<pool, committed, leaf, size>>

\* Faulty variant: a rejection after an ambiguous attempt also retires.
TerminalAfterAmbiguity(tk, code2) == Kind[tk.gen] = "combined" /\ ~ code2

\* A combined batch rejected before any possible dispatch did not land.
TerminalRejected(tk, code2) ==
  Kind[tk.gen] = "combined" /\ FreshAttempt(tk) /\ ~ code2

\* Code 2 (nullifier already spent) is told by the chain only when it is.
PostRejected(t, code2) ==
  LET tk == task[t]
      r == IF TerminalRejected(tk, code2)
           THEN OnTerminalRejection(row[tk.gen], "ChainRejected")
           ELSE OnDefiniteRejection(row[tk.gen], "ChainRejected") IN
  /\ tk.pc = "posting"
  /\ code2 => Spent(tk.gen) /\ ~ tk.amb
  /\ Apply(t, tk.gen, r,
           Done(tk, IF FreshAttempt(tk) THEN PublicResult(r) ELSE "Err"))
  /\ UNCHANGED chain

EndHashless(t) ==
  LET g == task[t].gen
      r == OnSubmittedWithoutHash(row[g], "NullifierAlreadySpent") IN
  Apply(t, g, r, Done(task[t], PublicResult(r)))

\* settle_nullifier_spent_after_dispatch: code 2 after unresolved dispatch.
PostNullifierSpent(t) ==
  /\ task[t].pc = "posting" /\ task[t].amb
  /\ Spent(task[t].gen)
  /\ IF task[t].mode = "StatusOnly" THEN EndHashless(t)
     ELSE Step(t, [task[t] EXCEPT !.pc = "settle"]) /\ UNCHANGED durable
  /\ UNCHANGED chain

\* Timeout, lost or unusable reply, or interruption after dispatch.
PostAmbiguous(t, d) ==
  LET tk == task[t]
      r == OnPossiblyDispatched(row[tk.gen], d) IN
  /\ tk.pc = "posting"
  /\ Apply(t, tk.gen, r, AmbiguousNext(tk, r))
  /\ late' = late \cup {tk.gen}
  /\ UNCHANGED <<pool, committed, leaf, size>>

\* The transport proves no byte left: a fresh reservation is removed, an
\* earlier ambiguity stays.
PostUnsent(t) ==
  LET tk == task[t]
      r == OnDefinitelyUnsent(row[tk.gen]) IN
  /\ tk.pc = "posting"
  /\ Apply(t, tk.gen, r,
           IF tk.path = "retry" \/ FinalAttempt(tk) THEN Done(tk, "Err")
           ELSE Backoff(tk, tk.amb))
  /\ UNCHANGED chain

\* The request could not be built or registered; nothing left.
PostLocalFailure(t) ==
  LET tk == task[t] IN
  /\ tk.pc = "posting"
  /\ IF FreshAttempt(tk) THEN Put(t, tk.gen, Absent, Done(tk, "Err"))
     ELSE Apply(t, tk.gen, OnContinueRecovery(row[tk.gen]), Done(tk, "Err"))
  /\ UNCHANGED chain

\* Faulty variant: an interrupted attempt always drops its reservation.
InterruptedAlwaysRemoves(t) ==
  LET tk == task[t] IN
  /\ tk.pc = "posting" /\ tk.intr
  /\ Put(t, tk.gen, Absent, Done(tk, "Cancelled"))
  /\ UNCHANGED chain

\* The host interrupted before the request could have been dispatched.
PostInterrupted(t) ==
  LET tk == task[t] IN
  /\ tk.pc = "posting" /\ tk.intr
  /\ IF FreshAttempt(tk) THEN Put(t, tk.gen, Absent, Done(tk, "Cancelled"))
     ELSE Return(t, PublicResult(row[tk.gen]))
  /\ UNCHANGED chain

-----------------------------------------------------------------------------
(* Between two attempts.                                                   *)

BackoffInterrupted(t) ==
  LET tk == task[t] IN
  /\ tk.pc = "backoff" /\ tk.intr
  /\ Return(t, IF tk.amb THEN PublicResult(row[tk.gen]) ELSE "Cancelled")
  /\ UNCHANGED chain

\* reserve_ambiguous_retry
ReserveAmbiguousRetry(t) ==
  LET tk == task[t]
      r == row[tk.gen] IN
  /\ tk.pc = "backoff" /\ tk.amb /\ ~ tk.intr
  /\ IF permits_ambiguous_retry(r) /\ r.res < MaxReservations
     THEN Put(t, tk.gen, Reserved(r), Post(tk, "loop", TRUE))
     ELSE Return(t, "Err")
  /\ UNCHANGED chain

\* What derive finds instead of g once its vote was signed again.
Renewed(g) == {g2 \in Gen \ {g} : SameVote(g, g2) /\ Derivable(g2)}

\* A definitely unsent attempt goes through the whole admission again.
ReAdmit(t) ==
  LET tk == task[t]
      g == tk.gen IN
  /\ tk.pc = "backoff" /\ ~ tk.amb /\ ~ tk.intr /\ Renewed(g) = {}
  /\ IF row[g] # Absent THEN Return(t, PublicResult(row[g]))
     ELSE IF HeldByAnother(g) \/ Refused(g) THEN Return(t, "Err")
     ELSE Put(t, g, Fresh(tk.used + 1), Post(tk, "loop", FALSE))
  /\ UNCHANGED chain

\* It then reserves for the generation the vote has by now: the pass returns and
\* leaves that reservation, which nothing was dispatched for.
ReAdmitRenewed(t) ==
  LET tk == task[t] IN
  /\ tk.pc = "backoff" /\ ~ tk.amb /\ ~ tk.intr
  /\ \E g \in Renewed(tk.gen) :
       IF row[g] # Absent \/ HeldByAnother(g) \/ Refused(g) THEN Return(t, "Err")
       ELSE Put(t, g, Fresh(tk.used + 1), Done(tk, "Err"))
  /\ UNCHANGED chain

-----------------------------------------------------------------------------
(* Status lookup of the candidate hash.                                    *)

LookupInterrupted(t) ==
  /\ task[t].pc = "lookup" /\ task[t].intr
  /\ Return(t, PublicResult(row[task[t].gen]))
  /\ UNCHANGED chain

\* Pending, or (failed) no usable answer.  The window is fixed by the first
\* entry into Tracking, so whether it has expired is left open here.
LookupInconclusive(t, failed, expired) ==
  LET tk == task[t]
      s == row[tk.gen]
      r == IF s.st = "Tracking" /\ expired
           THEN OnTrackingWindowExpired(s, "TrackingWindowExpired")
           ELSE IF s.st = "Recovering" /\ failed THEN OnContinueRecovery(s)
           ELSE OnCandidatePending(s) IN
  /\ tk.pc = "lookup"
  /\ Apply(t, tk.gen, r,
           IF r.st = "Tracking" /\ failed THEN Done(tk, "Err")
           ELSE Recover(tk, r))
  /\ UNCHANGED chain

\* Faulty variant: any kind's committed failure is taken as its final word.
FailureAlwaysTerminal(g) == TRUE

\* One immutable hash: its failure is the generation's final word.
FailureIsTerminal(g) == Kind[g] \in {"imported", "combined"}

LookupCommittedFailure(t) ==
  LET tk == task[t]
      s == row[tk.gen]
      r == IF FailureIsTerminal(tk.gen)
           THEN OnTerminalCandidateFailure(s, "ChainRejected")
           ELSE OnCandidateCommittedFailure(s, "ChainRejected") IN
  /\ tk.pc = "lookup"
  /\ s.cand \in Hash /\ committed[s.cand] = "failed"
  /\ Apply(t, tk.gen, r,
           IF s.st = "Recovering" /\ ~ FailureIsTerminal(tk.gen)
           THEN Recover(tk, r) ELSE Done(tk, PublicResult(r)))
  /\ UNCHANGED chain

LookupCommittedSuccess(t) ==
  LET tk == task[t]
      g == tk.gen
      h == row[g].cand IN
  /\ tk.pc = "lookup"
  /\ h \in Hash /\ committed[h] = "ok"
  /\ IF ~ tk.intr /\ ~ EventsMatch(g, h) THEN Return(t, "Err")
     ELSE Confirm(t, g, OnConfirmedByHash(row[g], h), leaf[HashOf[h]])
  /\ UNCHANGED chain

-----------------------------------------------------------------------------
(* Exact-tree scan (recover_if_enabled) and settlement after code 2.       *)

Scanning(t) == task[t].pc \in {"scan", "settle"}

ScanInterrupted(t) ==
  /\ Scanning(t) /\ task[t].intr
  /\ Return(t, PublicResult(row[task[t].gen]))
  /\ UNCHANGED chain

\* Malformed or contradictory tree data, or no transport.
ScanFailed(t) ==
  LET g == task[t].gen IN
  /\ Scanning(t)
  /\ Apply(t, g, OnContinueRecovery(row[g]), Done(task[t], "Err"))
  /\ UNCHANGED chain

\* The complete expected layout is in the tree: confirm by position.
ScanMatch(t) ==
  LET g == task[t].gen IN
  /\ Scanning(t) /\ Landed(g)
  /\ Confirm(t, g, OnConfirmedByTree(row[g]), leaf[g])
  /\ UNCHANGED chain

\* A complete pass without the layout, possibly over a tree that lags behind.
ScanNoMatch(t) ==
  LET tk == task[t]
      r == row[tk.gen] IN
  /\ tk.pc = "scan"
  /\ IF tk.used >= MaxAttempts \/ tk.intr THEN Return(t, PublicResult(r))
     ELSE /\ Step(t, [tk EXCEPT !.pc = "authorized", !.auth = r.cand])
          /\ UNCHANGED durable
  /\ UNCHANGED chain

\* After code 2 the no-match authorization is discarded.
SettleNoMatch(t) ==
  /\ task[t].pc = "settle"
  /\ EndHashless(t)
  /\ UNCHANGED chain

AuthorizedInterrupted(t) ==
  /\ task[t].pc = "authorized" /\ task[t].intr
  /\ Return(t, PublicResult(row[task[t].gen]))
  /\ UNCHANGED chain

\* reserve_recovery_retry: spends the authorization, forgetting the candidate.
ReserveRecoveryRetry(t) ==
  LET tk == task[t]
      r == row[tk.gen]
      next == [Reserved(r) EXCEPT !.cand = NoHash] IN
  /\ tk.pc = "authorized" /\ ~ tk.intr
  /\ IF /\ Derivable(tk.gen)
        /\ r.st = "Recovering" /\ r.cand = tk.auth
        /\ r.res < MaxReservations
     THEN Put(t, tk.gen, next, Post(tk, "retry", has_unresolved_dispatch(next)))
     ELSE Return(t, "Err")
  /\ UNCHANGED chain

-----------------------------------------------------------------------------
(* The caller takes the result; hosts interrupt; stores and processes fail.*)

Finish(t) ==
  /\ task[t].pc = "done"
  /\ Step(t, Idle)
  /\ UNCHANGED <<durable, chain>>

Interrupt(t) ==
  /\ Active(t) /\ ~ task[t].intr
  /\ Step(t, [task[t] EXCEPT !.intr = TRUE])
  /\ UNCHANGED <<durable, chain>>

\* A store transaction fails and rolls back.  If a POST was in flight its
\* outcome is lost with it.
StoreFails(t) ==
  /\ Active(t)
  /\ Return(t, "Err")
  /\ late' = IF task[t].pc = "posting" THEN late \cup {task[t].gen} ELSE late
  /\ UNCHANGED <<pool, committed, leaf, size>>

\* The process dies: passes are gone, POSTs in flight may still arrive.
Crash ==
  /\ \E t \in Task : Active(t)
  /\ task' = [t \in Task |-> Idle]
  /\ late' = late \cup {task[t].gen : t \in {u \in Task : task[u].pc = "posting"}}
  /\ UNCHANGED <<durable, pool, committed, leaf, size>>

-----------------------------------------------------------------------------
(* Signing and discarding, the other writers of the same database.         *)

\* try_acquire_delegation_setup: no pass of the bundle is running.
SetupLeaseFree(g) ==
  \A u \in Task : Active(u) => ~ SameBundle(task[u].gen, g)

\* try_acquire_round_exclusive: no pass of the round is running.
RoundLeaseFree == \A u \in Task : ~ Active(u)

\* store_delegation_setup / replace_unbroadcast_delegation_setup: a new setup
\* also starts its bundle's rejection streak anew.
SetupDelegation(g) ==
  /\ SetupLeaseFree(g)
  /\ ReplaceSetup(g)
  /\ streak' = [streak EXCEPT ![Bundle[g]] = 0]
  /\ UNCHANGED <<task, late, pool>>

\* persist_prepared_commits, of a vote or standalone batch ...
SignVote(g) == SignOverVan(g) /\ UNCHANGED <<streak, task, late, pool>>

\* ... and of a combined batch.
SignCombined(g) == SignOverDelegation(g) /\ UNCHANGED <<streak, task, late, pool>>

\* Signed votes S, of one bundle or of several, that hold a proposal the roster
\* dropped (retire_undispatched_votes_outside_roster) or whose intent is cleared
\* (clear_ballot_intent) are retired.  No lease.
DiscardVotes(S) ==
  /\ \A g \in S : material[g] = "signed"
  /\ RetireVotes(S)
  /\ UNCHANGED <<streak, task, late, pool>>

\* write_ballot_intent_in_tx with a new decision: the votes S cast for the
\* proposal before, signed or retired, are retired and the rejection streaks of
\* their bundles, counted against the old ballot, start anew.  No lease.
ChangeIntent(S) ==
  /\ RetireVotes(S)
  /\ streak' = [b \in Bundles |-> IF \E g \in S : Bundle[g] = b THEN 0
                                   ELSE streak[b]]
  /\ UNCHANGED <<task, late, pool>>

\* discard_unbroadcast_delegation
DiscardDelegation(g) ==
  /\ RoundLeaseFree
  /\ RetireSetup(g)
  /\ streak' = [streak EXCEPT ![Bundle[g]] = 0]
  /\ UNCHANGED <<task, late, pool>>

\* retry_blocked_combined_cast
RetryBlockedCast(b) ==
  /\ streak[b] # 0
  /\ RoundLeaseFree
  /\ streak' = [streak EXCEPT ![b] = 0]
  /\ UNCHANGED <<row, material, spends, van, task, chain>>

-----------------------------------------------------------------------------
(* The chain and the network (external).                                   *)

\* A travelling copy reaches the mempool; others may still be under way.
LateDelivery(h) ==
  /\ HashOf[h] \in late /\ h \notin pool
  /\ committed[h] = "no" /\ ~ Spent(HashOf[h])
  /\ pool' = pool \cup {h}
  /\ UNCHANGED <<durable, task, late, committed, leaf, size>>

LateLost(g) ==
  /\ g \in late
  /\ late' = late \ {g}
  /\ UNCHANGED <<durable, task, pool, committed, leaf, size>>

Evict(h) ==
  /\ h \in pool
  /\ pool' = pool \ {h}
  /\ UNCHANGED <<durable, task, late, committed, leaf, size>>

\* Inclusion succeeds only while the nullifiers are unspent.
CommitOk(h) ==
  LET g == HashOf[h] IN
  /\ h \in pool /\ ~ Spent(g)
  /\ pool' = pool \ {h}
  /\ committed' = [committed EXCEPT ![h] = "ok"]
  /\ size' = size + 1
  /\ leaf' = [leaf EXCEPT ![g] = size + 1]
  /\ UNCHANGED <<durable, task, late>>

CommitFailed(h) ==
  /\ h \in pool
  /\ pool' = pool \ {h}
  /\ committed' = [committed EXCEPT ![h] = "failed"]
  /\ UNCHANGED <<durable, task, late, leaf, size>>

-----------------------------------------------------------------------------
\* Capability imports have happened; the delegator POSTed, or will.
Init ==
  /\ row = [g \in Gen |-> Absent]
  /\ material = [g \in Gen |-> IF Kind[g] = "imported" THEN "signed"
                               ELSE "unsigned"]
  /\ spends = [g \in Gen |-> 0]
  /\ van = [b \in Bundles |-> 0]
  /\ streak = [b \in Bundles |-> 0]
  /\ task = [t \in Task |-> Idle]
  /\ late = {g \in Gen : Kind[g] = "imported"}
  /\ pool = {}
  /\ committed = [h \in Hash |-> "no"]
  /\ leaf = [g \in Gen |-> 0]
  /\ size = 0

\* A request names an identity: the pass is of the generation that has its row.
Admission(t) ==
  \E g \in {x \in Gen : ~ HeldByAnother(x)} :
    \/ AdvanceInterrupted(t, g)
    \/ AdvanceAbandoned(t, g)
    \/ AdvanceTerminal(t, g)
    \/ \E m \in Modes : AdvanceExisting(t, g, m)
    \/ AdvanceRefused(t, g)
    \/ \E m \in Modes : AdvanceFresh(t, g, m)

Posting(t) ==
  \/ PostAccepted(t)
  \/ PostMisreported(t)
  \/ \E code2 \in BOOLEAN : PostRejected(t, code2)
  \/ PostNullifierSpent(t)
  \/ \E d \in Ambiguities : PostAmbiguous(t, d)
  \/ PostUnsent(t)
  \/ PostLocalFailure(t)
  \/ PostInterrupted(t)

Retrying(t) ==
  \/ BackoffInterrupted(t)
  \/ ReserveAmbiguousRetry(t)
  \/ ReAdmit(t)
  \/ ReAdmitRenewed(t)

Lookup(t) ==
  \/ LookupInterrupted(t)
  \/ \E failed, expired \in BOOLEAN : LookupInconclusive(t, failed, expired)
  \/ LookupCommittedFailure(t)
  \/ LookupCommittedSuccess(t)

Scan(t) ==
  \/ ScanInterrupted(t)
  \/ ScanFailed(t)
  \/ ScanMatch(t)
  \/ ScanNoMatch(t)
  \/ SettleNoMatch(t)
  \/ AuthorizedInterrupted(t)
  \/ ReserveRecoveryRetry(t)

Ballot ==
  \/ \E g \in Gen :
       \/ SetupDelegation(g)
       \/ SignVote(g)
       \/ SignCombined(g)
       \/ DiscardDelegation(g)
  \/ \E S \in SUBSET Gen : DiscardVotes(S) \/ ChangeIntent(S)
  \/ \E b \in Bundles : RetryBlockedCast(b)

Network ==
  \/ \E h \in Hash :
       LateDelivery(h) \/ Evict(h) \/ CommitOk(h) \/ CommitFailed(h)
  \/ \E g \in Gen : LateLost(g)

Next ==
  \/ \E t \in Task :
       \/ Admission(t) \/ Posting(t) \/ Retrying(t) \/ Lookup(t) \/ Scan(t)
       \/ Finish(t) \/ Interrupt(t) \/ StoreFails(t)
  \/ Crash
  \/ Ballot
  \/ Network

Spec == Init /\ [][Next]_vars

-----------------------------------------------------------------------------
(* Properties.                                                             *)

\* Every variable has the type its comment gives it.
TypeOK ==
  /\ row \in [Gen -> Row]
  /\ material \in [Gen -> {"unsigned", "signed", "retired"}]
  /\ spends \in [Gen -> Nat] /\ leaf \in [Gen -> Nat] /\ size \in Nat
  /\ van \in [Bundles -> Nat] /\ streak \in [Bundles -> Nat]
  /\ task \in [Task -> Pass]
  /\ late \subseteq Gen /\ pool \subseteq Hash
  /\ committed \in [Hash -> {"no", "ok", "failed"}]

\* A generation without a chain_submissions row, whatever removed the row
\* (definitely unsent, interruption, combined retirement), has no copy on
\* chain, in the mempool or under way.  Imported delegations are POSTed by
\* their delegator, before this wallet has a row.
NeverForgotten ==
  \A g \in Gen :
    row[g].st = "None" /\ Kind[g] # "imported" => ~ MayLand(g)

\* Two different generations that spend one nullifier are never both able to
\* land: admission, signing and discarding together keep one spender of a
\* bundle's notes and of each VAN.
OneSpender ==
  \A g1, g2 \in Gen :
    SameNullifier(g1, g2) /\ MayLand(g1) /\ MayLand(g2) => g1 = g2

\* What a settled row says is true of the chain: Confirmed and
\* SubmittedWithoutHash generations are on it (the latter is concluded from
\* code 2 alone), a Rejected one is not and never will be.
SettledIsTrue ==
  \A g \in Gen :
    /\ row[g].st \in {"Confirmed", "SubmittedWithoutHash"} => Landed(g)
    /\ row[g].st = "Rejected" => ~ MayLand(g)

\* The coordinator never asks the state machine for a transition it refuses.
NoIllegalTransition == \A t \in Task : task[t].result # "Illegal"

\* A POST is in flight only under a reservation committed for it: the row says
\* that a copy may be out before the first byte can leave.
ReservedBeforePost ==
  \A t \in Task :
    LET tk == task[t]
        r == row[tk.gen] IN
    tk.pc = "posting" =>
      /\ IF FreshAttempt(tk) THEN r.st = "Submitting" ELSE Hashless(r)
      /\ tk.used < MaxAttempts /\ tk.used < r.res
      /\ Kind[tk.gen] # "imported"

\* A pass that answers "cancelled, nothing is stored" to its host leaves
\* nothing behind that could still land.
CancelledHidesNothing ==
  [][\A t \in Task, g \in Gen :
       /\ task'[t].result = "Cancelled" /\ task[t].result # "Cancelled"
       /\ task'[t].gen = g /\ Kind[g] # "imported"
       => row'[g] = Absent /\ ~ MayLand(g)']_vars

\* A candidate hash is dropped only for the committed failure of that hash, by
\* an authorized retry after a complete no-match scan, or by confirming or
\* settling the row.
CandidateDroppedWithCause ==
  [][\A g \in Gen :
       /\ row[g].cand # NoHash /\ row'[g].cand # row[g].cand
       => \/ row'[g].st \in {"Confirmed", "SubmittedWithoutHash"}
          \/ committed[row[g].cand] = "failed"
          \/ \E t \in Task : task[t].gen = g /\ task[t].pc = "authorized"]_vars

\* A recovering row whose diagnostic is ChainRejected "records a definite
\* outcome ... which spent nothing" (docs/chain_submission_invariants.md:630);
\* has_unresolved_dispatch relies on it.
ChainRejectedSpentNothing ==
  \A g \in Gen :
    /\ row[g].st = "Recovering" /\ row[g].diag = "ChainRejected"
    /\ \A t \in Task : Active(t) => task[t].gen # g
    => ~ Landed(g)

-----------------------------------------------------------------------------
(* Fairness: the host keeps calling advance with exact-tree recovery until  *)
(* the generation is settled, running passes proceed, a tracking window     *)
(* runs out, and lookups and scans that such passes make again and again    *)
(* without interruption are answered in the end.  Nothing is assumed of     *)
(* POSTs, of crashes, of failing stores or of the chain.                    *)

Undisturbed(t) == ~ task[t].intr /\ task[t].mode = "ExactTree"

Fairness ==
  /\ \A t \in Task :
       /\ WF_vars(Finish(t))
       /\ WF_vars(Posting(t) \/ Retrying(t) \/ Lookup(t) \/ Scan(t))
       /\ SF_vars(Undisturbed(t) /\ LookupInconclusive(t, FALSE, TRUE))
       /\ SF_vars(Undisturbed(t) /\ LookupCommittedFailure(t))
       /\ SF_vars(Undisturbed(t) /\ LookupCommittedSuccess(t))
       /\ SF_vars(Undisturbed(t) /\ ScanMatch(t))
  /\ \A g \in Gen : SF_vars(\E t \in Task : \/ AdvanceAbandoned(t, g)
                                            \/ AdvanceExisting(t, g, "ExactTree"))

FairSpec == Spec /\ Fairness

\* A transaction of this wallet that is on chain is eventually known to be:
\* whatever replies were lost and wherever the process died, exact-tree passes
\* confirm it, or code 2 settles it without a hash.
LandedIsSettled ==
  \A g \in Gen :
    Kind[g] # "imported" /\ Landed(g)
      ~> row[g].st \in {"Confirmed", "SubmittedWithoutHash"}

=============================================================================
