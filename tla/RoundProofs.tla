---------------------------- MODULE RoundProofs ----------------------------
(***************************************************************************)
(* Rounds, for any bundles, proposals, options and policies.               *)
(*                                                                         *)
(* The invariant says of one bundle, of its votes v and shares s, its job  *)
(* j and its proving thread t, what holds between the steps of the run,    *)
(* the thread and the host: what is signed together stays together, signed *)
(* votes never contradict the ballot, and a job that is about to reserve a *)
(* unit has a decided ballot for as long as the unit is still there.       *)
(***************************************************************************)
EXTENDS Rounds, FiniteSetTheorems, TLAPS

USE Zenon

Votes == [Proposals -> [choice : Options \cup {"none"}, unit : SUBSET Proposals,
                        combined : BOOLEAN, row : {"none", "managed", "hashless", "rejected", "confirmed"}]]

ShareRows == [Proposals -> {"absent", "unreached", "trying", "tracked", "confirmed"}]

Intents == [Proposals -> Decisions \cup {"open"}]

JobShape(j) ==
    j \in [at : {"none", "lock", "work", "proving", "plans", "reserve", "episode", "deliver", "done"},
           step : {j.step}, ps : SUBSET Proposals, draft : {j.draft}, how : {j.how}]

ProverShape(t) ==
    t \in [kind : {"none", "delegate", "cast", "combined"}, ps : SUBSET Proposals,
           draft : {t.draft}, seen : {t.seen}]

RunShape(r) ==
    r \in [pc : {"idle", "loop", "unreadable", "decide", "contexts", "wave", "refresh", "sleep"},
           plan : {r.plan}, wave : {r.wave}, await : {r.await}, repoll : {r.repoll},
           skipped : {r.skipped}, failed : {r.failed}, dispatches : {r.dispatches},
           tried : {r.tried}, twice : {r.twice}, quiescence : {r.quiescence}, owed : {r.owed}]

\* Signed votes agree with the ballot i as far as it is decided, units are whole, and
\* what was dispatched is decided; only a rejected vote may have lost its material.
SignedOk(v, i) ==
    \A p \in Proposals :
        /\ v[p].unit # {} =>
             /\ p \in v[p].unit /\ v[p].choice \in Options /\ i[p] \in {"open", v[p].choice}
             /\ \A q \in v[p].unit : v[q].unit = v[p].unit /\ v[q].row = v[p].row
        /\ v[p].row # "none" =>
             /\ i[p] # "open"
             /\ v[p].unit = {} => v[p].row = "rejected" /\ ~v[p].combined

\* Helpers get the shares of votes on chain.
SharesOk(v, s) == \A p \in Proposals : s[p] # "absent" => v[p].row = "confirmed"

\* What the step found under its lock still holds where it matters.
WorkOk(j, v, r) ==
    /\ j.step.kind = "CastVote" => j.ps \subseteq r /\ \A p \in j.ps : j.draft[p] \in Options
    /\ j.step.kind \in Delegations => j.ps = {}
    /\ j.step.kind \in {"AdvanceVote", "AdvanceVoteBatch"} =>
         /\ j.ps \subseteq r \/ \E q \in j.ps : v[q].row # "none"
         /\ \A q \in j.ps : v[q].row \in {"none", "managed"}
    /\ j.step.kind \in {"SubmitShares", "ConfirmShare"} =>
         j.ps = {j.step.p} /\ v[j.step.p].row = "confirmed"

JobOk(b, j, v, i, r) ==
    /\ j.at # "none" => j.step.b = b
    /\ j.at = "work" => WorkOk(j, v, r)
    /\ j.at \in {"proving", "plans"} => j.ps \subseteq r
    /\ j.at \in {"plans", "reserve"} => \A p \in j.ps : v[p].row \in {"none", "managed"}
    /\ j.at = "reserve" => \A p \in j.ps : v[p].unit = j.ps => i[p] # "open"
    /\ j.at = "episode" => \A p \in j.ps : v[p].unit = j.ps /\ v[p].row = "managed"
    /\ j.at = "deliver" => \A p \in j.ps : v[p].row = "confirmed"

\* A thread persists choices of the ballot, over votes that were not signed.
ProverOk(t) ==
    t.kind \in {"cast", "combined"} =>
      \A p \in t.ps :
        /\ t.draft[p] \in Options
        /\ t.seen # <<>> => /\ t.seen[p].vote.unit = {} /\ t.seen[p].vote.row = "none"
                            /\ t.seen[p].intent \in {"open", t.draft[p]}

\* While a thread proves votes of a bundle, no job works on the bundle's votes but
\* the one that waits for it.
LockOk(j, t) ==
    t.kind \in {"cast", "combined"} =>
        /\ j.at \notin {"plans", "reserve", "episode", "deliver"}
        /\ j.at = "work" => BundleScoped(j.step)
        /\ j.at = "proving" => j.ps = t.ps

BundleOk(b, v, s, j, t, i, r) ==
    /\ v \in Votes /\ s \in ShareRows /\ JobShape(j) /\ ProverShape(t)
    /\ SignedOk(v, i) /\ SharesOk(v, s) /\ JobOk(b, j, v, i, r) /\ ProverOk(t) /\ LockOk(j, t)

RoundInv ==
    /\ intent \in Intents /\ roster \subseteq Proposals /\ RunShape(run)
    /\ DOMAIN vote = Bundles /\ DOMAIN shares = Bundles
    /\ DOMAIN job = Bundles /\ DOMAIN prover = Bundles
    /\ \A b \in Bundles : /\ BundleOk(b, vote[b], shares[b], job[b], prover[b], intent, roster)
                          /\ job[b].at # "none" => run.pc = "wave"

\* A step of one bundle's job or thread leaves the others alone.
OnlyBundle(b) ==
    /\ DOMAIN vote' = Bundles /\ DOMAIN shares' = Bundles
    /\ DOMAIN job' = Bundles /\ DOMAIN prover' = Bundles
    /\ \A c \in Bundles : c # b => /\ vote'[c] = vote[c] /\ shares'[c] = shares[c]
                                   /\ job'[c] = job[c] /\ prover'[c] = prover[c]
    /\ UNCHANGED <<intent, roster, run>>

-----------------------------------------------------------------------------
(* Facts the steps share.                                                  *)

LEMMA OneBundle ==
  ASSUME RoundInv, NEW b \in Bundles, OnlyBundle(b),
         BundleOk(b, vote'[b], shares'[b], job'[b], prover'[b], intent, roster),
         job'[b].at # "none" => job[b].at # "none"
  PROVE  RoundInv'
<1>1. ASSUME NEW c \in Bundles
      PROVE  /\ BundleOk(c, vote'[c], shares'[c], job'[c], prover'[c], intent', roster')
             /\ job'[c].at # "none" => run'.pc = "wave"
  <2>1. CASE c = b
    BY <2>1 DEF RoundInv, OnlyBundle
  <2>2. CASE c # b
    BY <2>2 DEF RoundInv, OnlyBundle
  <2> QED
    BY <2>1, <2>2
<1>2. /\ intent' \in Intents /\ roster' \subseteq Proposals /\ RunShape(run')
      /\ DOMAIN vote' = Bundles /\ DOMAIN shares' = Bundles
      /\ DOMAIN job' = Bundles /\ DOMAIN prover' = Bundles
  BY DEF RoundInv, OnlyBundle
<1> QED
  BY <1>1, <1>2 DEF RoundInv

LEMMA BundleFacts ==
  ASSUME RoundInv, NEW b \in Bundles
  PROVE  /\ BundleOk(b, vote[b], shares[b], job[b], prover[b], intent, roster)
         /\ vote[b] \in Votes /\ shares[b] \in ShareRows /\ JobShape(job[b])
         /\ ProverShape(prover[b]) /\ SignedOk(vote[b], intent)
         /\ SharesOk(vote[b], shares[b]) /\ JobOk(b, job[b], vote[b], intent, roster)
         /\ ProverOk(prover[b]) /\ LockOk(job[b], prover[b])
         /\ (job[b].at # "none" => run.pc = "wave")
         /\ intent \in Intents /\ roster \subseteq Proposals /\ RunShape(run)
         /\ DOMAIN vote = Bundles /\ DOMAIN shares = Bundles
         /\ DOMAIN job = Bundles /\ DOMAIN prover = Bundles
BY DEF RoundInv, BundleOk

\* A finished job has nothing left to rely on.
LEMMA JobDone ==
  ASSUME RoundInv, NEW b \in Bundles, job[b].at # "none", NEW how, Done(b, how)
  PROVE  /\ DOMAIN job' = Bundles /\ \A c \in Bundles : c # b => job'[c] = job[c]
         /\ JobShape(job'[b]) /\ job'[b].at = "done"
         /\ \A v, i, r : JobOk(b, job'[b], v, i, r)
         /\ \A t : LockOk(job'[b], t)
<1>1. PICK h : job' = [job EXCEPT ![b] = [job[b] EXCEPT !.at = "done", !.how = h]]
  BY DEF Done
<1>2. PICK j : j = [job[b] EXCEPT !.at = "done", !.how = h]
  OBVIOUS
<1>3. JobShape(job[b]) /\ DOMAIN job = Bundles /\ job[b].step.b = b
  BY BundleFacts DEF JobOk
<1>4. JobShape(j) /\ j.at = "done" /\ j.step = job[b].step
  BY <1>2, <1>3 DEF JobShape
<1>5. DOMAIN job' = Bundles /\ job'[b] = j /\ \A c \in Bundles : c # b => job'[c] = job[c]
  BY <1>1, <1>2, <1>3
<1>6. \A v, i, r : JobOk(b, j, v, i, r)
  BY <1>3, <1>4 DEF JobOk
<1>7. \A t : LockOk(j, t)
  BY <1>4 DEF LockOk
<1> QED
  BY <1>4, <1>5, <1>6, <1>7

\* A job that moves keeps its step and its unit.
LEMMA JobMoves ==
  ASSUME RoundInv, NEW b \in Bundles,
         NEW at \in {"proving", "plans", "reserve", "episode", "deliver"}, Goto(b, at)
  PROVE  /\ DOMAIN job' = Bundles /\ \A c \in Bundles : c # b => job'[c] = job[c]
         /\ JobShape(job'[b]) /\ job'[b].at = at /\ job'[b].step = job[b].step
         /\ job'[b].ps = job[b].ps
<1>1. JobShape(job[b]) /\ DOMAIN job = Bundles
  BY BundleFacts
<1>2. PICK j : j = [job[b] EXCEPT !.at = at]
  OBVIOUS
<1>3. JobShape(j) /\ j.at = at /\ j.step = job[b].step /\ j.ps = job[b].ps
  BY <1>1, <1>2 DEF JobShape
<1>4. DOMAIN job' = Bundles /\ job'[b] = j /\ \A c \in Bundles : c # b => job'[c] = job[c]
  BY <1>1, <1>2 DEF Goto
<1> QED
  BY <1>3, <1>4

\* A job that ends where nothing else changes.
LEMMA DoneKeeps ==
  ASSUME RoundInv, NEW b \in Bundles, job[b].at # "none", NEW how, Done(b, how),
         UNCHANGED <<intent, roster, run, vote, shares, prover>>
  PROVE  RoundInv'
<1>1. BundleOk(b, vote[b], shares[b], job[b], prover[b], intent, roster)
  BY BundleFacts
<1>2. /\ DOMAIN job' = Bundles /\ \A c \in Bundles : c # b => job'[c] = job[c]
      /\ JobShape(job'[b]) /\ JobOk(b, job'[b], vote[b], intent, roster)
      /\ LockOk(job'[b], prover[b])
  BY JobDone
<1>3. BundleOk(b, vote'[b], shares'[b], job'[b], prover'[b], intent, roster)
  BY <1>1, <1>2 DEF BundleOk
<1>4. OnlyBundle(b)
  BY <1>2, BundleFacts DEF OnlyBundle
<1> QED
  BY <1>3, <1>4, OneBundle

-----------------------------------------------------------------------------
(* Obligations and the steps that stand for them.                          *)

\* What each kind of obligation is made from.
LEMMA ObligationFacts ==
  ASSUME NEW o \in Obligations
  PROVE  \/ o.kind = "cast" /\ o.b \in BundleRows /\ o.ps = Drafts(o.b)
         \/ o.kind \in {"delegate", "advance"} /\ o.b \in Bundles /\ o.ps = {}
         \/ /\ o.kind = "reconcile" /\ o.b \in Bundles
            /\ \E p \in Proposals : Reconciles(o.b, p) /\ o.ps = UnitOf(o.b, p)
         \/ /\ o.kind = "deliver" /\ o.b \in Bundles
            /\ \E p \in Proposals : o.ps = {p} /\ vote[o.b][p].row = "confirmed"
         \/ /\ o.kind = "confirm" /\ o.b \in Bundles
            /\ \E p \in Proposals : o.ps = {p} /\ shares[o.b][p] \in {"unreached", "trying", "tracked"}
<1>1. CASE \E b \in BundleRows : o = Obligation("cast", b, Drafts(b))
  <2>1. PICK b \in BundleRows : o = Obligation("cast", b, Drafts(b))
    BY <1>1
  <2>2. o.kind = "cast" /\ o.b = b /\ o.ps = Drafts(b)
    BY <2>1 DEF Obligation
  <2> QED
    BY <2>2
<1>2. CASE \E b \in Bundles, k \in {"delegate", "advance"} : o = Obligation(k, b, {})
  <2>1. PICK b \in Bundles, k \in {"delegate", "advance"} : o = Obligation(k, b, {})
    BY <1>2
  <2>2. o.kind = k /\ o.b = b /\ o.ps = {}
    BY <2>1 DEF Obligation
  <2> QED
    BY <2>2
<1>3. CASE \E k \in Bundles \X Proposals :
             Reconciles(k[1], k[2]) /\ o = Obligation("reconcile", k[1], UnitOf(k[1], k[2]))
  <2>1. PICK k \in Bundles \X Proposals :
          Reconciles(k[1], k[2]) /\ o = Obligation("reconcile", k[1], UnitOf(k[1], k[2]))
    BY <1>3
  <2>2. k[1] \in Bundles /\ k[2] \in Proposals
    BY <2>1
  <2>3. o.kind = "reconcile" /\ o.b = k[1] /\ o.ps = UnitOf(k[1], k[2])
    BY <2>1 DEF Obligation
  <2> QED
    BY <2>1, <2>2, <2>3
<1>4. CASE \E k \in Bundles \X Proposals :
             vote[k[1]][k[2]].row = "confirmed" /\ o = Obligation("deliver", k[1], {k[2]})
  <2>1. PICK k \in Bundles \X Proposals :
          vote[k[1]][k[2]].row = "confirmed" /\ o = Obligation("deliver", k[1], {k[2]})
    BY <1>4
  <2>2. k[1] \in Bundles /\ k[2] \in Proposals
    BY <2>1
  <2>3. o.kind = "deliver" /\ o.b = k[1] /\ o.ps = {k[2]}
    BY <2>1 DEF Obligation
  <2> QED
    BY <2>1, <2>2, <2>3
<1>5. CASE \E k \in Bundles \X Proposals :
             /\ shares[k[1]][k[2]] \in {"unreached", "trying", "tracked"}
             /\ o = Obligation("confirm", k[1], {k[2]})
  <2>1. PICK k \in Bundles \X Proposals :
          /\ shares[k[1]][k[2]] \in {"unreached", "trying", "tracked"}
          /\ o = Obligation("confirm", k[1], {k[2]})
    BY <1>5
  <2>2. k[1] \in Bundles /\ k[2] \in Proposals
    BY <2>1
  <2>3. o.kind = "confirm" /\ o.b = k[1] /\ o.ps = {k[2]}
    BY <2>1 DEF Obligation
  <2> QED
    BY <2>1, <2>2, <2>3
<1>6. \/ o \in {Obligation("cast", b, Drafts(b)) : b \in {x \in BundleRows : Drafts(x) # {}}}
      \/ o \in {Obligation("delegate", b, {}) : b \in {x \in Bundles :
                   ~Combined(x) /\ DelegationPhase(x) = "prepared" /\ Due(x) # {}}}
      \/ o \in {Obligation("advance", b, {}) : b \in {x \in Bundles :
                   ~Combined(x) /\ DelegationPhase(x) \in {"submitted", "managed"}}}
      \/ o \in {Obligation("reconcile", k[1], UnitOf(k[1], k[2])) :
                   k \in {x \in Bundles \X Proposals : Reconciles(x[1], x[2])}}
      \/ o \in {Obligation("deliver", k[1], {k[2]}) :
                   k \in {x \in Bundles \X Proposals :
                            vote[x[1]][x[2]].row = "confirmed" /\ shares[x[1]][x[2]] = "absent"}}
      \/ o \in {Obligation("confirm", k[1], {k[2]}) :
                   k \in {x \in Bundles \X Proposals :
                            /\ ~Stale(x[1], x[2])
                            /\ shares[x[1]][x[2]] \in {"unreached", "trying", "tracked"}}}
  BY DEF Obligations
<1> QED
  BY <1>1, <1>2, <1>3, <1>4, <1>5, <1>6

\* The steps of an obligation say its bundle, and their kind says the obligation's.
LEMMA StepFacts ==
  ASSUME NEW o \in Obligations, NEW s \in StepsOf(o)
  PROVE  /\ s.b = o.b
         /\ s.kind \in {"CastVote", "AdvanceVote", "AdvanceVoteBatch", "SubmitShares",
                        "ConfirmShare"} \cup Delegations
         /\ s.kind = "CastVote" => o.kind = "cast"
         /\ s.kind \in Delegations => o.kind \in {"delegate", "advance"}
         /\ s.kind \in {"AdvanceVote", "AdvanceVoteBatch"} => o.kind = "reconcile"
         /\ s.kind = "SubmitShares" => o.kind = "deliver" /\ s.p \in o.ps
         /\ s.kind = "ConfirmShare" => o.kind = "confirm" /\ s.p \in o.ps
<1>1. CASE o.kind = "cast"
  <2>1. PICK p \in o.ps : s = Step("CastVote", o.b, p)
    BY <1>1 DEF StepsOf
  <2> QED
    BY <1>1, <2>1 DEF Step, Delegations
<1>2. CASE o.kind = "delegate"
  <2>1. s = Step("Delegate", o.b, 0)
    BY <1>2 DEF StepsOf
  <2> QED
    BY <1>2, <2>1 DEF Step, Delegations
<1>3. CASE o.kind = "advance"
  <2>1. PICK k \in {"AdvanceImportedDelegation", "AdvanceDelegation"} : s = Step(k, o.b, 0)
    BY <1>3 DEF StepsOf
  <2> QED
    BY <1>3, <2>1 DEF Step, Delegations
<1>4. CASE o.kind = "reconcile"
  <2>1. PICK k \in {"AdvanceVote", "AdvanceVoteBatch"} : \E p : s = Step(k, o.b, p)
    BY <1>4 DEF StepsOf
  <2>2. PICK p : s = Step(k, o.b, p)
    BY <2>1
  <2> QED
    BY <1>4, <2>1, <2>2 DEF Step, Delegations
<1>5. CASE o.kind = "deliver"
  <2>1. PICK p \in o.ps : s = Step("SubmitShares", o.b, p)
    BY <1>5 DEF StepsOf
  <2> QED
    BY <1>5, <2>1 DEF Step, Delegations
<1>6. CASE o.kind = "confirm"
  <2>1. PICK p \in o.ps : s = Step("ConfirmShare", o.b, p)
    BY <1>6 DEF StepsOf
  <2> QED
    BY <1>6, <2>1 DEF Step, Delegations
<1> QED
  BY <1>1, <1>2, <1>3, <1>4, <1>5, <1>6, ObligationFacts

-----------------------------------------------------------------------------
(* The steps of a job.                                                     *)

\* Under its lock a step finds what WorkOk says of it.
LEMMA FoundWork ==
  ASSUME RoundInv, NEW o \in Obligations, NEW s \in StepsOf(o), NEW j,
         j.step = s, j.ps = o.ps, \A p \in o.ps : j.draft[p] = intent[p]
  PROVE  o.b \in Bundles /\ o.ps \in SUBSET Proposals /\ WorkOk(j, vote[o.b], roster)
<1>1. o.b \in Bundles
  BY ObligationFacts DEF BundleRows
<1>2. vote[o.b] \in Votes /\ SignedOk(vote[o.b], intent) /\ SharesOk(vote[o.b], shares[o.b])
      /\ roster \subseteq Proposals
  BY <1>1, BundleFacts
<1>3. CASE s.kind = "CastVote"
  <2>1. o.ps = Drafts(o.b)
    <3>1. o.kind = "cast"
      BY <1>3, StepFacts
    <3> QED
      BY <3>1, ObligationFacts
  <2>2. o.ps \subseteq ChoiceProposals
    BY <2>1 DEF Drafts, Due, CastDue
  <2>3. ChoiceProposals \subseteq roster /\ \A p \in ChoiceProposals : intent[p] \in Options
    BY DEF ChoiceProposals
  <2> QED
    BY <1>1, <1>2, <1>3, <2>2, <2>3 DEF WorkOk, Delegations
<1>4. CASE s.kind \in Delegations
  <2>1. o.ps = {}
    BY <1>4, StepFacts, ObligationFacts
  <2> QED
    BY <1>1, <1>4, <2>1 DEF WorkOk, Delegations
<1>5. CASE s.kind \in {"AdvanceVote", "AdvanceVoteBatch"}
  <2>1. PICK p \in Proposals : Reconciles(o.b, p) /\ o.ps = UnitOf(o.b, p)
    BY <1>5, StepFacts, ObligationFacts
  <2>2. VotePhase(o.b, p) \in {"managed", "committed"} => vote[o.b][p].unit # {}
    BY <1>2, <2>1 DEF VotePhase, LifecycleOwned, SignedOk
  <2>3. VotePhase(o.b, p) \in {"managed", "committed"}
    BY <2>1 DEF Reconciles
  <2>4. p \in vote[o.b][p].unit /\ vote[o.b][p].unit \in SUBSET Proposals
    BY <1>2, <2>2, <2>3 DEF SignedOk, Votes
  <2>5. p \in o.ps /\ o.ps \in SUBSET Proposals
    BY <2>1, <2>4 DEF UnitOf
  <2>6. vote[o.b][p].row \in {"none", "managed"}
    <3>1. vote[o.b][p].row \in {"none", "managed", "hashless", "rejected", "confirmed"}
      BY <1>2 DEF Votes
    <3> QED
      BY <2>3, <3>1 DEF VotePhase, LifecycleOwned
  <2>7. \A q \in o.ps : vote[o.b][q].row \in {"none", "managed"}
    <3>1. \A q \in vote[o.b][p].unit : vote[o.b][q].row = vote[o.b][p].row
      BY <1>2, <2>2, <2>3 DEF SignedOk
    <3> QED
      BY <2>1, <2>6, <3>1 DEF UnitOf
  <2>8. CASE VotePhase(o.b, p) = "managed"
    <3>1. vote[o.b][p].row # "none"
      BY <2>8 DEF VotePhase, LifecycleOwned
    <3> QED
      BY <1>1, <1>5, <2>5, <2>7, <3>1 DEF WorkOk, Delegations
  <2>9. CASE VotePhase(o.b, p) # "managed"
    <3>1. o.ps \subseteq roster
      BY <2>1, <2>9 DEF Reconciles
    <3> QED
      BY <1>1, <1>5, <2>5, <2>7, <3>1 DEF WorkOk, Delegations
  <2> QED
    BY <2>8, <2>9
<1>6. CASE s.kind \in {"SubmitShares", "ConfirmShare"}
  <2>1. PICK p \in Proposals :
          o.ps = {p} /\ (vote[o.b][p].row = "confirmed" \/ shares[o.b][p] # "absent")
    <3>1. o.kind = "deliver" \/ o.kind = "confirm"
      BY <1>6, StepFacts
    <3>2. CASE o.kind = "deliver"
      BY <3>2, ObligationFacts
    <3>3. CASE o.kind = "confirm"
      BY <3>3, ObligationFacts
    <3> QED
      BY <3>1, <3>2, <3>3
  <2>2. s.p = p
    BY <1>6, <2>1, StepFacts
  <2>3. vote[o.b][p].row = "confirmed"
    BY <1>2, <2>1 DEF SharesOk
  <2> QED
    BY <1>1, <1>6, <2>1, <2>2, <2>3 DEF WorkOk, Delegations
<1>7. CASE s.kind \notin {"CastVote", "AdvanceVote", "AdvanceVoteBatch", "SubmitShares",
                         "ConfirmShare"} \cup Delegations
  <2>1. FALSE
    BY <1>7, StepFacts
  <2> QED
    BY <2>1
<1> QED
  BY <1>3, <1>4, <1>5, <1>6, <1>7

LEMMA AcquireLockKeeps ==
  ASSUME RoundInv, NEW b \in Bundles, AcquireLock(b)
  PROVE  RoundInv'
<1>1. /\ BundleOk(b, vote[b], shares[b], job[b], prover[b], intent, roster)
      /\ JobShape(job[b]) /\ DOMAIN job = Bundles
  BY BundleFacts
<1>2. job[b].at = "lock" /\ UNCHANGED <<intent, roster, run, vote, shares, prover>>
  BY DEF AcquireLock, StoreKept, storeVars
<1>3. ASSUME NEW how, Done(b, how) PROVE RoundInv'
  BY <1>2, <1>3, DoneKeeps
<1>4. ASSUME LockFree(job[b].step), NEW o \in Resolve(job[b].step),
             job' = [job EXCEPT ![b] = [job[b] EXCEPT !.at = "work", !.ps = o.ps,
                                                      !.draft = [p \in o.ps |-> intent[p]]]]
      PROVE  RoundInv'
  <2>1. o \in Obligations /\ job[b].step \in StepsOf(o)
    BY <1>4 DEF Resolve
  <2>2. job[b].step.b = b /\ o.b = b
    BY <1>1, <1>2, <2>1, StepFacts DEF BundleOk, JobOk
  <2>3. PICK draft : draft = [p \in o.ps |-> intent[p]]
    OBVIOUS
  <2>4. PICK j : j = [job[b] EXCEPT !.at = "work", !.ps = o.ps, !.draft = draft]
    OBVIOUS
  <2>5. j.step = job[b].step /\ j.ps = o.ps /\ j.draft = draft /\ j.at = "work"
    BY <1>1, <2>4 DEF JobShape
  <2>6. o.ps \in SUBSET Proposals /\ WorkOk(j, vote[b], roster)
    <3>1. \A p \in o.ps : j.draft[p] = intent[p]
      BY <2>3, <2>5
    <3>2. o.ps \in SUBSET Proposals /\ WorkOk(j, vote[o.b], roster)
      BY <2>1, <2>5, <3>1, FoundWork
    <3> QED
      BY <2>2, <3>2
  <2>7. JobShape(j)
    BY <1>1, <2>4, <2>5, <2>6 DEF JobShape
  <2>8. job'[b] = j /\ DOMAIN job' = Bundles /\ \A c \in Bundles : c # b => job'[c] = job[c]
    BY <1>1, <1>4, <2>3, <2>4
  <2>9. JobOk(b, j, vote[b], intent, roster)
    BY <2>2, <2>5, <2>6 DEF JobOk
  <2>10. LockOk(j, prover[b])
    BY <1>4, <2>2, <2>5 DEF LockOk, LockFree
  <2>11. BundleOk(b, vote'[b], shares'[b], job'[b], prover'[b], intent, roster)
    BY <1>1, <1>2, <2>7, <2>8, <2>9, <2>10 DEF BundleOk
  <2>12. OnlyBundle(b)
    BY <1>2, <2>8, BundleFacts DEF OnlyBundle
  <2> QED
    BY <1>2, <2>11, <2>12, OneBundle
<1>5. \/ \E how : Done(b, how)
      \/ /\ LockFree(job[b].step) /\ Resolve(job[b].step) # {}
         /\ LET o == CHOOSE x \in Resolve(job[b].step) : TRUE
            IN  job' = [job EXCEPT ![b] = [job[b] EXCEPT !.at = "work", !.ps = o.ps,
                                                         !.draft = [p \in o.ps |-> intent[p]]]]
  BY DEF AcquireLock
<1> QED
  BY <1>3, <1>4, <1>5

LEMMA StartDelegateKeeps ==
  ASSUME RoundInv, NEW b \in Bundles, StartDelegate(b)
  PROVE  RoundInv'
<1>1. /\ BundleOk(b, vote[b], shares[b], job[b], prover[b], intent, roster)
      /\ DOMAIN prover = Bundles
  BY BundleFacts
<1>2. /\ job[b].at = "work" /\ job[b].step.kind = "Delegate"
      /\ UNCHANGED <<intent, roster, run, vote, shares>>
  BY DEF StartDelegate, Kind, StoreKept, storeVars
<1>3. CASE Done(b, "Failed") /\ UNCHANGED prover
  BY <1>2, <1>3, DoneKeeps
<1>4. CASE /\ prover' = [prover EXCEPT ![b] = [NoProver EXCEPT !.kind = "delegate"]]
           /\ Goto(b, "proving")
  <2>1. PICK t : t = [NoProver EXCEPT !.kind = "delegate"]
    OBVIOUS
  <2>2. ProverShape(t) /\ t.kind = "delegate"
    BY <2>1 DEF ProverShape, NoProver
  <2>3. prover'[b] = t /\ DOMAIN prover' = Bundles /\ \A c \in Bundles : c # b => prover'[c] = prover[c]
    BY <1>1, <1>4, <2>1
  <2>4. /\ DOMAIN job' = Bundles /\ \A c \in Bundles : c # b => job'[c] = job[c]
        /\ JobShape(job'[b]) /\ job'[b].at = "proving" /\ job'[b].step = job[b].step
        /\ job'[b].ps = job[b].ps
    BY <1>4, JobMoves
  <2>5. JobOk(b, job'[b], vote[b], intent, roster)
    BY <1>1, <1>2, <2>4 DEF BundleOk, JobOk, WorkOk, Delegations
  <2>6. ProverOk(t) /\ LockOk(job'[b], t)
    BY <2>2 DEF ProverOk, LockOk
  <2>7. BundleOk(b, vote'[b], shares'[b], job'[b], prover'[b], intent, roster)
    BY <1>1, <1>2, <2>2, <2>3, <2>4, <2>5, <2>6 DEF BundleOk
  <2>8. OnlyBundle(b)
    BY <1>2, <2>3, <2>4, BundleFacts DEF OnlyBundle
  <2> QED
    BY <1>2, <2>7, <2>8, OneBundle
<1> QED
  BY <1>3, <1>4 DEF StartDelegate

LEMMA AdvanceDelegationKeeps ==
  ASSUME RoundInv, NEW b \in Bundles, AdvanceDelegation(b)
  PROVE  RoundInv'
<1>1. job[b].at = "work" /\ UNCHANGED <<intent, roster, run, vote, shares, prover>>
  BY DEF AdvanceDelegation, Kind
<1>2. \E how : Done(b, how)
  BY DEF AdvanceDelegation
<1> QED
  BY <1>1, <1>2, DoneKeeps

\* Clearing whole units that are not on their way leaves the rest as it was.
LEMMA ClearUnits ==
  ASSUME NEW v \in Votes, NEW i, SignedOk(v, i), NEW U \in SUBSET Proposals,
         \A q \in U : v[q].row \in {"none", "rejected"} /\ v[q].unit \subseteq U
  PROVE  /\ ClearRecovery(v, U) \in Votes /\ SignedOk(ClearRecovery(v, U), i)
         /\ \A p \in Proposals :
              /\ ClearRecovery(v, U)[p].row = v[p].row
              /\ ClearRecovery(v, U)[p].choice = v[p].choice
              /\ p \in U => ClearRecovery(v, U)[p].unit = {}
              /\ p \notin U => ClearRecovery(v, U)[p] = v[p]
<1>1. PICK w : w = ClearRecovery(v, U)
  OBVIOUS
<1>2. ASSUME NEW p \in Proposals, p \in U
      PROVE  /\ w[p] = [v[p] EXCEPT !.unit = {}, !.combined = FALSE]
             /\ w[p].row = v[p].row /\ w[p].choice = v[p].choice /\ w[p].unit = {} /\ ~w[p].combined
             /\ w[p] \in [choice : Options \cup {"none"}, unit : SUBSET Proposals,
                          combined : BOOLEAN, row : {"none", "managed", "hashless", "rejected", "confirmed"}]
  <2>1. w[p] = [v[p] EXCEPT !.unit = {}, !.combined = FALSE]
    BY <1>1, <1>2 DEF ClearRecovery
  <2>2. {} \in SUBSET Proposals /\ FALSE \in BOOLEAN
    OBVIOUS
  <2> QED
    BY <2>1, <2>2 DEF Votes
<1>3. ASSUME NEW p \in Proposals, p \notin U PROVE w[p] = v[p]
  BY <1>1, <1>3 DEF ClearRecovery
<1>4. w \in Votes
  <2>1. w = [p \in Proposals |-> w[p]]
    BY <1>1 DEF ClearRecovery
  <2> QED
    BY <1>2, <1>3, <2>1 DEF Votes
<1>5. ASSUME NEW p \in Proposals
      PROVE  /\ w[p].unit # {} =>
                  /\ p \in w[p].unit /\ w[p].choice \in Options /\ i[p] \in {"open", w[p].choice}
                  /\ \A q \in w[p].unit : w[q].unit = w[p].unit /\ w[q].row = w[p].row
             /\ w[p].row # "none" =>
                  /\ i[p] # "open"
                  /\ w[p].unit = {} => w[p].row = "rejected" /\ ~w[p].combined
  <2>1. CASE p \in U
    <3>1. w[p].row = v[p].row /\ w[p].unit = {} /\ ~w[p].combined
      BY <1>2, <2>1
    <3>2. v[p].row \in {"none", "rejected"} /\ (v[p].row # "none" => i[p] # "open")
      BY <2>1 DEF SignedOk
    <3> QED
      BY <3>1, <3>2
  <2>2. CASE p \notin U
    <3>1. w[p] = v[p]
      BY <1>3, <2>2
    <3>2. ASSUME NEW q \in v[p].unit PROVE w[q] = v[q]
      <4>1. q \in Proposals /\ v[q].unit = v[p].unit /\ p \in v[p].unit
        BY <3>2 DEF SignedOk, Votes
      <4>2. q \notin U
        BY <2>2, <4>1
      <4> QED
        BY <1>3, <4>1, <4>2
    <3>3. /\ v[p].unit # {} =>
               /\ p \in v[p].unit /\ v[p].choice \in Options /\ i[p] \in {"open", v[p].choice}
               /\ \A q \in v[p].unit : v[q].unit = v[p].unit /\ v[q].row = v[p].row
          /\ v[p].row # "none" =>
               /\ i[p] # "open"
               /\ v[p].unit = {} => v[p].row = "rejected" /\ ~v[p].combined
      BY DEF SignedOk
    <3>4. \A q \in v[p].unit : v[q].unit = v[p].unit /\ v[q].row = v[p].row =>
                               w[q].unit = w[p].unit /\ w[q].row = w[p].row
      BY <3>1, <3>2
    <3> QED
      BY <3>1, <3>3, <3>4
  <2> QED
    BY <2>1, <2>2
<1>6. SignedOk(w, i)
  BY <1>5 DEF SignedOk
<1> QED
  BY <1>1, <1>2, <1>3, <1>4, <1>6

\* w is v without the material of U.
Cleared(v, w, U) ==
    /\ \A q \in U : v[q].row \in {"none", "rejected"}
    /\ \A p \in Proposals : /\ w[p].row = v[p].row
                            /\ p \in U => w[p].unit = {}
                            /\ p \notin U => w[p] = v[p]

\* What the ballot k opens again has nothing signed.
Reopens(w, i, k) == \A p \in Proposals : k[p] = "open" /\ i[p] # "open" => w[p].unit = {}

\* What a job or a share relies on survives the clearing of such units.
LEMMA ClearKeeps ==
  ASSUME NEW v \in Votes, NEW w \in Votes, NEW i, NEW k, NEW U \in SUBSET Proposals,
         Cleared(v, w, U), Reopens(w, i, k),
         NEW b, NEW j, NEW r, JobShape(j), JobOk(b, j, v, i, r)
  PROVE  JobOk(b, j, w, k, r)
<1> USE DEF Cleared, Reopens
<1>1. j.ps \in SUBSET Proposals
  BY DEF JobShape
<1>2. ASSUME j.at = "work" PROVE WorkOk(j, w, r)
  <2>1. WorkOk(j, v, r)
    BY <1>2 DEF JobOk
  <2>2. j.step.kind \in {"SubmitShares", "ConfirmShare"} => j.step.p \in Proposals
    BY <1>1, <2>1 DEF WorkOk
  <2> QED
    BY <1>1, <2>1, <2>2 DEF WorkOk
<1>3. ASSUME j.at = "reserve", NEW p \in j.ps, w[p].unit = j.ps PROVE k[p] # "open"
  <2>1. p \notin U /\ p \in Proposals
    BY <1>1, <1>3
  <2>2. w[p] = v[p]
    BY <2>1
  <2>3. i[p] # "open"
    BY <1>3, <2>2 DEF JobOk
  <2> QED
    BY <1>3, <2>1, <2>3
<1>4. ASSUME j.at = "episode", NEW p \in j.ps PROVE w[p].unit = j.ps /\ w[p].row = "managed"
  <2>1. v[p].unit = j.ps /\ v[p].row = "managed" /\ p \in Proposals
    BY <1>1, <1>4 DEF JobOk
  <2>2. p \notin U
    BY <2>1
  <2> QED
    BY <2>1, <2>2
<1>5. ASSUME j.at = "deliver", NEW p \in j.ps PROVE w[p].row = "confirmed"
  <2>1. v[p].row = "confirmed" /\ p \in Proposals
    BY <1>1, <1>5 DEF JobOk
  <2> QED
    BY <2>1
<1>6. ASSUME j.at \in {"plans", "reserve"}, NEW p \in j.ps
      PROVE  w[p].row \in {"none", "managed"}
  <2>1. v[p].row \in {"none", "managed"} /\ p \in Proposals
    BY <1>1, <1>6 DEF JobOk
  <2> QED
    BY <2>1
<1> QED
  BY <1>2, <1>3, <1>4, <1>5, <1>6 DEF JobOk

\* The units that left the roster are whole and unsubmitted, and go with their shares.
LEMMA RetireFacts ==
  ASSUME RoundInv, NEW b \in Bundles, RetireDeparted(b)
  PROVE  /\ DOMAIN vote' = Bundles /\ DOMAIN shares' = Bundles
         /\ \A c \in Bundles : c # b => vote'[c] = vote[c] /\ shares'[c] = shares[c]
         /\ vote'[b] \in Votes /\ shares'[b] \in ShareRows
         /\ SignedOk(vote'[b], intent) /\ SharesOk(vote'[b], shares'[b])
<1>1. /\ vote[b] \in Votes /\ shares[b] \in ShareRows /\ SignedOk(vote[b], intent)
      /\ SharesOk(vote[b], shares[b]) /\ DOMAIN vote = Bundles /\ DOMAIN shares = Bundles
  BY BundleFacts
<1>2. PICK U : U = Departed(b)
  OBVIOUS
<1>3. ASSUME NEW q \in U
      PROVE  /\ q \in Proposals /\ vote[b][q].row \in {"none", "rejected"}
             /\ vote[b][q].unit \subseteq U
  <2>1. PICK x \in Proposals \ roster :
          q \in vote[b][x].unit /\ \A m \in vote[b][x].unit : ~RecoveryOwned(b, m)
    BY <1>2, <1>3 DEF Departed
  <2>2. q \in Proposals
    BY <1>1, <2>1 DEF Votes
  <2>3. vote[b][q].unit = vote[b][x].unit
    BY <1>1, <2>1 DEF SignedOk
  <2>4. vote[b][x].unit \subseteq U
    BY <1>2, <2>1 DEF Departed
  <2> QED
    BY <2>1, <2>2, <2>3, <2>4 DEF RecoveryOwned, LifecycleOwned
<1>4. U \in SUBSET Proposals
  BY <1>3
<1>5. PICK w : w = ClearRecovery(vote[b], U)
  OBVIOUS
<1>6. /\ w \in Votes /\ SignedOk(w, intent)
      /\ \A p \in Proposals : w[p].row = vote[b][p].row
  <2>1. \A q \in U : vote[b][q].row \in {"none", "rejected"} /\ vote[b][q].unit \subseteq U
    BY <1>3
  <2>2. /\ ClearRecovery(vote[b], U) \in Votes /\ SignedOk(ClearRecovery(vote[b], U), intent)
        /\ \A p \in Proposals : ClearRecovery(vote[b], U)[p].row = vote[b][p].row
    BY <1>1, <1>4, <2>1, ClearUnits, ZenonT(60)
  <2> QED
    BY <1>5, <2>2
<1>7. vote'[b] = w /\ DOMAIN vote' = Bundles /\ \A c \in Bundles : c # b => vote'[c] = vote[c]
  BY <1>1, <1>2, <1>5 DEF RetireDeparted
<1>8. PICK s : s = [p \in Proposals |-> IF p \in U THEN "absent" ELSE shares[b][p]]
  OBVIOUS
<1>9. shares'[b] = s /\ DOMAIN shares' = Bundles /\ \A c \in Bundles : c # b => shares'[c] = shares[c]
  BY <1>1, <1>2, <1>8 DEF RetireDeparted
<1>10. s \in ShareRows
  BY <1>1, <1>8 DEF ShareRows
<1>11. SharesOk(w, s)
  BY <1>1, <1>6, <1>8 DEF SharesOk
<1> QED
  BY <1>6, <1>7, <1>9, <1>10, <1>11

LEMMA StartCastKeeps ==
  ASSUME RoundInv, NEW b \in Bundles, StartCast(b)
  PROVE  RoundInv'
<1>1. /\ BundleOk(b, vote[b], shares[b], job[b], prover[b], intent, roster)
      /\ JobShape(job[b]) /\ DOMAIN prover = Bundles /\ ProverShape(prover[b])
  BY BundleFacts
<1>2. /\ job[b].at = "work" /\ job[b].step.kind = "CastVote"
      /\ UNCHANGED <<intent, roster, run>>
  BY DEF StartCast, Kind
<1>3. CASE Done(b, "Failed") /\ UNCHANGED <<vote, shares, prover>>
  BY <1>2, <1>3, DoneKeeps
<1>4. ASSUME RetireDeparted(b), NEW how, Done(b, how), UNCHANGED prover PROVE RoundInv'
  <2>1. /\ DOMAIN vote' = Bundles /\ DOMAIN shares' = Bundles
        /\ \A c \in Bundles : c # b => vote'[c] = vote[c] /\ shares'[c] = shares[c]
        /\ vote'[b] \in Votes /\ shares'[b] \in ShareRows
        /\ SignedOk(vote'[b], intent) /\ SharesOk(vote'[b], shares'[b])
    BY <1>4, RetireFacts
  <2>2. /\ DOMAIN job' = Bundles /\ \A c \in Bundles : c # b => job'[c] = job[c]
        /\ JobShape(job'[b]) /\ LockOk(job'[b], prover[b])
        /\ \A v, i, r : JobOk(b, job'[b], v, i, r)
    BY <1>2, <1>4, JobDone
  <2>3. BundleOk(b, vote'[b], shares'[b], job'[b], prover'[b], intent, roster)
    BY <1>1, <1>4, <2>1, <2>2 DEF BundleOk
  <2>4. OnlyBundle(b)
    BY <1>1, <1>2, <1>4, <2>1, <2>2 DEF OnlyBundle
  <2> QED
    BY <1>2, <2>3, <2>4, OneBundle
<1>5. ASSUME RetireDeparted(b), NEW kind \in {"cast", "combined"}, StartProving(b, kind)
      PROVE  RoundInv'
  <2>1. /\ DOMAIN vote' = Bundles /\ DOMAIN shares' = Bundles
        /\ \A c \in Bundles : c # b => vote'[c] = vote[c] /\ shares'[c] = shares[c]
        /\ vote'[b] \in Votes /\ shares'[b] \in ShareRows
        /\ SignedOk(vote'[b], intent) /\ SharesOk(vote'[b], shares'[b])
    BY <1>5, RetireFacts
  <2>2. /\ DOMAIN job' = Bundles /\ \A c \in Bundles : c # b => job'[c] = job[c]
        /\ JobShape(job'[b]) /\ job'[b].at = "proving" /\ job'[b].step = job[b].step
        /\ job'[b].ps = job[b].ps
    BY <1>5, JobMoves DEF StartProving
  <2>3. /\ job[b].ps \subseteq roster /\ job[b].step.b = b
        /\ \A p \in job[b].ps : job[b].draft[p] \in Options
    BY <1>1, <1>2 DEF BundleOk, JobOk, WorkOk
  <2>4. \A v, i : JobOk(b, job'[b], v, i, roster)
    BY <2>2, <2>3 DEF JobOk
  <2>5. PICK t : t = [NoProver EXCEPT !.ps = job[b].ps, !.draft = job[b].draft, !.kind = kind]
    OBVIOUS
  <2>6. job[b].ps \in SUBSET Proposals
    BY <1>1 DEF JobShape
  <2>7. /\ ProverShape(t) /\ t.kind = kind /\ t.ps = job[b].ps /\ t.draft = job[b].draft
        /\ t.seen = <<>>
    BY <2>5, <2>6 DEF ProverShape, NoProver
  <2>8. prover'[b] = t /\ DOMAIN prover' = Bundles /\ \A c \in Bundles : c # b => prover'[c] = prover[c]
    BY <1>1, <1>5, <2>5 DEF StartProving, Unit
  <2>9. ProverOk(t) /\ LockOk(job'[b], t)
    BY <2>2, <2>3, <2>7 DEF ProverOk, LockOk
  <2>10. BundleOk(b, vote'[b], shares'[b], job'[b], prover'[b], intent, roster)
    BY <2>1, <2>2, <2>4, <2>7, <2>8, <2>9 DEF BundleOk
  <2>11. OnlyBundle(b)
    BY <1>2, <2>1, <2>2, <2>8 DEF OnlyBundle
  <2> QED
    BY <1>2, <2>10, <2>11, OneBundle
<1> QED
  BY <1>3, <1>4, <1>5 DEF StartCast, StartStandaloneCast, StartCombinedCast

-----------------------------------------------------------------------------
(* The proving threads.                                                    *)

LEMMA NoProverFacts ==
  /\ ProverShape(NoProver) /\ ProverOk(NoProver) /\ NoProver.kind = "none"
  /\ \A j : LockOk(j, NoProver)
<1>1. ProverShape(NoProver) /\ NoProver.kind = "none"
  BY DEF ProverShape, NoProver
<1> QED
  BY <1>1 DEF ProverOk, LockOk

\* A thread ends without having changed a vote.
LEMMA ProverEnds ==
  ASSUME RoundInv, NEW b \in Bundles, prover' = [prover EXCEPT ![b] = NoProver],
         UNCHANGED <<intent, roster, run, vote, shares>>,
         \/ job[b].at = "proving" /\ \E how : Done(b, how)
         \/ UNCHANGED job
  PROVE  RoundInv'
<1>1. /\ BundleOk(b, vote[b], shares[b], job[b], prover[b], intent, roster)
      /\ DOMAIN prover = Bundles /\ DOMAIN job = Bundles
  BY BundleFacts
<1>2. /\ prover'[b] = NoProver /\ DOMAIN prover' = Bundles
      /\ \A c \in Bundles : c # b => prover'[c] = prover[c]
  BY <1>1
<1>3. /\ DOMAIN job' = Bundles /\ \A c \in Bundles : c # b => job'[c] = job[c]
      /\ JobShape(job'[b]) /\ JobOk(b, job'[b], vote[b], intent, roster)
      /\ (job'[b].at # "none" => job[b].at # "none")
  <2>1. CASE job[b].at = "proving" /\ \E how : Done(b, how)
    <3>1. job[b].at # "none"
      BY <2>1
    <3> QED
      BY <2>1, <3>1, JobDone
  <2>2. CASE UNCHANGED job
    BY <1>1, <2>2 DEF BundleOk
  <2> QED
    BY <2>1, <2>2
<1>4. BundleOk(b, vote'[b], shares'[b], job'[b], prover'[b], intent, roster)
  BY <1>1, <1>2, <1>3, NoProverFacts DEF BundleOk
<1>5. OnlyBundle(b)
  BY <1>2, <1>3, BundleFacts DEF OnlyBundle
<1> QED
  BY <1>3, <1>4, <1>5, OneBundle

LEMMA ProveDelegationKeeps ==
  ASSUME RoundInv, NEW b \in Bundles, ProveDelegation(b)
  PROVE  RoundInv'
<1>1. /\ prover' = [prover EXCEPT ![b] = NoProver]
      /\ UNCHANGED <<intent, roster, run, vote, shares>>
  BY DEF ProveDelegation
<1>2. \/ job[b].at = "proving" /\ \E how : Done(b, how)
      \/ UNCHANGED job
  BY DEF ProveDelegation
<1> QED
  BY <1>1, <1>2, ProverEnds

LEMMA ProverFailsKeeps ==
  ASSUME RoundInv, NEW b \in Bundles, ProverFails(b)
  PROVE  RoundInv'
<1>1. /\ prover' = [prover EXCEPT ![b] = NoProver]
      /\ UNCHANGED <<intent, roster, run, vote, shares>>
  BY DEF ProverFails, StoreKept, storeVars
<1>2. \/ job[b].at = "proving" /\ \E how : Done(b, how)
      \/ UNCHANGED job
  BY DEF ProverFails
<1> QED
  BY <1>1, <1>2, ProverEnds

\* The votes a thread captures are not signed.
LEMMA PrepareVotesKeeps ==
  ASSUME RoundInv, NEW b \in Bundles, PrepareVotes(b)
  PROVE  RoundInv'
<1>1. /\ BundleOk(b, vote[b], shares[b], job[b], prover[b], intent, roster)
      /\ ProverShape(prover[b]) /\ ProverOk(prover[b]) /\ LockOk(job[b], prover[b])
      /\ DOMAIN prover = Bundles
  BY BundleFacts
<1>2. UNCHANGED <<intent, roster, run, vote, shares, job>>
  BY DEF PrepareVotes, StoreKept, storeVars
<1>3. PICK ps : ps = prover[b].ps
  OBVIOUS
<1>4. \A p \in ps : /\ vote[b][p].unit = {} /\ vote[b][p].row = "none"
                    /\ intent[p] \in {"open", prover[b].draft[p]}
  BY <1>3 DEF PrepareVotes
<1>5. PICK seen : seen = Captured(b, ps)
  OBVIOUS
<1>6. \A p \in ps : seen[p].vote = vote[b][p] /\ seen[p].intent = intent[p]
  BY <1>5 DEF Captured
<1>7. PICK t : t = [prover[b] EXCEPT !.seen = seen]
  OBVIOUS
<1>8. /\ ProverShape(t) /\ t.kind = prover[b].kind /\ t.ps = ps /\ t.draft = prover[b].draft
      /\ t.seen = seen
  BY <1>1, <1>3, <1>7 DEF ProverShape
<1>9. prover'[b] = t /\ DOMAIN prover' = Bundles /\ \A c \in Bundles : c # b => prover'[c] = prover[c]
  BY <1>1, <1>3, <1>5, <1>7 DEF PrepareVotes
<1>10. ProverOk(t)
  <2>1. ASSUME t.kind \in {"cast", "combined"}, NEW p \in t.ps
        PROVE  /\ t.draft[p] \in Options
               /\ t.seen[p].vote.unit = {} /\ t.seen[p].vote.row = "none"
               /\ t.seen[p].intent \in {"open", t.draft[p]}
    <3>1. t.draft[p] \in Options /\ p \in ps
      BY <1>1, <1>3, <1>8, <2>1 DEF ProverOk
    <3>2. t.seen[p].vote = vote[b][p] /\ t.seen[p].intent = intent[p]
      BY <1>6, <1>8, <3>1
    <3> QED
      BY <1>4, <1>8, <3>1, <3>2
  <2> QED
    BY <2>1 DEF ProverOk
<1>11. LockOk(job[b], t)
  BY <1>1, <1>3, <1>8 DEF LockOk
<1>12. BundleOk(b, vote'[b], shares'[b], job'[b], prover'[b], intent, roster)
  BY <1>1, <1>2, <1>8, <1>9, <1>10, <1>11 DEF BundleOk
<1>13. OnlyBundle(b)
  BY <1>2, <1>9, BundleFacts DEF OnlyBundle
<1> QED
  BY <1>2, <1>12, <1>13, OneBundle

\* What a thread persists was not signed by anybody since.
Signs(v, i, ps, w) ==
    /\ \A p \in ps : /\ v[p].unit = {} /\ w[p].choice \in Options /\ w[p].unit = ps
                     /\ w[p].row = "none" /\ i[p] \in {"open", w[p].choice}
    /\ \A p \in Proposals \ ps : w[p] = v[p]

LEMMA SignKeeps ==
  ASSUME NEW v \in Votes, NEW i, SignedOk(v, i), NEW ps \in SUBSET Proposals, NEW w \in Votes,
         Signs(v, i, ps, w)
  PROVE  SignedOk(w, i)
<1> USE DEF Signs
<1>1. ASSUME NEW p \in Proposals
      PROVE  /\ w[p].unit # {} =>
                  /\ p \in w[p].unit /\ w[p].choice \in Options /\ i[p] \in {"open", w[p].choice}
                  /\ \A q \in w[p].unit : w[q].unit = w[p].unit /\ w[q].row = w[p].row
             /\ w[p].row # "none" =>
                  /\ i[p] # "open"
                  /\ w[p].unit = {} => w[p].row = "rejected" /\ ~w[p].combined
  <2>1. CASE p \in ps
    BY <2>1
  <2>2. CASE p \notin ps
    <3>1. w[p] = v[p]
      BY <2>2
    <3>2. ASSUME NEW q \in v[p].unit PROVE w[q] = v[q]
      <4>1. q \in Proposals /\ v[q].unit = v[p].unit
        <5>1. v[p].unit \in SUBSET Proposals
          BY DEF Votes
        <5> QED
          BY <3>2, <5>1 DEF SignedOk
      <4>2. q \notin ps
        BY <3>2, <4>1
      <4> QED
        BY <4>1, <4>2
    <3>3. /\ v[p].unit # {} =>
               /\ p \in v[p].unit /\ v[p].choice \in Options /\ i[p] \in {"open", v[p].choice}
               /\ \A q \in v[p].unit : v[q].unit = v[p].unit /\ v[q].row = v[p].row
          /\ v[p].row # "none" =>
               /\ i[p] # "open"
               /\ v[p].unit = {} => v[p].row = "rejected" /\ ~v[p].combined
      BY DEF SignedOk
    <3>4. \A q \in v[p].unit : v[q].unit = v[p].unit /\ v[q].row = v[p].row =>
                               w[q].unit = w[p].unit /\ w[q].row = w[p].row
      BY <3>1, <3>2
    <3> QED
      BY <3>1, <3>3, <3>4
  <2> QED
    BY <2>1, <2>2
<1> QED
  BY <1>1 DEF SignedOk

LEMMA PersistVotesKeeps ==
  ASSUME RoundInv, NEW b \in Bundles, PersistVotes(b)
  PROVE  RoundInv'
<1>1. /\ BundleOk(b, vote[b], shares[b], job[b], prover[b], intent, roster)
      /\ vote[b] \in Votes /\ shares[b] \in ShareRows /\ SignedOk(vote[b], intent)
      /\ SharesOk(vote[b], shares[b]) /\ JobShape(job[b]) /\ ProverShape(prover[b])
      /\ ProverOk(prover[b]) /\ LockOk(job[b], prover[b])
      /\ JobOk(b, job[b], vote[b], intent, roster)
      /\ DOMAIN vote = Bundles /\ DOMAIN shares = Bundles
      /\ DOMAIN job = Bundles /\ DOMAIN prover = Bundles
  BY BundleFacts
<1>2. /\ prover[b].kind \in {"cast", "combined"} /\ prover[b].seen # <<>>
      /\ prover[b].seen = Captured(b, prover[b].ps) /\ UNCHANGED <<intent, roster, run>>
  BY DEF PersistVotes, StillAsProved
<1>3. PICK ps \in SUBSET Proposals : ps = prover[b].ps
  BY <1>1 DEF ProverShape
<1>4. ASSUME NEW p \in ps
      PROVE  /\ vote[b][p].unit = {} /\ vote[b][p].row = "none" /\ prover[b].draft[p] \in Options
             /\ intent[p] \in {"open", prover[b].draft[p]}
  <2>1. prover[b].seen[p].vote = vote[b][p] /\ prover[b].seen[p].intent = intent[p]
    <3>1. prover[b].seen = [q \in ps |-> [intent |-> intent[q], vote |-> vote[b][q],
                                         deleg |-> deleg[b]]]
      BY <1>2, <1>3 DEF Captured
    <3>2. prover[b].seen[p] = [intent |-> intent[p], vote |-> vote[b][p], deleg |-> deleg[b]]
      BY <3>1
    <3> QED
      BY <3>2, SMT
  <2>2. /\ prover[b].draft[p] \in Options
        /\ prover[b].seen[p].vote.unit = {} /\ prover[b].seen[p].vote.row = "none"
        /\ prover[b].seen[p].intent \in {"open", prover[b].draft[p]}
    BY <1>1, <1>2, <1>3 DEF ProverOk
  <2> QED
    BY <2>1, <2>2
<1>5. PICK w : w = [p \in Proposals |-> IF p \in ps
                      THEN [choice |-> prover[b].draft[p], unit |-> ps, row |-> "none",
                            combined |-> prover[b].kind = "combined"]
                      ELSE vote[b][p]]
  OBVIOUS
<1>6. /\ vote'[b] = w /\ DOMAIN vote' = Bundles
      /\ \A c \in Bundles : c # b => vote'[c] = vote[c]
  BY <1>1, <1>3, <1>5 DEF PersistVotes
<1>7. /\ \A p \in ps : w[p].choice = prover[b].draft[p] /\ w[p].unit = ps /\ w[p].row = "none"
      /\ \A p \in Proposals \ ps : w[p] = vote[b][p]
  BY <1>3, <1>5
<1>8. w \in Votes
  <2>1. ASSUME NEW p \in Proposals
        PROVE  w[p] \in [choice : Options \cup {"none"}, unit : SUBSET Proposals,
                         combined : BOOLEAN, row : {"none", "managed", "hashless", "rejected", "confirmed"}]
    <3>1. CASE p \in ps
      <4>1. w[p] = [choice |-> prover[b].draft[p], unit |-> ps, row |-> "none",
                    combined |-> prover[b].kind = "combined"]
        BY <1>5, <3>1
      <4>2. (prover[b].kind = "combined") \in BOOLEAN
        OBVIOUS
      <4>3. prover[b].draft[p] \in Options \cup {"none"}
        BY <1>4, <3>1
      <4> QED
        BY <1>3, <4>1, <4>2, <4>3, SMT
    <3>2. CASE p \notin ps
      BY <1>1, <1>7, <3>2 DEF Votes
    <3> QED
      BY <3>1, <3>2
  <2>2. w = [p \in Proposals |-> w[p]]
    BY <1>5
  <2> QED
    BY <2>1, <2>2 DEF Votes
<1>9. SignedOk(w, intent)
  <2>1. \A p \in ps : /\ vote[b][p].unit = {} /\ w[p].choice \in Options /\ w[p].unit = ps
                      /\ w[p].row = "none" /\ intent[p] \in {"open", w[p].choice}
    BY <1>4, <1>7
  <2>2. \A p \in Proposals \ ps : w[p] = vote[b][p]
    BY <1>7
  <2>3. vote[b] \in Votes /\ SignedOk(vote[b], intent) /\ ps \in SUBSET Proposals
    BY <1>1, <1>3
  <2>4. Signs(vote[b], intent, ps, w)
    BY <2>1, <2>2 DEF Signs
  <2> QED
    BY <1>8, <2>3, <2>4, SignKeeps
<1>10. PICK s : s = [p \in Proposals |-> IF p \in ps THEN "absent" ELSE shares[b][p]]
  OBVIOUS
<1>11. /\ shares'[b] = s /\ DOMAIN shares' = Bundles
       /\ \A c \in Bundles : c # b => shares'[c] = shares[c]
  BY <1>1, <1>3, <1>10 DEF PersistVotes
<1>12. s \in ShareRows /\ SharesOk(w, s)
  <2>1. s \in ShareRows
    BY <1>1, <1>10 DEF ShareRows
  <2>2. ASSUME NEW p \in Proposals, s[p] # "absent" PROVE w[p].row = "confirmed"
    <3>1. p \notin ps /\ s[p] = shares[b][p]
      BY <1>10, <2>2
    <3> QED
      BY <1>1, <1>7, <2>2, <3>1 DEF SharesOk
  <2> QED
    BY <2>1, <2>2 DEF SharesOk
<1>13. /\ prover'[b] = NoProver /\ DOMAIN prover' = Bundles
       /\ \A c \in Bundles : c # b => prover'[c] = prover[c]
  BY <1>1 DEF PersistVotes
<1>14. /\ DOMAIN job' = Bundles /\ \A c \in Bundles : c # b => job'[c] = job[c]
       /\ JobShape(job'[b]) /\ JobOk(b, job'[b], w, intent, roster)
       /\ (job'[b].at # "none" => job[b].at # "none")
  <2>1. CASE UNCHANGED job
    <3>1. \/ job[b].at \in {"none", "lock", "proving", "done"}
          \/ job[b].at = "work" /\ BundleScoped(job[b].step)
      BY <1>1, <1>2 DEF LockOk, JobShape
    <3>2. job[b].at = "work" => WorkOk(job[b], w, roster)
      BY <1>1, <3>1 DEF JobOk, WorkOk, BundleScoped, Delegations
    <3>3. JobOk(b, job[b], w, intent, roster)
      BY <1>1, <3>1, <3>2 DEF JobOk
    <3> QED
      BY <1>1, <2>1, <3>3
  <2>2. ASSUME job[b].at = "proving", NEW how, Done(b, how)
        PROVE  /\ DOMAIN job' = Bundles /\ \A c \in Bundles : c # b => job'[c] = job[c]
               /\ JobShape(job'[b]) /\ JobOk(b, job'[b], w, intent, roster)
               /\ (job'[b].at # "none" => job[b].at # "none")
    <3>1. job[b].at # "none"
      BY <2>2
    <3> QED
      BY <2>2, <3>1, JobDone
  <2>3. CASE job[b].at = "proving" /\ job' = [job EXCEPT ![b].at = "plans", ![b].how = "fresh"]
    <3>1. PICK j : j = [job[b] EXCEPT !.at = "plans", !.how = "fresh"]
      OBVIOUS
    <3>2. JobShape(j) /\ j.at = "plans" /\ j.step = job[b].step /\ j.ps = job[b].ps
      BY <1>1, <3>1 DEF JobShape
    <3>3. job'[b] = j /\ DOMAIN job' = Bundles /\ \A c \in Bundles : c # b => job'[c] = job[c]
      BY <1>1, <2>3, <3>1
    <3>4. j.ps = ps
      BY <1>1, <1>2, <1>3, <2>3, <3>2 DEF LockOk
    <3>5. JobOk(b, j, w, intent, roster)
      BY <1>1, <1>7, <2>3, <3>2, <3>4 DEF JobOk
    <3> QED
      BY <2>3, <3>2, <3>3, <3>5
  <2>4. \/ UNCHANGED job
        \/ job[b].at = "proving" /\ \E how : Done(b, how)
        \/ job[b].at = "proving" /\ job' = [job EXCEPT ![b].at = "plans", ![b].how = "fresh"]
    <3>1. CASE job[b].at # "proving"
      <4>1. job' = job
        BY <3>1 DEF PersistVotes
      <4> QED
        BY <4>1
    <3>2. CASE job[b].at = "proving" /\ left /\ prover[b].kind = "combined"
      BY <3>2 DEF PersistVotes
    <3>3. CASE job[b].at = "proving" /\ ~(left /\ prover[b].kind = "combined")
      BY <3>3 DEF PersistVotes
    <3> QED
      BY <3>1, <3>2, <3>3
  <2>5. CASE job[b].at = "proving" /\ \E how : Done(b, how)
    <3>1. PICK how : Done(b, how)
      BY <2>5
    <3> QED
      BY <2>2, <2>5, <3>1
  <2> QED
    BY <2>1, <2>3, <2>4, <2>5
<1>15. BundleOk(b, vote'[b], shares'[b], job'[b], prover'[b], intent, roster)
  BY <1>6, <1>8, <1>9, <1>11, <1>12, <1>13, <1>14, NoProverFacts DEF BundleOk
<1>16. OnlyBundle(b)
  BY <1>2, <1>6, <1>11, <1>13, <1>14 DEF OnlyBundle
<1> QED
  BY <1>14, <1>15, <1>16, OneBundle

-----------------------------------------------------------------------------
(* The rest of a job: the unit's plans, its episode and its shares.        *)

\* What a job wrote to its bundle is consistent.
WritesOk(b) ==
    /\ DOMAIN vote' = Bundles /\ DOMAIN shares' = Bundles
    /\ \A c \in Bundles : c # b => vote'[c] = vote[c] /\ shares'[c] = shares[c]
    /\ vote'[b] \in Votes /\ shares'[b] \in ShareRows
    /\ SignedOk(vote'[b], intent) /\ SharesOk(vote'[b], shares'[b])
    /\ UNCHANGED <<intent, roster, run, prover>>

LEMMA NoWrites ==
  ASSUME RoundInv, NEW b \in Bundles, UNCHANGED <<intent, roster, run, vote, shares, prover>>
  PROVE  WritesOk(b)
BY BundleFacts DEF WritesOk

LEMMA DoneWrites ==
  ASSUME RoundInv, NEW b \in Bundles, job[b].at # "none", NEW how, Done(b, how), WritesOk(b)
  PROVE  RoundInv'
<1>1. BundleOk(b, vote[b], shares[b], job[b], prover[b], intent, roster)
  BY BundleFacts
<1>2. /\ DOMAIN job' = Bundles /\ \A c \in Bundles : c # b => job'[c] = job[c]
      /\ JobShape(job'[b]) /\ JobOk(b, job'[b], vote'[b], intent, roster)
      /\ LockOk(job'[b], prover[b])
  BY JobDone
<1>3. BundleOk(b, vote'[b], shares'[b], job'[b], prover'[b], intent, roster)
  BY <1>1, <1>2 DEF BundleOk, WritesOk
<1>4. OnlyBundle(b)
  BY <1>2, BundleFacts DEF OnlyBundle, WritesOk
<1> QED
  BY <1>3, <1>4, OneBundle

\* Where a job goes, what it needs there holds.
Reaches(at, ps, v, i, r) ==
    /\ at = "plans" => ps \subseteq r
    /\ at \in {"plans", "reserve"} => \A p \in ps : v[p].row \in {"none", "managed"}
    /\ at = "reserve" => \A p \in ps : v[p].unit = ps => i[p] # "open"
    /\ at = "episode" => \A p \in ps : v[p].unit = ps /\ v[p].row = "managed"
    /\ at = "deliver" => \A p \in ps : v[p].row = "confirmed"

LEMMA MoveWrites ==
  ASSUME RoundInv, NEW b \in Bundles, job[b].at # "none", prover[b].kind \notin {"cast", "combined"},
         NEW at \in {"plans", "reserve", "episode", "deliver"}, Goto(b, at), WritesOk(b),
         Reaches(at, job[b].ps, vote'[b], intent, roster)
  PROVE  RoundInv'
<1>1. /\ BundleOk(b, vote[b], shares[b], job[b], prover[b], intent, roster)
      /\ JobOk(b, job[b], vote[b], intent, roster)
  BY BundleFacts
<1>2. /\ DOMAIN job' = Bundles /\ \A c \in Bundles : c # b => job'[c] = job[c]
      /\ JobShape(job'[b]) /\ job'[b].at = at /\ job'[b].step = job[b].step
      /\ job'[b].ps = job[b].ps
  BY JobMoves
<1>3. JobOk(b, job'[b], vote'[b], intent, roster)
  BY <1>1, <1>2 DEF JobOk, Reaches
<1>4. LockOk(job'[b], prover[b])
  BY DEF LockOk
<1>5. BundleOk(b, vote'[b], shares'[b], job'[b], prover'[b], intent, roster)
  BY <1>1, <1>2, <1>3, <1>4 DEF BundleOk, WritesOk
<1>6. OnlyBundle(b)
  BY <1>2, BundleFacts DEF OnlyBundle, WritesOk
<1> QED
  BY <1>5, <1>6, OneBundle

\* The prover of a bundle is quiet while a job works on the bundle's votes.
LEMMA NoThread ==
  ASSUME RoundInv, NEW b \in Bundles,
         \/ job[b].at \in {"plans", "reserve", "episode", "deliver"}
         \/ job[b].at = "work" /\ ~BundleScoped(job[b].step)
  PROVE  prover[b].kind \notin {"cast", "combined"}
BY BundleFacts DEF LockOk

LEMMA StartReconcileKeeps ==
  ASSUME RoundInv, NEW b \in Bundles, StartReconcile(b)
  PROVE  RoundInv'
<1>1. /\ JobOk(b, job[b], vote[b], intent, roster) /\ SignedOk(vote[b], intent)
      /\ JobShape(job[b])
  BY BundleFacts
<1>2. /\ job[b].at = "work" /\ job[b].step.kind \in {"AdvanceVote", "AdvanceVoteBatch"}
      /\ UNCHANGED <<intent, roster, run, vote, shares, prover>>
  BY DEF StartReconcile, Kind, StoreKept, storeVars
<1>3. WritesOk(b)
  BY <1>2, NoWrites
<1>4. PICK ps \in SUBSET Proposals : ps = job[b].ps
  BY <1>1 DEF JobShape
<1>5. /\ ps \subseteq roster \/ \E q \in ps : vote[b][q].row # "none"
      /\ \A q \in ps : vote[b][q].row \in {"none", "managed"}
  BY <1>1, <1>2, <1>4 DEF JobOk, WorkOk
<1>6. prover[b].kind \notin {"cast", "combined"}
  BY <1>2, NoThread DEF BundleScoped
<1>7. CASE Done(b, "Failed")
  BY <1>2, <1>3, <1>7, DoneWrites
<1>8. CASE Goto(b, "plans") /\ \A p \in ps : vote[b][p].row = "none"
  <2>1. ps \subseteq roster
    BY <1>5, <1>8
  <2>2. Reaches("plans", ps, vote[b], intent, roster)
    BY <1>5, <2>1 DEF Reaches
  <2>3. Reaches("plans", job[b].ps, vote'[b], intent, roster)
    BY <1>2, <1>4, <2>2
  <2> QED
    BY <1>2, <1>3, <1>6, <1>8, <2>3, MoveWrites
<1>9. CASE Goto(b, "reserve") /\ ~\A p \in ps : vote[b][p].row = "none"
  <2>1. PICK q \in ps : vote[b][q].row # "none"
    BY <1>9
  <2>2. ASSUME NEW p \in ps, vote[b][p].unit = ps PROVE intent[p] # "open"
    <3>1. p \in Proposals /\ ps # {}
      BY <1>4, <2>1
    <3>2. vote[b][q].row = vote[b][p].row
      BY <1>1, <2>1, <2>2, <3>1 DEF SignedOk
    <3> QED
      BY <1>1, <2>1, <3>1, <3>2 DEF SignedOk
  <2>3. Reaches("reserve", ps, vote[b], intent, roster)
    BY <1>5, <2>2 DEF Reaches
  <2>4. Reaches("reserve", job[b].ps, vote'[b], intent, roster)
    BY <1>2, <1>4, <2>3
  <2> QED
    BY <1>2, <1>3, <1>6, <1>9, <2>4, MoveWrites
<1>10. \/ Done(b, "Failed")
       \/ Goto(b, "plans") /\ \A p \in ps : vote[b][p].row = "none"
       \/ Goto(b, "reserve") /\ ~\A p \in ps : vote[b][p].row = "none"
  BY <1>4 DEF StartReconcile, Unit
<1> QED
  BY <1>7, <1>8, <1>9, <1>10

\* Plans are made for a decided ballot only, so every member of the unit is decided.
LEMMA PlanSharesKeeps ==
  ASSUME RoundInv, NEW b \in Bundles, PlanShares(b)
  PROVE  RoundInv'
<1>1. JobOk(b, job[b], vote[b], intent, roster) /\ JobShape(job[b]) /\ roster \subseteq Proposals
  BY BundleFacts
<1>2. job[b].at = "plans" /\ UNCHANGED <<intent, roster, run, vote, shares, prover>>
  BY DEF PlanShares, StoreKept, storeVars
<1>3. WritesOk(b)
  BY <1>2, NoWrites
<1>4. ASSUME NEW how, Done(b, how) PROVE RoundInv'
  BY <1>2, <1>3, <1>4, DoneWrites
<1>5. CASE PlansAllowed(b) /\ Goto(b, "reserve")
  <2>1. ASSUME NEW p \in job[b].ps PROVE intent[p] # "open"
    <3>1. p \in roster /\ p \in Proposals
      BY <1>1, <1>2 DEF JobOk
    <3>2. SUFFICES ASSUME intent[p] = "open" PROVE FALSE
      OBVIOUS
    <3>3. PICK x \in Bundles : vote[x][p].row # "none"
      BY <1>5, <3>1, <3>2 DEF PlansAllowed, LifecycleOwned
    <3>4. SignedOk(vote[x], intent)
      BY BundleFacts
    <3> QED
      BY <3>1, <3>2, <3>3, <3>4 DEF SignedOk
  <2>2. \A p \in job[b].ps : vote[b][p].row \in {"none", "managed"}
    BY <1>1, <1>2 DEF JobOk
  <2>3. Reaches("reserve", job[b].ps, vote[b], intent, roster)
    BY <2>1, <2>2 DEF Reaches
  <2>4. Reaches("reserve", job[b].ps, vote'[b], intent, roster)
    BY <1>2, <2>3
  <2>5. prover[b].kind \notin {"cast", "combined"}
    BY <1>2, NoThread
  <2> QED
    BY <1>2, <1>3, <1>5, <2>4, <2>5, MoveWrites
<1> QED
  BY <1>4, <1>5 DEF PlanShares

\* The rows of a whole unit change together.
RowsSet(v, ps, row) == [p \in Proposals |-> IF p \in ps THEN [v[p] EXCEPT !.row = row] ELSE v[p]]

RowKinds == {"none", "managed", "hashless", "rejected", "confirmed"}

RowsAre(w, v, ps, row) ==
    /\ \A p \in ps : w[p].row = row /\ w[p].unit = ps /\ w[p].choice = v[p].choice
    /\ \A p \in Proposals \ ps : w[p] = v[p]

RowsMay(v, i, ps, row) ==
    /\ \A p \in ps : v[p].unit = ps
    /\ row # "none" => \A p \in ps : i[p] # "open"

LEMMA RowsKeep ==
  ASSUME NEW v \in Votes, NEW i, SignedOk(v, i), NEW ps \in SUBSET Proposals,
         NEW row \in RowKinds, RowsMay(v, i, ps, row)
  PROVE  /\ RowsSet(v, ps, row) \in Votes /\ SignedOk(RowsSet(v, ps, row), i)
         /\ RowsAre(RowsSet(v, ps, row), v, ps, row)
<1> USE DEF RowsMay
<1>1. PICK w : w = RowsSet(v, ps, row)
  OBVIOUS
<1>2. \A p \in Proposals \ ps : w[p] = v[p]
  BY <1>1 DEF RowsSet
<1>3. ASSUME NEW p \in ps
      PROVE  /\ w[p] \in [choice : Options \cup {"none"}, unit : SUBSET Proposals,
                          combined : BOOLEAN, row : {"none", "managed", "hashless", "rejected", "confirmed"}]
             /\ w[p].row = row /\ w[p].unit = ps /\ w[p].choice = v[p].choice
  <2>1. w[p] = [v[p] EXCEPT !.row = row]
    BY <1>1 DEF RowsSet
  <2>2. v[p] \in [choice : Options \cup {"none"}, unit : SUBSET Proposals,
                  combined : BOOLEAN, row : {"none", "managed", "hashless", "rejected", "confirmed"}]
    BY DEF Votes
  <2>3. v[p].unit = ps
    OBVIOUS
  <2> QED
    BY <2>1, <2>2, <2>3 DEF RowKinds
<1>4. w \in Votes
  <2>1. w = [p \in Proposals |-> w[p]]
    BY <1>1 DEF RowsSet
  <2>2. \A p \in Proposals :
          w[p] \in [choice : Options \cup {"none"}, unit : SUBSET Proposals,
                    combined : BOOLEAN, row : {"none", "managed", "hashless", "rejected", "confirmed"}]
    BY <1>2, <1>3 DEF Votes
  <2> QED
    BY <2>1, <2>2 DEF Votes
<1>5. ASSUME NEW p \in Proposals
      PROVE  /\ w[p].unit # {} =>
                  /\ p \in w[p].unit /\ w[p].choice \in Options /\ i[p] \in {"open", w[p].choice}
                  /\ \A q \in w[p].unit : w[q].unit = w[p].unit /\ w[q].row = w[p].row
             /\ w[p].row # "none" =>
                  /\ i[p] # "open"
                  /\ w[p].unit = {} => w[p].row = "rejected" /\ ~w[p].combined
  <2>1. /\ v[p].unit # {} =>
             /\ p \in v[p].unit /\ v[p].choice \in Options /\ i[p] \in {"open", v[p].choice}
             /\ \A q \in v[p].unit : v[q].unit = v[p].unit /\ v[q].row = v[p].row
        /\ v[p].row # "none" =>
             /\ i[p] # "open"
             /\ v[p].unit = {} => v[p].row = "rejected" /\ ~v[p].combined
    BY DEF SignedOk
  <2>2. CASE p \in ps
    BY <1>3, <2>1, <2>2
  <2>3. CASE p \notin ps
    <3>1. w[p] = v[p]
      BY <1>2, <2>3
    <3>2. ASSUME NEW q \in v[p].unit PROVE w[q] = v[q]
      <4>1. q \in Proposals /\ v[q].unit = v[p].unit
        BY <2>1, <3>2 DEF Votes
      <4>2. q \notin ps
        BY <2>1, <2>3, <3>2, <4>1
      <4> QED
        BY <1>2, <4>1, <4>2
    <3> QED
      BY <2>1, <3>1, <3>2
  <2> QED
    BY <2>2, <2>3
<1>6. SignedOk(w, i)
  BY <1>5 DEF SignedOk
<1>7. RowsAre(w, v, ps, row)
  BY <1>2, <1>3 DEF RowsAre
<1> QED
  BY <1>1, <1>4, <1>6, <1>7

LEMMA RowsWrite ==
  ASSUME RoundInv, NEW b \in Bundles, NEW row \in RowKinds,
         \A p \in job[b].ps : vote[b][p].unit = job[b].ps /\ vote[b][p].row # "confirmed",
         row # "none" => \A p \in job[b].ps : intent[p] # "open",
         vote' = Rows(b, row), UNCHANGED <<intent, roster, run, prover, shares>>
  PROVE  WritesOk(b) /\ \A p \in job[b].ps : vote'[b][p].unit = job[b].ps /\ vote'[b][p].row = row
<1>1. /\ vote[b] \in Votes /\ shares[b] \in ShareRows /\ SignedOk(vote[b], intent)
      /\ SharesOk(vote[b], shares[b]) /\ JobShape(job[b])
      /\ DOMAIN vote = Bundles /\ DOMAIN shares = Bundles
  BY BundleFacts
<1>2. PICK ps \in SUBSET Proposals : ps = job[b].ps
  BY <1>1 DEF JobShape
<1>3. PICK v \in Votes : v = vote[b]
  BY <1>1
<1>4. PICK w : w = RowsSet(v, ps, row)
  OBVIOUS
<1>5. vote'[b] = w /\ DOMAIN vote' = Bundles /\ \A c \in Bundles : c # b => vote'[c] = vote[c]
  BY <1>1, <1>2, <1>3, <1>4 DEF Rows, RowsSet, Unit
<1>6. RowsMay(v, intent, ps, row) /\ SignedOk(v, intent)
  BY <1>1, <1>2, <1>3 DEF RowsMay
<1>7. /\ w \in Votes /\ SignedOk(w, intent)
      /\ \A p \in ps : w[p].row = row /\ w[p].unit = ps
      /\ \A p \in Proposals \ ps : w[p] = v[p]
  <2>1. /\ RowsSet(v, ps, row) \in Votes /\ SignedOk(RowsSet(v, ps, row), intent)
        /\ RowsAre(RowsSet(v, ps, row), v, ps, row)
    BY <1>6, RowsKeep
  <2> QED
    BY <1>4, <2>1 DEF RowsAre
<1>8. SharesOk(w, shares[b])
  <2>1. ASSUME NEW p \in Proposals, shares[b][p] # "absent" PROVE w[p].row = "confirmed"
    <3>1. v[p].row = "confirmed"
      BY <1>1, <1>3, <2>1 DEF SharesOk
    <3>2. p \notin ps
      BY <1>2, <1>3, <3>1
    <3> QED
      BY <1>7, <3>1, <3>2
  <2> QED
    BY <2>1 DEF SharesOk
<1>9. WritesOk(b)
  BY <1>1, <1>5, <1>7, <1>8 DEF WritesOk
<1> QED
  BY <1>2, <1>5, <1>7, <1>9

\* A unit that is still whole when it is reserved is decided.
LEMMA ReserveKeeps ==
  ASSUME RoundInv, NEW b \in Bundles, Reserve(b)
  PROVE  RoundInv'
<1>1. /\ JobOk(b, job[b], vote[b], intent, roster) /\ SignedOk(vote[b], intent)
      /\ JobShape(job[b])
  BY BundleFacts
<1>2. job[b].at = "reserve" /\ UNCHANGED <<intent, roster, run, shares, prover>>
  BY DEF Reserve
<1>3. ASSUME UNCHANGED vote, NEW how, Done(b, how) PROVE RoundInv'
  <2>1. WritesOk(b)
    BY <1>2, <1>3, NoWrites
  <2> QED
    BY <1>2, <1>3, <2>1, DoneWrites
<1>4. CASE /\ \A p \in job[b].ps : vote[b][p].unit = job[b].ps
           /\ vote' = Rows(b, "managed") /\ Goto(b, "episode")
  <2>1. ASSUME NEW p \in job[b].ps
        PROVE  vote[b][p].row # "confirmed" /\ intent[p] # "open"
    <3>1. p \in Proposals /\ vote[b][p].unit = job[b].ps /\ vote[b][p].unit # {}
      BY <1>1, <1>4 DEF JobShape
    <3>2. intent[p] # "open" /\ vote[b][p].row \in {"none", "managed"}
      BY <1>1, <1>2, <3>1 DEF JobOk
    <3> QED
      BY <3>2
  <2>2. \A p \in job[b].ps : vote[b][p].unit = job[b].ps /\ vote[b][p].row # "confirmed"
    BY <1>4, <2>1
  <2>3. \A p \in job[b].ps : intent[p] # "open"
    BY <2>1
  <2>4. /\ WritesOk(b)
        /\ \A p \in job[b].ps : vote'[b][p].unit = job[b].ps /\ vote'[b][p].row = "managed"
    BY <1>2, <1>4, <2>2, <2>3, RowsWrite DEF RowKinds
  <2>5. Reaches("episode", job[b].ps, vote'[b], intent, roster)
    BY <2>4 DEF Reaches
  <2>6. prover[b].kind \notin {"cast", "combined"}
    BY <1>2, NoThread
  <2> QED
    BY <1>2, <1>4, <2>4, <2>5, <2>6, MoveWrites
<1>5. \/ UNCHANGED vote /\ \E how : Done(b, how)
      \/ /\ \A p \in job[b].ps : vote[b][p].unit = job[b].ps
         /\ vote' = Rows(b, "managed") /\ Goto(b, "episode")
  BY DEF Reserve, Rows, Unit
<1> QED
  BY <1>3, <1>4, <1>5

\* A refused combined batch loses its reservation and its material.
LEMMA RefusedWrites ==
  ASSUME RoundInv, NEW b \in Bundles,
         \A p \in job[b].ps : vote[b][p].unit = job[b].ps /\ vote[b][p].row # "confirmed",
         vote' = [vote EXCEPT ![b] = ClearRecovery(Rows(b, "none")[b], job[b].ps)],
         UNCHANGED <<intent, roster, run, prover, shares>>
  PROVE  WritesOk(b)
<1>1. /\ vote[b] \in Votes /\ shares[b] \in ShareRows /\ SignedOk(vote[b], intent)
      /\ SharesOk(vote[b], shares[b]) /\ JobShape(job[b])
      /\ DOMAIN vote = Bundles /\ DOMAIN shares = Bundles
  BY BundleFacts
<1>2. PICK ps \in SUBSET Proposals : ps = job[b].ps
  BY <1>1 DEF JobShape
<1>3. PICK v \in Votes : v = vote[b]
  BY <1>1
<1>4. PICK none \in RowKinds : none = "none"
  BY DEF RowKinds
<1>5. RowsMay(v, intent, ps, none) /\ SignedOk(v, intent)
  BY <1>1, <1>2, <1>3, <1>4 DEF RowsMay
<1>6. PICK u \in Votes : u = RowsSet(v, ps, none) /\ SignedOk(u, intent) /\ RowsAre(u, v, ps, none)
  BY <1>5, RowsKeep
<1>7. Rows(b, "none")[b] = u
  BY <1>1, <1>2, <1>3, <1>4, <1>6 DEF Rows, RowsSet, Unit
<1>8. \A q \in ps : u[q].row \in {"none", "rejected"} /\ u[q].unit \subseteq ps
  BY <1>4, <1>6 DEF RowsAre
<1>9. PICK w : w = ClearRecovery(u, ps)
  OBVIOUS
<1>10. w \in Votes /\ SignedOk(w, intent) /\ \A p \in Proposals : p \notin ps => w[p] = u[p]
  BY <1>6, <1>8, <1>9, ClearUnits, ZenonT(60)
<1>11. vote'[b] = w /\ DOMAIN vote' = Bundles /\ \A c \in Bundles : c # b => vote'[c] = vote[c]
  BY <1>1, <1>2, <1>7, <1>9
<1>12. SharesOk(w, shares[b])
  <2>1. ASSUME NEW p \in Proposals, shares[b][p] # "absent" PROVE w[p].row = "confirmed"
    <3>1. v[p].row = "confirmed"
      BY <1>1, <1>3, <2>1 DEF SharesOk
    <3>2. p \notin ps
      BY <1>2, <1>3, <3>1
    <3> QED
      BY <1>6, <1>10, <3>1, <3>2 DEF RowsAre
  <2> QED
    BY <2>1 DEF SharesOk
<1> QED
  BY <1>1, <1>10, <1>11, <1>12 DEF WritesOk

LEMMA EpisodeKeeps ==
  ASSUME RoundInv, NEW b \in Bundles, Episode(b)
  PROVE  RoundInv'
<1>1. /\ JobOk(b, job[b], vote[b], intent, roster) /\ SignedOk(vote[b], intent)
      /\ JobShape(job[b])
  BY BundleFacts
<1>2. job[b].at = "episode" /\ UNCHANGED <<intent, roster, run, shares, prover>>
  BY DEF Episode
<1>3. ASSUME NEW p \in job[b].ps
      PROVE  /\ vote[b][p].unit = job[b].ps /\ vote[b][p].row # "confirmed"
             /\ intent[p] # "open"
  <2>1. p \in Proposals /\ vote[b][p].unit = job[b].ps /\ vote[b][p].row = "managed"
    BY <1>1, <1>2 DEF JobOk, JobShape
  <2> QED
    BY <1>1, <2>1 DEF SignedOk
<1>4. ASSUME UNCHANGED vote, NEW how, Done(b, how) PROVE RoundInv'
  <2>1. WritesOk(b)
    BY <1>2, <1>4, NoWrites
  <2> QED
    BY <1>2, <1>4, <2>1, DoneWrites
<1>5. ASSUME NEW row \in RowKinds, vote' = Rows(b, row)
      PROVE  /\ WritesOk(b)
             /\ \A p \in job[b].ps : vote'[b][p].unit = job[b].ps /\ vote'[b][p].row = row
  <2>1. \A p \in job[b].ps : vote[b][p].unit = job[b].ps /\ vote[b][p].row # "confirmed"
    BY <1>3
  <2>2. row # "none" => \A p \in job[b].ps : intent[p] # "open"
    BY <1>3
  <2> QED
    BY <1>2, <1>5, <2>1, <2>2, RowsWrite
<1>6. ASSUME NEW row \in RowKinds, vote' = Rows(b, row), NEW how, Done(b, how) PROVE RoundInv'
  <2>1. WritesOk(b)
    BY <1>5, <1>6
  <2> QED
    BY <1>2, <1>6, <2>1, DoneWrites
<1>7. CASE vote' = Rows(b, "confirmed") /\ Goto(b, "deliver")
  <2>1. WritesOk(b) /\ \A p \in job[b].ps : vote'[b][p].row = "confirmed"
    BY <1>5, <1>7 DEF RowKinds
  <2>2. Reaches("deliver", job[b].ps, vote'[b], intent, roster)
    BY <2>1 DEF Reaches
  <2>3. prover[b].kind \notin {"cast", "combined"}
    BY <1>2, NoThread
  <2> QED
    BY <1>2, <1>7, <2>1, <2>2, <2>3, MoveWrites
<1>8. CASE /\ vote' = [vote EXCEPT ![b] = ClearRecovery(Rows(b, "none")[b], job[b].ps)]
           /\ Done(b, "ChainTerminal")
  <2>1. \A p \in job[b].ps : vote[b][p].unit = job[b].ps /\ vote[b][p].row # "confirmed"
    BY <1>3
  <2>2. WritesOk(b)
    BY <1>2, <1>8, <2>1, RefusedWrites
  <2> QED
    BY <1>2, <1>8, <2>2, DoneWrites
<1>9. \/ UNCHANGED vote /\ \E how : Done(b, how)
      \/ vote' = Rows(b, "none") /\ Done(b, "Failed")
      \/ vote' = Rows(b, "hashless") /\ Done(b, "ChainTerminal")
      \/ vote' = Rows(b, "confirmed") /\ Goto(b, "deliver")
      \/ /\ vote' = [vote EXCEPT ![b] = ClearRecovery(Rows(b, "none")[b], job[b].ps)]
         /\ Done(b, "ChainTerminal")
  BY DEF Episode, Unit
<1>10. CASE vote' = Rows(b, "none") /\ Done(b, "Failed")
  BY <1>6, <1>10 DEF RowKinds
<1>11. CASE vote' = Rows(b, "hashless") /\ Done(b, "ChainTerminal")
  BY <1>6, <1>11 DEF RowKinds
<1> QED
  BY <1>4, <1>7, <1>8, <1>9, <1>10, <1>11

\* Shares change for votes on chain only.
LEMMA SharesWrite ==
  ASSUME RoundInv, NEW b \in Bundles, NEW s \in ShareRows,
         \A p \in Proposals : vote[b][p].row = "confirmed" \/ s[p] = shares[b][p],
         shares' = [shares EXCEPT ![b] = s], UNCHANGED <<intent, roster, run, prover, vote>>
  PROVE  WritesOk(b)
<1>1. /\ vote[b] \in Votes /\ SignedOk(vote[b], intent) /\ SharesOk(vote[b], shares[b])
      /\ DOMAIN vote = Bundles /\ DOMAIN shares = Bundles
  BY BundleFacts
<1>2. SharesOk(vote[b], s)
  BY <1>1 DEF SharesOk
<1>3. shares'[b] = s /\ DOMAIN shares' = Bundles /\ \A c \in Bundles : c # b => shares'[c] = shares[c]
  BY <1>1
<1> QED
  BY <1>1, <1>2, <1>3 DEF WritesOk

LEMMA StartDeliveryKeeps ==
  ASSUME RoundInv, NEW b \in Bundles, StartDelivery(b)
  PROVE  RoundInv'
<1>1. /\ JobOk(b, job[b], vote[b], intent, roster) /\ JobShape(job[b])
      /\ shares[b] \in ShareRows /\ DOMAIN shares = Bundles
  BY BundleFacts
<1>2. /\ job[b].at = "work" /\ job[b].step.kind \in {"SubmitShares", "ConfirmShare"}
      /\ UNCHANGED <<intent, roster, run, vote, prover>>
  BY DEF StartDelivery, Kind
<1>3. PICK p \in Proposals : /\ p = job[b].step.p /\ job[b].ps = {p}
                             /\ vote[b][p].row = "confirmed"
  <2>1. job[b].ps = {job[b].step.p} /\ vote[b][job[b].step.p].row = "confirmed"
    BY <1>1, <1>2 DEF JobOk, WorkOk
  <2> QED
    BY <1>1, <2>1 DEF JobShape
<1>4. ASSUME UNCHANGED shares PROVE WritesOk(b)
  BY <1>2, <1>4, NoWrites
<1>5. CASE Goto(b, "deliver") /\ UNCHANGED shares
  <2>1. Reaches("deliver", job[b].ps, vote'[b], intent, roster)
    BY <1>2, <1>3 DEF Reaches
  <2>2. prover[b].kind \notin {"cast", "combined"}
    BY <1>2, NoThread DEF BundleScoped
  <2> QED
    BY <1>2, <1>4, <1>5, <2>1, <2>2, MoveWrites
<1>6. ASSUME NEW how, Done(b, how), UNCHANGED shares PROVE RoundInv'
  BY <1>2, <1>4, <1>6, DoneWrites
<1>7. ASSUME NEW how, Done(b, how), shares' = [shares EXCEPT ![b][job[b].step.p] = "confirmed"]
      PROVE  RoundInv'
  <2>1. PICK s : s = [shares[b] EXCEPT ![p] = "confirmed"]
    OBVIOUS
  <2>2. s \in ShareRows /\ \A q \in Proposals : q # p => s[q] = shares[b][q]
    BY <1>1, <2>1 DEF ShareRows
  <2>3. shares' = [shares EXCEPT ![b] = s]
    BY <1>3, <1>7, <2>1
  <2>4. \A q \in Proposals : vote[b][q].row = "confirmed" \/ s[q] = shares[b][q]
    BY <1>3, <2>2
  <2>5. WritesOk(b)
    BY <1>2, <2>2, <2>3, <2>4, SharesWrite
  <2> QED
    BY <1>2, <1>7, <2>5, DoneWrites
<1>8. \/ Goto(b, "deliver") /\ UNCHANGED shares
      \/ (\E how : Done(b, how)) /\ UNCHANGED shares
      \/ (\E how : Done(b, how)) /\ shares' = [shares EXCEPT ![b][job[b].step.p] = "confirmed"]
  BY DEF StartDelivery
<1> QED
  BY <1>5, <1>6, <1>7, <1>8

LEMMA DeliverKeeps ==
  ASSUME RoundInv, NEW b \in Bundles, Deliver(b)
  PROVE  RoundInv'
<1>1. /\ JobOk(b, job[b], vote[b], intent, roster) /\ JobShape(job[b])
      /\ shares[b] \in ShareRows /\ DOMAIN shares = Bundles
  BY BundleFacts
<1>2. job[b].at = "deliver" /\ UNCHANGED <<intent, roster, run, vote, prover>>
  BY DEF Deliver
<1>3. \A p \in job[b].ps : vote[b][p].row = "confirmed"
  BY <1>1, <1>2 DEF JobOk
<1>4. ASSUME UNCHANGED shares, NEW how, Done(b, how) PROVE RoundInv'
  <2>1. WritesOk(b)
    BY <1>2, <1>4, NoWrites
  <2> QED
    BY <1>2, <1>4, <2>1, DoneWrites
<1>5. ASSUME NEW missed \in SUBSET {p \in Unit(b) : shares[b][p] \in {"absent", "unreached", "trying"}},
             shares' = [shares EXCEPT ![b] = [p \in Proposals |->
                  CASE p \in missed /\ @[p] # "trying" -> "unreached"
                    [] p \in Unit(b) \ missed /\ @[p] # "confirmed" -> "tracked"
                    [] OTHER -> @[p]]],
             NEW how, Done(b, how)
      PROVE  RoundInv'
  <2>1. PICK s : s = [p \in Proposals |->
                  CASE p \in missed /\ shares[b][p] # "trying" -> "unreached"
                    [] p \in Unit(b) \ missed /\ shares[b][p] # "confirmed" -> "tracked"
                    [] OTHER -> shares[b][p]]
    OBVIOUS
  <2>2. shares' = [shares EXCEPT ![b] = s]
    BY <1>5, <2>1
  <2>3. ASSUME NEW p \in Proposals
        PROVE  /\ s[p] \in {"absent", "unreached", "trying", "tracked", "confirmed"}
               /\ vote[b][p].row = "confirmed" \/ s[p] = shares[b][p]
    <3>1. CASE p \in missed /\ shares[b][p] # "trying"
      BY <1>3, <2>1, <3>1 DEF Unit
    <3>2. CASE p \in Unit(b) \ missed /\ shares[b][p] # "confirmed"
      BY <1>3, <2>1, <3>2 DEF Unit
    <3>3. CASE /\ ~(p \in missed /\ shares[b][p] # "trying")
               /\ ~(p \in Unit(b) \ missed /\ shares[b][p] # "confirmed")
      BY <1>1, <2>1, <3>3 DEF ShareRows
    <3> QED
      BY <3>1, <3>2, <3>3
  <2>4. s \in ShareRows
    BY <2>1, <2>3 DEF ShareRows
  <2>5. WritesOk(b)
    BY <1>2, <2>2, <2>3, <2>4, SharesWrite
  <2> QED
    BY <1>2, <1>5, <2>5, DoneWrites
<1> QED
  BY <1>4, <1>5 DEF Deliver

-----------------------------------------------------------------------------
(* The run itself.                                                         *)

\* Outside a wave there are no jobs.
LEMMA RunMoves ==
  ASSUME RoundInv, RunShape(run'), run.pc # "wave",
         UNCHANGED <<intent, roster, vote, shares, job, prover>>
  PROVE  RoundInv'
<1>1. \A b \in Bundles : job[b].at = "none"
  BY DEF RoundInv
<1> QED
  BY <1>1 DEF RoundInv

LEMMA NoJobFacts ==
  /\ JobShape(NoJob) /\ NoJob.at = "none" /\ \A t : LockOk(NoJob, t)
  /\ \A b, v, i, r : JobOk(b, NoJob, v, i, r)
<1>1. JobShape(NoJob) /\ NoJob.at = "none"
  BY DEF JobShape, NoJob
<1> QED
  BY <1>1 DEF LockOk, JobOk

\* A wave is over, or its future is dropped.
LEMMA JobsGone ==
  ASSUME RoundInv, RunShape(run'), job' = [b \in Bundles |-> NoJob],
         UNCHANGED <<intent, roster, vote, shares, prover>>
  PROVE  RoundInv'
<1>1. ASSUME NEW b \in Bundles
      PROVE  /\ BundleOk(b, vote[b], shares[b], job'[b], prover[b], intent, roster)
             /\ job'[b].at = "none"
  <2>1. job'[b] = NoJob
    OBVIOUS
  <2>2. BundleOk(b, vote[b], shares[b], NoJob, prover[b], intent, roster)
    BY NoJobFacts DEF RoundInv, BundleOk
  <2> QED
    BY <2>1, <2>2, NoJobFacts
<1> QED
  BY <1>1 DEF RoundInv

LEMMA NoRunShape == RunShape(NoRun)
BY DEF RunShape, NoRun

LEMMA FinishShape ==
  ASSUME NEW q, NEW owed, Finish(q, owed)
  PROVE  RunShape(run')
<1>1. PICK z : run' = [NoRun EXCEPT !.quiescence = z, !.owed = owed]
  BY DEF Finish
<1> QED
  BY <1>1, NoRunShape DEF RunShape

LEMMA StartRunKeeps ==
  ASSUME RoundInv, StartRun
  PROVE  RoundInv'
<1>1. RunShape(run')
  BY NoRunShape DEF StartRun, RunShape
<1> QED
  BY <1>1, RunMoves DEF StartRun, StoreKept, storeVars

LEMMA ReadPlanKeeps ==
  ASSUME RoundInv, ReadPlan
  PROVE  RoundInv'
<1>1. RunShape(run)
  BY DEF RoundInv
<1>2. \/ Finish("Cancelled", {})
      \/ run' = [run EXCEPT !.pc = "unreadable"]
      \/ \E z : run' = [run EXCEPT !.pc = "decide", !.plan = z]
  BY DEF ReadPlan
<1>3. RunShape(run')
  <2>1. CASE Finish("Cancelled", {})
    BY <2>1, FinishShape
  <2>2. CASE run' = [run EXCEPT !.pc = "unreadable"]
    BY <1>1, <2>2 DEF RunShape
  <2>3. CASE \E z : run' = [run EXCEPT !.pc = "decide", !.plan = z]
    BY <1>1, <2>3 DEF RunShape
  <2> QED
    BY <1>2, <2>1, <2>2, <2>3
<1> QED
  BY <1>3, RunMoves DEF ReadPlan, StoreKept, storeVars

LEMMA PlanUnreadableKeeps ==
  ASSUME RoundInv, PlanUnreadable
  PROVE  RoundInv'
<1>1. RunShape(run')
  BY FinishShape DEF PlanUnreadable
<1> QED
  BY <1>1, RunMoves DEF PlanUnreadable, StoreKept, storeVars

LEMMA DecideKeeps ==
  ASSUME RoundInv, Decide
  PROVE  RoundInv'
<1>1. RunShape(run)
  BY DEF RoundInv
<1>2. \/ \E q : Finish(q, {})
      \/ \E y, z : run' = [run EXCEPT !.pc = "contexts", !.wave = y, !.await = z]
  BY DEF Decide, FinishBeforeDispatch
<1>3. RunShape(run')
  <2>1. CASE \E q : Finish(q, {})
    BY <2>1, FinishShape
  <2>2. CASE \E y, z : run' = [run EXCEPT !.pc = "contexts", !.wave = y, !.await = z]
    <3>1. PICK y, z : run' = [run EXCEPT !.pc = "contexts", !.wave = y, !.await = z]
      BY <2>2
    <3> QED
      BY <1>1, <3>1 DEF RunShape
  <2> QED
    BY <1>2, <2>1, <2>2
<1> QED
  BY <1>3, RunMoves DEF Decide, StoreKept, storeVars

LEMMA RefreshKeeps ==
  ASSUME RoundInv, Refresh
  PROVE  RoundInv'
<1>1. RunShape(run')
  BY FinishShape DEF Refresh
<1> QED
  BY <1>1, RunMoves DEF Refresh, StoreKept, storeVars

LEMMA SleepKeeps ==
  ASSUME RoundInv, Sleep
  PROVE  RoundInv'
<1>1. RunShape(run)
  BY DEF RoundInv
<1>2. \/ Finish("Cancelled", {})
      \/ \E y, z : run' = [run EXCEPT !.pc = "loop", !.await = y, !.repoll = z]
  BY DEF Sleep
<1>3. RunShape(run')
  <2>1. CASE Finish("Cancelled", {})
    BY <2>1, FinishShape
  <2>2. CASE \E y, z : run' = [run EXCEPT !.pc = "loop", !.await = y, !.repoll = z]
    <3>1. PICK y, z : run' = [run EXCEPT !.pc = "loop", !.await = y, !.repoll = z]
      BY <2>2
    <3> QED
      BY <1>1, <3>1 DEF RunShape
  <2> QED
    BY <1>2, <2>1, <2>2
<1> QED
  BY <1>3, RunMoves DEF Sleep, StoreKept, storeVars

\* Each bundle gets at most one step of the wave, its own.
LEMMA DispatchKeeps ==
  ASSUME RoundInv, Dispatch
  PROVE  RoundInv'
<1>1. RunShape(run) /\ run.pc = "contexts" /\ \A b \in Bundles : job[b].at = "none"
  BY DEF RoundInv, Dispatch
<1>2. UNCHANGED <<intent, roster, vote, shares, prover>>
  BY DEF Dispatch, StoreKept, storeVars
<1>3. ASSUME NEW q, NEW owed, Finish(q, owed), UNCHANGED job PROVE RoundInv'
  <2>1. RunShape(run')
    BY <1>3, FinishShape
  <2>2. run.pc # "wave"
    BY <1>1
  <2> QED
    BY <1>2, <1>3, <2>1, <2>2, RunMoves
<1>4. ASSUME NEW n, NEW x, NEW y, run' = [run EXCEPT !.pc = "wave", !.dispatches = n,
                                 !.plan = NoPlan, !.tried = x, !.twice = y],
             job' = [b \in Bundles |-> IF {s \in Range(run.wave) : s.b = b} = {} THEN NoJob
                        ELSE [NoJob EXCEPT !.at = "lock",
                                !.step = CHOOSE s \in {s \in Range(run.wave) : s.b = b} : TRUE]]
      PROVE  RoundInv'
  <2>1. RunShape(run') /\ run'.pc = "wave"
    BY <1>1, <1>4 DEF RunShape
  <2>2. ASSUME NEW b \in Bundles
        PROVE  BundleOk(b, vote[b], shares[b], job'[b], prover[b], intent, roster)
    <3>1. CASE {s \in Range(run.wave) : s.b = b} = {}
      <4>1. job'[b] = NoJob
        BY <1>4, <3>1
      <4>2. BundleOk(b, vote[b], shares[b], NoJob, prover[b], intent, roster)
        BY NoJobFacts DEF RoundInv, BundleOk
      <4> QED
        BY <4>1, <4>2
    <3>2. CASE {s \in Range(run.wave) : s.b = b} # {}
      <4>1. PICK z : z = CHOOSE s \in {s \in Range(run.wave) : s.b = b} : TRUE
        OBVIOUS
      <4>2. z \in {s \in Range(run.wave) : s.b = b}
        BY <3>2, <4>1
      <4>3. z.b = b
        BY <4>2
      <4>4. PICK j : j = [NoJob EXCEPT !.at = "lock", !.step = z]
        OBVIOUS
      <4>5. JobShape(j) /\ j.at = "lock" /\ j.step = z
        BY <4>4 DEF JobShape, NoJob
      <4>6. job'[b] = j
        BY <1>4, <3>2, <4>1, <4>4
      <4>7. JobOk(b, j, vote[b], intent, roster) /\ LockOk(j, prover[b])
        BY <4>3, <4>5 DEF JobOk, LockOk
      <4>8. BundleOk(b, vote[b], shares[b], j, prover[b], intent, roster)
        BY <4>5, <4>7 DEF RoundInv, BundleOk
      <4> QED
        BY <4>6, <4>8
    <3> QED
      BY <3>1, <3>2
  <2>3. DOMAIN job' = Bundles
    BY <1>4
  <2> QED
    BY <1>2, <2>1, <2>2, <2>3 DEF RoundInv
<1>5. \/ \E q, owed : Finish(q, owed) /\ UNCHANGED job
      \/ /\ \E n, x, y : run' = [run EXCEPT !.pc = "wave", !.dispatches = n,
                                 !.plan = NoPlan, !.tried = x, !.twice = y]
         /\ job' = [b \in Bundles |-> IF {s \in Range(run.wave) : s.b = b} = {} THEN NoJob
                        ELSE [NoJob EXCEPT !.at = "lock",
                                !.step = CHOOSE s \in {s \in Range(run.wave) : s.b = b} : TRUE]]
  BY DEF Dispatch
<1> QED
  BY <1>3, <1>4, <1>5

LEMMA FoldKeeps ==
  ASSUME RoundInv, Fold
  PROVE  RoundInv'
<1>1. RunShape(run)
  BY DEF RoundInv
<1>2. CASE left
  <2>1. Finish("Cancelled", {})
    BY <1>2 DEF Fold
  <2>2. RunShape(run')
    BY <2>1, FinishShape
  <2> QED
    BY <2>2, JobsGone DEF Fold, StoreKept, storeVars
<1>3. CASE ~left
  <2> DEFINE failing == {s.b : s \in {w \in Range(run.wave) : job[w.b].how = "Failed"}}
             ending  == SelectSeq(run.wave, LAMBDA s : Ends(job[s.b].how) # "none")
             spent   == run.dispatches >= MaxDispatches
             repolls == SelectSeq(run.wave, LAMBDA s : job[s.b].how = "Pending")
             pc == CASE ending # <<>> -> "refresh"
                     [] ending = <<>> /\ ~spent /\ repolls # <<>> -> "sleep"
                     [] OTHER -> "loop"
  <2>1. run' = [run EXCEPT
                  !.skipped = IF host.isolation = "SkipBundle" THEN @ \cup failing ELSE @,
                  !.failed = @ \/ failing # {},
                  !.repoll = IF ending # <<>> \/ spent THEN <<>> ELSE repolls,
                  !.wave = <<>>,
                  !.quiescence = IF ending = <<>> THEN "none" ELSE Ends(job[ending[1].b].how),
                  !.pc = pc]
    BY <1>3 DEF Fold
  <2>2. pc \in {"refresh", "sleep", "loop"}
    <3>1. CASE ending # <<>>
      BY <3>1
    <3>2. CASE ending = <<>> /\ ~spent /\ repolls # <<>>
      BY <3>2
    <3>3. CASE ~(ending # <<>>) /\ ~(ending = <<>> /\ ~spent /\ repolls # <<>>)
      BY <3>3
    <3> QED
      BY <3>1, <3>2, <3>3
  <2> HIDE DEF failing, ending, spent, repolls, pc
  <2>3. PICK s : s = IF host.isolation = "SkipBundle" THEN run.skipped \cup failing ELSE run.skipped
    OBVIOUS
  <2>4. PICK f : f = (run.failed \/ failing # {})
    OBVIOUS
  <2>5. PICK r : r = IF ending # <<>> \/ spent THEN <<>> ELSE repolls
    OBVIOUS
  <2>6. PICK q : q = IF ending = <<>> THEN "none" ELSE Ends(job[ending[1].b].how)
    OBVIOUS
  <2>7. run' = [run EXCEPT !.skipped = s, !.failed = f, !.repoll = r,
                           !.wave = <<>>, !.quiescence = q, !.pc = pc]
    BY <2>1, <2>3, <2>4, <2>5, <2>6
  <2>8. RunShape(run')
    BY <1>1, <2>2, <2>7, ZenonT(60) DEF RunShape
  <2> QED
    BY <2>8, JobsGone DEF Fold, StoreKept, storeVars
<1> QED
  BY <1>2, <1>3

LEMMA DropRunKeeps ==
  ASSUME RoundInv, DropRun
  PROVE  RoundInv'
BY NoRunShape, JobsGone DEF DropRun, StoreKept, storeVars

LEMMA LeaveKeeps ==
  ASSUME RoundInv, Leave
  PROVE  RoundInv'
BY DEF RoundInv, Leave, StoreKept, storeVars

-----------------------------------------------------------------------------
(* The host and the background tracker.                                    *)

\* A step outside the run leaves a wave where it is.
WaveStays == RunShape(run') /\ (run.pc = "wave" => run'.pc = "wave")

LEMMA StaleFacts ==
  ASSUME RoundInv, StaleReport
  PROVE  WaveStays
BY NoRunShape DEF RoundInv, StaleReport, WaveStays

\* What the host wrote is consistent in every bundle.
EditOk(b) ==
    /\ vote'[b] \in Votes /\ shares'[b] \in ShareRows /\ SignedOk(vote'[b], intent')
    /\ SharesOk(vote'[b], shares'[b]) /\ JobOk(b, job[b], vote'[b], intent', roster')

LEMMA EditKeeps ==
  ASSUME RoundInv, WaveStays, UNCHANGED <<job, prover>>, intent' \in Intents,
         roster' \subseteq Proposals, DOMAIN vote' = Bundles, DOMAIN shares' = Bundles,
         \A b \in Bundles : EditOk(b)
  PROVE  RoundInv'
<1>1. ASSUME NEW b \in Bundles
      PROVE  /\ BundleOk(b, vote'[b], shares'[b], job'[b], prover'[b], intent', roster')
             /\ job'[b].at # "none" => run'.pc = "wave"
  <2>1. JobShape(job[b]) /\ ProverShape(prover[b]) /\ ProverOk(prover[b])
        /\ LockOk(job[b], prover[b]) /\ (job[b].at # "none" => run.pc = "wave")
    BY BundleFacts
  <2>2. EditOk(b)
    OBVIOUS
  <2>3. job'[b] = job[b] /\ prover'[b] = prover[b]
    OBVIOUS
  <2>4. BundleOk(b, vote'[b], shares'[b], job[b], prover[b], intent', roster')
    BY <2>1, <2>2 DEF BundleOk, EditOk
  <2> QED
    BY <2>1, <2>3, <2>4 DEF WaveStays
<1>2. RunShape(run') /\ DOMAIN job' = Bundles /\ DOMAIN prover' = Bundles
  BY DEF RoundInv, WaveStays
<1> QED
  BY <1>1, <1>2 DEF RoundInv

\* An edit of one proposal's intent.
OnlyIntent(i, k, p, w) ==
    /\ \A q \in Proposals : q # p => k[q] = i[q]
    /\ w[p].unit # {} => k[p] = w[p].choice
    /\ w[p].row # "none" => k[p] # "open"

LEMMA SignedEdit ==
  ASSUME NEW w, NEW i, NEW k, NEW p \in Proposals, SignedOk(w, i), OnlyIntent(i, k, p, w)
  PROVE  SignedOk(w, k)
<1> USE DEF OnlyIntent
<1>1. ASSUME NEW q \in Proposals
      PROVE  /\ w[q].unit # {} =>
                  /\ q \in w[q].unit /\ w[q].choice \in Options /\ k[q] \in {"open", w[q].choice}
                  /\ \A m \in w[q].unit : w[m].unit = w[q].unit /\ w[m].row = w[q].row
             /\ w[q].row # "none" =>
                  /\ k[q] # "open"
                  /\ w[q].unit = {} => w[q].row = "rejected" /\ ~w[q].combined
  <2>1. /\ w[q].unit # {} =>
             /\ q \in w[q].unit /\ w[q].choice \in Options /\ i[q] \in {"open", w[q].choice}
             /\ \A m \in w[q].unit : w[m].unit = w[q].unit /\ w[m].row = w[q].row
        /\ w[q].row # "none" =>
             /\ i[q] # "open"
             /\ w[q].unit = {} => w[q].row = "rejected" /\ ~w[q].combined
    BY DEF SignedOk
  <2>2. CASE q = p
    BY <2>1, <2>2
  <2>3. CASE q # p
    BY <2>1, <2>3
  <2> QED
    BY <2>2, <2>3
<1> QED
  BY <1>1 DEF SignedOk

\* Units that say something else go whole.
LEMMA InvalidateFacts ==
  ASSUME RoundInv, NEW p \in Proposals, NEW d, Invalidate(p, d), NEW b \in Bundles
  PROVE  /\ DOMAIN vote' = Bundles /\ vote'[b] \in Votes /\ SignedOk(vote'[b], intent)
         /\ \E U \in SUBSET Proposals : Cleared(vote[b], vote'[b], U)
         /\ vote'[b][p].unit # {} => vote'[b][p].choice = d
<1>1. vote[b] \in Votes /\ SignedOk(vote[b], intent)
  BY BundleFacts
<1>2. DOMAIN vote' = Bundles
  BY DEF Invalidate
<1>3. CASE b \in Conflicting(p, d)
  <2>1. PICK U \in SUBSET Proposals : U = vote[b][p].unit
    BY <1>1 DEF Votes
  <2>2. U # {}
    BY <1>3, <2>1 DEF Conflicting
  <2>3. ASSUME NEW q \in U PROVE vote[b][q].row \in {"none", "rejected"} /\ vote[b][q].unit = U
    <3>1. vote[b][q].row \in {"none", "rejected"}
      BY <1>3, <2>1, <2>3 DEF Invalidate, RecoveryOwned, LifecycleOwned
    <3>2. vote[b][q].unit = U
      BY <1>1, <2>1, <2>2, <2>3 DEF SignedOk
    <3> QED
      BY <3>1, <3>2
  <2>4. p \in U
    BY <1>1, <2>1, <2>2 DEF SignedOk
  <2>5. PICK v \in Votes : v = vote[b] /\ SignedOk(v, intent)
    BY <1>1
  <2>6. \A q \in U : v[q].row \in {"none", "rejected"} /\ v[q].unit \subseteq U
    BY <2>3, <2>5
  <2>7. PICK w : w = ClearRecovery(v, U)
    OBVIOUS
  <2>8. /\ w \in Votes /\ SignedOk(w, intent)
        /\ \A q \in Proposals : /\ w[q].row = v[q].row /\ w[q].choice = v[q].choice
                                /\ q \in U => w[q].unit = {}
                                /\ q \notin U => w[q] = v[q]
    <3>1. ClearRecovery(v, U) \in Votes /\ SignedOk(ClearRecovery(v, U), intent)
      BY <2>5, <2>6, ClearUnits
    <3>2. \A q \in Proposals :
            /\ ClearRecovery(v, U)[q].row = v[q].row
            /\ ClearRecovery(v, U)[q].choice = v[q].choice
            /\ q \in U => ClearRecovery(v, U)[q].unit = {}
            /\ q \notin U => ClearRecovery(v, U)[q] = v[q]
      BY <2>5, <2>6, ClearUnits
    <3> QED
      BY <2>7, <3>1, <3>2
  <2>9. vote'[b] = w
    BY <1>3, <2>1, <2>5, <2>7 DEF Invalidate
  <2>10. Cleared(v, w, U)
    BY <2>6, <2>8 DEF Cleared
  <2> QED
    BY <1>2, <2>4, <2>5, <2>8, <2>9, <2>10
<1>4. CASE b \notin Conflicting(p, d)
  <2>1. vote'[b] = vote[b]
    BY <1>4 DEF Invalidate
  <2>2. vote[b][p].unit # {} => vote[b][p].choice = d
    BY <1>4 DEF Conflicting
  <2>3. Cleared(vote[b], vote[b], {})
    BY DEF Cleared
  <2>4. \E U \in SUBSET Proposals : Cleared(vote[b], vote'[b], U)
    BY <2>1, <2>3
  <2> QED
    BY <1>1, <1>2, <2>1, <2>2, <2>4
<1> QED
  BY <1>3, <1>4

\* What a new decision c for p, which left only votes for d, does to a bundle.
Decided(b, p, d, c) ==
    /\ Invalidate(p, d) /\ intent' = [intent EXCEPT ![p] = c] /\ UNCHANGED roster
    /\ vote'[b][p].unit # {} => c = d
    /\ c = "open" => vote'[b][p].unit = {} /\ vote[b][p].row = "none"
    /\ shares'[b] \in ShareRows
    /\ \A q \in Proposals : shares'[b][q] \in {"absent", shares[b][q]}

LEMMA IntentEdit ==
  ASSUME RoundInv, NEW p \in Proposals, NEW d, NEW c \in Decisions \cup {"open"},
         NEW b \in Bundles, Decided(b, p, d, c)
  PROVE  EditOk(b)
<1> USE DEF Decided
<1>1. /\ vote[b] \in Votes /\ SharesOk(vote[b], shares[b]) /\ JobShape(job[b])
      /\ JobOk(b, job[b], vote[b], intent, roster) /\ intent \in Intents
  BY BundleFacts
<1>2. /\ DOMAIN vote' = Bundles /\ vote'[b] \in Votes /\ SignedOk(vote'[b], intent)
      /\ vote'[b][p].unit # {} => vote'[b][p].choice = d
  BY InvalidateFacts
<1>3. PICK U \in SUBSET Proposals : Cleared(vote[b], vote'[b], U)
  BY InvalidateFacts
<1>4. PICK v \in Votes, w \in Votes : v = vote[b] /\ w = vote'[b]
  BY <1>1, <1>2
<1>5. PICK i, k : i = intent /\ k = intent'
  OBVIOUS
<1>6. v = vote[b] /\ w = vote'[b] /\ i = intent /\ k = intent'
  BY <1>4, <1>5
<1>7. k \in Intents /\ k[p] = c /\ \A q \in Proposals : q # p => k[q] = i[q]
  BY <1>1, <1>6 DEF Intents
<1>8. SignedOk(w, k)
  <2>1. /\ SignedOk(w, i) /\ (w[p].unit # {} => k[p] = w[p].choice)
        /\ w[p].row # "none" => k[p] # "open"
    <3>1. w[p].row = v[p].row
      BY <1>3, <1>6 DEF Cleared
    <3> QED
      BY <1>2, <1>6, <1>7, <3>1
  <2>2. OnlyIntent(i, k, p, w)
    BY <1>7, <2>1 DEF OnlyIntent
  <2> QED
    BY <2>1, <2>2, SignedEdit
<1>9. JobOk(b, job[b], w, k, roster)
  <2>1. Reopens(w, i, k)
    BY <1>6, <1>7 DEF Reopens
  <2>2. Cleared(v, w, U) /\ JobOk(b, job[b], v, i, roster)
    BY <1>1, <1>3, <1>6
  <2> QED
    BY <1>1, <2>1, <2>2, ClearKeeps
<1>10. SharesOk(w, shares'[b])
  <2>1. ASSUME NEW q \in Proposals, shares'[b][q] # "absent" PROVE w[q].row = "confirmed"
    <3>1. shares[b][q] # "absent"
      BY <2>1
    <3>2. v[q].row = "confirmed"
      BY <1>1, <1>6, <3>1 DEF SharesOk
    <3> QED
      BY <1>3, <1>6, <3>2 DEF Cleared
  <2> QED
    BY <2>1 DEF SharesOk
<1> QED
  BY <1>2, <1>6, <1>7, <1>8, <1>9, <1>10 DEF EditOk

LEMMA SetBallotIntentKeeps ==
  ASSUME RoundInv, WaveStays, UNCHANGED <<job, prover>>,
         NEW p \in Proposals, NEW d \in Decisions, SetBallotIntent(p, d)
  PROVE  RoundInv'
<1>1. /\ Invalidate(p, d) /\ intent' = [intent EXCEPT ![p] = d] /\ UNCHANGED roster
      /\ shares' = [b \in Bundles |-> IF d = "skip" \/ vote[b][p].choice # d
                                      THEN [shares[b] EXCEPT ![p] = "absent"] ELSE shares[b]]
  BY DEF SetBallotIntent, InvalidateUnits
<1>2. DOMAIN vote' = Bundles /\ DOMAIN shares' = Bundles /\ roster' \subseteq Proposals
  BY <1>1 DEF Invalidate, RoundInv
<1>3. d # "open"
  BY RoundAssumption DEF Decisions
<1>4. intent' \in Intents
  BY <1>1 DEF RoundInv, Intents
<1>5. ASSUME NEW b \in Bundles PROVE EditOk(b)
  <2>1. shares[b] \in ShareRows
    BY BundleFacts
  <2>2. shares'[b] = [shares[b] EXCEPT ![p] = "absent"] \/ shares'[b] = shares[b]
    BY <1>1
  <2>3. shares'[b] \in ShareRows /\ \A q \in Proposals : shares'[b][q] \in {"absent", shares[b][q]}
    <3>1. CASE shares'[b] = shares[b]
      BY <2>1, <3>1
    <3>2. CASE shares'[b] = [shares[b] EXCEPT ![p] = "absent"]
      BY <2>1, <3>2 DEF ShareRows
    <3> QED
      BY <2>2, <3>1, <3>2
  <2>4. PICK c \in Decisions \cup {"open"} : c = d
    OBVIOUS
  <2>5. /\ vote'[b][p].unit # {} => c = d
        /\ c = "open" => vote'[b][p].unit = {} /\ vote[b][p].row = "none"
        /\ intent' = [intent EXCEPT ![p] = c]
    BY <1>1, <1>3, <2>4
  <2>6. Decided(b, p, d, c)
    BY <1>1, <2>3, <2>5 DEF Decided
  <2> QED
    BY <2>6, IntentEdit
<1> QED
  BY <1>2, <1>4, <1>5, EditKeeps

LEMMA ClearBallotIntentKeeps ==
  ASSUME RoundInv, WaveStays, UNCHANGED <<job, prover>>,
         NEW p \in Proposals, ClearBallotIntent(p)
  PROVE  RoundInv'
<1>1. /\ Invalidate(p, "none") /\ intent' = [intent EXCEPT ![p] = "open"] /\ UNCHANGED roster
      /\ \A b \in Bundles : vote[b][p].row = "none"
      /\ shares' = [b \in Bundles |-> [q \in Proposals |->
                      IF b \in Conflicting(p, "none") /\ q \in vote[b][p].unit
                      THEN "absent" ELSE shares[b][q]]]
  BY DEF ClearBallotIntent, InvalidateUnits, LifecycleOwned
<1>2. DOMAIN vote' = Bundles /\ DOMAIN shares' = Bundles /\ roster' \subseteq Proposals
  BY <1>1 DEF Invalidate, RoundInv
<1>3. intent' \in Intents
  BY <1>1 DEF RoundInv, Intents
<1>4. ASSUME NEW b \in Bundles PROVE EditOk(b)
  <2>1. shares[b] \in ShareRows
    BY BundleFacts
  <2>2. shares'[b] = [q \in Proposals |-> IF b \in Conflicting(p, "none") /\ q \in vote[b][p].unit
                                          THEN "absent" ELSE shares[b][q]]
    BY <1>1
  <2>3. shares'[b] \in ShareRows /\ \A q \in Proposals : shares'[b][q] \in {"absent", shares[b][q]}
    BY <2>1, <2>2 DEF ShareRows
  <2>4. vote'[b][p].unit = {}
    <3>1. SignedOk(vote'[b], intent) /\ (vote'[b][p].unit # {} => vote'[b][p].choice = "none")
      BY <1>1, InvalidateFacts
    <3>2. vote'[b][p].unit # {} => vote'[b][p].choice \in Options
      BY <3>1 DEF SignedOk
    <3> QED
      BY <3>1, <3>2, RoundAssumption
  <2>5. PICK c \in Decisions \cup {"open"} : c = "open"
    OBVIOUS
  <2>6. /\ vote'[b][p].unit # {} => c = "none"
        /\ c = "open" => vote'[b][p].unit = {} /\ vote[b][p].row = "none"
        /\ intent' = [intent EXCEPT ![p] = c]
    BY <1>1, <2>4, <2>5
  <2>7. Decided(b, p, "none", c)
    BY <1>1, <2>3, <2>6 DEF Decided
  <2> QED
    BY <2>7, IntentEdit
<1> QED
  BY <1>2, <1>3, <1>4, EditKeeps

LEMMA HostEditsKeeps ==
  ASSUME RoundInv, HostEdits
  PROVE  RoundInv'
<1>1. WaveStays /\ UNCHANGED <<job, prover>>
  BY StaleFacts DEF HostEdits
<1>2. ASSUME UNCHANGED <<intent, roster, vote, shares>> PROVE RoundInv'
  <2>1. \A b \in Bundles : EditOk(b)
    BY <1>2, BundleFacts DEF EditOk
  <2> QED
    BY <1>1, <1>2, <2>1, EditKeeps DEF RoundInv
<1>3. ASSUME run.pc = "idle", NEW r \in SUBSET Proposals, BindRoster(r) PROVE RoundInv'
  <2>1. roster' = r /\ UNCHANGED <<intent, vote, shares>>
    BY <1>3 DEF BindRoster
  <2>2. ASSUME NEW b \in Bundles PROVE EditOk(b)
    <3>1. job[b].at = "none"
      BY <1>3, BundleFacts
    <3>2. JobOk(b, job[b], vote'[b], intent', roster')
      BY <3>1 DEF JobOk
    <3> QED
      BY <2>1, <3>2, BundleFacts DEF EditOk
  <2> QED
    BY <1>1, <2>1, <2>2, EditKeeps DEF RoundInv
<1>4. ASSUME NEW p \in Proposals, NEW d \in Decisions, SetBallotIntent(p, d) PROVE RoundInv'
  BY <1>1, <1>4, SetBallotIntentKeeps
<1>5. ASSUME NEW p \in Proposals, ClearBallotIntent(p) PROVE RoundInv'
  BY <1>1, <1>5, ClearBallotIntentKeeps
<1>6. ASSUME NEW bs, SetupBundles(bs) PROVE RoundInv'
  BY <1>2, <1>6 DEF SetupBundles
<1>7. ASSUME NEW b, RetryBlockedCombinedCast(b) PROVE RoundInv'
  BY <1>2, <1>7 DEF RetryBlockedCombinedCast
<1> QED
  BY <1>3, <1>4, <1>5, <1>6, <1>7 DEF HostEdits

LEMMA TrackerPassKeeps ==
  ASSUME RoundInv, TrackerPass
  PROVE  RoundInv'
<1>1. PICK b \in Bundles, p \in Proposals, x \in {"unreached", "trying", "tracked", "confirmed"} :
        /\ TrackShare(b, p, x)
        /\ run' = CASE run.pc = "idle" -> NoRun
                    [] run.pc # "idle" /\ x = "unreached" -> [run EXCEPT !.tried = @ \ {<<b, p>>}]
                    [] OTHER -> run
  BY DEF TrackerPass
<1>2. WaveStays /\ UNCHANGED <<job, prover>>
  <2>1. RunShape(run)
    BY DEF RoundInv
  <2>2. CASE run.pc = "idle"
    BY <1>1, <2>2, NoRunShape DEF WaveStays, TrackerPass
  <2>3. CASE run.pc # "idle" /\ x = "unreached"
    <3>1. PICK z : z = run.tried \ {<<b, p>>}
      OBVIOUS
    <3>2. run' = [run EXCEPT !.tried = z]
      BY <1>1, <2>3, <3>1
    <3> QED
      BY <2>1, <3>2 DEF RunShape, WaveStays, TrackerPass
  <2>4. CASE run.pc # "idle" /\ x # "unreached"
    BY <1>1, <2>1, <2>4 DEF WaveStays, TrackerPass
  <2> QED
    BY <2>2, <2>3, <2>4
<1>3. UNCHANGED <<intent, roster, vote>> /\ shares[b][p] # "absent"
  BY <1>1 DEF TrackShare
<1>4. shares' = [shares EXCEPT ![b][p] = x]
  BY <1>1 DEF TrackShare
<1>5. /\ shares[b] \in ShareRows /\ SharesOk(vote[b], shares[b]) /\ DOMAIN shares = Bundles
  BY BundleFacts
<1>6. PICK s : s = [shares[b] EXCEPT ![p] = x]
  OBVIOUS
<1>7. s \in ShareRows /\ \A q \in Proposals : q # p => s[q] = shares[b][q]
  BY <1>5, <1>6 DEF ShareRows
<1>8. SharesOk(vote[b], s)
  <2>1. vote[b][p].row = "confirmed"
    BY <1>3, <1>5 DEF SharesOk
  <2> QED
    BY <1>5, <1>7, <2>1 DEF SharesOk
<1>9. shares'[b] = s /\ DOMAIN shares' = Bundles /\ \A c \in Bundles : c # b => shares'[c] = shares[c]
  BY <1>4, <1>5, <1>6
<1>10. ASSUME NEW c \in Bundles PROVE EditOk(c)
  <2>1. CASE c = b
    BY <1>3, <1>7, <1>8, <1>9, <2>1, BundleFacts DEF EditOk
  <2>2. CASE c # b
    BY <1>3, <1>9, <2>2, BundleFacts DEF EditOk
  <2> QED
    BY <2>1, <2>2
<1> QED
  BY <1>2, <1>3, <1>9, <1>10, EditKeeps DEF RoundInv

-----------------------------------------------------------------------------
(* Every state of a round.                                                 *)

LEMMA RoundStarts == RoundsInit => RoundInv
<1> SUFFICES ASSUME RoundsInit PROVE RoundInv
  OBVIOUS
<1>1. /\ run = NoRun /\ job = [b \in Bundles |-> NoJob] /\ prover = [b \in Bundles |-> NoProver]
      /\ roster = Proposals
      /\ shares = [b \in Bundles |-> [p \in Proposals |-> "absent"]]
  BY DEF RoundsInit, StoreInit, RoundInit
<1>2. PICK s \in Starts :
        /\ intent = s.intent
        /\ vote = [b \in Bundles |-> [p \in Proposals |->
                     IF p \in s.refused[b]
                     THEN [choice |-> s.intent[p], unit |-> s.refused[b],
                           combined |-> FALSE, row |-> "rejected"]
                     ELSE NoVote]]
  BY DEF RoundsInit, StoreInit
<1>3. intent \in Intents /\ \A b \in Bundles : /\ s.refused[b] \in SUBSET Proposals
                                             /\ \A p \in s.refused[b] : intent[p] \in Options
  <2>1. s.refused \in [Bundles -> SUBSET Proposals]
    BY IndexAssumption
  <2> QED
    BY <1>2, <2>1, RoundAssumption, IndexAssumption DEF Intents
<1>4. ASSUME NEW b \in Bundles
      PROVE  BundleOk(b, vote[b], shares[b], job[b], prover[b], intent, roster)
  <2>1. /\ shares[b] = [p \in Proposals |-> "absent"]
        /\ job[b] = NoJob /\ prover[b] = NoProver
    BY <1>1
  <2>2. PICK U \in SUBSET Proposals : U = s.refused[b] /\ \A p \in U : intent[p] \in Options
    BY <1>3
  <2>3. vote[b] = [p \in Proposals |->
                     IF p \in U THEN [choice |-> intent[p], unit |-> U,
                                      combined |-> FALSE, row |-> "rejected"]
                     ELSE NoVote]
    BY <1>2, <2>2
  <2>4. ASSUME NEW p \in Proposals, p \in U
        PROVE  /\ vote[b][p] \in [choice : Options \cup {"none"}, unit : SUBSET Proposals, combined : BOOLEAN,
                                  row : {"none", "managed", "hashless", "rejected", "confirmed"}]
               /\ vote[b][p].choice = intent[p] /\ vote[b][p].unit = U
               /\ vote[b][p].row = "rejected" /\ vote[b][p].combined = FALSE
    <3>1. vote[b][p] = [choice |-> intent[p], unit |-> U, combined |-> FALSE, row |-> "rejected"]
      BY <2>3, <2>4
    <3>2. intent[p] \in Options \cup {"none"}
      BY <2>2, <2>4
    <3> QED
      BY <3>1, <3>2, SMT
  <2>5. ASSUME NEW p \in Proposals, p \notin U
        PROVE  /\ vote[b][p] \in [choice : Options \cup {"none"}, unit : SUBSET Proposals, combined : BOOLEAN,
                                  row : {"none", "managed", "hashless", "rejected", "confirmed"}]
               /\ vote[b][p].unit = {} /\ vote[b][p].row = "none"
    <3>1. vote[b][p] = NoVote
      BY <2>3, <2>5
    <3>2. /\ NoVote \in [choice : Options \cup {"none"}, unit : SUBSET Proposals, combined : BOOLEAN,
                         row : {"none", "managed", "hashless", "rejected", "confirmed"}]
          /\ NoVote.unit = {} /\ NoVote.row = "none"
      BY SMT DEF NoVote
    <3> QED
      BY <3>1, <3>2
  <2>6. vote[b] \in Votes /\ shares[b] \in ShareRows
    <3>1. vote[b] = [p \in Proposals |-> vote[b][p]]
      BY <2>3
    <3>2. \A p \in Proposals : vote[b][p] \in
             [choice : Options \cup {"none"}, unit : SUBSET Proposals, combined : BOOLEAN,
              row : {"none", "managed", "hashless", "rejected", "confirmed"}]
      BY <2>4, <2>5
    <3> QED
      BY <2>1, <3>1, <3>2 DEF Votes, ShareRows
  <2>7. SharesOk(vote[b], shares[b])
    BY <2>1 DEF SharesOk
  <2>8. SignedOk(vote[b], intent)
    <3>1. \A p \in U : intent[p] \in Options /\ intent[p] # "open"
      BY <2>2, RoundAssumption
    <3> QED
      BY <2>4, <2>5, <3>1 DEF SignedOk
  <2> QED
    BY <2>1, <2>6, <2>7, <2>8, NoJobFacts, NoProverFacts DEF BundleOk
<1>5. \A b \in Bundles : job[b].at = "none"
  BY <1>1, NoJobFacts
<1> QED
  BY <1>1, <1>2, <1>3, <1>4, <1>5, NoRunShape DEF RoundInv

LEMMA RoundSteps == RoundInv /\ [RoundNext]_<<storeVars, driveVars>> => RoundInv'
<1> SUFFICES ASSUME RoundInv, [RoundNext]_<<storeVars, driveVars>> PROVE RoundInv'
  OBVIOUS
<1>1. CASE UNCHANGED <<storeVars, driveVars>>
  BY <1>1 DEF RoundInv, storeVars, driveVars
<1>2. CASE DriverStep
  BY <1>2, ReadPlanKeeps, PlanUnreadableKeeps, DecideKeeps, DispatchKeeps, FoldKeeps,
     RefreshKeeps, SleepKeeps DEF DriverStep
<1>3. ASSUME NEW b \in Bundles, JobStep(b) PROVE RoundInv'
  BY <1>3, AcquireLockKeeps, StartDelegateKeeps, AdvanceDelegationKeeps, StartCastKeeps,
     StartReconcileKeeps, PlanSharesKeeps, ReserveKeeps, EpisodeKeeps, StartDeliveryKeeps,
     DeliverKeeps DEF JobStep
<1>4. ASSUME NEW b \in Bundles, ProverStep(b) PROVE RoundInv'
  BY <1>4, ProveDelegationKeeps, ProverFailsKeeps, PrepareVotesKeeps, PersistVotesKeeps
     DEF ProverStep
<1> QED
  BY <1>1, <1>2, <1>3, <1>4, StartRunKeeps, HostEditsKeeps, TrackerPassKeeps, LeaveKeeps,
     DropRunKeeps DEF RoundNext

\* Whatever the runs, the proving threads, the host's edits and dropped futures interleave to,
\* signed units stay whole and agree with the ballot, and a job relies on what still holds.
THEOREM RoundInvariant == RoundsSpec => []RoundInv
<1>1. RoundsInit => RoundInv
  BY RoundStarts
<1>2. RoundInv /\ [RoundNext]_<<storeVars, driveVars>> => RoundInv'
  BY RoundSteps
<1> QED
  BY <1>1, <1>2, PTL DEF RoundsSpec

\* A vote the lifecycle has to do with keeps a decision, and as long as what was signed is
\* locked the ballot says the same, whatever is edited, dropped or proved meanwhile
\* (write_ballot_intent_in_tx, clear_ballot_intent, persist_prepared_commits, reserve).
THEOREM VotesSayWhatWasDecided == RoundsSpec => []VotedAsDecided
<1>1. RoundInv => VotedAsDecided
  <2> SUFFICES ASSUME RoundInv, NEW b \in Bundles, NEW p \in Proposals, LifecycleOwned(b, p)
               PROVE  intent[p] # "open" /\ (RecoveryOwned(b, p) => intent[p] = vote[b][p].choice)
    BY DEF VotedAsDecided
  <2>1. SignedOk(vote[b], intent)
    BY BundleFacts
  <2>2. intent[p] # "open" /\ (vote[b][p].unit = {} => vote[b][p].row = "rejected" /\ ~vote[b][p].combined)
    BY <2>1 DEF SignedOk, LifecycleOwned
  <2>3. ASSUME RecoveryOwned(b, p), vote[b][p].unit = {} PROVE FALSE
    <3>1. Cardinality(vote[b][p].unit) > 1
      BY <2>2, <2>3 DEF RecoveryOwned, InEnvelope
    <3>2. Cardinality(vote[b][p].unit) = 0
      BY <2>3, FS_EmptySet
    <3> QED
      BY <3>1, <3>2, SMT
  <2>4. vote[b][p].unit # {} => intent[p] \in {"open", vote[b][p].choice}
    BY <2>1 DEF SignedOk
  <2> QED
    BY <2>2, <2>3, <2>4
<1> QED
  BY <1>1, RoundInvariant, PTL

-----------------------------------------------------------------------------
(* The plan: what classify makes of a consistent store.                    *)

\* No sequence of edits, retirements and waves leaves rows that classify refuses, but for a
\* rejected vote of its own that was decided otherwise.
LEMMA PlanAccepted ==
  ASSUME RoundInv, PlanRefused
  PROVE  DecidedOtherwise
<1>1. ASSUME NEW b \in Bundles, NEW p \in Proposals
      PROVE  /\ Contradicted(b, p) => DecidedOtherwise
             /\ ~MaterialMissing(b, p) /\ ~BrokenBatch(b, p) /\ ~PositionMissing(b, p)
  <2>1. vote[b] \in Votes /\ SignedOk(vote[b], intent) /\ SharesOk(vote[b], shares[b])
    BY BundleFacts
  <2>2. /\ vote[b][p].row # "none" /\ vote[b][p].unit = {} => vote[b][p].row = "rejected"
        /\ vote[b][p].unit # {} => intent[p] \in {"open", vote[b][p].choice}
    BY <2>1 DEF SignedOk
  <2>3. Contradicted(b, p) => DecidedOtherwise
    <3>1. SUFFICES ASSUME Contradicted(b, p) PROVE DecidedOtherwise
      OBVIOUS
    <3>2. Stale(b, p) /\ vote[b][p].row # "none"
      BY <3>1 DEF Contradicted, LifecycleOwned
    <3>3. vote[b][p].unit = {}
      BY <2>2, <3>2 DEF Stale
    <3> QED
      BY <2>2, <3>2, <3>3 DEF DecidedOtherwise
  <2>4. ~MaterialMissing(b, p)
    BY <2>2 DEF MaterialMissing
  <2>5. ASSUME NEW q \in vote[b][p].unit
        PROVE  /\ vote[b][q].unit = vote[b][p].unit /\ VotePhase(b, q) = VotePhase(b, p)
               /\ ~Stale(b, q)
    <3>1. q \in Proposals /\ vote[b][p].unit # {}
      BY <2>1, <2>5 DEF Votes
    <3>2. vote[b][q].unit = vote[b][p].unit /\ vote[b][q].row = vote[b][p].row
      BY <2>1, <2>5, <3>1 DEF SignedOk
    <3>3. intent[q] \in {"open", vote[b][q].choice}
      BY <2>1, <3>1, <3>2 DEF SignedOk
    <3> QED
      BY <3>2, <3>3 DEF VotePhase, LifecycleOwned, Stale
  <2>6. ~BrokenBatch(b, p)
    BY <2>5 DEF BrokenBatch
  <2>7. ~PositionMissing(b, p)
    BY <2>1 DEF PositionMissing, SharesOk
  <2> QED
    BY <2>3, <2>4, <2>6, <2>7
<1> QED
  BY <1>1 DEF PlanRefused

LEMMA CastObliged ==
  ASSUME NEW b \in BundleRows, Drafts(b) # {}
  PROVE  \E o \in Obligations : /\ o.kind = "cast" /\ o.b = b /\ o.ps = Drafts(b)
                                /\ \E s \in StepsOf(o) : ~Tracked(s)
<1>1. PICK o : o = Obligation("cast", b, Drafts(b))
  OBVIOUS
<1>2. o.kind = "cast" /\ o.b = b /\ o.ps = Drafts(b)
  BY <1>1 DEF Obligation
<1>3. o \in {Obligation("cast", x, Drafts(x)) : x \in {y \in BundleRows : Drafts(y) # {}}}
  BY <1>1
<1>4. o \in Obligations
  BY <1>3 DEF Obligations
<1>5. PICK p : p \in Drafts(b)
  OBVIOUS
<1>6. PICK s : s = Step("CastVote", o.b, p)
  OBVIOUS
<1>7. s \in StepsOf(o)
  BY <1>2, <1>5, <1>6 DEF StepsOf
<1>8. s.kind = "CastVote"
  BY <1>6 DEF Step
<1>9. ~Tracked(s)
  BY <1>8 DEF Tracked
<1> QED
  BY <1>2, <1>4, <1>7, <1>9

LEMMA ReconcileObliged ==
  ASSUME NEW b \in Bundles, NEW p \in Proposals, Reconciles(b, p)
  PROVE  \E o \in Obligations : /\ o.kind = "reconcile" /\ o.b = b /\ o.ps = UnitOf(b, p)
                                /\ \E s \in StepsOf(o) : ~Tracked(s)
<1>1. PICK o : o = Obligation("reconcile", b, UnitOf(b, p))
  OBVIOUS
<1>2. o.kind = "reconcile" /\ o.b = b /\ o.ps = UnitOf(b, p)
  BY <1>1 DEF Obligation
<1>3. PICK k : k = <<b, p>>
  OBVIOUS
<1>4. /\ k \in {x \in Bundles \X Proposals : Reconciles(x[1], x[2])}
      /\ o = Obligation("reconcile", k[1], UnitOf(k[1], k[2]))
  BY <1>1, <1>3
<1>5. o \in {Obligation("reconcile", x[1], UnitOf(x[1], x[2])) :
               x \in {x \in Bundles \X Proposals : Reconciles(x[1], x[2])}}
  BY <1>4
<1>6. o \in Obligations
  BY <1>5 DEF Obligations
<1>7. PICK kind \in {"AdvanceVoteBatch", "AdvanceVote"}, s \in StepsOf(o) : \E q : s = Step(kind, o.b, q)
  BY <1>2 DEF StepsOf
<1>8. s.kind = kind
  <2>1. PICK q : s = Step(kind, o.b, q)
    BY <1>7
  <2> QED
    BY <2>1 DEF Step
<1>9. ~Tracked(s)
  BY <1>7, <1>8 DEF Tracked
<1> QED
  BY <1>2, <1>6, <1>7, <1>9

\* A vote on chain whose shares no helper has.
LEMMA ShareObliged ==
  ASSUME RoundInv, NEW b \in Bundles, NEW p \in Proposals, vote[b][p].row = "confirmed",
         shares[b][p] \in {"absent", "unreached"}
  PROVE  \E o \in Obligations : \E s \in StepsOf(o) : ~Tracked(s)
<1>1. PICK k : k = <<b, p>>
  OBVIOUS
<1>2. k \in Bundles \X Proposals /\ k[1] = b /\ k[2] = p
  BY <1>1
<1>3. CASE shares[b][p] = "absent"
  <2>1. PICK o : o = Obligation("deliver", k[1], {k[2]})
    OBVIOUS
  <2>2. o.kind = "deliver" /\ o.b = b /\ o.ps = {p}
    BY <1>2, <2>1 DEF Obligation
  <2>3. k \in {x \in Bundles \X Proposals :
                 vote[x[1]][x[2]].row = "confirmed" /\ shares[x[1]][x[2]] = "absent"}
    BY <1>2, <1>3
  <2>4. o \in {Obligation("deliver", x[1], {x[2]}) : x \in {x \in Bundles \X Proposals :
                 vote[x[1]][x[2]].row = "confirmed" /\ shares[x[1]][x[2]] = "absent"}}
    BY <2>1, <2>3
  <2>5. o \in Obligations
    BY <2>4 DEF Obligations
  <2>6. PICK s : s = Step("SubmitShares", o.b, p)
    OBVIOUS
  <2>7. s \in StepsOf(o) /\ s.kind = "SubmitShares"
    BY <2>2, <2>6 DEF StepsOf, Step
  <2> QED
    BY <2>5, <2>7 DEF Tracked
<1>4. CASE shares[b][p] = "unreached"
  <2>1. PICK o : o = Obligation("confirm", k[1], {k[2]})
    OBVIOUS
  <2>2. o.kind = "confirm" /\ o.b = b /\ o.ps = {p}
    BY <1>2, <2>1 DEF Obligation
  <2>3. ~Stale(b, p)
    BY BundleFacts DEF Stale, SignedOk
  <2>4. k \in {x \in Bundles \X Proposals : /\ ~Stale(x[1], x[2])
                                            /\ shares[x[1]][x[2]] \in {"unreached", "trying", "tracked"}}
    BY <1>2, <1>4, <2>3
  <2>5. o \in {Obligation("confirm", x[1], {x[2]}) : x \in {x \in Bundles \X Proposals :
                   /\ ~Stale(x[1], x[2])
                   /\ shares[x[1]][x[2]] \in {"unreached", "trying", "tracked"}}}
    BY <2>1, <2>4
  <2>6. o \in Obligations
    BY <2>5 DEF Obligations
  <2>7. PICK s : s = Step("ConfirmShare", o.b, p)
    OBVIOUS
  <2>8. s \in StepsOf(o) /\ s.b = b /\ s.p = p
    BY <2>2, <2>7 DEF StepsOf, Step
  <2>9. ~Tracked(s)
    BY <1>4, <2>8 DEF Tracked
  <2> QED
    BY <2>6, <2>8, <2>9
<1> QED
  BY <1>3, <1>4

\* A signed vote nobody may discard is asked about, once the ballot is decided.
LEMMA CommittedReconciles ==
  ASSUME RoundInv, RosterIsTerminal, NEW b \in Bundles, NEW p \in Proposals,
         HasRow(b, p), ~Stale(b, p), ~Retirable(b, p), VotePhase(b, p) = "committed"
  PROVE  Reconciles(b, p)
<1>1. vote[b] \in Votes /\ SignedOk(vote[b], intent)
  BY BundleFacts
<1>2. vote[b][p].unit # {}
  BY <1>1 DEF SignedOk, VotePhase, LifecycleOwned
<1>3. UnitOf(b, p) \subseteq roster
  BY DEF Retirable
<1>4. UnitOf(b, p) \subseteq vote[b][p].unit /\ p \in UnitOf(b, p)
  BY <1>1, <1>2 DEF UnitOf, SignedOk
<1>5. ASSUME NEW q \in UnitOf(b, p)
      PROVE  q \in roster /\ Agrees(b, q) /\ intent[q] \in Options
  <2>1. q \in Proposals /\ q \in vote[b][p].unit /\ q \in roster
    BY <1>1, <1>3, <1>4, <1>5 DEF Votes
  <2>2. vote[b][q].unit # {}
    BY <1>1, <1>2, <2>1 DEF SignedOk
  <2>3. intent[q] \in {"open", vote[b][q].choice} /\ vote[b][q].choice \in Options
    BY <1>1, <2>1, <2>2 DEF SignedOk
  <2>4. intent[q] # "open"
    BY <2>1 DEF RosterIsTerminal, OpenProposals
  <2> QED
    BY <2>1, <2>3, <2>4 DEF Agrees
<1>6. p \in ChoiceProposals
  BY <1>4, <1>5 DEF ChoiceProposals
<1>7. ~CastDue(b, p)
  BY DEF CastDue
<1> QED
  BY <1>5, <1>6, <1>7 DEF Reconciles

\* What an obligation is owed for is in the way of calling the round done.
LEMMA Blocked ==
  ASSUME ~BlockingRecovery
  PROVE  /\ \A b \in BundleRows : Drafts(b) = {}
         /\ \A b \in Bundles, p \in Proposals : /\ ~Reconciles(b, p)
                                                   /\ vote[b][p].row \notin Live \cup {"rejected"}
         /\ \A b \in Bundles : /\ DelegationPhase(b) \notin {"managed", "hashless", "rejected"}
                               /\ ~(streak[b] >= MaxRejections)
<1>1. ~\E o \in Obligations : \E s \in StepsOf(o) : ~Tracked(s)
  BY DEF BlockingRecovery
<1>2. \A b \in BundleRows : Drafts(b) = {}
  BY <1>1, CastObliged
<1>3. \A b \in Bundles, p \in Proposals : ~Reconciles(b, p)
  BY <1>1, ReconcileObliged
<1> QED
  BY <1>2, <1>3 DEF BlockingRecovery

\* A chosen proposal of the roster that nothing is owed for has its votes on chain.
LEMMA NothingOwedIsVoted ==
  ASSUME RoundInv, ~BlockingRecovery, RosterIsTerminal, NEW b \in BundleRows,
         NEW p \in roster, intent[p] \in Options
  PROVE  vote[b][p].choice = intent[p] /\ vote[b][p].row = "confirmed"
<1>1. b \in Bundles /\ p \in Proposals /\ vote[b] \in Votes
  BY BundleFacts DEF BundleRows
<1>2. ~Held(b)
  <2>1. SUFFICES ASSUME Held(b) PROVE FALSE
    OBVIOUS
  <2>2. PICK q \in Proposals : /\ HasRow(b, q) /\ ~Stale(b, q) /\ ~Retirable(b, q)
                               /\ VotePhase(b, q) \in {"committed", "managed", "hashless"}
    BY <1>1, <2>1, Blocked DEF Held
  <2>3. VotePhase(b, q) # "committed"
    BY <1>1, <2>2, CommittedReconciles, Blocked
  <2>4. vote[b][q].row \in Live
    BY <2>2, <2>3 DEF VotePhase, Live
  <2> QED
    BY <1>1, <2>4, Blocked
<1>3. ~CastDue(b, p)
  <2>1. Drafts(b) = {}
    BY Blocked
  <2> QED
    BY <1>1, <1>2, <2>1 DEF Drafts, Due
<1>4. p \in ChoiceProposals
  BY DEF ChoiceProposals
<1>5. HasRow(b, p) /\ ~Stale(b, p) /\ ~Retirable(b, p) /\ VotePhase(b, p) # "prepared"
  BY <1>3, <1>4 DEF CastDue
<1>6. intent[p] = vote[b][p].choice
  BY <1>5, RoundAssumption DEF Stale
<1>7. VotePhase(b, p) # "committed"
  BY <1>1, <1>5, CommittedReconciles, Blocked
<1>8. vote[b][p].row \in {"none", "managed", "hashless", "rejected", "confirmed"}
  BY <1>1 DEF Votes
<1>9. vote[b][p].row # "none"
  BY <1>5, <1>7 DEF VotePhase, LifecycleOwned
<1>10. vote[b][p].row \notin Live \cup {"rejected"}
  BY <1>1, Blocked
<1> QED
  BY <1>6, <1>8, <1>9, <1>10 DEF Live

\* A choice that is counted as voted is covered by nothing and withheld nowhere.
LEMMA CountedIsVoted ==
  ASSUME RoundInv, NEW p \in CompletedProposals \cap roster, NEW b \in BundleRows
  PROVE  vote[b][p].row \in {"confirmed", "hashless", "rejected"} /\ Agrees(b, p)
<1>1. /\ b \in Bundles /\ p \in Proposals /\ vote[b] \in Votes /\ SignedOk(vote[b], intent)
  BY BundleFacts DEF BundleRows
<1>2. p \in ChoiceProposals /\ p \notin Covered /\ p \notin Withheld /\ intent[p] \in Options
  BY DEF CompletedProposals, SelectedChoices, ChoiceProposals
<1>3. ~NeedsBundleSetup
  BY <1>2 DEF Withheld
<1>4. ~IF CastDue(b, p) THEN Held(b) \/ ~RosterIsTerminal
      ELSE VotePhase(b, p) = "committed" /\ ~Reconciles(b, p)
  BY <1>2, <1>3 DEF Withheld
<1>5. ~CastDue(b, p)
  <2>1. SUFFICES ASSUME CastDue(b, p) PROVE FALSE
    OBVIOUS
  <2>2. p \in Drafts(b)
    BY <1>1, <1>4, <2>1 DEF Drafts, Due
  <2>3. PICK o \in Obligations : o.kind = "cast" /\ o.ps = Drafts(b)
    BY <2>2, CastObliged
  <2>4. p \in Covered
    BY <2>2, <2>3 DEF Covered
  <2> QED
    BY <1>2, <2>4
<1>6. HasRow(b, p) /\ ~Stale(b, p) /\ VotePhase(b, p) # "prepared"
  BY <1>2, <1>5 DEF CastDue
<1>7. Agrees(b, p)
  BY <1>2, <1>6, RoundAssumption DEF Stale, Agrees
<1>8. ~Reconciles(b, p)
  <2>1. SUFFICES ASSUME Reconciles(b, p) PROVE FALSE
    OBVIOUS
  <2>2. PICK o \in Obligations : o.kind = "reconcile" /\ o.ps = UnitOf(b, p)
    BY <1>1, <2>1, ReconcileObliged
  <2>3. VotePhase(b, p) \in {"managed", "committed"}
    BY <2>1 DEF Reconciles
  <2>4. vote[b][p].row # "none" /\ vote[b][p].unit = {} => vote[b][p].row = "rejected"
    BY <1>1 DEF SignedOk
  <2>5. vote[b][p].unit # {}
    BY <2>3, <2>4 DEF VotePhase, LifecycleOwned
  <2>6. p \in UnitOf(b, p)
    BY <1>1, <2>5 DEF UnitOf, SignedOk
  <2>7. p \in Covered
    BY <2>2, <2>6 DEF Covered
  <2> QED
    BY <1>2, <2>7
<1>9. VotePhase(b, p) \notin {"committed", "managed"}
  BY <1>4, <1>5, <1>6, <1>8 DEF Reconciles
<1>10. vote[b][p].row \in {"none", "managed", "hashless", "rejected", "confirmed"}
  BY <1>1 DEF Votes
<1>11. vote[b][p].row # "none" /\ vote[b][p].row = VotePhase(b, p)
  BY <1>6, <1>9 DEF VotePhase, LifecycleOwned
<1> QED
  BY <1>7, <1>9, <1>10, <1>11

\* Display and primary action follow the obligations.
LEMMA DoneFacts ==
  ASSUME PrimaryAction = "Done"
  PROVE  ~NeedsBundleSetup /\ ~BlockingRecovery
<1>1. ~NeedsBundleSetup
  <2>1. SUFFICES ASSUME NeedsBundleSetup PROVE FALSE
    OBVIOUS
  <2>2. PrimaryAction = "Delegate"
    BY <2>1 DEF PrimaryAction
  <2> QED
    BY <2>2
<1>2. CompletedForDisplay
  <2>1. SUFFICES ASSUME ~CompletedForDisplay PROVE FALSE
    OBVIOUS
  <2>2. CASE ~BlockingRecovery
    <3>1. PrimaryAction = "Idle"
      BY <1>1, <2>1, <2>2 DEF PrimaryAction
    <3> QED
      BY <3>1
  <2>3. CASE BlockingRecovery /\ \E o \in Obligations : o.kind \in {"delegate", "advance"}
    <3>1. PrimaryAction = "Delegate"
      BY <1>1, <2>1, <2>3 DEF PrimaryAction
    <3> QED
      BY <3>1
  <2>4. CASE BlockingRecovery /\ ~\E o \in Obligations : o.kind \in {"delegate", "advance"}
    <3>1. PrimaryAction \in {"Vote", "SubmitShares", "Idle"}
      BY <1>1, <2>1, <2>4 DEF PrimaryAction
    <3> QED
      BY <3>1
  <2> QED
    BY <2>2, <2>3, <2>4
<1> QED
  BY <1>1, <1>2 DEF CompletedForDisplay

LEMMA IdleFacts ==
  ASSUME PrimaryAction = "Idle", NEW b \in BundleRows
  PROVE  Drafts(b) = {}
<1>1. SUFFICES ASSUME Drafts(b) # {} PROVE FALSE
  OBVIOUS
<1>2. PICK o \in Obligations : o.kind = "cast" /\ \E s \in StepsOf(o) : ~Tracked(s)
  BY <1>1, CastObliged
<1>3. BlockingRecovery
  BY <1>2 DEF BlockingRecovery
<1>4. ~CompletedForDisplay
  BY <1>3 DEF CompletedForDisplay
<1>5. \E x \in Obligations : x.kind \in {"cast", "reconcile", "deliver"}
  BY <1>2
<1>6. CASE NeedsBundleSetup
  <2>1. PrimaryAction = "Delegate"
    BY <1>6 DEF PrimaryAction
  <2> QED
    BY <2>1
<1>7. CASE ~NeedsBundleSetup /\ \E x \in Obligations : x.kind \in {"delegate", "advance"}
  <2>1. PrimaryAction = "Delegate"
    BY <1>3, <1>4, <1>7 DEF PrimaryAction
  <2> QED
    BY <2>1
<1>8. CASE ~NeedsBundleSetup /\ ~\E x \in Obligations : x.kind \in {"delegate", "advance"}
  <2>1. PrimaryAction = "Vote"
    BY <1>3, <1>4, <1>5, <1>8 DEF PrimaryAction
  <2> QED
    BY <2>1
<1> QED
  BY <1>6, <1>7, <1>8

LEMMA DisplayFacts ==
  ASSUME NEW p \in Proposals
  PROVE  DisplayedChoice(p) \in {"none", intent[p]}
<1> DEFINE stored == {vote[b][p].choice : b \in {x \in Bundles : HasRow(x, p) /\ ~Stale(x, p)}}
<1>1. CASE intent[p] \in Options /\ Cardinality(stored) = 1
  <2>1. Cardinality(stored) # 0
    BY <1>1, SMT
  <2>2. stored # {}
    BY <2>1, FS_EmptySet
  <2>3. PICK c : c = CHOOSE x \in stored : TRUE
    OBVIOUS
  <2>4. c \in stored
    BY <2>2, <2>3
  <2>5. PICK b \in Bundles : HasRow(b, p) /\ ~Stale(b, p) /\ c = vote[b][p].choice
    BY <2>4
  <2>6. intent[p] = c
    BY <1>1, <2>5, RoundAssumption DEF Stale
  <2>7. DisplayedChoice(p) = c
    BY <1>1, <2>3 DEF DisplayedChoice
  <2> QED
    BY <2>6, <2>7
<1>2. CASE ~(intent[p] \in Options /\ Cardinality(stored) = 1)
  <2>1. DisplayedChoice(p) = "none"
    BY <1>2 DEF DisplayedChoice
  <2> QED
    BY <2>1
<1> QED
  BY <1>1, <1>2

\* Whenever a run or a step plans, classify accepts the rows unless a rejected vote of its own
\* was decided otherwise, and the tally, the display and the primary action say what is so
\* (classify, project, select_primary_action, tally).
THEOREM PlansAreSound == RoundsSpec => []PlanIsSound
<1>1. RoundInv => PlanIsSound
  <2> SUFFICES ASSUME RoundInv PROVE PlanIsSound
    OBVIOUS
  <2>1. PlanRefused => DecidedOtherwise
    BY PlanAccepted
  <2>2. \A p \in CompletedProposals \cap roster, b \in BundleRows :
            vote[b][p].row \in {"confirmed", "hashless", "rejected"} /\ Agrees(b, p)
    BY CountedIsVoted
  <2>3. ASSUME PrimaryAction = "Done"
        PROVE  /\ ~OnTheWire /\ ~Undelivered
               /\ \A p \in Proposals : DisplayedChoice(p) \in {"none", intent[p]}
               /\ RosterIsTerminal => AllDecided
    <3>1. ~NeedsBundleSetup /\ ~BlockingRecovery
      BY <2>3, DoneFacts
    <3>2. ~OnTheWire
      BY <3>1, Blocked DEF OnTheWire, Live
    <3>3. ~\E o \in Obligations : \E s \in StepsOf(o) : ~Tracked(s)
      BY <3>1 DEF BlockingRecovery
    <3>4. ~Undelivered
      BY <3>3, ShareObliged DEF Undelivered
    <3>5. ASSUME RosterIsTerminal, NEW p \in roster, intent[p] # "skip"
          PROVE  /\ intent[p] \in Options /\ BundleRows # {}
                 /\ \A b \in BundleRows : vote[b][p].choice = intent[p] /\ vote[b][p].row = "confirmed"
      <4>1. intent[p] # "open" /\ p \in Proposals
        BY <3>5 DEF RosterIsTerminal, OpenProposals, RoundInv
      <4>2. intent[p] \in Options
        BY <3>5, <4>1 DEF RoundInv, Intents, Decisions
      <4>3. BundleRows # {}
        BY <3>1, <4>2 DEF NeedsBundleSetup, ChoiceProposals
      <4> QED
        BY <3>1, <3>5, <4>2, <4>3, NothingOwedIsVoted, ZenonT(60)
    <3>6. RosterIsTerminal => AllDecided
      BY <3>5 DEF AllDecided
    <3> QED
      BY <3>2, <3>4, <3>6, DisplayFacts
  <2>4. PrimaryAction = "Idle" => ~\E b \in BundleRows : Drafts(b) # {}
    BY IdleFacts
  <2> QED
    BY <2>1, <2>2, <2>3, <2>4 DEF PlanIsSound
<1> QED
  BY <1>1, RoundInvariant, PTL
=============================================================================
