------------------------ MODULE ShareDeliveryProofs -------------------------
(***************************************************************************)
(* Delivery of a share implements its ledger, for any fleet and any number *)
(* of operations and generations.                                          *)
(*                                                                         *)
(* ShareInv is inductive, and every step that keeps it is a step of the    *)
(* ledger: initial delivery first, then tracking passes, the helpers and   *)
(* the process, and the theorems.  What a task may assume about the row    *)
(* holds while it has the lock and the row is still that of its            *)
(* generation; a generation that is gone never comes back.                 *)
(***************************************************************************)
EXTENDS ShareDelivery, FiniteSetTheorems, TLAPS

USE Zenon

\* Nothing was sent to the helper for the job's generation.
NotAsked(j, h, n, hd) ==
  /\ <<h, j.gen>> \notin hd
  /\ \A m \in n : ~ (m.h = h /\ m.g = j.gen)

\* The one request the helper can have got is the one the task waits for.
Alone(t, j, h, n, hd) ==
  \A m \in n : m.h = h /\ m.g = j.gen => m.by = t /\ <<h, j.gen>> \notin hd

\* A reservation the task made itself, as its outcome stands.
Attempt(t, j, h, r, n, hd) ==
  /\ r.st[h] = "attempting" /\ j.out[h] # "stale"
  /\ j.out[h] \in {"none", "queued", "failed", "cancelled"} => NotAsked(j, h, n, hd)
  /\ j.out[h] = "sent" => Alone(t, j, h, n, hd)

ToSet(s) == {s[i] : i \in DOMAIN s}

Distinct(s) == \A i, k \in 1..Len(s) : s[i] = s[k] => i = k

\* An initial delivery whose row is in place.
Delivers(t, j, r, n, hd) ==
  /\ j.wave # <<>> => ~ r.confirmed
  /\ Distinct(j.wave)
  /\ \A h \in ToSet(j.wave) : Attempt(t, j, h, r, n, hd)
  /\ \A h \in Helper :
       j.out[h] # "none" => h \in ToSet(j.wave) /\ j.pc \in {"post", "resolve"}
  /\ j.pc = "resolve" => j.h = Head(j.wave) /\ Joined(j)

\* A tracking pass whose row is in place.
Tracks(t, j, r, n, hd) ==
  /\ ~ r.confirmed
  /\ \A h \in j.acc : r.st[h] = "accepted"
  /\ \A h \in j.amb \cup j.intr : r.st[h] # "none"
  /\ j.pc \in {"dispatch", "settle", "resolve"} /\ Fresh(j, j.h) =>
       Attempt(t, j, j.h, r, n, hd)
  /\ \A h \in Helper :
       j.out[h] # "none" => h = j.h /\ j.pc \in {"settle", "resolve"}
  /\ j.pc = "resolve" => j.out[j.h] # "sent"

Busy(j) == j.pc \notin {"idle", "prepared"}

Works(t, j, r, n, hd) ==
  Busy(j) /\ j.gen = r.gen =>
    /\ t \in Deliverer => Delivers(t, j, r, n, hd)
    /\ t \in Tracker => Tracks(t, j, r, n, hd)

\* What a job is at each of its steps.
Shape(t, j) ==
  /\ j.pc = "idle" => j = Idle
  /\ j.pc = "prepared" => j.wave = <<>> /\ j.out = [h \in Helper |-> "none"]
  /\ t \in Deliverer =>
       j.pc \in {"idle", "prepared", "wave", "reserve", "post", "resolve"}
  /\ t \in Tracker => j.pc \notin {"prepared", "wave", "post"}
  /\ j.pc \in {"reserve", "resolve", "dispatch", "settle"} => j.h \in Helper
  /\ j.pc = "dispatch" /\ t \in Deliverer => FALSE
  /\ t \in Deliverer /\ j.pc \in {"post", "resolve"} => j.wave # <<>>

Owns(t, j) ==
  /\ j.pc # "idle" => j.gen \in used /\ (j.gen = vote => row.gen = vote)
  /\ Busy(j) => lock = t
  /\ j.pc = "confirm" => j.gen \in revealed
  /\ \A h \in Helper :
       j.out[h] = "accepted" => h \in Faulty \/ <<h, j.gen>> \in held

JournalInv ==
  /\ row.gen \in {NoGen, vote} /\ vote \in used \cup {NoGen}
  /\ row.gen = NoGen => row = Absent
  /\ \A p \in Reach : p[2] \in used /\ (p[2] = vote => row.gen = vote)
  /\ NothingForgotten /\ AcceptedIsHeld /\ ConfirmedIsRevealed

ShareInv ==
  /\ TypeOK /\ JournalInv
  /\ \A t \in Task : /\ Shape(t, job[t]) /\ Owns(t, job[t])
                     /\ Works(t, job[t], row, net, held)

-----------------------------------------------------------------------------
(* The operators of the model.                                             *)

\* The size of a part of the fleet, and the smaller or larger of two counts.
LEMMA Counts ==
  /\ \A S \in SUBSET Helper : Cardinality(S) \in Nat
  /\ \A a, b \in Nat : Least(a, b) \in Nat
  /\ \A a \in 0..Cardinality(Helper) : raised_target(a) \in 0..Cardinality(Helper)
<1>1. ASSUME NEW S \in SUBSET Helper PROVE Cardinality(S) \in Nat
  BY FleetAssumption, FS_Subset, FS_CardinalityType
<1>2. Cardinality(Helper) \in Nat
  BY <1>1
<1> QED
  BY <1>1, <1>2, ShareAssumption, SMT DEF Least, raised_target

\* Tidying a job forgets what it read and where it was, and nothing else.
LEMMA Tidied ==
  ASSUME NEW j \in JobType
  PROVE  /\ Tidy(j) \in JobType
         /\ Tidy(j).pc = j.pc /\ Tidy(j).gen = j.gen
         /\ Tidy(j).acc = j.acc /\ Tidy(j).amb = j.amb /\ Tidy(j).intr = j.intr
         /\ Tidy(j).wave = j.wave /\ Tidy(j).out = j.out
         /\ j.pc \in {"reserve", "resolve", "dispatch", "settle"} => Tidy(j).h = j.h
<1>1. Absent \in RowType /\ NoHelper \in Helper \cup {NoHelper}
  <2>1. Cardinality(Helper) \in Nat
    BY Counts
  <2> QED
    BY <2>1, SMT DEF Absent, RowType, Evidence
<1>2. Tidy(j) \in JobType
  BY <1>1 DEF Tidy, JobType
<1> QED
  BY <1>2, SMT DEF Tidy, JobType

\* A job that went on is one whose soundness does not depend on what was tidied.
LEMMA TidyKeeps ==
  ASSUME NEW t \in Task, NEW r \in JobType, r.pc # "idle"
  PROVE  /\ Shape(t, r) => Shape(t, Tidy(r))
         /\ Owns(t, r)' => Owns(t, Tidy(r))'
         /\ \A w, n, hd : Works(t, r, w, n, hd) => Works(t, Tidy(r), w, n, hd)
<1> DEFINE s == Tidy(r)
<1>1. /\ s.pc = r.pc /\ s.gen = r.gen /\ s.acc = r.acc /\ s.amb = r.amb
      /\ s.intr = r.intr /\ s.wave = r.wave /\ s.out = r.out
      /\ r.pc \in {"reserve", "resolve", "dispatch", "settle"} => s.h = r.h
  BY Tidied
<1> HIDE DEF s
<1>2. Shape(t, r) => Shape(t, s)
  BY <1>1 DEF Shape
<1>3. Owns(t, r)' => Owns(t, s)'
  BY <1>1 DEF Owns, Busy
<1>4. ASSUME NEW w, NEW n, NEW hd, Works(t, r, w, n, hd)
      PROVE  Works(t, s, w, n, hd)
  <2>1. \A h : Attempt(t, r, h, w, n, hd) => Attempt(t, s, h, w, n, hd)
    BY <1>1 DEF Attempt, NotAsked, Alone
  <2>2. Delivers(t, r, w, n, hd) => Delivers(t, s, w, n, hd)
    BY <1>1, <2>1 DEF Delivers, Joined
  <2>3. Tracks(t, r, w, n, hd) => Tracks(t, s, w, n, hd)
    BY <1>1, <2>1 DEF Tracks, Fresh
  <2> QED
    BY <1>1, <1>4, <2>2, <2>3 DEF Works, Busy
<1> QED
  BY <1>2, <1>3, <1>4 DEF s

-----------------------------------------------------------------------------
(* One task's step.                                                        *)

\* What every step has to show: the invariant again, a step of the ledger, and
\* no new request for a confirmed share.
Steps ==
  /\ ShareInv'
  /\ [Ledger!LedgerNext]_(Ledger!ledgerVars)
  /\ \A m \in net' \ net : m.by # NoTask /\ m.g = row.gen => ~ row.confirmed

\* A task that does not hold the lock is idle or waits for it, and is not
\* concerned by what the holder does to the row and the network.
LEMMA TaskStep ==
  ASSUME ShareInv, NEW t \in Task, NEW j \in JobType,
         job' = [job EXCEPT ![t] = j],
         UNCHANGED <<vote, vc, used, held, revealed, clock>>,
         faults' \in 0..MaxFaults, row' \in RowType,
         net' \subseteq [h : Helper, g : Gen, by : Task \cup {NoTask}],
         lock' \in Task \cup {NoTask},
         \/ lock \in {t, NoTask} /\ row'.gen = row.gen
         \/ UNCHANGED <<row, net, lock>>,
         Shape(t, j), Owns(t, j)', Works(t, j, row', net', held'), JournalInv'
  PROVE  ShareInv'
<1>1. job \in [Task -> JobType] /\ job' \in [Task -> JobType] /\ job'[t] = j
  BY DEF ShareInv, TypeOK
<1>2. TypeOK'
  BY <1>1 DEF ShareInv, TypeOK
<1>3. ASSUME NEW u \in Task, u # t
      PROVE  Shape(u, job[u])' /\ Owns(u, job[u])' /\ Works(u, job[u], row, net, held)'
  <2>1. job'[u] = job[u]
    BY <1>1, <1>3
  <2>2. Shape(u, job[u]) /\ Owns(u, job[u]) /\ Works(u, job[u], row, net, held)
    BY DEF ShareInv
  <2>3. /\ vote' = vote /\ used' = used /\ held' = held /\ revealed' = revealed
        /\ Shape(u, job[u])'
    BY <2>1, <2>2 DEF Shape
  <2>4. CASE UNCHANGED <<row, net, lock>>
    <3>1. row' = row /\ net' = net /\ lock' = lock
      BY <2>4
    <3>2. Owns(u, job[u])'
      BY <2>3, <2>1, <2>2, <3>1 DEF Owns
    <3>3. Works(u, job[u], row, net, held)'
      BY <2>3, <2>1, <2>2, <3>1
    <3> QED
      BY <2>3, <3>2, <3>3
  <2>5. CASE lock \in {t, NoTask} /\ row'.gen = row.gen
    <3>1. NoTask \notin Task
      BY ShareAssumption DEF Task, NoTask
    <3>2. ~ Busy(job[u])
      BY <1>3, <2>2, <2>5, <3>1 DEF Owns
    <3>3. job[u].pc # "confirm"
      BY <3>2 DEF Busy
    <3>4. Owns(u, job[u])'
      BY <2>3, <2>1, <2>2, <2>5, <3>2, <3>3 DEF Owns, Busy
    <3>5. Works(u, job[u], row, net, held)'
      BY <2>1, <3>2 DEF Works, Busy
    <3> QED
      BY <2>3, <3>4, <3>5
  <2> QED
    BY <2>4, <2>5
<1>4. ASSUME NEW u \in Task, u = t
      PROVE  Shape(u, job[u])' /\ Owns(u, job[u])' /\ Works(u, job[u], row, net, held)'
  BY <1>1, <1>4
<1> QED
  BY <1>2, <1>3, <1>4 DEF ShareInv

\* A step that leaves the journal, the network and the helpers alone.
LEMMA JobStep ==
  ASSUME ShareInv, NEW t \in Task, NEW j \in JobType,
         job' = [job EXCEPT ![t] = j],
         UNCHANGED <<journal, world>>,
         faults' \in 0..MaxFaults, lock' \in Task \cup {NoTask},
         lock \in {t, NoTask} \/ lock' = lock,
         Shape(t, j), Owns(t, j)', Works(t, j, row, net, held)
  PROVE  Steps
<1>1. /\ vote' = vote /\ vc' = vc /\ used' = used /\ row' = row
      /\ net' = net /\ held' = held /\ revealed' = revealed /\ clock' = clock
  BY DEF journal, world
<1>2. JournalInv'
  BY <1>1 DEF ShareInv, JournalInv, Reach, NothingForgotten, AcceptedIsHeld,
                     ConfirmedIsRevealed
<1>3. Works(t, j, row', net', held')
  BY <1>1
<1>4. /\ row' \in RowType
      /\ net' \subseteq [h : Helper, g : Gen, by : Task \cup {NoTask}]
  BY <1>1 DEF ShareInv, TypeOK
<1>5. ShareInv'
  BY <1>1, <1>2, <1>3, <1>4, TaskStep
<1>6. UNCHANGED Ledger!ledgerVars
  BY <1>1 DEF Ledger!ledgerVars, Reach
<1> QED
  BY <1>1, <1>5, <1>6 DEF Steps

\* A task that does nothing is sound whatever happens to the rest.
LEMMA IdleSound ==
  /\ Idle \in JobType
  /\ \A t \in Task : /\ Shape(t, Idle) /\ Owns(t, Idle)'
                     /\ \A w, n, hd : Works(t, Idle, w, n, hd)
<1>1. Idle \in JobType
  <2>1. Absent \in RowType /\ NoHelper \in Helper \cup {NoHelper}
    <3>1. Cardinality(Helper) \in Nat
      BY Counts
    <3> QED
      BY <3>1, SMT DEF Absent, RowType, Evidence
  <2>2. <<>> \in Seq(Helper) /\ [h \in Helper |-> "none"] \in [Helper -> Outcomes]
    BY SMT DEF Outcomes
  <2> QED
    BY <2>1, <2>2 DEF Idle, JobType, Pcs
<1>2. Idle.pc = "idle" /\ \A h \in Helper : Idle.out[h] = "none"
  BY DEF Idle
<1>3. Idle' = Idle
  BY DEF Idle, Absent
<1> QED
  BY <1>1, <1>2, <1>3 DEF Shape, Owns, Works, Busy

\* An operation that ends releases the lock if it holds it.
LEMMA Leaves ==
  ASSUME ShareInv, NEW t \in Task, Leave(t), UNCHANGED <<journal, world>>,
         faults' \in 0..MaxFaults
  PROVE  Steps
<1>1. lock' \in Task \cup {NoTask} /\ (lock \in {t, NoTask} \/ lock' = lock)
  BY DEF Leave, ShareInv, TypeOK
<1> QED
  BY <1>1, IdleSound, JobStep DEF Leave

\* An operation that holds the lock goes on.
LEMMA Goes ==
  ASSUME ShareInv, NEW t \in Task, NEW r \in JobType,
         Goto(t, r), UNCHANGED <<journal, lock, world, faults>>,
         Busy(job[t]), Busy(r), r.gen = job[t].gen,
         r.pc = "confirm" => r.gen \in revealed,
         \A h \in Helper : r.out[h] = "accepted" => job[t].out[h] = "accepted",
         Shape(t, r), Works(t, r, row, net, held)
  PROVE  Steps
<1>1. r.pc # "idle" /\ job[t].pc # "idle"
  BY DEF Busy
<1>2. /\ vote' = vote /\ used' = used /\ row' = row /\ held' = held /\ lock' = lock
      /\ revealed' = revealed
      /\ UNCHANGED <<journal, world>> /\ faults' = faults
  BY DEF journal, world
<1>3. Owns(t, job[t])
  BY DEF ShareInv
<1>4. Owns(t, r)'
  BY <1>1, <1>2, <1>3 DEF Owns
<1>5. /\ Shape(t, Tidy(r)) /\ Owns(t, Tidy(r))' /\ Works(t, Tidy(r), row, net, held)
      /\ Tidy(r) \in JobType
  BY <1>1, <1>4, TidyKeeps, Tidied
<1>6. lock' \in Task \cup {NoTask} /\ faults' \in 0..MaxFaults
  BY <1>2 DEF ShareInv, TypeOK
<1> QED
  BY <1>2, <1>5, <1>6, JobStep DEF Goto

\* The same for an initial delivery and for a tracking pass.
LEMMA DeliveryGoes ==
  ASSUME ShareInv, NEW t \in Deliverer, NEW r \in JobType,
         Goto(t, r), UNCHANGED <<journal, lock, world, faults>>,
         Busy(job[t]), r.pc \in {"wave", "reserve", "post", "resolve"},
         r.gen = job[t].gen,
         r.pc \in {"reserve", "resolve"} => r.h \in Helper,
         r.pc \in {"post", "resolve"} => r.wave # <<>>,
         \A h \in Helper : r.out[h] = "accepted" => job[t].out[h] = "accepted",
         Delivers(t, job[t], row, net, held) /\ r.gen = row.gen =>
           Delivers(t, r, row, net, held)
  PROVE  Steps
<1>1. t \in Task /\ t \notin Tracker /\ Busy(r) /\ r.pc # "confirm"
  BY ShareAssumption DEF Task, Busy
<1>2. Works(t, job[t], row, net, held)
  BY <1>1 DEF ShareInv
<1>3. Works(t, r, row, net, held)
  BY <1>1, <1>2 DEF Works
<1>4. Shape(t, r)
  BY <1>1 DEF Shape
<1> QED
  BY <1>1, <1>3, <1>4, Goes

LEMMA TrackingGoes ==
  ASSUME ShareInv, NEW t \in Tracker, NEW r \in JobType,
         Goto(t, r), UNCHANGED <<journal, lock, world, faults>>,
         Busy(job[t]), r.pc \in {"poll", "decide", "call", "pick", "reserve",
                                 "dispatch", "settle", "resolve"},
         r.gen = job[t].gen,
         r.pc \in {"reserve", "resolve", "dispatch", "settle"} => r.h \in Helper,
         \A h \in Helper : r.out[h] = "accepted" => job[t].out[h] = "accepted",
         Tracks(t, job[t], row, net, held) /\ r.gen = row.gen =>
           Tracks(t, r, row, net, held)
  PROVE  Steps
<1>1. t \in Task /\ t \notin Deliverer /\ Busy(r) /\ r.pc # "confirm"
  BY ShareAssumption DEF Task, Busy
<1>2. Works(t, job[t], row, net, held)
  BY <1>1 DEF ShareInv
<1>3. Works(t, r, row, net, held)
  BY <1>1, <1>2 DEF Works
<1>4. Shape(t, r)
  BY <1>1 DEF Shape
<1> QED
  BY <1>1, <1>3, <1>4, Goes

-----------------------------------------------------------------------------
(* Initial delivery.                                                       *)

\* A job of a delivery and its types.
LEMMA JobTyped ==
  ASSUME ShareInv, NEW t \in Task
  PROVE  /\ job \in [Task -> JobType] /\ job[t] \in JobType /\ row \in RowType
         /\ faults \in 0..MaxFaults /\ job[t].wave \in Seq(Helper)
         /\ job[t].out \in [Helper -> Outcomes] /\ job[t].seen \in RowType
         /\ Shape(t, job[t]) /\ Owns(t, job[t]) /\ Works(t, job[t], row, net, held)
<1>1. job[t] \in JobType /\ row \in RowType /\ faults \in 0..MaxFaults
      /\ job \in [Task -> JobType]
  BY DEF ShareInv, TypeOK
<1>2. /\ job[t].wave \in Seq(Helper)
      /\ job[t].out \in [Helper -> Outcomes] /\ job[t].seen \in RowType
  BY <1>1 DEF JobType
<1> QED
  BY <1>1, <1>2 DEF ShareInv

\* The candidate is read and reserved only by a delivery with no posts under way.
LEMMA ReserveReadSteps ==
  ASSUME ShareInv, NEW t \in Deliverer, NEW h \in Helper, reserve_read(t, h)
  PROVE  Steps
<1> DEFINE r == [job[t] EXCEPT !.pc = "reserve", !.h = h, !.seen = row]
<1>1. t \in Task /\ job[t] \in JobType /\ row \in RowType
  BY JobTyped DEF Task
<1>2. /\ r \in JobType /\ r.pc = "reserve" /\ r.h = h /\ r.gen = job[t].gen
      /\ r.out = job[t].out /\ r.wave = job[t].wave
  BY <1>1 DEF JobType, Pcs
<1>3. Busy(job[t]) /\ job[t].pc = "wave" /\ Goto(t, r)
      /\ UNCHANGED <<journal, lock, world, faults>>
  BY DEF reserve_read, Busy
<1> HIDE DEF r
<1>4. Delivers(t, job[t], row, net, held) => Delivers(t, r, row, net, held)
  BY <1>2, <1>3 DEF Delivers, Attempt, NotAsked, Alone
<1> QED
  BY <1>2, <1>3, <1>4, DeliveryGoes

\* A row that changed since it was read is read again.
LEMMA RereadSteps ==
  ASSUME ShareInv, NEW t \in Task, Reread(t), job[t].pc \in {"reserve", "resolve"},
         UNCHANGED <<journal, lock, world, faults>>
  PROVE  Steps
<1> DEFINE r == [job[t] EXCEPT !.seen = row]
<1>1. job[t] \in JobType /\ row \in RowType /\ Shape(t, job[t])
      /\ Works(t, job[t], row, net, held)
  BY JobTyped
<1>2. /\ r \in JobType /\ r.pc = job[t].pc /\ r.h = job[t].h /\ r.gen = job[t].gen
      /\ r.out = job[t].out /\ r.wave = job[t].wave /\ r.acc = job[t].acc
      /\ r.amb = job[t].amb /\ r.intr = job[t].intr
  BY <1>1 DEF JobType
<1>3. Busy(job[t]) /\ Busy(r) /\ Goto(t, r) /\ r.pc # "confirm" /\ r.pc # "idle"
  BY <1>2 DEF Busy, Reread
<1> HIDE DEF r
<1>4. Shape(t, r)
  BY <1>1, <1>2, <1>3 DEF Shape
<1>5. \A h : Attempt(t, job[t], h, row, net, held) => Attempt(t, r, h, row, net, held)
  BY <1>2 DEF Attempt, NotAsked, Alone
<1>6. Delivers(t, job[t], row, net, held) => Delivers(t, r, row, net, held)
  BY <1>2, <1>5 DEF Delivers, Joined
<1>7. Tracks(t, job[t], row, net, held) => Tracks(t, r, row, net, held)
  BY <1>2, <1>5 DEF Tracks, Fresh
<1>8. Works(t, r, row, net, held)
  BY <1>1, <1>2, <1>3, <1>6, <1>7 DEF Works
<1> QED
  BY <1>2, <1>3, <1>4, <1>8, Goes

\* The posts of a wave start queued, or an empty wave ends the delivery.
LEMMA StartPostsSteps ==
  ASSUME ShareInv, NEW t \in Deliverer, job[t].pc \in {"wave", "reserve"},
         StartPosts(t), UNCHANGED <<journal, world, faults>>
  PROVE  Steps
<1>1. /\ t \in Task /\ job[t] \in JobType /\ faults \in 0..MaxFaults
      /\ job[t].wave \in Seq(Helper) /\ Busy(job[t])
  BY JobTyped DEF Task, Busy
<1>2. CASE job[t].wave = <<>>
  BY <1>1, <1>2, Leaves DEF StartPosts
<1>3. CASE job[t].wave # <<>>
  <2> DEFINE o == [h \in Helper |->
                    IF \E i \in DOMAIN job[t].wave : job[t].wave[i] = h
                    THEN "queued" ELSE "none"]
             r == [job[t] EXCEPT !.pc = "post", !.out = o]
  <2>1. o \in [Helper -> Outcomes] /\ \A h \in Helper : o[h] # "accepted"
    BY DEF Outcomes
  <2>2. Goto(t, r) /\ UNCHANGED <<journal, lock, world, faults>>
    BY <1>3 DEF StartPosts
  <2>3. \A h \in Helper : o[h] \in {"queued", "none"}
                          /\ (o[h] # "none" => h \in ToSet(job[t].wave))
    BY DEF ToSet
  <2> HIDE DEF o
  <2>4. /\ r \in JobType /\ r.pc = "post" /\ r.gen = job[t].gen
        /\ r.out = o /\ r.wave = job[t].wave
    BY <1>1, <2>1 DEF JobType, Pcs
  <2> HIDE DEF r
  <2>5. ToSet(job[t].wave) \subseteq Helper
    BY <1>1, SMT DEF ToSet
  <2>6. Delivers(t, job[t], row, net, held) => Delivers(t, r, row, net, held)
    <3> SUFFICES ASSUME Delivers(t, job[t], row, net, held)
                 PROVE  Delivers(t, r, row, net, held)
      OBVIOUS
    <3>1. ASSUME NEW h \in ToSet(r.wave) PROVE Attempt(t, r, h, row, net, held)
      <4>1. h \in Helper /\ Attempt(t, job[t], h, row, net, held)
        BY <2>4, <2>5 DEF Delivers
      <4>2. job[t].out[h] = "none"
        BY <4>1 DEF Delivers
      <4>3. NotAsked(r, h, net, held) /\ row.st[h] = "attempting"
        BY <2>4, <4>1, <4>2 DEF Attempt, NotAsked
      <4> QED
        BY <2>3, <2>4, <4>1, <4>3 DEF Attempt
    <3> QED
      BY <2>3, <2>4, <3>1 DEF Delivers
  <2> QED
    BY <1>1, <1>3, <2>1, <2>2, <2>4, <2>6, DeliveryGoes
<1> QED
  BY <1>2, <1>3

\* A queued post that gets no permit, or finds the row gone, never went out.
LEMMA UnsentSteps ==
  ASSUME ShareInv, NEW t \in Deliverer, NEW h \in Helper, NEW o \in {"failed", "stale"},
         job[t].pc = "post", job[t].out[h] = "queued",
         o = "stale" => ~ (row.gen = job[t].gen /\ row.st[h] = "attempting"),
         Goto(t, [job[t] EXCEPT !.out[h] = o]),
         UNCHANGED <<journal, lock, world, faults>>
  PROVE  Steps
<1>1. /\ t \in Task /\ job[t] \in JobType /\ job[t].out \in [Helper -> Outcomes]
      /\ Busy(job[t]) /\ Shape(t, job[t])
  BY JobTyped DEF Task, Busy
<1> DEFINE p == [job[t].out EXCEPT ![h] = o]
           r == [job[t] EXCEPT !.out[h] = o]
<1>2. /\ p \in [Helper -> Outcomes]
      /\ \A x \in Helper : p[x] = IF x = h THEN o ELSE job[t].out[x]
  BY <1>1 DEF Outcomes
<1> HIDE DEF p
<1>3. /\ r \in JobType /\ r.pc = "post" /\ r.gen = job[t].gen
      /\ r.out = p /\ r.wave = job[t].wave
  BY <1>1, <1>2 DEF JobType, p
<1>4. Goto(t, r) /\ job[t].wave # <<>>
  BY <1>1 DEF Shape
<1> HIDE DEF r
<1>5. Delivers(t, job[t], row, net, held) /\ r.gen = row.gen =>
        Delivers(t, r, row, net, held)
  <2> SUFFICES ASSUME Delivers(t, job[t], row, net, held), r.gen = row.gen
               PROVE  Delivers(t, r, row, net, held)
    OBVIOUS
  <2>1. Attempt(t, job[t], h, row, net, held)
    BY DEF Delivers
  <2>2. o = "failed" /\ NotAsked(job[t], h, net, held)
    BY <1>3, <2>1 DEF Attempt
  <2>3. ASSUME NEW x \in ToSet(r.wave) PROVE Attempt(t, r, x, row, net, held)
    <3>1. x \in Helper /\ Attempt(t, job[t], x, row, net, held)
      <4>1. ToSet(job[t].wave) \subseteq Helper
        BY JobTyped, <1>1, SMT DEF ToSet
      <4> QED
        BY <1>3, <4>1 DEF Delivers
    <3>2. CASE x = h
      BY <1>2, <1>3, <2>1, <2>2, <3>2 DEF Attempt, NotAsked
    <3>3. CASE x # h
      BY <1>2, <1>3, <3>1, <3>3 DEF Attempt, NotAsked, Alone
    <3> QED
      BY <3>2, <3>3
  <2>4. \A x \in Helper : r.out[x] # "none" => job[t].out[x] # "none"
    BY <1>2, <1>3
  <2> QED
    BY <1>3, <2>3, <2>4 DEF Delivers
<1> QED
  BY <1>1, <1>2, <1>3, <1>4, <1>5, DeliveryGoes

\* Growing and shrinking a wave.
LEMMA Waves ==
  ASSUME NEW s \in Seq(Helper)
  PROVE  /\ ToSet(s) \subseteq Helper
         /\ \A h \in Helper :
              /\ Append(s, h) \in Seq(Helper) /\ Append(s, h) # <<>>
              /\ ToSet(Append(s, h)) = ToSet(s) \cup {h}
              /\ Distinct(s) /\ h \notin ToSet(s) => Distinct(Append(s, h))
         /\ s # <<>> =>
              /\ Head(s) \in ToSet(s) /\ Tail(s) \in Seq(Helper)
              /\ ToSet(Tail(s)) \subseteq ToSet(s)
              /\ ToSet(s) \subseteq ToSet(Tail(s)) \cup {Head(s)}
              /\ Distinct(s) => Distinct(Tail(s)) /\ Head(s) \notin ToSet(Tail(s))
              /\ Len(s) # 1 => Tail(s) # <<>>
<1>1. ToSet(s) \subseteq Helper
  BY SMT DEF ToSet
<1>2. ASSUME NEW h \in Helper
      PROVE  /\ Append(s, h) \in Seq(Helper) /\ Append(s, h) # <<>>
             /\ ToSet(Append(s, h)) = ToSet(s) \cup {h}
             /\ Distinct(s) /\ h \notin ToSet(s) => Distinct(Append(s, h))
  <2>1. /\ Append(s, h) \in Seq(Helper) /\ Len(Append(s, h)) = Len(s) + 1
        /\ \A i \in 1..Len(s) : Append(s, h)[i] = s[i]
        /\ Append(s, h)[Len(s) + 1] = h
    BY SMT
  <2>2. ToSet(Append(s, h)) = ToSet(s) \cup {h}
    BY <2>1, SMT DEF ToSet
  <2>3. Distinct(s) /\ h \notin ToSet(s) => Distinct(Append(s, h))
    BY <2>1, SMT DEF ToSet, Distinct
  <2> QED
    BY <2>1, <2>2, <2>3, SMT
<1>3. ASSUME s # <<>>
      PROVE  /\ Head(s) \in ToSet(s) /\ Tail(s) \in Seq(Helper)
             /\ ToSet(Tail(s)) \subseteq ToSet(s)
             /\ ToSet(s) \subseteq ToSet(Tail(s)) \cup {Head(s)}
             /\ Distinct(s) => Distinct(Tail(s)) /\ Head(s) \notin ToSet(Tail(s))
             /\ Len(s) # 1 => Tail(s) # <<>>
  <2>1. /\ Head(s) = s[1] /\ Tail(s) \in Seq(Helper) /\ Len(Tail(s)) = Len(s) - 1
        /\ Len(s) \in Nat /\ Len(s) >= 1
        /\ \A i \in 1..(Len(s) - 1) : Tail(s)[i] = s[i + 1]
    BY <1>3, SMT
  <2>2. Head(s) \in ToSet(s) /\ ToSet(Tail(s)) \subseteq ToSet(s)
    BY <2>1, SMT DEF ToSet
  <2>3. ToSet(s) \subseteq ToSet(Tail(s)) \cup {Head(s)}
    <3> SUFFICES ASSUME NEW i \in 1..Len(s), i # 1 PROVE s[i] \in ToSet(Tail(s))
      BY <2>1, SMT DEF ToSet
    <3>1. i - 1 \in 1..(Len(s) - 1) /\ Tail(s)[i - 1] = s[i]
      BY <2>1, SMT
    <3>2. i - 1 \in DOMAIN Tail(s)
      BY <2>1, <3>1, SMT
    <3> QED
      BY <3>1, <3>2 DEF ToSet
  <2>4. Distinct(s) => Distinct(Tail(s)) /\ Head(s) \notin ToSet(Tail(s))
    BY <2>1, SMT DEF ToSet, Distinct
  <2> QED
    BY <2>1, <2>2, <2>3, <2>4, SMT
<1> QED
  BY <1>1, <1>2, <1>3

\* The holder of the lock writes what it knows about one helper.
LEMMA EvidenceStep ==
  ASSUME ShareInv, NEW t \in Task, NEW j \in JobType, NEW h \in Helper,
         NEW e \in Evidence,
         job' = [job EXCEPT ![t] = j], lock = t, lock' \in {t, NoTask},
         row.gen # NoGen, row' \in RowType, row'.gen = row.gen,
         row'.confirmed = row.confirmed, row'.st = [row.st EXCEPT ![h] = e],
         \/ row.st[h] = e
         \/ row.st[h] = "none" /\ e = "attempting" /\ ~ row.confirmed
         \/ row.st[h] = "attempting" /\ e = "none" /\ <<h, row.gen>> \notin Reach
         \/ row.st[h] = "attempting" /\ e = "unknown"
         \/ /\ row.st[h] \in {"attempting", "unknown"} /\ e = "accepted"
            /\ h \in Faulty \/ <<h, row.gen>> \in held,
         UNCHANGED <<vote, vc, used, world, faults>>,
         Shape(t, j), Owns(t, j)', Works(t, j, row', net, held)
  PROVE  Steps
<1>1. /\ vote' = vote /\ vc' = vc /\ used' = used /\ faults' = faults
      /\ net' = net /\ held' = held /\ revealed' = revealed /\ clock' = clock
      /\ Reach' = Reach /\ held \subseteq Reach
  BY DEF world, Reach
<1>2. /\ row \in RowType /\ row.st \in [Helper -> Evidence]
      /\ \A x \in Helper : row'.st[x] = IF x = h THEN e ELSE row.st[x]
  <2>1. row \in RowType
    BY DEF ShareInv, TypeOK
  <2>2. row.st \in [Helper -> Evidence]
    BY <2>1 DEF RowType
  <2> QED
    BY <2>1, <2>2
<1>3. JournalInv'
  <2>1. JournalInv
    BY DEF ShareInv
  <2>2. NothingForgotten' /\ AcceptedIsHeld'
    BY <1>1, <1>2, <2>1 DEF JournalInv, NothingForgotten, AcceptedIsHeld
  <2>3. ConfirmedIsRevealed'
    BY <1>1, <2>1 DEF JournalInv, ConfirmedIsRevealed
  <2> QED
    BY <1>1, <2>1, <2>2, <2>3 DEF JournalInv
<1>4. /\ net' \subseteq [h : Helper, g : Gen, by : Task \cup {NoTask}]
      /\ lock' \in Task \cup {NoTask} /\ faults' \in 0..MaxFaults
  BY <1>1 DEF ShareInv, TypeOK
<1>5. ShareInv'
  <2>1. Works(t, j, row', net', held') /\ lock \in {t, NoTask}
    BY <1>1
  <2> QED
    BY <1>1, <1>3, <1>4, <2>1, TaskStep
<1>6. [Ledger!LedgerNext]_(Ledger!ledgerVars)
  <2>1. CASE row.st[h] = e
    BY <1>1, <1>2, <2>1 DEF Ledger!ledgerVars
  <2>2. CASE row.st[h] = "none" /\ e = "attempting" /\ ~ row.confirmed
    BY <1>1, <2>2 DEF Ledger!LedgerNext, Ledger!Reserve
  <2>3. CASE row.st[h] = "attempting" /\ e = "none" /\ <<h, row.gen>> \notin Reach
    BY <1>1, <2>3 DEF Ledger!LedgerNext, Ledger!Release
  <2>4. CASE row.st[h] = "attempting" /\ e = "unknown"
    BY <1>1, <2>4 DEF Ledger!LedgerNext, Ledger!Doubt
  <2>5. CASE /\ row.st[h] \in {"attempting", "unknown"} /\ e = "accepted"
             /\ h \in Faulty \/ <<h, row.gen>> \in held
    BY <1>1, <2>5 DEF Ledger!LedgerNext, Ledger!Accept
  <2> QED
    BY <2>1, <2>2, <2>3, <2>4, <2>5
<1> QED
  BY <1>1, <1>5, <1>6 DEF Steps

\* The write of a reservation over the row as it was read.
Starts(t) ==
  /\ job[t].pc = "reserve" /\ job[t].seen.gen = job[t].gen
  /\ ~ job[t].seen.confirmed /\ job[t].seen.st[job[t].h] = "none"
  /\ same_row(row, job[t].seen)
  /\ row' = [row EXCEPT !.st = [job[t].seen.st EXCEPT ![job[t].h] = "attempting"]]

\* A reservation is durable before anything is sent, whoever asks for it.
LEMMA Reserved ==
  ASSUME ShareInv, NEW t \in Task, Starts(t)
  PROVE  /\ job[t].h \in Helper /\ row.gen = job[t].gen /\ row.gen # NoGen
         /\ lock = t /\ Busy(job[t])
         /\ row.st[job[t].h] = "none" /\ ~ row.confirmed
         /\ NotAsked(job[t], job[t].h, net, held)
         /\ row' \in RowType /\ row'.gen = row.gen /\ row'.confirmed = row.confirmed
         /\ row'.st = [row.st EXCEPT ![job[t].h] = "attempting"]
         /\ \A x \in Helper :
              row'.st[x] = IF x = job[t].h THEN "attempting" ELSE row.st[x]
<1> DEFINE j == job[t]
<1>1. /\ row \in RowType /\ j.seen \in RowType /\ Shape(t, j) /\ Owns(t, j)
      /\ j.gen \in used /\ used \subseteq Gen /\ JournalInv
  <2>1. j.gen \in used
    BY JobTyped DEF Owns, Starts
  <2> QED
    BY <2>1, JobTyped DEF ShareInv, TypeOK
<1>2. Busy(j) /\ j.h \in Helper /\ lock = t
  BY <1>1 DEF Busy, Shape, Owns, Starts
<1>3. j.seen.gen = j.gen /\ ~ j.seen.confirmed /\ j.seen.st[j.h] = "none"
  BY DEF Starts
<1>4. row.gen = j.gen /\ row.st = j.seen.st /\ row.confirmed = j.seen.confirmed
  BY <1>3 DEF same_row, Starts
<1>5. row.gen # NoGen
  BY <1>1, <1>4, ShareAssumption
<1>6. NotAsked(j, j.h, net, held)
  BY <1>1, <1>2, <1>3, <1>4 DEF JournalInv, NothingForgotten, NotAsked, Reach
<1> DEFINE st == [row.st EXCEPT ![j.h] = "attempting"]
<1>7. row.st \in [Helper -> Evidence]
  BY <1>1 DEF RowType
<1>8. /\ st \in [Helper -> Evidence]
      /\ \A x \in Helper : st[x] = IF x = j.h THEN "attempting" ELSE row.st[x]
  BY <1>7 DEF Evidence
<1>9. row' = [row EXCEPT !.st = st]
  BY <1>4 DEF Starts
<1> HIDE DEF st
<1>10. row' \in RowType /\ row'.gen = row.gen /\ row'.confirmed = row.confirmed
       /\ row'.st = st
  BY <1>1, <1>8, <1>9 DEF RowType
<1> QED
  BY <1>2, <1>3, <1>4, <1>5, <1>6, <1>8, <1>10 DEF st

\* The holder writes and goes on.
LEMMA WritesAndGoes ==
  ASSUME ShareInv, NEW t \in Task, NEW r \in JobType, NEW h \in Helper,
         NEW e \in Evidence,
         Goto(t, r), UNCHANGED <<vote, vc, used, lock, world, faults>>,
         Busy(job[t]), Busy(r), r.pc # "confirm", r.gen = job[t].gen,
         \A x \in Helper : r.out[x] = "accepted" => job[t].out[x] = "accepted",
         row.gen = job[t].gen, row' \in RowType, row'.gen = row.gen,
         row'.confirmed = row.confirmed, row'.st = [row.st EXCEPT ![h] = e],
         \/ row.st[h] = e
         \/ row.st[h] = "none" /\ e = "attempting" /\ ~ row.confirmed
         \/ row.st[h] = "attempting" /\ e = "none" /\ <<h, row.gen>> \notin Reach
         \/ row.st[h] = "attempting" /\ e = "unknown"
         \/ /\ row.st[h] \in {"attempting", "unknown"} /\ e = "accepted"
            /\ h \in Faulty \/ <<h, row.gen>> \in held,
         Shape(t, r), Works(t, r, row', net, held)
  PROVE  Steps
<1>1. r.pc # "idle" /\ job[t].pc # "idle"
  BY DEF Busy
<1>2. /\ vote' = vote /\ used' = used /\ held' = held /\ lock' = lock
      /\ UNCHANGED <<vote, vc, used, world, faults>>
  BY DEF world
<1>3. Owns(t, job[t]) /\ used \subseteq Gen
  BY DEF ShareInv, TypeOK
<1>4. Owns(t, r)' /\ lock = t /\ row.gen \in used
  BY <1>1, <1>2, <1>3 DEF Owns
<1>5. row.gen # NoGen
  BY <1>3, <1>4, ShareAssumption
<1>6. /\ Shape(t, Tidy(r)) /\ Owns(t, Tidy(r))' /\ Works(t, Tidy(r), row', net, held)
      /\ Tidy(r) \in JobType
  BY <1>1, <1>4, TidyKeeps, Tidied
<1> QED
  BY <1>2, <1>4, <1>5, <1>6, EvidenceStep DEF Goto

\* Reserving the next helper of a wave.
LEMMA BeginSteps ==
  ASSUME ShareInv, NEW t \in Deliverer, begin_delivery_attempt(t)
  PROVE  Steps
<1> DEFINE j == job[t]
           answer == reservation(j.seen, j.gen, j.h, j.goal, FALSE)
<1>1. /\ t \in Task /\ t \notin Tracker /\ j \in JobType /\ j.pc = "reserve"
      /\ Busy(j) /\ j.wave \in Seq(Helper) /\ j.h \in Helper
      /\ Works(t, j, row, net, held) /\ faults \in 0..MaxFaults
      /\ j.out \in [Helper -> Outcomes]
  BY JobTyped, ShareAssumption DEF Task, Busy, Shape, begin_delivery_attempt
<1>2. UNCHANGED <<vote, vc, used, world, faults>> /\ faults' = faults
  BY DEF begin_delivery_attempt
<1>3. CASE /\ answer = "Started" /\ same_row(row, j.seen)
           /\ row' = [row EXCEPT !.st = [j.seen.st EXCEPT ![j.h] = "attempting"]]
           /\ Goto(t, [j EXCEPT !.pc = "wave", !.left = @ \ {j.h},
                                !.wave = Append(@, j.h)])
           /\ UNCHANGED lock
  <2> DEFINE r == [j EXCEPT !.pc = "wave", !.left = @ \ {j.h},
                            !.wave = Append(@, j.h)]
  <2>1. Starts(t)
    BY <1>1, <1>3 DEF Starts, reservation
  <2>2. /\ row.gen = j.gen /\ row.st[j.h] = "none" /\ ~ row.confirmed
        /\ NotAsked(j, j.h, net, held)
        /\ row' \in RowType /\ row'.gen = row.gen /\ row'.confirmed = row.confirmed
        /\ row'.st = [row.st EXCEPT ![j.h] = "attempting"]
        /\ \A x \in Helper : row'.st[x] = IF x = j.h THEN "attempting" ELSE row.st[x]
    BY <1>1, <2>1, Reserved
  <2>3. Append(j.wave, j.h) \in Seq(Helper)
        /\ ToSet(Append(j.wave, j.h)) = ToSet(j.wave) \cup {j.h}
        /\ ToSet(j.wave) \subseteq Helper
    BY <1>1, Waves
  <2>4. j.left \ {j.h} \in SUBSET Helper
    BY <1>1 DEF JobType
  <2>5. /\ r \in JobType /\ r.pc = "wave" /\ r.gen = j.gen /\ r.out = j.out
        /\ r.wave = Append(j.wave, j.h)
    BY <1>1, <2>3, <2>4 DEF JobType, Pcs
  <2>6. Goto(t, r)
    BY <1>3
  <2> HIDE DEF r
  <2>7. Delivers(t, j, row, net, held)
    BY <1>1, <2>2 DEF Works
  <2>8. Delivers(t, r, row', net, held)
    <3>1. j.h \notin ToSet(j.wave) /\ \A x \in Helper : j.out[x] = "none"
      BY <1>1, <2>2, <2>7 DEF Delivers, Attempt
    <3>2. Distinct(r.wave)
      BY <1>1, <2>5, <2>7, <3>1, Waves, SMT DEF Delivers
    <3>3. ASSUME NEW x \in ToSet(r.wave) PROVE Attempt(t, r, x, row', net, held)
      <4>1. x \in Helper /\ r.out[x] = "none" /\ row'.st[x] = "attempting"
        BY <1>1, <2>2, <2>3, <2>5, <2>7, <3>1, <3>3, SMT DEF Delivers, Attempt
      <4>2. NotAsked(r, x, net, held)
        <5>1. CASE x = j.h
          BY <2>2, <2>5, <5>1 DEF NotAsked
        <5>2. CASE x # j.h
          <6>1. Attempt(t, j, x, row, net, held) /\ j.out[x] = "none"
            BY <2>3, <2>5, <2>7, <3>1, <4>1, <5>2 DEF Delivers
          <6>2. NotAsked(j, x, net, held)
            BY <6>1 DEF Attempt
          <6> QED
            BY <2>5, <6>2 DEF NotAsked
        <5> QED
          BY <5>1, <5>2
      <4> QED
        BY <4>1, <4>2 DEF Attempt
    <3> QED
      BY <2>2, <2>5, <3>1, <3>2, <3>3 DEF Delivers
  <2>9. Works(t, r, row', net, held) /\ Shape(t, r) /\ Busy(r)
    BY <1>1, <2>5, <2>8 DEF Works, Shape, Busy
  <2>10. "attempting" \in Evidence
    BY DEF Evidence
  <2>11. UNCHANGED <<vote, vc, used, lock, world, faults>>
    BY <1>2, <1>3
  <2>12. /\ \A x \in Helper : r.out[x] = "accepted" => job[t].out[x] = "accepted"
         /\ r.pc # "confirm" /\ Busy(job[t])
    BY <1>1, <2>5
  <2> QED
    BY <1>1, <2>2, <2>5, <2>6, <2>9, <2>10, <2>11, <2>12, WritesAndGoes
<1>4. CASE answer = "Started" /\ Reread(t) /\ UNCHANGED <<row, lock>>
  BY <1>1, <1>2, <1>4, RereadSteps DEF journal
<1>5. CASE Goto(t, [j EXCEPT !.pc = "wave", !.left = @ \ {j.h}])
           /\ UNCHANGED <<row, lock>>
  <2> DEFINE r == [j EXCEPT !.pc = "wave", !.left = @ \ {j.h}]
  <2>1. j.left \ {j.h} \in SUBSET Helper
    BY <1>1 DEF JobType
  <2>2. /\ r \in JobType /\ r.pc = "wave" /\ r.gen = j.gen /\ r.out = j.out
        /\ r.wave = j.wave
    BY <1>1, <2>1 DEF JobType, Pcs
  <2>3. Goto(t, r) /\ UNCHANGED <<journal, lock, world, faults>>
    BY <1>2, <1>5 DEF journal
  <2> HIDE DEF r
  <2>4. Delivers(t, j, row, net, held) => Delivers(t, r, row, net, held)
    BY <1>1, <2>2 DEF Delivers, Attempt, NotAsked, Alone
  <2> QED
    BY <1>1, <2>2, <2>3, <2>4, DeliveryGoes
<1>6. CASE StartPosts(t) /\ UNCHANGED row
  BY <1>1, <1>2, <1>6, StartPostsSteps DEF journal
<1>7. CASE Leave(t) /\ UNCHANGED row
  BY <1>1, <1>2, <1>7, Leaves DEF journal
<1> QED
  BY <1>3, <1>4, <1>5, <1>6, <1>7 DEF begin_delivery_attempt

\* What an outcome makes of the evidence about its helper.
Written(effect, was) ==
  CASE effect = "Accepted" -> "accepted"
    [] effect = "Ambiguous" -> IF was = "accepted" THEN was ELSE "unknown"
    [] effect = "DefiniteFailure" -> IF was = "attempting" THEN "none" ELSE was
    [] OTHER -> was

\* The write of an outcome over the row as it was read.
Resolving(t, effect, reset) ==
  /\ job[t].pc = "resolve" /\ job[t].seen.gen = job[t].gen
  /\ same_row(row, job[t].seen)
  /\ Store(row, resolved(job[t].seen, job[t].h, effect, reset))

\* The row it leaves behind.
RowResolved(t, effect) ==
  /\ job[t].h \in Helper /\ row.gen = job[t].gen
  /\ row.gen # NoGen /\ lock = t /\ Busy(job[t])
  /\ row' \in RowType /\ row'.gen = row.gen /\ row'.confirmed = row.confirmed
  /\ Written(effect, row.st[job[t].h]) \in Evidence
  /\ row'.st = [row.st EXCEPT ![job[t].h] = Written(effect, row.st[job[t].h])]
  /\ \A x \in Helper :
       row'.st[x] = IF x = job[t].h THEN Written(effect, row.st[job[t].h])
                                    ELSE row.st[x]

\* An outcome changes the evidence about its helper and nothing else the ledger
\* sees.
LEMMA Resolved ==
  ASSUME ShareInv, NEW t \in Task, NEW reset \in BOOLEAN,
         NEW effect \in {"Accepted", "Ambiguous", "DefiniteFailure", "nothing"},
         Resolving(t, effect, reset)
  PROVE  RowResolved(t, effect)
<1> DEFINE j == job[t]
           h == job[t].h
           e == Written(effect, row.st[h])
<1>1. /\ row \in RowType /\ j.seen \in RowType /\ Shape(t, j) /\ Owns(t, j)
      /\ used \subseteq Gen /\ j.pc = "resolve"
  BY JobTyped DEF ShareInv, TypeOK, Resolving
<1>2. Busy(j) /\ h \in Helper /\ lock = t /\ j.gen \in used
  BY <1>1 DEF Busy, Shape, Owns
<1>3. row.gen = j.gen /\ row.st = j.seen.st
  BY DEF same_row, Resolving
<1>4. row.gen # NoGen
  BY <1>1, <1>2, <1>3, ShareAssumption
<1>5. row.st \in [Helper -> Evidence]
  BY <1>1 DEF RowType
<1>6. e \in Evidence /\ [row.st EXCEPT ![h] = e] \in [Helper -> Evidence]
  BY <1>2, <1>5 DEF Written, Evidence
<1> DEFINE s == resolved(j.seen, h, effect, reset)
<1>7. s.st = [row.st EXCEPT ![h] = e] /\ s.reset \in BOOLEAN
  <2>1. CASE effect = "Accepted"
    <3>1. s = [j.seen EXCEPT !.st = mark_accepted(j.seen.st, h), !.reset = @ \/ reset]
      BY <2>1 DEF resolved
    <3>2. s.st = mark_accepted(j.seen.st, h) /\ s.reset = (j.seen.reset \/ reset)
      BY <1>1, <3>1 DEF RowType
    <3> QED
      BY <1>3, <2>1, <3>2 DEF mark_accepted, Written
  <2>2. CASE effect = "Ambiguous"
    <3>1. s = [j.seen EXCEPT !.st = mark_outcome_unknown(j.seen.st, h)]
      BY <2>2 DEF resolved
    <3>2. s.st = mark_outcome_unknown(j.seen.st, h) /\ s.reset \in BOOLEAN
      BY <1>1, <3>1 DEF RowType
    <3> QED
      BY <1>2, <1>3, <1>5, <2>2, <3>2 DEF mark_outcome_unknown, Written
  <2>3. CASE effect = "DefiniteFailure"
    <3>1. s = [j.seen EXCEPT !.st = mark_definite_failure(j.seen.st, h)]
      BY <2>3 DEF resolved
    <3>2. s.st = mark_definite_failure(j.seen.st, h) /\ s.reset \in BOOLEAN
      BY <1>1, <3>1 DEF RowType
    <3> QED
      BY <1>2, <1>3, <1>5, <2>3, <3>2 DEF mark_definite_failure, Written
  <2>4. CASE effect = "nothing"
    <3>1. s = j.seen
      BY <2>4 DEF resolved
    <3>2. s.reset \in BOOLEAN
      BY <1>1, <3>1 DEF RowType
    <3> QED
      BY <1>2, <1>3, <1>5, <2>4, <3>1, <3>2 DEF Written
  <2> QED
    BY <2>1, <2>2, <2>3, <2>4
<1>8. row' = [row EXCEPT !.st = s.st, !.reset = @ \/ s.reset]
  BY DEF Resolving, Store
<1> HIDE DEF s, e
<1>9. /\ row' \in RowType /\ row'.gen = row.gen /\ row'.confirmed = row.confirmed
      /\ row'.st = s.st
  BY <1>1, <1>6, <1>7, <1>8 DEF RowType
<1>10. \A x \in Helper : row'.st[x] = IF x = h THEN e ELSE row.st[x]
  BY <1>2, <1>5, <1>7, <1>9
<1> QED
  BY <1>2, <1>3, <1>4, <1>6, <1>7, <1>9, <1>10 DEF e, RowResolved

\* Applying the outcome of the first post of the wave.
LEMMA ResolveSteps ==
  ASSUME ShareInv, NEW t \in Deliverer, resolve_delivery_attempt(t)
  PROVE  Steps
<1> DEFINE j == job[t]
           h == job[t].h
           effect == Effect(job[t].out[job[t].h])
<1>1. /\ t \in Task /\ t \notin Tracker /\ j \in JobType /\ j.pc = "resolve"
      /\ Busy(j) /\ j.wave \in Seq(Helper) /\ j.wave # <<>> /\ h \in Helper
      /\ Works(t, j, row, net, held) /\ faults \in 0..MaxFaults
      /\ j.out \in [Helper -> Outcomes] /\ Owns(t, j)
  BY JobTyped, ShareAssumption DEF Task, Busy, Shape, resolve_delivery_attempt
<1>2. UNCHANGED <<vote, vc, used, world, faults>> /\ faults' = faults
  BY DEF resolve_delivery_attempt
<1>3. CASE Leave(t) /\ UNCHANGED row
  BY <1>1, <1>2, <1>3, Leaves DEF journal
<1>4. CASE Reread(t) /\ UNCHANGED <<row, lock>>
  BY <1>1, <1>2, <1>4, RereadSteps DEF journal
<1>5. CASE /\ j.seen.gen = j.gen /\ same_row(row, j.seen)
           /\ Store(row, resolved(j.seen, h, effect, FALSE))
           /\ Goto(t, [j EXCEPT !.pc = IF Len(j.wave) = 1 THEN "wave" ELSE "post",
                         !.wave = Tail(@), !.out[j.h] = "none",
                         !.acc = IF j.out[j.h] = "accepted"
                                 THEN @ \cup {j.h} ELSE @])
           /\ UNCHANGED lock
  <2> DEFINE pc == IF Len(j.wave) = 1 THEN "wave" ELSE "post"
             o == [j.out EXCEPT ![h] = "none"]
             acc == IF j.out[h] = "accepted" THEN j.acc \cup {h} ELSE j.acc
             e == Written(effect, row.st[h])
             r == [j EXCEPT !.pc = pc, !.wave = Tail(j.wave), !.out = o, !.acc = acc]
  <2>1. effect \in {"Accepted", "Ambiguous", "DefiniteFailure", "nothing"}
        /\ Resolving(t, effect, FALSE)
    BY <1>1, <1>5 DEF Resolving, Effect
  <2>2. /\ row.gen = j.gen /\ row' \in RowType /\ row'.gen = row.gen
        /\ row'.confirmed = row.confirmed /\ e \in Evidence
        /\ row'.st = [row.st EXCEPT ![h] = e]
        /\ \A x \in Helper : row'.st[x] = IF x = h THEN e ELSE row.st[x]
    <3>1. RowResolved(t, effect)
      BY <1>1, <2>1, Resolved
    <3> QED
      BY <3>1 DEF RowResolved
  <2>3. Goto(t, r)
    BY <1>5
  <2>4. Tail(j.wave) \in Seq(Helper) /\ pc \in {"wave", "post"}
        /\ (pc = "post" => Tail(j.wave) # <<>>)
    BY <1>1, Waves
  <2>5. /\ o \in [Helper -> Outcomes] /\ acc \in SUBSET Helper
        /\ \A x \in Helper : o[x] = IF x = h THEN "none" ELSE j.out[x]
    <3>1. j.acc \in SUBSET Helper
      BY <1>1 DEF JobType
    <3> QED
      BY <1>1, <3>1 DEF Outcomes
  <2>6. pc = "wave" => ToSet(Tail(j.wave)) = {}
    BY <1>1, SMT DEF ToSet
  <2> HIDE DEF pc, o, acc, e
  <2>7. /\ r \in JobType /\ r.pc = pc /\ r.gen = j.gen /\ r.out = o
        /\ r.wave = Tail(j.wave)
    BY <1>1, <2>4, <2>5 DEF JobType, Pcs
  <2> HIDE DEF r
  <2>8. Delivers(t, j, row, net, held)
    BY <1>1, <2>2 DEF Works
  <2>9. h = Head(j.wave) /\ Joined(j) /\ Attempt(t, j, h, row, net, held)
    BY <1>1, <2>8, Waves, SMT DEF Delivers
  <2>10. /\ Distinct(j.wave) /\ Distinct(Tail(j.wave)) /\ h \notin ToSet(Tail(j.wave))
         /\ ToSet(Tail(j.wave)) \subseteq ToSet(j.wave)
         /\ ToSet(j.wave) \subseteq ToSet(Tail(j.wave)) \cup {h}
         /\ ToSet(j.wave) \subseteq Helper
    BY <1>1, <2>8, <2>9, Waves, SMT DEF Delivers
  <2>11. \/ row.st[h] = "attempting" /\ e = "none" /\ <<h, row.gen>> \notin Reach
         \/ row.st[h] = "attempting" /\ e = "unknown"
         \/ /\ row.st[h] \in {"attempting", "unknown"} /\ e = "accepted"
            /\ h \in Faulty \/ <<h, row.gen>> \in held
    <3>1. row.st[h] = "attempting" /\ j.out[h] \notin {"queued", "sent", "stale"}
      BY <1>1, <2>9 DEF Attempt, Joined
    <3>2. CASE j.out[h] = "accepted"
      BY <1>1, <2>2, <3>1, <3>2 DEF Owns, Effect, Written, e
    <3>3. CASE j.out[h] = "ambiguous"
      BY <3>1, <3>3 DEF Effect, Written, e
    <3>4. CASE j.out[h] \notin {"accepted", "ambiguous"}
      <4>1. j.out[h] \in {"none", "failed", "cancelled"}
        BY <1>1, <3>1, <3>4 DEF Outcomes
      <4>2. NotAsked(j, h, net, held)
        BY <2>9, <4>1 DEF Attempt
      <4>3. <<h, row.gen>> \notin Reach
        BY <1>1, <2>2, <4>2, SMT DEF NotAsked, Reach, ShareInv, TypeOK
      <4> QED
        BY <3>1, <3>4, <4>3 DEF Effect, Written, e
    <3> QED
      BY <3>2, <3>3, <3>4
  <2>12. Delivers(t, r, row', net, held)
    <3>1. ASSUME NEW x \in ToSet(r.wave) PROVE Attempt(t, r, x, row', net, held)
      <4>1. x \in Helper /\ x # h /\ Attempt(t, j, x, row, net, held)
        BY <2>7, <2>8, <2>10 DEF Delivers
      <4>2. r.out[x] = j.out[x] /\ row'.st[x] = row.st[x]
        BY <2>2, <2>5, <2>7, <4>1
      <4> QED
        BY <2>7, <4>1, <4>2 DEF Attempt, NotAsked, Alone
    <3>2. ~ row.confirmed
      BY <1>1, <2>8 DEF Delivers
    <3>3. ASSUME NEW x \in Helper, r.out[x] # "none"
          PROVE  x \in ToSet(r.wave) /\ r.pc \in {"post", "resolve"}
      <4>1. x # h /\ j.out[x] # "none"
        BY <2>5, <2>7, <3>3
      <4>2. x \in ToSet(r.wave)
        BY <2>7, <2>8, <2>10, <4>1 DEF Delivers
      <4> QED
        BY <2>4, <2>6, <2>7, <4>2
    <3>4. r.pc # "resolve"
      BY <2>4, <2>7
    <3> QED
      BY <2>2, <2>7, <2>10, <3>1, <3>2, <3>3, <3>4 DEF Delivers
  <2>13. Works(t, r, row', net, held) /\ Shape(t, r) /\ Busy(r) /\ r.pc # "confirm"
    BY <1>1, <2>4, <2>7, <2>12 DEF Works, Shape, Busy
  <2>14. UNCHANGED <<vote, vc, used, lock, world, faults>>
    BY <1>2, <1>5
  <2>15. \A x \in Helper : r.out[x] = "accepted" => job[t].out[x] = "accepted"
    BY <2>5, <2>7
  <2> QED
    BY <1>1, <2>2, <2>3, <2>7, <2>11, <2>13, <2>14, <2>15, WritesAndGoes, SMT
<1> QED
  BY <1>3, <1>4, <1>5 DEF resolve_delivery_attempt

\* The outcomes of a wave are applied when all its posts have ended.
LEMMA ApplyReadSteps ==
  ASSUME ShareInv, NEW t \in Deliverer, apply_read(t)
  PROVE  Steps
<1> DEFINE j == job[t]
           h == Head(job[t].wave)
           r == [j EXCEPT !.pc = "resolve", !.h = h, !.seen = row]
<1>1. /\ t \in Task /\ j \in JobType /\ row \in RowType /\ faults \in 0..MaxFaults
      /\ j.pc = "post" /\ Busy(j) /\ j.wave \in Seq(Helper) /\ j.wave # <<>>
      /\ Joined(j)
  BY JobTyped DEF Task, Busy, Shape, apply_read
<1>2. h \in Helper
  BY <1>1, Waves
<1>3. CASE Leave(t)
  BY <1>1, <1>3, Leaves DEF apply_read
<1>4. CASE Goto(t, r) /\ UNCHANGED lock
  <2>1. /\ r \in JobType /\ r.pc = "resolve" /\ r.h = h /\ r.gen = j.gen
        /\ r.out = j.out /\ r.wave = j.wave
    BY <1>1, <1>2 DEF JobType, Pcs
  <2>2. Goto(t, r) /\ UNCHANGED <<journal, lock, world, faults>>
    BY <1>4 DEF apply_read
  <2> HIDE DEF r
  <2>3. Delivers(t, j, row, net, held) => Delivers(t, r, row, net, held)
    BY <1>1, <2>1 DEF Delivers, Attempt, NotAsked, Alone, Joined
  <2> QED
    BY <1>1, <1>2, <2>1, <2>2, <2>3, DeliveryGoes
<1> QED
  BY <1>3, <1>4 DEF apply_read

\* An operation gets the lock and starts.
LEMMA Locks ==
  ASSUME ShareInv, NEW t \in Task, NEW r \in JobType, lock = NoTask, lock' = t,
         Goto(t, r), UNCHANGED <<journal, world>>, faults' = faults,
         Busy(r), r.pc # "confirm", r.gen \in used, r.gen = vote => row.gen = vote,
         \A h \in Helper : r.out[h] = "none",
         Shape(t, r), Works(t, r, row, net, held)
  PROVE  Steps
<1>1. vote' = vote /\ used' = used /\ row' = row /\ held' = held
      /\ faults' \in 0..MaxFaults /\ lock' \in Task \cup {NoTask}
  BY DEF journal, world, ShareInv, TypeOK
<1>2. Owns(t, r)' /\ r.pc # "idle"
  BY <1>1 DEF Owns, Busy
<1>3. /\ Shape(t, Tidy(r)) /\ Owns(t, Tidy(r))'
      /\ Works(t, Tidy(r), row, net, held) /\ Tidy(r) \in JobType
  BY <1>2, TidyKeeps, Tidied
<1> QED
  BY <1>1, <1>3, JobStep DEF Goto

\* A delivery that gets the lock starts with no reservation of its own.
LEMMA LockSteps ==
  ASSUME ShareInv, NEW t \in Deliverer, lock_delivery(t)
  PROVE  Steps
<1> DEFINE j == job[t]
           acc == In(row, "accepted")
           left == In(row, "none")
           goal == Least(Target, Cardinality(acc) + Cardinality(left))
           r == [j EXCEPT !.pc = "wave", !.acc = acc, !.left = left, !.goal = goal]
<1>1. /\ t \in Task /\ t \notin Tracker /\ j \in JobType /\ faults \in 0..MaxFaults
      /\ j.pc = "prepared" /\ Shape(t, j) /\ Owns(t, j) /\ lock = NoTask
  BY JobTyped, ShareAssumption DEF Task, lock_delivery, LockFree
<1>2. UNCHANGED <<journal, world>> /\ faults' = faults
  BY DEF lock_delivery
<1>3. CASE Leave(t)
  BY <1>1, <1>2, <1>3, Leaves
<1>4. CASE Goto(t, r) /\ lock' = t
  <2>1. acc \in SUBSET Helper /\ left \in SUBSET Helper
    BY DEF In
  <2> HIDE DEF acc, left
  <2>2. goal \in Nat
    <3>1. Cardinality(acc) \in Nat /\ Cardinality(left) \in Nat
      BY <2>1, Counts
    <3>2. Target \in Nat
      <4>1. Cardinality(Helper) \in Nat
        BY Counts
      <4> QED
        BY <4>1, ShareAssumption, SMT
    <3> QED
      BY <3>1, <3>2, SMT DEF Least
  <2> HIDE DEF goal
  <2>3. /\ r \in JobType /\ r.pc = "wave" /\ r.gen = j.gen
        /\ r.out = j.out /\ r.wave = j.wave
    BY <1>1, <2>1, <2>2 DEF JobType, Pcs
  <2>4. r.wave = <<>> /\ \A h \in Helper : r.out[h] = "none"
    BY <1>1, <2>3 DEF Shape
  <2>5. Goto(t, r)
    BY <1>4
  <2> HIDE DEF r
  <2>6. Shape(t, r) /\ Works(t, r, row, net, held)
    BY <1>1, <2>3, <2>4, SMT DEF Shape, Works, Delivers, Distinct, ToSet
  <2>7. Busy(r) /\ r.pc # "confirm" /\ r.gen \in used /\ (r.gen = vote => row.gen = vote)
    BY <1>1, <2>3 DEF Owns, Busy
  <2> QED
    BY <1>1, <1>2, <1>4, <2>3, <2>4, <2>5, <2>6, <2>7, Locks
<1> QED
  BY <1>3, <1>4 DEF lock_delivery, load_current_delivery_state

\* Preparing a delivery opens the row of a generation nobody was asked to take,
\* or raises the target of the row in place under whoever works on it.
LEMMA PrepareSteps ==
  ASSUME ShareInv, NEW t \in Deliverer, prepare_committed_share_delivery(t)
  PROVE  Steps
<1> DEFINE target == raised_target(row.target)
<1>1. /\ t \in Task /\ t \notin Tracker /\ row \in RowType /\ job \in [Task -> JobType]
      /\ job[t] = Idle /\ job[t] \in JobType /\ vote \in used /\ vote \in Gen
      /\ vote # NoGen /\ row.gen \in {NoGen, vote}
      /\ JournalInv
  <2>1. /\ t \in Task /\ t \notin Tracker /\ job[t].pc = "idle" /\ vote # NoGen
        /\ row.gen \in {NoGen, vote}
    BY ShareAssumption DEF Task, prepare_committed_share_delivery
  <2>2. job[t] = Idle
    BY <2>1, JobTyped DEF Shape
  <2>3. JournalInv /\ vote \in used /\ used \subseteq Gen
    BY <2>1 DEF ShareInv, JournalInv, TypeOK
  <2> QED
    BY <2>1, <2>2, <2>3, JobTyped
<1>2. [Idle EXCEPT !.pc = "prepared", !.gen = vote] \in JobType
  BY <1>1 DEF JobType, Pcs
<1> PICK j \in JobType : j = [Idle EXCEPT !.pc = "prepared", !.gen = vote]
  BY <1>2
<1>3. /\ job' = [job EXCEPT ![t] = Tidy(j)]
      /\ row' = [row EXCEPT !.gen = vote, !.target = target]
      /\ vote' = vote /\ vc' = vc /\ used' = used /\ lock' = lock /\ net' = net
      /\ held' = held /\ revealed' = revealed /\ clock' = clock /\ faults' = faults
  BY DEF prepare_committed_share_delivery, Goto, world
<1>4. target \in 0..Cardinality(Helper)
  BY <1>1, Counts DEF RowType
<1> HIDE DEF target
<1>5. /\ row' \in RowType /\ row'.gen = vote /\ row'.st = row.st
      /\ row'.confirmed = row.confirmed
  BY <1>1, <1>3, <1>4 DEF RowType
<1>6. /\ j \in JobType /\ j.pc = "prepared" /\ j.gen = vote /\ j.wave = Idle.wave
      /\ j.out = Idle.out
  BY <1>1, SMT DEF JobType, Pcs
<1>7. Idle.wave = <<>> /\ Idle.out = [h \in Helper |-> "none"]
  BY DEF Idle
<1>8. Shape(t, j) /\ Owns(t, j)' /\ Works(t, j, row', net, held)
  BY <1>1, <1>3, <1>5, <1>6, <1>7, SMT DEF Shape, Owns, Works, Busy
<1>9. /\ Shape(t, Tidy(j)) /\ Owns(t, Tidy(j))' /\ Works(t, Tidy(j), row', net, held)
      /\ Tidy(j) \in JobType
  <2>1. j.pc # "idle"
    BY <1>6
  <2> QED
    BY <1>1, <1>6, <1>8, <2>1, TidyKeeps, Tidied
<1>10. ASSUME NEW u \in Task
       PROVE  Shape(u, job[u])' /\ Owns(u, job[u])' /\ Works(u, job[u], row, net, held)'
  <2>1. CASE u = t
    BY <1>1, <1>3, <1>9, <2>1
  <2>2. CASE u # t
    <3>1. job'[u] = job[u]
      BY <1>1, <1>3, <2>2
    <3>2. Shape(u, job[u]) /\ Owns(u, job[u]) /\ Works(u, job[u], row, net, held)
      BY JobTyped
    <3>3. Shape(u, job[u])'
      BY <3>1, <3>2 DEF Shape
    <3>4. Owns(u, job[u])'
      BY <1>3, <1>5, <3>1, <3>2, SMT DEF Owns
    <3>5. ASSUME Busy(job[u]), job[u].gen = row'.gen PROVE job[u].gen = row.gen
      BY <1>5, <3>2, <3>5 DEF Owns, Busy
    <3>6. Delivers(u, job[u], row, net, held) => Delivers(u, job[u], row', net, held)
      BY <1>5 DEF Delivers, Attempt
    <3>7. Tracks(u, job[u], row, net, held) => Tracks(u, job[u], row', net, held)
      BY <1>5 DEF Tracks, Attempt
    <3>8. Works(u, job[u], row', net, held)
      BY <3>2, <3>5, <3>6, <3>7 DEF Works
    <3> QED
      BY <1>3, <3>1, <3>3, <3>4, <3>8
  <2> QED
    BY <2>1, <2>2
<1>11. Reach' = Reach /\ (row.gen = NoGen => \A h : <<h, vote>> \notin Reach)
  <2>1. Reach' = Reach
    BY <1>3 DEF Reach
  <2>2. ASSUME row.gen = NoGen, NEW h, <<h, vote>> \in Reach PROVE FALSE
    BY <1>1, <2>2 DEF JournalInv
  <2> QED
    BY <2>1, <2>2
<1>12. row.gen = NoGen => ~ row.confirmed /\ \A h \in Helper : row.st[h] = "none"
  BY <1>1, SMT DEF JournalInv, Absent
<1>13. JournalInv'
  <2>1. NothingForgotten' /\ AcceptedIsHeld' /\ ConfirmedIsRevealed'
    BY <1>1, <1>3, <1>5, <1>11, <1>12, SMT DEF JournalInv, NothingForgotten,
       AcceptedIsHeld, ConfirmedIsRevealed
  <2> QED
    BY <1>1, <1>3, <1>5, <1>11, <2>1 DEF JournalInv
<1>14. TypeOK'
  <2>1. job' \in [Task -> JobType]
    BY <1>1, <1>3, <1>9
  <2> QED
    BY <1>3, <1>5, <2>1 DEF ShareInv, TypeOK
<1>15. [Ledger!LedgerNext]_(Ledger!ledgerVars)
  <2>1. CASE row.gen = NoGen
    BY <1>1, <1>3, <1>5, <1>11, <2>1 DEF Ledger!LedgerNext, Ledger!Open
  <2>2. CASE row.gen = vote
    BY <1>3, <1>5, <1>11, <2>2 DEF Ledger!ledgerVars
  <2> QED
    BY <1>1, <2>1, <2>2
<1> QED
  BY <1>3, <1>10, <1>13, <1>14, <1>15 DEF Steps, ShareInv

\* The holder of the lock sends a request; the journal of a row in place says so
\* already.
LEMMA Asks ==
  ASSUME ShareInv, NEW t \in Task, NEW r \in JobType, NEW h \in Helper,
         Goto(t, r), UNCHANGED <<journal, lock, held, revealed, clock, faults>>,
         net' = net \cup {[h |-> h, g |-> job[t].gen, by |-> t]},
         Busy(job[t]), Busy(r), r.pc # "confirm", r.gen = job[t].gen,
         \A x \in Helper : r.out[x] = "accepted" => job[t].out[x] = "accepted",
         row.gen = job[t].gen => row.st[h] # "none" /\ ~ row.confirmed,
         Shape(t, r), Works(t, r, row, net', held)
  PROVE  Steps
<1> DEFINE g == job[t].gen
<1>1. r.pc # "idle" /\ job[t].pc # "idle"
  BY DEF Busy
<1>2. /\ vote' = vote /\ vc' = vc /\ used' = used /\ row' = row /\ held' = held
      /\ lock' = lock /\ revealed' = revealed /\ clock' = clock /\ faults' = faults
  BY DEF journal
<1>3. Owns(t, job[t]) /\ used \subseteq Gen /\ JournalInv
  BY DEF ShareInv, TypeOK
<1>4. Owns(t, r)' /\ lock = t /\ g \in used /\ (g = vote => row.gen = vote)
  BY <1>1, <1>2, <1>3 DEF Owns
<1>5. /\ Shape(t, Tidy(r)) /\ Owns(t, Tidy(r))' /\ Works(t, Tidy(r), row', net', held')
      /\ Tidy(r) \in JobType
  <2>1. Works(t, Tidy(r), row, net', held)
    BY <1>1, TidyKeeps
  <2> QED
    BY <1>1, <1>2, <1>4, <2>1, TidyKeeps, Tidied
<1>6. Reach' = Reach \cup {<<h, g>>}
  <2> DEFINE m0 == [h |-> h, g |-> g, by |-> t]
  <2>1. m0.h = h /\ m0.g = g /\ net' = net \cup {m0}
    OBVIOUS
  <2> HIDE DEF m0, g
  <2>2. \A p : p \in Reach' <=> p \in Reach \/ p = <<h, g>>
    BY <1>2, <2>1 DEF Reach
  <2> QED
    BY <2>2
<1>7. JournalInv'
  <2>1. NothingForgotten' /\ AcceptedIsHeld' /\ ConfirmedIsRevealed'
    BY <1>2, <1>3, <1>6 DEF JournalInv, NothingForgotten, AcceptedIsHeld,
                            ConfirmedIsRevealed
  <2> QED
    BY <1>2, <1>3, <1>4, <1>6, <2>1, SMT DEF JournalInv
<1>8. /\ row' \in RowType /\ faults' \in 0..MaxFaults /\ lock' \in Task \cup {NoTask}
      /\ net' \subseteq [h : Helper, g : Gen, by : Task \cup {NoTask}]
  BY <1>2, <1>3, <1>4, SMT DEF ShareInv, TypeOK
<1>9. ShareInv'
  BY <1>2, <1>4, <1>5, <1>7, <1>8, TaskStep DEF Goto
<1>10. [Ledger!LedgerNext]_(Ledger!ledgerVars)
  BY <1>2, <1>3, <1>4, <1>6 DEF Ledger!LedgerNext, Ledger!Ask
<1>11. \A m \in net' \ net : m.by # NoTask /\ m.g = row.gen => ~ row.confirmed
  BY SMT
<1> QED
  BY <1>9, <1>10, <1>11 DEF Steps

\* A request to one helper is nothing to the attempts at the others.
LEMMA OtherAttempts ==
  ASSUME NEW t, NEW j \in JobType, NEW r \in JobType, NEW h \in Helper,
         NEW x \in Helper, NEW w, NEW n, NEW hd,
         x # h, r.gen = j.gen, r.out[x] = j.out[x], Attempt(t, j, x, w, n, hd)
  PROVE  Attempt(t, r, x, w, n \cup {[h |-> h, g |-> j.gen, by |-> t]}, hd)
<1> DEFINE m0 == [h |-> h, g |-> j.gen, by |-> t]
<1>1. m0.h # x
  OBVIOUS
<1> HIDE DEF m0
<1>2. \A m \in n \cup {m0} : m.h = x => m \in n
  BY <1>1
<1> QED
  BY <1>2 DEF Attempt, NotAsked, Alone, m0

\* A post of a wave goes out only over its reservation.
LEMMA PostSteps ==
  ASSUME ShareInv, NEW t \in Deliverer, NEW h \in Helper, post_share(t, h)
  PROVE  Steps
<1> DEFINE j == job[t]
           m0 == [h |-> h, g |-> j.gen, by |-> t]
<1>1. /\ t \in Task /\ t \notin Tracker /\ j \in JobType /\ j.out \in [Helper -> Outcomes]
      /\ j.pc = "post" /\ j.out[h] = "queued" /\ Busy(j) /\ j.wave # <<>>
      /\ j.wave \in Seq(Helper) /\ Works(t, j, row, net, held)
  BY JobTyped, ShareAssumption DEF Task, Busy, Shape, post_share
<1>2. UNCHANGED <<journal, lock, held, revealed, clock, faults>>
  BY DEF post_share
<1>3. CASE /\ ~ (row.gen = j.gen /\ row.st[h] = "attempting")
           /\ Goto(t, [j EXCEPT !.out[h] = "stale"]) /\ UNCHANGED net
  BY <1>1, <1>2, <1>3, UnsentSteps DEF world
<1>4. CASE /\ row.gen = j.gen /\ row.st[h] = "attempting" /\ net' = net \cup {m0}
           /\ Goto(t, [j EXCEPT !.out[h] = "sent"])
  <2> DEFINE o == [j.out EXCEPT ![h] = "sent"]
             r == [j EXCEPT !.out = o]
  <2>1. /\ o \in [Helper -> Outcomes]
        /\ \A x \in Helper : o[x] = IF x = h THEN "sent" ELSE j.out[x]
    BY <1>1 DEF Outcomes
  <2>2. Goto(t, r)
    BY <1>4
  <2> HIDE DEF o
  <2>3. /\ r \in JobType /\ r.pc = "post" /\ r.gen = j.gen /\ r.out = o
        /\ r.wave = j.wave
    BY <1>1, <2>1 DEF JobType
  <2> HIDE DEF r
  <2>4. Delivers(t, j, row, net, held)
    BY <1>1, <1>4 DEF Works
  <2>5. Attempt(t, j, h, row, net, held) /\ ~ row.confirmed
    BY <1>1, <2>4 DEF Delivers
  <2>6. NotAsked(j, h, net, held)
    BY <1>1, <2>5 DEF Attempt
  <2>7. Attempt(t, r, h, row, net', held)
    BY <1>4, <2>1, <2>3, <2>6, SMT DEF Attempt, NotAsked, Alone
  <2>8. ASSUME NEW x \in ToSet(r.wave) PROVE Attempt(t, r, x, row, net', held)
    <3>1. x \in Helper /\ Attempt(t, j, x, row, net, held)
      BY <1>1, <2>3, <2>4, Waves DEF Delivers
    <3>2. CASE x # h
      BY <1>1, <1>4, <2>1, <2>3, <3>1, <3>2, OtherAttempts
    <3> QED
      BY <2>7, <3>2
  <2>9. ASSUME NEW x \in Helper, r.out[x] # "none" PROVE j.out[x] # "none"
    BY <1>1, <2>1, <2>3, <2>9
  <2>10. Delivers(t, r, row, net', held)
    <3>1. r.pc \in {"post", "resolve"} /\ r.pc # "resolve"
      BY <2>3
    <3>2. \A x \in Helper : r.out[x] # "none" => x \in ToSet(r.wave)
      BY <2>3, <2>4, <2>9 DEF Delivers
    <3> QED
      BY <2>3, <2>4, <2>5, <2>8, <3>1, <3>2 DEF Delivers
  <2>11. Works(t, r, row, net', held) /\ Shape(t, r) /\ Busy(r) /\ r.pc # "confirm"
    BY <1>1, <2>3, <2>10 DEF Works, Shape, Busy
  <2>12. \A x \in Helper : r.out[x] = "accepted" => job[t].out[x] = "accepted"
    BY <2>1, <2>3
  <2> QED
    BY <1>1, <1>2, <1>4, <2>2, <2>3, <2>5, <2>11, <2>12, Asks
<1> QED
  BY <1>3, <1>4 DEF post_share

\* Every step of an initial delivery.
LEMMA DelivererSteps ==
  ASSUME ShareInv, NEW t \in Deliverer, DelivererStep(t)
  PROVE  Steps
<1>1. t \in Task /\ faults \in 0..MaxFaults
  BY DEF Task, ShareInv, TypeOK
<1>2. CASE cancel_lock_wait(t)
  BY <1>1, <1>2, Leaves DEF cancel_lock_wait
<1>3. CASE end_wave(t)
  BY <1>3, StartPostsSteps DEF end_wave
<1>4. ASSUME NEW h \in Helper, post_capacity_refused(t, h) PROVE Steps
  BY <1>4, UnsentSteps DEF post_capacity_refused
<1> QED
  BY <1>2, <1>3, <1>4, PrepareSteps, LockSteps, BeginSteps, ApplyReadSteps,
     ResolveSteps, ReserveReadSteps, PostSteps DEF DelivererStep

-----------------------------------------------------------------------------
(* Tracking.                                                               *)

\* A pass starts from what the row says, under the lock.
LEMMA WalkSteps ==
  ASSUME ShareInv, NEW t \in Tracker, walk_pending_shares(t)
  PROVE  Steps
<1> DEFINE acc == In(row, "accepted")
           amb == In(row, "unknown")
           intr == In(row, "attempting")
           goal == Least(row.target, Cardinality(Helper))
           pc == IF Ready THEN "poll" ELSE "decide"
           r == [Idle EXCEPT !.pc = pc, !.gen = row.gen, !.goal = goal,
                             !.acc = acc, !.amb = amb, !.intr = intr]
<1>1. /\ t \in Task /\ t \notin Deliverer /\ row \in RowType /\ lock = NoTask
      /\ row.gen # NoGen /\ ~ row.confirmed /\ Idle \in JobType
  <2>1. /\ t \in Task /\ t \notin Deliverer /\ job[t].pc = "idle"
    BY ShareAssumption DEF Task, walk_pending_shares
  <2>2. row \in RowType /\ Idle \in JobType
    BY <2>1, JobTyped DEF Shape
  <2> QED
    BY <2>1, <2>2 DEF walk_pending_shares, LockFree
<1>2. /\ Goto(t, r) /\ lock' = t /\ UNCHANGED <<journal, world>> /\ faults' = faults
  BY DEF walk_pending_shares
<1>3. /\ acc \in SUBSET Helper /\ amb \in SUBSET Helper /\ intr \in SUBSET Helper
      /\ \A h \in acc : row.st[h] = "accepted"
      /\ \A h \in amb \cup intr : row.st[h] # "none"
  BY DEF In
<1>4. goal \in Nat /\ pc \in {"poll", "decide"}
  <2>1. Cardinality(Helper) \in Nat
    BY Counts
  <2>2. row.target \in 0..Cardinality(Helper)
    BY <1>1 DEF RowType
  <2> QED
    BY <2>1, <2>2, SMT DEF Least
<1>5. row.gen \in Gen \cup {NoGen}
  BY <1>1 DEF RowType
<1> HIDE DEF acc, amb, intr, goal, pc
<1>6. /\ r \in JobType /\ r.pc = pc /\ r.gen = row.gen /\ r.acc = acc /\ r.amb = amb
      /\ r.intr = intr /\ r.out = Idle.out
  BY <1>1, <1>3, <1>4, <1>5 DEF JobType, Pcs
<1> HIDE DEF r
<1>7. \A h \in Helper : r.out[h] = "none"
  BY <1>6 DEF Idle
<1>8. Shape(t, r) /\ Busy(r) /\ r.pc # "confirm"
  BY <1>1, <1>4, <1>6 DEF Shape, Busy
<1>9. Works(t, r, row, net, held)
  BY <1>1, <1>3, <1>4, <1>6, <1>7 DEF Works, Tracks
<1>10. r.gen \in used /\ (r.gen = vote => row.gen = vote)
  BY <1>1, <1>6 DEF ShareInv, JournalInv
<1> QED
  BY <1>1, <1>2, <1>6, <1>7, <1>8, <1>9, <1>10, Locks

\* Going on without an outcome, and without a helper in hand.
LEMMA PassesOn ==
  ASSUME ShareInv, NEW t \in Tracker, NEW r \in JobType,
         Goto(t, r), UNCHANGED <<journal, lock, world, faults>>,
         Busy(job[t]), job[t].pc \notin {"settle", "resolve"},
         r.pc \in {"poll", "decide", "call", "pick", "reserve"},
         r.pc = "reserve" => r.h \in Helper,
         r.gen = job[t].gen, r.out = job[t].out, r.acc = job[t].acc,
         r.amb = job[t].amb, r.intr = job[t].intr
  PROVE  Steps
<1>1. Tracks(t, job[t], row, net, held) => Tracks(t, r, row, net, held)
  BY DEF Tracks
<1> QED
  BY <1>1, TrackingGoes

\* A poll that ends without a quorum leads to a decision, one with a quorum to
\* the mark: helpers that misreport are no quorum, so the reveal is public.
LEMMA PollSteps ==
  ASSUME ShareInv, NEW t \in Tracker, poll_share_helpers(t)
  PROVE  Steps
<1> DEFINE j == job[t]
           r1 == [j EXCEPT !.pc = "confirm"]
           r2 == [j EXCEPT !.pc = "decide"]
<1>1. /\ t \in Task /\ t \notin Deliverer /\ j \in JobType /\ j.pc = "poll" /\ Busy(j)
      /\ Works(t, j, row, net, held)
  BY JobTyped, ShareAssumption DEF Task, Busy, poll_share_helpers
<1>2. UNCHANGED <<journal, lock, world, faults>>
  BY DEF poll_share_helpers
<1>3. CASE Cardinality(Confirming(j.gen)) >= Quorum /\ Goto(t, r1)
  <2>1. /\ r1 \in JobType /\ r1.pc = "confirm" /\ r1.gen = j.gen /\ r1.acc = j.acc
        /\ r1.amb = j.amb /\ r1.intr = j.intr /\ r1.out = j.out
    BY <1>1 DEF JobType, Pcs
  <2>2. j.gen \in revealed
    <3> SUFFICES ASSUME j.gen \notin revealed PROVE FALSE
      OBVIOUS
    <3>1. Confirming(j.gen) = Faulty
      BY ShareAssumption DEF Confirming
    <3>2. /\ Cardinality(Faulty) \in Nat /\ Cardinality(Helper) \in Nat
          /\ Cardinality(Faulty) < Quorum /\ Cardinality(Faulty) >= Quorum
      BY <1>3, <3>1, Counts, ShareAssumption, QuorumAssumption DEF Quorum
    <3> QED
      BY <3>2, SMT DEF Quorum, Least
  <2>3. Goto(t, r1)
    BY <1>3
  <2> HIDE DEF r1
  <2>4. Tracks(t, j, row, net, held) => Tracks(t, r1, row, net, held)
    BY <1>1, <2>1 DEF Tracks
  <2>5. Works(t, r1, row, net, held) /\ Shape(t, r1) /\ Busy(r1)
    BY <1>1, <2>1, <2>4 DEF Works, Shape, Busy
  <2> QED
    BY <1>1, <1>2, <2>1, <2>2, <2>3, <2>5, Goes
<1>4. CASE Goto(t, r2)
  <2>1. /\ r2 \in JobType /\ r2.pc = "decide" /\ r2.gen = j.gen /\ r2.acc = j.acc
        /\ r2.amb = j.amb /\ r2.intr = j.intr /\ r2.out = j.out
    BY <1>1 DEF JobType, Pcs
  <2>2. Goto(t, r2)
    BY <1>4
  <2> HIDE DEF r2
  <2> QED
    BY <1>1, <1>2, <2>1, <2>2, PassesOn
<1> QED
  BY <1>3, <1>4 DEF poll_share_helpers

\* The row of the polled generation is marked, and no other.
LEMMA ConfirmSteps ==
  ASSUME ShareInv, NEW t \in Tracker, mark_share_confirmed(t)
  PROVE  Steps
<1>1. /\ t \in Task /\ row \in RowType /\ faults \in 0..MaxFaults /\ Owns(t, job[t])
      /\ job[t].pc = "confirm" /\ used \subseteq Gen /\ JournalInv
  BY JobTyped DEF Task, mark_share_confirmed, ShareInv, TypeOK
<1>2. lock = t /\ job[t].gen \in revealed /\ job[t].gen \in used
  BY <1>1 DEF Owns, Busy
<1>3. /\ vote' = vote /\ vc' = vc /\ used' = used /\ net' = net /\ held' = held
      /\ revealed' = revealed /\ clock' = clock /\ faults' = faults /\ Leave(t)
      /\ UNCHANGED world
  BY DEF mark_share_confirmed, world
<1>4. CASE row.gen # job[t].gen
  <2>1. row' = row
    BY <1>4 DEF mark_share_confirmed
  <2> QED
    BY <1>1, <1>3, <2>1, Leaves DEF journal
<1>5. CASE row.gen = job[t].gen
  <2>1. row' = [row EXCEPT !.confirmed = TRUE]
    BY <1>5 DEF mark_share_confirmed
  <2>2. /\ row' \in RowType /\ row'.gen = row.gen /\ row'.st = row.st
        /\ row'.confirmed = TRUE
    BY <1>1, <2>1 DEF RowType
  <2>3. Reach' = Reach /\ row.gen # NoGen
    BY <1>1, <1>2, <1>3, <1>5, ShareAssumption DEF Reach
  <2>4. JournalInv'
    BY <1>1, <1>2, <1>3, <1>5, <2>2, <2>3 DEF JournalInv, NothingForgotten,
       AcceptedIsHeld, ConfirmedIsRevealed
  <2>5. /\ Idle \in JobType /\ Shape(t, Idle) /\ Owns(t, Idle)'
        /\ Works(t, Idle, row', net', held')
    BY IdleSound, <1>1 DEF Task
  <2>6. /\ net' \subseteq [h : Helper, g : Gen, by : Task \cup {NoTask}]
        /\ faults' \in 0..MaxFaults /\ lock' \in Task \cup {NoTask}
        /\ job' = [job EXCEPT ![t] = Idle]
    BY <1>3 DEF ShareInv, TypeOK, Leave
  <2>7. ShareInv'
    BY <1>1, <1>2, <1>3, <2>2, <2>4, <2>5, <2>6, TaskStep
  <2>8. [Ledger!LedgerNext]_(Ledger!ledgerVars)
    BY <1>2, <1>3, <1>5, <2>2, <2>3 DEF Ledger!LedgerNext, Ledger!Confirm
  <2> QED
    BY <1>3, <2>7, <2>8 DEF Steps
<1> QED
  BY <1>4, <1>5

\* Deciding on recovery and loading its material.
LEMMA DecideSteps ==
  ASSUME ShareInv, NEW t \in Tracker, decide_recovery(t) \/ recovery_material(t)
  PROVE  Steps
<1> DEFINE j == job[t]
           under == Cardinality(j.acc) < j.goal
           r1 == [j EXCEPT !.pc = "call", !.over = Overdue,
                           !.full = Overdue \/ under, !.left = Helper]
           r2 == [j EXCEPT !.pc = "pick", !.cap = FALSE]
<1>1. /\ t \in Task /\ j \in JobType /\ j.pc \in {"decide", "call"} /\ Busy(j)
      /\ faults \in 0..MaxFaults
  BY JobTyped DEF Task, Busy, decide_recovery, recovery_material
<1>2. UNCHANGED <<journal, world, faults>> /\ faults' = faults
  BY DEF decide_recovery, recovery_material
<1>3. CASE Leave(t)
  BY <1>1, <1>2, <1>3, Leaves
<1>4. CASE Goto(t, r1) /\ UNCHANGED lock
  <2>1. Overdue \in BOOLEAN /\ (Overdue \/ under) \in BOOLEAN /\ Helper \in SUBSET Helper
    BY DEF Overdue
  <2>2. /\ r1 \in JobType /\ r1.pc = "call" /\ r1.gen = j.gen /\ r1.acc = j.acc
        /\ r1.amb = j.amb /\ r1.intr = j.intr /\ r1.out = j.out
    BY <1>1, <2>1, ZenonT(60) DEF JobType, Pcs
  <2>3. Goto(t, r1) /\ UNCHANGED <<journal, lock, world, faults>>
    BY <1>2, <1>4
  <2> HIDE DEF r1
  <2> QED
    BY <1>1, <2>2, <2>3, PassesOn
<1>5. CASE Goto(t, r2) /\ UNCHANGED lock
  <2>1. /\ r2 \in JobType /\ r2.pc = "pick" /\ r2.gen = j.gen /\ r2.acc = j.acc
        /\ r2.amb = j.amb /\ r2.intr = j.intr /\ r2.out = j.out
    BY <1>1 DEF JobType, Pcs
  <2>2. Goto(t, r2) /\ UNCHANGED <<journal, lock, world, faults>>
    BY <1>2, <1>5
  <2> HIDE DEF r2
  <2> QED
    BY <1>1, <2>1, <2>2, PassesOn
<1> QED
  BY <1>3, <1>4, <1>5 DEF decide_recovery, recovery_material

\* Choosing the next helper: a fresh one has to be reserved, another has
\* evidence already.
LEMMA NextHelperSteps ==
  ASSUME ShareInv, NEW t \in Tracker, NEW h \in Helper, next_helper(t, h)
  PROVE  Steps
<1> DEFINE k == [job[t] EXCEPT !.left = @ \ {h}, !.h = h]
           pc == IF row.confirmed THEN "pick" ELSE "dispatch"
           r1 == [k EXCEPT !.pc = "reserve", !.seen = row]
           r3 == [k EXCEPT !.pc = pc]
<1>1. /\ t \in Task /\ job[t] \in JobType /\ job[t].pc = "pick" /\ Busy(job[t])
      /\ faults \in 0..MaxFaults /\ row \in RowType
  BY JobTyped DEF Task, Busy, next_helper
<1>2. UNCHANGED <<journal, world, faults>> /\ faults' = faults
  BY DEF next_helper
<1>3. job[t].left \ {h} \in SUBSET Helper /\ pc \in {"pick", "dispatch"}
  BY <1>1 DEF JobType
<1>4. /\ k \in JobType /\ k.pc = "pick" /\ k.h = h /\ k.gen = job[t].gen
      /\ k.acc = job[t].acc /\ k.amb = job[t].amb /\ k.intr = job[t].intr
      /\ k.out = job[t].out
  BY <1>1, <1>3 DEF JobType
<1>5. \/ Goto(t, r1) /\ UNCHANGED lock
      \/ Goto(t, k) /\ UNCHANGED lock
      \/ Goto(t, r3) /\ ~ Fresh(k, h) /\ row.gen = k.gen /\ UNCHANGED lock
      \/ Leave(t)
  BY DEF next_helper
<1> HIDE DEF k, pc
<1>6. CASE Leave(t)
  BY <1>1, <1>2, <1>6, Leaves
<1>7. CASE Goto(t, r1) /\ UNCHANGED lock
  <2>1. /\ r1 \in JobType /\ r1.pc = "reserve" /\ r1.h = h /\ r1.gen = k.gen
        /\ r1.acc = k.acc /\ r1.amb = k.amb /\ r1.intr = k.intr /\ r1.out = k.out
    BY <1>1, <1>4 DEF JobType, Pcs
  <2>2. Goto(t, r1) /\ UNCHANGED <<journal, lock, world, faults>>
    BY <1>2, <1>7
  <2> HIDE DEF r1
  <2> QED
    BY <1>1, <1>4, <2>1, <2>2, PassesOn
<1>8. CASE Goto(t, k) /\ UNCHANGED lock
  <2>1. UNCHANGED <<journal, lock, world, faults>>
    BY <1>2, <1>8
  <2> QED
    BY <1>1, <1>4, <1>8, <2>1, PassesOn
<1>9. CASE Goto(t, r3) /\ ~ Fresh(k, h) /\ row.gen = k.gen /\ UNCHANGED lock
  <2>1. /\ r3 \in JobType /\ r3.pc = pc /\ r3.h = h /\ r3.gen = k.gen
        /\ r3.acc = k.acc /\ r3.amb = k.amb /\ r3.intr = k.intr /\ r3.out = k.out
    BY <1>3, <1>4 DEF JobType, Pcs
  <2>2. Goto(t, r3) /\ UNCHANGED <<journal, lock, world, faults>>
    BY <1>2, <1>9
  <2> HIDE DEF r3
  <2>3. ~ Fresh(r3, r3.h)
    BY <1>9, <2>1 DEF Fresh
  <2>4. Tracks(t, job[t], row, net, held) => Tracks(t, r3, row, net, held)
    BY <1>1, <1>3, <1>4, <2>1, <2>3, SMT DEF Tracks
  <2> QED
    BY <1>1, <1>3, <1>4, <2>1, <2>2, <2>4, TrackingGoes
<1> QED
  BY <1>5, <1>6, <1>7, <1>8, <1>9

\* Reserving a fresh helper for recovery.
LEMMA BeginExistingSteps ==
  ASSUME ShareInv, NEW t \in Tracker, begin_existing_delivery_attempt(t)
  PROVE  Steps
<1> DEFINE j == job[t]
           answer == reservation(j.seen, j.gen, j.h, j.goal, j.over \/ j.intr # {})
           cap == j.cap \/ answer = "PlacementCapacityReached"
           r1 == [j EXCEPT !.pc = "dispatch"]
           r2 == [j EXCEPT !.pc = "pick", !.cap = cap]
<1>1. /\ t \in Task /\ t \notin Deliverer /\ j \in JobType /\ j.pc = "reserve"
      /\ Busy(j) /\ j.h \in Helper /\ Works(t, j, row, net, held)
      /\ faults \in 0..MaxFaults /\ j.out \in [Helper -> Outcomes]
  BY JobTyped, ShareAssumption DEF Task, Busy, Shape, begin_existing_delivery_attempt
<1>2. UNCHANGED <<vote, vc, used, world, faults>> /\ faults' = faults
  BY DEF begin_existing_delivery_attempt
<1>3. CASE /\ answer = "Started" /\ same_row(row, j.seen)
           /\ row' = [row EXCEPT !.st = [j.seen.st EXCEPT ![j.h] = "attempting"]]
           /\ Goto(t, r1) /\ UNCHANGED lock
  <2>1. Starts(t)
    BY <1>1, <1>3 DEF Starts, reservation
  <2>2. /\ row.gen = j.gen /\ row.st[j.h] = "none" /\ ~ row.confirmed
        /\ NotAsked(j, j.h, net, held)
        /\ row' \in RowType /\ row'.gen = row.gen /\ row'.confirmed = row.confirmed
        /\ row'.st = [row.st EXCEPT ![j.h] = "attempting"]
        /\ \A x \in Helper : row'.st[x] = IF x = j.h THEN "attempting" ELSE row.st[x]
    BY <1>1, <2>1, Reserved
  <2>3. /\ r1 \in JobType /\ r1.pc = "dispatch" /\ r1.gen = j.gen /\ r1.h = j.h
        /\ r1.acc = j.acc /\ r1.amb = j.amb /\ r1.intr = j.intr /\ r1.out = j.out
    BY <1>1 DEF JobType, Pcs
  <2>4. Goto(t, r1)
    BY <1>3
  <2> HIDE DEF r1
  <2>5. Tracks(t, j, row, net, held)
    BY <1>1, <2>2 DEF Works
  <2>6. j.acc \subseteq Helper /\ j.amb \subseteq Helper /\ j.intr \subseteq Helper
    BY <1>1 DEF JobType
  <2>7. Attempt(t, r1, j.h, row', net, held)
    BY <1>1, <2>2, <2>3, <2>5, SMT DEF Tracks, Attempt, NotAsked
  <2>8. Tracks(t, r1, row', net, held)
    BY <1>1, <2>2, <2>3, <2>5, <2>6, <2>7, SMT DEF Tracks
  <2>9. Works(t, r1, row', net, held) /\ Shape(t, r1) /\ Busy(r1) /\ r1.pc # "confirm"
    BY <1>1, <2>3, <2>8 DEF Works, Shape, Busy
  <2>10. /\ "attempting" \in Evidence /\ UNCHANGED <<vote, vc, used, lock, world, faults>>
         /\ \A x \in Helper : r1.out[x] = "accepted" => job[t].out[x] = "accepted"
    BY <1>2, <1>3, <2>3 DEF Evidence
  <2> QED
    BY <1>1, <2>2, <2>3, <2>4, <2>9, <2>10, WritesAndGoes
<1>4. CASE Reread(t) /\ UNCHANGED <<row, lock>>
  BY <1>1, <1>2, <1>4, RereadSteps DEF journal
<1>5. CASE Goto(t, r2) /\ UNCHANGED <<row, lock>>
  <2>1. cap \in BOOLEAN
    BY <1>1 DEF JobType
  <2> HIDE DEF cap
  <2>2. /\ r2 \in JobType /\ r2.pc = "pick" /\ r2.gen = j.gen /\ r2.acc = j.acc
        /\ r2.amb = j.amb /\ r2.intr = j.intr /\ r2.out = j.out
    BY <1>1, <2>1 DEF JobType, Pcs
  <2>3. Goto(t, r2) /\ UNCHANGED <<journal, lock, world, faults>>
    BY <1>2, <1>5 DEF journal
  <2> HIDE DEF r2
  <2> QED
    BY <1>1, <2>2, <2>3, PassesOn
<1>6. CASE Leave(t) /\ UNCHANGED row
  BY <1>1, <1>2, <1>6, Leaves DEF journal
<1> QED
  BY <1>3, <1>4, <1>5, <1>6 DEF begin_existing_delivery_attempt

\* A request of a pass goes out to a helper the journal names.
LEMMA ResubmitSteps ==
  ASSUME ShareInv, NEW t \in Tracker, resubmit_share(t)
  PROVE  Steps
<1> DEFINE j == job[t]
           h == job[t].h
           m0 == [h |-> h, g |-> j.gen, by |-> t]
<1>1. /\ t \in Task /\ t \notin Deliverer /\ j \in JobType /\ j.pc = "dispatch"
      /\ Busy(j) /\ h \in Helper /\ Works(t, j, row, net, held)
      /\ j.out \in [Helper -> Outcomes]
  BY JobTyped, ShareAssumption DEF Task, Busy, Shape, resubmit_share
<1>2. UNCHANGED <<journal, lock, held, revealed, clock, faults>>
  BY DEF resubmit_share
<1>3. j.gen = row.gen => Tracks(t, j, row, net, held)
  BY <1>1 DEF Works
<1>4. ASSUME NEW o \in {"sent", "cancelled"},
             NEW r \in JobType, r.pc = "settle", r.h = h, r.gen = j.gen,
             r.acc = j.acc, r.amb = j.amb, r.intr = j.intr,
             \A x \in Helper : r.out[x] = IF x = h THEN o ELSE j.out[x],
             NEW n, o = "sent" => n = net \cup {m0}, o = "cancelled" => n = net,
             Tracks(t, j, row, net, held)
      PROVE  Tracks(t, r, row, n, held)
  <2>1. Fresh(r, h) => Attempt(t, r, h, row, n, held)
    <3> SUFFICES ASSUME Fresh(r, h) PROVE Attempt(t, r, h, row, n, held)
      OBVIOUS
    <3>1. Attempt(t, j, h, row, net, held) /\ j.out[h] = "none"
      BY <1>1, <1>4 DEF Tracks, Fresh
    <3>2. NotAsked(j, h, net, held) /\ row.st[h] = "attempting" /\ r.out[h] = o
      BY <1>1, <1>4, <3>1 DEF Attempt
    <3>3. CASE o = "sent"
      BY <1>4, <3>2, <3>3, SMT DEF Attempt, NotAsked, Alone
    <3>4. CASE o = "cancelled"
      BY <1>4, <3>2, <3>4 DEF Attempt, NotAsked
    <3> QED
      BY <3>3, <3>4
  <2>2. \A x \in Helper : r.out[x] # "none" => x = h
    BY <1>1, <1>4 DEF Tracks
  <2> QED
    BY <1>4, <2>1, <2>2 DEF Tracks
<1>5. ASSUME NEW o \in {"sent", "cancelled"}
      PROVE  \E r \in JobType :
               /\ r = [j EXCEPT !.pc = "settle", !.out[h] = o]
               /\ r.pc = "settle" /\ r.h = h /\ r.gen = j.gen
               /\ r.acc = j.acc /\ r.amb = j.amb /\ r.intr = j.intr
               /\ \A x \in Helper : r.out[x] = IF x = h THEN o ELSE j.out[x]
  <2> DEFINE p == [j.out EXCEPT ![h] = o]
             r == [j EXCEPT !.pc = "settle", !.out = p]
  <2>1. /\ p \in [Helper -> Outcomes]
        /\ \A x \in Helper : p[x] = IF x = h THEN o ELSE j.out[x]
    BY <1>1 DEF Outcomes
  <2>2. r = [j EXCEPT !.pc = "settle", !.out[h] = o]
    BY <1>1 DEF JobType
  <2> HIDE DEF p
  <2>3. /\ r \in JobType /\ r.pc = "settle" /\ r.h = h /\ r.gen = j.gen
        /\ r.acc = j.acc /\ r.amb = j.amb /\ r.intr = j.intr /\ r.out = p
    BY <1>1, <2>1 DEF JobType, Pcs
  <2> HIDE DEF r
  <2> QED
    BY <2>1, <2>2, <2>3
<1>6. CASE /\ net' = net \cup {m0}
           /\ Goto(t, [j EXCEPT !.pc = "settle", !.out[h] = "sent"])
  <2>1. PICK r \in JobType :
          /\ r = [j EXCEPT !.pc = "settle", !.out[h] = "sent"]
          /\ r.pc = "settle" /\ r.h = h /\ r.gen = j.gen
          /\ r.acc = j.acc /\ r.amb = j.amb /\ r.intr = j.intr
          /\ \A x \in Helper : r.out[x] = IF x = h THEN "sent" ELSE j.out[x]
    BY <1>5
  <2>2. Goto(t, r)
    BY <1>6, <2>1
  <2>3. /\ r.pc = "settle" /\ r.h = h /\ r.gen = j.gen
        /\ r.acc = j.acc /\ r.amb = j.amb /\ r.intr = j.intr
        /\ \A x \in Helper : r.out[x] = IF x = h THEN "sent" ELSE j.out[x]
    BY <2>1
  <2>4. j.gen = row.gen => Tracks(t, r, row, net', held)
    BY <1>3, <1>4, <1>6, <2>3
  <2>5. Works(t, r, row, net', held) /\ Shape(t, r) /\ Busy(r) /\ r.pc # "confirm"
    BY <1>1, <2>3, <2>4 DEF Works, Shape, Busy
  <2>6. row.gen = j.gen => row.st[h] # "none" /\ ~ row.confirmed
    BY <1>1, <1>3 DEF Tracks, Fresh, Attempt
  <2>7. \A x \in Helper : r.out[x] = "accepted" => j.out[x] = "accepted"
    BY <2>3
  <2> QED
    BY <1>1, <1>2, <1>6, <2>2, <2>3, <2>5, <2>6, <2>7, Asks
<1>7. CASE /\ UNCHANGED net
           /\ Goto(t, [j EXCEPT !.pc = "settle", !.out[h] = "cancelled"])
  <2>1. PICK r \in JobType :
          /\ r = [j EXCEPT !.pc = "settle", !.out[h] = "cancelled"]
          /\ r.pc = "settle" /\ r.h = h /\ r.gen = j.gen
          /\ r.acc = j.acc /\ r.amb = j.amb /\ r.intr = j.intr
          /\ \A x \in Helper : r.out[x] = IF x = h THEN "cancelled" ELSE j.out[x]
    BY <1>5
  <2>2. Goto(t, r) /\ UNCHANGED <<journal, lock, world, faults>>
    BY <1>2, <1>7, <2>1 DEF world
  <2>3. /\ r.pc = "settle" /\ r.h = h /\ r.gen = j.gen
        /\ r.acc = j.acc /\ r.amb = j.amb /\ r.intr = j.intr
        /\ \A x \in Helper : r.out[x] = IF x = h THEN "cancelled" ELSE j.out[x]
    BY <2>1
  <2>4. Tracks(t, j, row, net, held) => Tracks(t, r, row, net, held)
    BY <1>4, <2>3
  <2>5. \A x \in Helper : r.out[x] = "accepted" => j.out[x] = "accepted"
    BY <2>3
  <2> QED
    BY <1>1, <2>2, <2>3, <2>4, <2>5, TrackingGoes
<1> QED
  BY <1>6, <1>7 DEF resubmit_share

\* The outcome of a contact that ended: what it writes is a step of the ledger,
\* and evidence from before the pass survives it.
LEMMA Contacted ==
  ASSUME ShareInv, NEW t \in Tracker, job[t].pc = "resolve", row.gen = job[t].gen
  PROVE  LET h == job[t].h
             effect == RecoveryEffect(job[t])
             e == Written(effect, row.st[h])
         IN  /\ effect \in {"Accepted", "Ambiguous", "DefiniteFailure", "nothing"}
             /\ \/ row.st[h] = e
                \/ row.st[h] = "attempting" /\ e = "none" /\ <<h, row.gen>> \notin Reach
                \/ row.st[h] = "attempting" /\ e = "unknown"
                \/ /\ row.st[h] \in {"attempting", "unknown"} /\ e = "accepted"
                   /\ h \in Faulty \/ <<h, row.gen>> \in held
             /\ ~ Fresh(job[t], h) => e # "none"
             /\ row.st[h] = "accepted" => e = "accepted"
             /\ job[t].out[h] = "accepted" => e = "accepted"
<1> DEFINE j == job[t]
           h == job[t].h
           effect == RecoveryEffect(j)
           e == Written(effect, row.st[h])
<1>1. /\ t \in Task /\ t \notin Deliverer /\ row \in RowType /\ h \in Helper
      /\ Works(t, j, row, net, held) /\ Owns(t, j) /\ j.out \in [Helper -> Outcomes]
  BY JobTyped, ShareAssumption DEF Task, Shape
<1>2. Tracks(t, j, row, net, held)
  BY <1>1 DEF Works, Busy
<1>3. row.st[h] \in Evidence
  BY <1>1 DEF RowType
<1>4. ~ Fresh(j, h) => row.st[h] # "none" /\ (row.st[h] = "accepted" \/ h \notin j.acc)
  BY <1>2 DEF Tracks, Fresh
<1>5. Fresh(j, h) => /\ row.st[h] = "attempting"
                     /\ j.out[h] \notin {"accepted", "ambiguous"} => <<h, row.gen>> \notin Reach
  <2> SUFFICES ASSUME Fresh(j, h)
               PROVE  /\ row.st[h] = "attempting"
                      /\ j.out[h] \notin {"accepted", "ambiguous"} =>
                           <<h, row.gen>> \notin Reach
    OBVIOUS
  <2>1. Attempt(t, j, h, row, net, held) /\ j.out[h] # "sent"
    BY <1>2 DEF Tracks
  <2>2. j.out[h] \notin {"accepted", "ambiguous"} => NotAsked(j, h, net, held)
    BY <1>1, <2>1 DEF Attempt, Outcomes
  <2> QED
    BY <2>1, <2>2 DEF Attempt, NotAsked, Reach
<1>6. j.out[h] = "accepted" => h \in Faulty \/ <<h, row.gen>> \in held
  BY <1>1 DEF Owns
<1>7. effect = CASE j.out[h] = "accepted" -> "Accepted"
                 [] j.out[h] = "cancelled" -> IF Fresh(j, h) THEN "DefiniteFailure"
                                              ELSE "nothing"
                 [] j.out[h] = "ambiguous" -> IF h \in j.acc THEN "nothing"
                                              ELSE "Ambiguous"
                 [] OTHER -> IF h \in j.intr THEN "Ambiguous"
                             ELSE IF h \in j.amb THEN "nothing" ELSE "DefiniteFailure"
  BY DEF RecoveryEffect
<1> HIDE DEF effect, h, j
<1>8. /\ effect = "DefiniteFailure" =>
           /\ Fresh(j, h) \/ h \in j.acc
           /\ j.out[h] \notin {"accepted", "ambiguous"}
      /\ effect = "Accepted" <=> j.out[h] = "accepted"
      /\ effect \in {"Accepted", "Ambiguous", "DefiniteFailure", "nothing"}
  <2>1. CASE j.out[h] = "accepted"
    BY <1>7, <2>1
  <2>2. CASE j.out[h] = "cancelled"
    BY <1>7, <2>2
  <2>3. CASE j.out[h] = "ambiguous"
    BY <1>7, <2>3
  <2>4. CASE j.out[h] \notin {"accepted", "cancelled", "ambiguous"}
    <3>1. Fresh(j, h) \/ h \in j.acc \/ h \in j.intr \/ h \in j.amb
      BY DEF Fresh
    <3> QED
      BY <1>7, <2>4, <3>1
  <2> QED
    BY <2>1, <2>2, <2>3, <2>4
<1>9. CASE effect = "Accepted"
  BY <1>3, <1>4, <1>5, <1>6, <1>8, <1>9 DEF Written, Evidence, h, j, effect
<1>10. CASE effect = "Ambiguous"
  BY <1>3, <1>4, <1>5, <1>8, <1>10 DEF Written, Evidence, h, j, effect
<1>11. CASE effect = "DefiniteFailure"
  BY <1>3, <1>4, <1>5, <1>8, <1>11 DEF Written, Evidence, Fresh, h, j, effect
<1>12. CASE effect = "nothing"
  BY <1>3, <1>4, <1>8, <1>12 DEF Written, Evidence, h, j, effect
<1> QED
  BY <1>8, <1>9, <1>10, <1>11, <1>12

\* The job of a pass that is done with one helper.
Ended(j, pc, acc, r) ==
  /\ r = [j EXCEPT !.pc = pc, !.acc = acc, !.out[j.h] = "none"]
  /\ r.pc = pc /\ r.gen = j.gen /\ r.acc = acc /\ r.amb = j.amb /\ r.intr = j.intr
  /\ r.goal = j.goal /\ r.over = j.over
  /\ \A x \in Helper : r.out[x] = IF x = j.h THEN "none" ELSE j.out[x]

LEMMA ContactEnds ==
  ASSUME NEW j \in JobType, j.h \in Helper, NEW pc \in {"pick", "call"},
         NEW acc \in SUBSET Helper
  PROVE  \E r \in JobType : Ended(j, pc, acc, r)
<1> DEFINE p == [j.out EXCEPT ![j.h] = "none"]
           r == [j EXCEPT !.pc = pc, !.acc = acc, !.out = p]
<1>1. j.out \in [Helper -> Outcomes]
  BY DEF JobType
<1>2. /\ p \in [Helper -> Outcomes]
      /\ \A x \in Helper : p[x] = IF x = j.h THEN "none" ELSE j.out[x]
  BY <1>1 DEF Outcomes
<1>3. r = [j EXCEPT !.pc = pc, !.acc = acc, !.out[j.h] = "none"]
  BY DEF JobType
<1> HIDE DEF p
<1>4. /\ r \in JobType /\ r.pc = pc /\ r.gen = j.gen /\ r.acc = acc
      /\ r.amb = j.amb /\ r.intr = j.intr /\ r.out = p
      /\ r.goal = j.goal /\ r.over = j.over
  BY <1>2 DEF JobType, Pcs
<1> HIDE DEF r
<1> QED
  BY <1>2, <1>3, <1>4 DEF Ended

\* Where a pass goes after a contact.
LEMMA Afterwards ==
  ASSUME ShareInv, NEW t \in Tracker, AfterContact(t), job[t].h \in Helper
  PROVE  \/ Leave(t)
         \/ /\ UNCHANGED lock
            /\ \E r \in JobType :
                 /\ Goto(t, r) /\ r.gen = job[t].gen
                 /\ r.amb = job[t].amb /\ r.intr = job[t].intr
                 /\ r.goal = job[t].goal /\ r.over = job[t].over
                 /\ \A x \in Helper : r.out[x] = IF x = job[t].h THEN "none"
                                                 ELSE job[t].out[x]
                 /\ \/ r.pc = "pick" /\ r.acc = job[t].acc
                    \/ /\ r.pc = "call" /\ job[t].out[job[t].h] = "accepted"
                       /\ r.acc = job[t].acc \cup {job[t].h}
<1> DEFINE j == job[t]
           more == job[t].acc \cup {job[t].h}
<1>1. j \in JobType /\ t \in Task
  BY JobTyped DEF Task
<1>2. j.acc \in SUBSET Helper /\ more \in SUBSET Helper
  <2>1. j.acc \in SUBSET Helper
    BY <1>1 DEF JobType
  <2> QED
    BY <2>1
<1>3. CASE j.out[j.h] = "cancelled"
  BY <1>3 DEF AfterContact
<1>4. CASE j.out[j.h] = "accepted" /\ ~ Leave(t)
  <2>1. /\ Goto(t, [j EXCEPT !.pc = "call", !.acc = more, !.out[j.h] = "none"])
        /\ UNCHANGED lock
    BY <1>4 DEF AfterContact
  <2>2. PICK r \in JobType : Ended(j, "call", more, r)
    BY <1>1, <1>2, ContactEnds
  <2>3. Goto(t, r)
    BY <2>1, <2>2 DEF Ended
  <2> QED
    BY <1>4, <2>1, <2>2, <2>3 DEF Ended
<1>5. CASE j.out[j.h] \notin {"accepted", "cancelled"}
  <2>1. Goto(t, [j EXCEPT !.pc = "pick", !.out[j.h] = "none"]) /\ UNCHANGED lock
    BY <1>5 DEF AfterContact
  <2>2. PICK r \in JobType : Ended(j, "pick", j.acc, r)
    BY <1>1, <1>2, ContactEnds
  <2>3. [j EXCEPT !.pc = "pick", !.out[j.h] = "none"]
          = [j EXCEPT !.pc = "pick", !.acc = j.acc, !.out[j.h] = "none"]
    BY <1>1 DEF JobType
  <2>4. Goto(t, r)
    BY <2>1, <2>2, <2>3 DEF Ended
  <2> QED
    BY <2>1, <2>2, <2>4 DEF Ended
<1> QED
  BY <1>3, <1>4, <1>5

\* A contact whose outcome writes nothing, or is about to be written.
LEMMA SettleSteps ==
  ASSUME ShareInv, NEW t \in Tracker, settle_read(t)
  PROVE  Steps
<1> DEFINE j == job[t]
           s == [j EXCEPT !.pc = "resolve", !.seen = row]
<1>1. /\ t \in Task /\ j \in JobType /\ j.pc = "settle" /\ Busy(j) /\ j.h \in Helper
      /\ j.out[j.h] # "sent" /\ faults \in 0..MaxFaults /\ row \in RowType
  BY JobTyped DEF Task, Busy, Shape, settle_read
<1>2. UNCHANGED <<journal, world, faults>> /\ faults' = faults
  BY DEF settle_read
<1>3. CASE RecoveryEffect(j) = "nothing" /\ AfterContact(t)
  <2>1. j.out[j.h] # "accepted"
    BY <1>3 DEF RecoveryEffect
  <2>2. CASE Leave(t)
    BY <1>1, <1>2, <2>2, Leaves
  <2>3. CASE ~ Leave(t)
    <3>1. PICK r \in JobType :
            /\ Goto(t, r) /\ r.gen = j.gen
            /\ r.amb = j.amb /\ r.intr = j.intr
            /\ \A x \in Helper : r.out[x] = IF x = j.h THEN "none" ELSE j.out[x]
            /\ r.pc = "pick" /\ r.acc = j.acc
      BY <1>1, <1>3, <2>1, <2>3, Afterwards
    <3>2. UNCHANGED <<journal, lock, world, faults>>
      BY <1>1, <1>2, <1>3, <2>3, Afterwards
    <3>3. \A x \in Helper : r.out[x] # "none" => x # j.h /\ j.out[x] # "none"
      BY <3>1
    <3>4. Tracks(t, j, row, net, held) => Tracks(t, r, row, net, held)
      BY <3>1, <3>3 DEF Tracks
    <3>5. \A x \in Helper : r.out[x] = "accepted" => j.out[x] = "accepted"
      BY <3>1
    <3> QED
      BY <1>1, <3>1, <3>2, <3>4, <3>5, TrackingGoes
  <2> QED
    BY <2>2, <2>3
<1>4. CASE Goto(t, s) /\ UNCHANGED lock
  <2>1. /\ s \in JobType /\ s.pc = "resolve" /\ s.gen = j.gen /\ s.h = j.h
        /\ s.acc = j.acc /\ s.amb = j.amb /\ s.intr = j.intr /\ s.out = j.out
    BY <1>1 DEF JobType, Pcs
  <2>2. Goto(t, s) /\ UNCHANGED <<journal, lock, world, faults>>
    BY <1>2, <1>4
  <2> HIDE DEF s
  <2>3. \A x : Attempt(t, j, x, row, net, held) => Attempt(t, s, x, row, net, held)
    BY <2>1 DEF Attempt, NotAsked, Alone
  <2>4. Fresh(s, s.h) => Fresh(j, j.h)
    BY <2>1 DEF Fresh
  <2>5. Tracks(t, j, row, net, held) => Tracks(t, s, row, net, held)
    BY <1>1, <2>1, <2>3, <2>4 DEF Tracks
  <2> QED
    BY <1>1, <2>1, <2>2, <2>5, TrackingGoes
<1> QED
  BY <1>3, <1>4 DEF settle_read

\* Writing the outcome of a contact.
LEMMA ResolveRecoverySteps ==
  ASSUME ShareInv, NEW t \in Tracker, resolve_recovery_attempt(t)
  PROVE  Steps
<1> DEFINE j == job[t]
           h == job[t].h
           effect == RecoveryEffect(job[t])
           e == Written(effect, row.st[h])
<1>1. /\ t \in Task /\ t \notin Deliverer /\ j \in JobType /\ j.pc = "resolve"
      /\ Busy(j) /\ h \in Helper /\ Works(t, j, row, net, held)
      /\ faults \in 0..MaxFaults /\ j.over \in BOOLEAN
      /\ j.acc \subseteq Helper /\ j.amb \subseteq Helper /\ j.intr \subseteq Helper
  <2>1. /\ t \in Task /\ t \notin Deliverer /\ j \in JobType /\ j.pc = "resolve"
        /\ Busy(j) /\ h \in Helper /\ Works(t, j, row, net, held)
        /\ faults \in 0..MaxFaults
    BY JobTyped, ShareAssumption DEF Task, Busy, Shape, resolve_recovery_attempt
  <2>2. /\ j.over \in BOOLEAN
        /\ j.acc \subseteq Helper /\ j.amb \subseteq Helper /\ j.intr \subseteq Helper
    BY <2>1 DEF JobType
  <2> QED
    BY <2>1, <2>2
<1>2. UNCHANGED <<vote, vc, used, world, faults>> /\ faults' = faults
  BY DEF resolve_recovery_attempt
<1>3. CASE Leave(t) /\ UNCHANGED row
  BY <1>1, <1>2, <1>3, Leaves DEF journal
<1>4. CASE Reread(t) /\ UNCHANGED <<row, lock>>
  BY <1>1, <1>2, <1>4, RereadSteps DEF journal
<1>5. CASE /\ j.seen.gen = j.gen /\ same_row(row, j.seen)
           /\ Store(row, resolved(j.seen, h, effect, j.over)) /\ AfterContact(t)
  <2>1. Resolving(t, effect, j.over) /\ row.gen = j.gen
    BY <1>1, <1>5 DEF Resolving, same_row
  <2>2. /\ effect \in {"Accepted", "Ambiguous", "DefiniteFailure", "nothing"}
        /\ \/ row.st[h] = e
           \/ row.st[h] = "attempting" /\ e = "none" /\ <<h, row.gen>> \notin Reach
           \/ row.st[h] = "attempting" /\ e = "unknown"
           \/ /\ row.st[h] \in {"attempting", "unknown"} /\ e = "accepted"
              /\ h \in Faulty \/ <<h, row.gen>> \in held
        /\ ~ Fresh(j, h) => e # "none"
        /\ row.st[h] = "accepted" => e = "accepted"
        /\ j.out[h] = "accepted" => e = "accepted"
    BY <1>1, <2>1, Contacted
  <2> HIDE DEF effect
  <2>3. /\ row.gen # NoGen /\ lock = t /\ row' \in RowType /\ row'.gen = row.gen
        /\ row'.confirmed = row.confirmed /\ e \in Evidence
        /\ row'.st = [row.st EXCEPT ![h] = e]
        /\ \A x \in Helper : row'.st[x] = IF x = h THEN e ELSE row.st[x]
    <3>1. RowResolved(t, effect)
      BY <1>1, <2>1, <2>2, Resolved
    <3> QED
      BY <3>1 DEF RowResolved
  <2> HIDE DEF e
  <2>4. CASE Leave(t)
    <3>1. lock' = NoTask /\ job' = [job EXCEPT ![t] = Idle]
      BY <2>3, <2>4 DEF Leave
    <3>2. /\ Idle \in JobType /\ Shape(t, Idle) /\ Owns(t, Idle)'
          /\ Works(t, Idle, row', net, held)
      BY IdleSound, <1>1
    <3>3. UNCHANGED <<vote, vc, used, world, faults>> /\ lock' \in {t, NoTask}
      BY <1>2, <3>1
    <3> QED
      BY <1>1, <2>2, <2>3, <3>1, <3>2, <3>3, EvidenceStep, ZenonT(60)
  <2>5. CASE ~ Leave(t)
    <3>1. PICK r \in JobType :
            /\ Goto(t, r) /\ r.gen = j.gen
            /\ r.amb = j.amb /\ r.intr = j.intr
            /\ \A x \in Helper : r.out[x] = IF x = h THEN "none" ELSE j.out[x]
            /\ \/ r.pc = "pick" /\ r.acc = j.acc
               \/ r.pc = "call" /\ j.out[h] = "accepted" /\ r.acc = j.acc \cup {h}
      BY <1>1, <1>5, <2>5, Afterwards
    <3>2. UNCHANGED <<vote, vc, used, lock, world, faults>>
      BY <1>1, <1>2, <1>5, <2>5, Afterwards
    <3>3. Tracks(t, j, row, net, held)
      BY <1>1, <2>1 DEF Works
    <3>4. \A x \in r.acc : row'.st[x] = "accepted"
      <4>1. \A x \in j.acc : x \in Helper /\ row'.st[x] = "accepted"
        BY <1>1, <2>2, <2>3, <3>3 DEF Tracks
      <4>2. j.out[h] = "accepted" => row'.st[h] = "accepted"
        BY <1>1, <2>2, <2>3
      <4> QED
        BY <3>1, <4>1, <4>2
    <3>5. \A x \in r.amb \cup r.intr : row'.st[x] # "none"
      <4>1. ASSUME NEW x \in j.amb \cup j.intr PROVE row'.st[x] # "none"
        <5>1. CASE x = h
          BY <1>1, <2>2, <2>3, <5>1 DEF Fresh
        <5>2. CASE x # h
          BY <1>1, <2>3, <3>3, <5>2 DEF Tracks
        <5> QED
          BY <5>1, <5>2
      <4> QED
        BY <3>1, <4>1
    <3>6. \A x \in Helper : r.out[x] = "none"
      BY <3>1, <3>3 DEF Tracks
    <3>7. Tracks(t, r, row', net, held)
      BY <2>3, <3>1, <3>3, <3>4, <3>5, <3>6 DEF Tracks
    <3>8. Works(t, r, row', net, held) /\ Shape(t, r) /\ Busy(r) /\ r.pc # "confirm"
      BY <1>1, <3>1, <3>7 DEF Works, Shape, Busy
    <3>9. \A x \in Helper : r.out[x] = "accepted" => job[t].out[x] = "accepted"
      BY <3>6
    <3>10. /\ t \in Task /\ h \in Helper /\ Busy(job[t]) /\ row.gen = job[t].gen
           /\ Goto(t, r) /\ r.gen = job[t].gen
      BY <1>1, <2>1, <3>1
    <3>11. \/ row.st[h] = e
           \/ row.st[h] = "none" /\ e = "attempting" /\ ~ row.confirmed
           \/ row.st[h] = "attempting" /\ e = "none" /\ <<h, row.gen>> \notin Reach
           \/ row.st[h] = "attempting" /\ e = "unknown"
           \/ /\ row.st[h] \in {"attempting", "unknown"} /\ e = "accepted"
              /\ h \in Faulty \/ <<h, row.gen>> \in held
      BY <2>2
    <3> HIDE DEF j, h
    <3> QED
      BY <2>3, <3>2, <3>8, <3>9, <3>10, <3>11, WritesAndGoes, ZenonT(60)
  <2> QED
    BY <2>4, <2>5
<1> QED
  BY <1>3, <1>4, <1>5 DEF resolve_recovery_attempt

\* Every step of a tracking pass.
LEMMA TrackerSteps ==
  ASSUME ShareInv, NEW t \in Tracker, TrackerStep(t)
  PROVE  Steps
<1>1. t \in Task /\ faults \in 0..MaxFaults
  BY DEF Task, ShareInv, TypeOK
<1>2. CASE end_pass(t)
  BY <1>1, <1>2, Leaves DEF end_pass
<1> QED
  BY <1>2, WalkSteps, PollSteps, ConfirmSteps, DecideSteps, BeginExistingSteps,
     ResubmitSteps, SettleSteps, ResolveRecoverySteps, NextHelperSteps DEF TrackerStep

-----------------------------------------------------------------------------
(* The helpers, the network and the process.                               *)

\* A job stays sound when nobody else is asked and no answer is invented.
LEMMA WorksOn ==
  ASSUME NEW t, NEW j, NEW w, NEW n, NEW hd, NEW n2, NEW hd2,
         \A h : NotAsked(j, h, n, hd) => NotAsked(j, h, n2, hd2),
         \A h : Alone(t, j, h, n, hd) => Alone(t, j, h, n2, hd2),
         Works(t, j, w, n, hd)
  PROVE  Works(t, j, w, n2, hd2)
<1>1. \A h : Attempt(t, j, h, w, n, hd) => Attempt(t, j, h, w, n2, hd2)
  BY DEF Attempt
<1>2. Delivers(t, j, w, n, hd) => Delivers(t, j, w, n2, hd2)
  BY <1>1 DEF Delivers
<1>3. Tracks(t, j, w, n, hd) => Tracks(t, j, w, n2, hd2)
  BY <1>1 DEF Tracks
<1> QED
  BY <1>2, <1>3 DEF Works

\* A step outside of the tasks: requests arrive or get lost, the share is revealed.
LEMMA OutsideStep ==
  ASSUME ShareInv, UNCHANGED <<journal, lock, job>>, TypeOK',
         held \subseteq held', revealed \subseteq revealed', Reach' \subseteq Reach,
         \A t \in Task : \A h :
           /\ NotAsked(job[t], h, net, held) => NotAsked(job[t], h, net', held')
           /\ Alone(t, job[t], h, net, held) => Alone(t, job[t], h, net', held')
  PROVE  ShareInv'
<1>1. /\ vote' = vote /\ used' = used /\ row' = row /\ lock' = lock /\ job' = job
  BY DEF journal
<1>2. ASSUME NEW t \in Task
      PROVE  Shape(t, job[t])' /\ Owns(t, job[t])' /\ Works(t, job[t], row, net, held)'
  <2>1. Shape(t, job[t]) /\ Owns(t, job[t]) /\ Works(t, job[t], row, net, held)
    BY DEF ShareInv
  <2>2. Works(t, job[t], row, net', held')
    BY <2>1, WorksOn
  <2>3. Owns(t, job[t])'
    BY <1>1, <2>1 DEF Owns
  <2>4. Shape(t, job[t])'
    BY <1>1, <2>1 DEF Shape
  <2> QED
    BY <1>1, <2>2, <2>3, <2>4
<1>3. JournalInv
  BY DEF ShareInv
<1>4. NothingForgotten' /\ AcceptedIsHeld' /\ ConfirmedIsRevealed'
  BY <1>1, <1>3 DEF JournalInv, NothingForgotten, AcceptedIsHeld, ConfirmedIsRevealed
<1>5. JournalInv'
  BY <1>1, <1>3, <1>4 DEF JournalInv
<1> QED
  BY <1>2, <1>5 DEF ShareInv

\* A request is its helper, its generation and the task that waits for it.
LEMMA Messages ==
  ASSUME ShareInv, NEW m \in net
  PROVE  /\ m.h \in Helper /\ m.g \in Gen /\ m.by \in Task \cup {NoTask}
         /\ m = [h |-> m.h, g |-> m.g, by |-> m.by]
         /\ \A x \in net : x.h = m.h /\ x.g = m.g /\ x.by = m.by => x = m
<1>1. net \subseteq [h : Helper, g : Gen, by : Task \cup {NoTask}]
  BY DEF ShareInv, TypeOK
<1>2. \A x \in net : /\ x.h \in Helper /\ x.g \in Gen /\ x.by \in Task \cup {NoTask}
                     /\ x = [h |-> x.h, g |-> x.g, by |-> x.by]
  BY <1>1, SMT
<1> QED
  BY <1>2

\* A request that arrives gives the helper what it could get before.
LEMMA ArriveSteps ==
  ASSUME ShareInv, NEW m \in net, Arrive(m)
  PROVE  Steps
<1>1. /\ net' = net \ {m} /\ held' = held \cup {<<m.h, m.g>>}
      /\ UNCHANGED <<journal, lock, job>> /\ revealed' = revealed
      /\ clock' = clock /\ faults' = faults
      /\ vote' = vote /\ vc' = vc /\ row' = row /\ used' = used /\ lock' = lock
      /\ job' = job
  BY DEF Arrive, journal
<1>2. TypeOK'
  BY <1>1, Messages, SMT DEF ShareInv, TypeOK
<1>3. Reach' = Reach
  BY <1>1 DEF Reach
<1>4. ASSUME NEW t \in Task, NEW h, NotAsked(job[t], h, net, held)
      PROVE  NotAsked(job[t], h, net', held')
  BY <1>1, <1>4 DEF NotAsked
<1>5. ASSUME NEW t \in Task, NEW h, Alone(t, job[t], h, net, held)
      PROVE  Alone(t, job[t], h, net', held')
  <2> SUFFICES ASSUME NEW x \in net', x.h = h, x.g = job[t].gen
               PROVE  x.by = t /\ <<h, job[t].gen>> \notin held'
    BY DEF Alone
  <2>1. x \in net /\ x # m /\ x.by = t /\ <<h, job[t].gen>> \notin held
    BY <1>1, <1>5 DEF Alone
  <2>2. ~ (m.h = h /\ m.g = job[t].gen)
    BY <1>5, <2>1, Messages DEF Alone
  <2> QED
    BY <1>1, <2>1, <2>2
<1>6. ShareInv'
  BY <1>1, <1>2, <1>3, <1>4, <1>5, OutsideStep
<1>7. UNCHANGED Ledger!ledgerVars
  BY <1>1, <1>3 DEF Ledger!ledgerVars
<1> QED
  BY <1>1, <1>6, <1>7 DEF Steps

\* A lost request is one the helper can no longer get.
LEMMA LoseSteps ==
  ASSUME ShareInv, NEW m \in net, Lose(m)
  PROVE  Steps
<1>1. /\ net' = net \ {m} /\ held' = held
      /\ UNCHANGED <<journal, lock, job>> /\ revealed' = revealed
      /\ clock' = clock /\ faults' = faults
      /\ vote' = vote /\ vc' = vc /\ row' = row /\ used' = used /\ lock' = lock
      /\ job' = job
  BY DEF Lose, journal
<1>2. TypeOK'
  BY <1>1 DEF ShareInv, TypeOK
<1>3. Reach' \subseteq Reach
  BY <1>1 DEF Reach
<1>4. ASSUME NEW t \in Task, NEW h
      PROVE  /\ NotAsked(job[t], h, net, held) => NotAsked(job[t], h, net', held')
             /\ Alone(t, job[t], h, net, held) => Alone(t, job[t], h, net', held')
  BY <1>1 DEF NotAsked, Alone
<1>5. ShareInv'
  BY <1>1, <1>2, <1>3, <1>4, OutsideStep
<1>6. Ledger!Vanish
  BY <1>1, <1>3 DEF Ledger!Vanish
<1> QED
  BY <1>1, <1>5, <1>6 DEF Steps, Ledger!LedgerNext

\* The reveal of a generation is published.
LEMMA RevealSteps ==
  ASSUME ShareInv, NEW h \in Helper, NEW g \in Gen, Reveal(h, g)
  PROVE  Steps
<1>1. /\ net' = net /\ held' = held
      /\ UNCHANGED <<journal, lock, job>> /\ revealed' = revealed \cup {g}
      /\ clock' = clock /\ faults' = faults
      /\ vote' = vote /\ vc' = vc /\ row' = row /\ used' = used /\ lock' = lock
      /\ job' = job
  BY DEF Reveal, journal
<1>2. TypeOK'
  BY <1>1 DEF ShareInv, TypeOK
<1>3. Reach' = Reach
  BY <1>1 DEF Reach
<1>4. ShareInv'
  BY <1>1, <1>2, <1>3, OutsideStep
<1>5. Ledger!Publish(g)
  BY <1>1, <1>3 DEF Ledger!Publish
<1> QED
  BY <1>1, <1>4, <1>5 DEF Steps, Ledger!LedgerNext

\* Time passes.
LEMMA TickSteps ==
  ASSUME ShareInv, Tick
  PROVE  Steps
<1>1. /\ net' = net /\ held' = held
      /\ UNCHANGED <<journal, lock, job>> /\ revealed' = revealed
      /\ clock < MaxClock /\ clock' = clock + 1 /\ faults' = faults
      /\ vote' = vote /\ vc' = vc /\ row' = row /\ used' = used /\ lock' = lock
      /\ job' = job
  BY DEF Tick, journal
<1>2. TypeOK'
  <2>1. clock' \in 0..MaxClock
    BY <1>1, ShareAssumption, SMT DEF ShareInv, TypeOK
  <2> QED
    BY <1>1, <2>1 DEF ShareInv, TypeOK
<1>3. Reach' = Reach
  BY <1>1 DEF Reach
<1>4. ShareInv'
  BY <1>1, <1>2, <1>3, OutsideStep
<1>5. UNCHANGED Ledger!ledgerVars
  BY <1>1, <1>3 DEF Ledger!ledgerVars
<1> QED
  BY <1>1, <1>4, <1>5 DEF Steps

\* What the outcome of a request changes: only the task's own attempt at that
\* helper.
Answered(t, h, o) ==
  /\ job[t].out[h] = "sent" /\ Goto(t, [job[t] EXCEPT !.out[h] = o])
  /\ UNCHANGED <<journal, lock, held, revealed, clock, faults>>
  /\ net' \subseteq [h : Helper, g : Gen, by : Task \cup {NoTask}]
  /\ Reach' \subseteq Reach
  /\ \A m \in net' \ net : m.by = NoTask
  /\ \A x \in Helper :
       x # h => /\ NotAsked(job[t], x, net, held) => NotAsked(job[t], x, net', held)
                /\ Alone(t, job[t], x, net, held) => Alone(t, job[t], x, net', held)
  /\ o = "failed" /\ Alone(t, job[t], h, net, held) =>
       NotAsked(job[t], h, net', held)
  /\ o = "accepted" => h \in Faulty \/ <<h, job[t].gen>> \in held

LEMMA AnsweredSteps ==
  ASSUME ShareInv, NEW t \in Task, NEW h \in Helper,
         NEW o \in {"accepted", "failed", "ambiguous"}, Answered(t, h, o)
  PROVE  Steps
<1> DEFINE j == job[t]
           p == [j.out EXCEPT ![h] = o]
<1>1. /\ j \in JobType /\ j.out \in [Helper -> Outcomes] /\ row \in RowType
      /\ j.wave \in Seq(Helper) /\ j.out[h] = "sent"
      /\ Shape(t, j) /\ Owns(t, j) /\ Works(t, j, row, net, held)
  BY JobTyped DEF Answered
<1>2. Busy(j) /\ lock = t /\ j.pc # "idle"
  <2>1. Idle.out[h] # "sent" /\ (j.pc = "prepared" => j.out[h] # "sent")
    BY <1>1 DEF Idle, Shape
  <2>2. Busy(j)
    BY <1>1, <2>1 DEF Shape, Busy
  <2> QED
    BY <1>1, <2>2 DEF Owns, Busy
<1>3. /\ vote' = vote /\ vc' = vc /\ used' = used /\ row' = row /\ held' = held
      /\ lock' = lock /\ revealed' = revealed /\ clock' = clock /\ faults' = faults
  BY DEF Answered, journal
<1>4. /\ p \in [Helper -> Outcomes]
      /\ \A x \in Helper : p[x] = IF x = h THEN o ELSE j.out[x]
  BY <1>1 DEF Outcomes
<1>5. [j EXCEPT !.out = p] \in JobType /\ [j EXCEPT !.out = p] = [j EXCEPT !.out[h] = o]
  <2> HIDE DEF p
  <2>1. [j EXCEPT !.out = p] \in JobType
    BY <1>1, <1>4 DEF JobType
  <2> QED
    BY <1>1, <2>1 DEF JobType, p
<1> HIDE DEF p
<1>6. PICK r \in JobType : r = [j EXCEPT !.out = p]
  BY <1>5
<1>7. /\ r.pc = j.pc /\ r.gen = j.gen /\ r.acc = j.acc /\ r.amb = j.amb
      /\ r.intr = j.intr /\ r.wave = j.wave /\ r.h = j.h /\ r.out = p
  BY <1>1, <1>6 DEF JobType
<1>8. Goto(t, r)
  BY <1>5, <1>6 DEF Answered
<1>9. ASSUME NEW x \in Helper, Attempt(t, j, x, row, net, held)
      PROVE  Attempt(t, r, x, row, net', held)
  <2>1. CASE x = h
    <3>1. Alone(t, j, h, net, held) /\ row.st[h] = "attempting" /\ r.out[h] = o
      BY <1>1, <1>4, <1>7, <1>9, <2>1 DEF Attempt
    <3>2. o = "failed" => NotAsked(j, h, net', held)
      BY <3>1 DEF Answered
    <3>3. o = "failed" => NotAsked(r, h, net', held)
      BY <1>7, <3>2 DEF NotAsked
    <3> QED
      BY <2>1, <3>1, <3>3 DEF Attempt
  <2>2. CASE x # h
    <3>1. r.out[x] = j.out[x]
      BY <1>4, <1>7, <2>2
    <3>2. /\ NotAsked(j, x, net, held) => NotAsked(j, x, net', held)
          /\ Alone(t, j, x, net, held) => Alone(t, j, x, net', held)
      BY <2>2 DEF Answered
    <3>3. /\ NotAsked(j, x, net, held) => NotAsked(r, x, net', held)
          /\ Alone(t, j, x, net, held) => Alone(t, r, x, net', held)
      BY <1>7, <3>2 DEF NotAsked, Alone
    <3> QED
      BY <1>9, <3>1, <3>3 DEF Attempt
  <2> QED
    BY <2>1, <2>2
<1>10. \A x \in Helper : r.out[x] # "none" => j.out[x] # "none"
  BY <1>1, <1>4, <1>7
<1>11. ASSUME Delivers(t, j, row, net, held), j.gen = row.gen
       PROVE  Delivers(t, r, row, net', held)
  <2>1. j.pc = "post"
    BY <1>1, <1>11 DEF Delivers, Joined
  <2>2. ASSUME NEW x \in ToSet(r.wave) PROVE Attempt(t, r, x, row, net', held)
    <3>1. x \in Helper
      BY <1>1, <1>7, SMT DEF ToSet
    <3>2. Attempt(t, j, x, row, net, held)
      BY <1>7, <1>11 DEF Delivers
    <3> QED
      BY <1>9, <3>1, <3>2
  <2>3. r.pc # "resolve"
    BY <1>7, <2>1
  <2> QED
    BY <1>7, <1>10, <1>11, <2>2, <2>3 DEF Delivers
<1>12. ASSUME Tracks(t, j, row, net, held), j.gen = row.gen
       PROVE  Tracks(t, r, row, net', held)
  <2>1. j.pc = "settle" /\ h = j.h
    BY <1>1, <1>12 DEF Tracks
  <2>2. r.pc # "resolve" /\ r.h \in Helper
    BY <1>7, <2>1
  <2>3. Fresh(r, r.h) => Attempt(t, r, r.h, row, net', held)
    BY <1>7, <1>9, <1>12, <2>1, <2>2 DEF Tracks, Fresh
  <2> QED
    BY <1>7, <1>10, <1>12, <2>2, <2>3 DEF Tracks
<1>13. Works(t, r, row, net', held)
  BY <1>1, <1>2, <1>7, <1>11, <1>12 DEF Works
<1>14. Shape(t, r) /\ r.pc # "idle"
  BY <1>1, <1>2, <1>7 DEF Shape, Busy
<1>15. Owns(t, r)'
  <2>1. ASSUME NEW x \in Helper, r.out[x] = "accepted"
        PROVE  x \in Faulty \/ <<x, r.gen>> \in held
    <3>1. CASE x = h
      BY <1>4, <1>7, <2>1, <3>1 DEF Answered
    <3>2. CASE x # h
      BY <1>1, <1>4, <1>7, <2>1, <3>2 DEF Owns
    <3> QED
      BY <3>1, <3>2
  <2> QED
    BY <1>1, <1>3, <1>7, <2>1 DEF Owns, Busy
<1>16. /\ Shape(t, Tidy(r)) /\ Owns(t, Tidy(r))' /\ Works(t, Tidy(r), row', net', held')
       /\ Tidy(r) \in JobType
  <2>1. Works(t, Tidy(r), row, net', held)
    BY <1>13, <1>14, TidyKeeps
  <2> QED
    BY <1>3, <1>14, <1>15, <2>1, TidyKeeps, Tidied
<1>17. JournalInv'
  <2>1. JournalInv /\ Reach' \subseteq Reach
    BY DEF ShareInv, Answered
  <2>2. NothingForgotten' /\ AcceptedIsHeld' /\ ConfirmedIsRevealed'
    BY <1>3, <2>1 DEF JournalInv, NothingForgotten, AcceptedIsHeld,
                      ConfirmedIsRevealed
  <2> QED
    BY <1>3, <2>1, <2>2 DEF JournalInv
<1>18. /\ row' \in RowType /\ faults' \in 0..MaxFaults /\ lock' \in Task \cup {NoTask}
       /\ net' \subseteq [h : Helper, g : Gen, by : Task \cup {NoTask}]
  BY <1>3 DEF ShareInv, TypeOK, Answered
<1>19. ShareInv'
  BY <1>2, <1>3, <1>8, <1>16, <1>17, <1>18, TaskStep DEF Goto
<1>20. Ledger!Vanish
  BY <1>3 DEF Ledger!Vanish, Answered
<1>21. \A m \in net' \ net : m.by # NoTask /\ m.g = row.gen => ~ row.confirmed
  BY DEF Answered
<1> QED
  BY <1>19, <1>20, <1>21 DEF Steps, Ledger!LedgerNext

\* An answer, a refusal and a silence.
LEMMA AnswerSteps ==
  ASSUME ShareInv, NEW t \in Task, NEW h \in Helper,
         Accepts(t, h) \/ Refused(t, h) \/ Unknown(t, h)
  PROVE  Steps
<1> DEFINE g == job[t].gen
           m0 == Mine(t, h)
<1>1. /\ m0.h = h /\ m0.g = g /\ m0.by = t
      /\ net \subseteq [h : Helper, g : Gen, by : Task \cup {NoTask}]
  BY DEF Mine, ShareInv, TypeOK
<1>2. ASSUME NEW m \in net, m.h = h, m.g = g, m.by = t PROVE m = m0
  BY <1>2, Messages DEF Mine
<1>3. ASSUME Accepts(t, h) \/ Refused(t, h) PROVE Steps
  <2>1. /\ net' = net \ {m0} /\ held' = held /\ job[t].out[h] = "sent"
        /\ UNCHANGED <<journal, lock, held, revealed, clock, faults>>
    BY <1>3 DEF Accepts, Refused
  <2>2. Reach' \subseteq Reach
    BY <2>1 DEF Reach
  <2>3. \A x \in Helper :
          /\ NotAsked(job[t], x, net, held) => NotAsked(job[t], x, net', held)
          /\ Alone(t, job[t], x, net, held) => Alone(t, job[t], x, net', held)
    BY <2>1 DEF NotAsked, Alone
  <2>4. CASE Accepts(t, h)
    <3>1. Answered(t, h, "accepted")
      BY <1>1, <2>1, <2>2, <2>3, <2>4 DEF Answered, Accepts
    <3> QED
      BY <3>1, AnsweredSteps
  <2>5. CASE Refused(t, h)
    <3>1. ASSUME Alone(t, job[t], h, net, held) PROVE NotAsked(job[t], h, net', held)
      <4>1. m0 \in net /\ <<h, g>> \notin held
        BY <1>1, <2>5, <3>1 DEF Refused, Alone
      <4> QED
        BY <1>2, <2>1, <3>1, <4>1 DEF Alone, NotAsked
    <3>2. Answered(t, h, "failed")
      BY <1>1, <2>1, <2>2, <2>3, <2>5, <3>1 DEF Answered, Refused
    <3> QED
      BY <3>2, AnsweredSteps
  <2> QED
    BY <1>3, <2>4, <2>5
<1>4. CASE Unknown(t, h)
  <2> DEFINE o0 == Orphaned(m0)
             F(m) == IF m = m0 THEN o0 ELSE m
  <2>1. /\ o0.h = h /\ o0.g = g /\ o0.by = NoTask
        /\ m0 \in net => o0 \in [h : Helper, g : Gen, by : Task \cup {NoTask}]
    BY <1>1 DEF Orphaned, Mine
  <2>2. net' = {F(m) : m \in net}
    BY <1>4 DEF Unknown
  <2> HIDE DEF o0, m0
  <2>3. \A x \in net' : (x = o0 /\ m0 \in net) \/ x \in net
    BY <2>2
  <2>4. \A m \in net : \E x \in net' : x.h = m.h /\ x.g = m.g
    BY <1>1, <2>1, <2>2
  <2>5. /\ held' = held /\ job[t].out[h] = "sent"
        /\ UNCHANGED <<journal, lock, held, revealed, clock, faults>>
    BY <1>4 DEF Unknown
  <2>6. Reach' \subseteq Reach
    BY <1>1, <2>1, <2>3, <2>5 DEF Reach
  <2>7. \A x \in Helper :
          x # h => /\ NotAsked(job[t], x, net, held) => NotAsked(job[t], x, net', held)
                   /\ Alone(t, job[t], x, net, held) => Alone(t, job[t], x, net', held)
    BY <2>1, <2>3 DEF NotAsked, Alone
  <2>8. /\ net' \subseteq [h : Helper, g : Gen, by : Task \cup {NoTask}]
        /\ \A m \in net' \ net : m.by = NoTask
    BY <1>1, <2>1, <2>3
  <2>9. Answered(t, h, "ambiguous")
    BY <1>4, <2>5, <2>6, <2>7, <2>8 DEF Answered, Unknown
  <2> QED
    BY <2>9, AnsweredSteps
<1> QED
  BY <1>3, <1>4

\* After a crash no task runs, and what was under way may still arrive.
LEMMA CrashSteps ==
  ASSUME ShareInv, Crash
  PROVE  Steps
<1>1. /\ vote' = vote /\ vc' = vc /\ used' = used /\ row' = row /\ held' = held
      /\ revealed' = revealed /\ clock' = clock /\ lock' = NoTask
      /\ job' = [t \in Task |-> Idle] /\ net' = {Orphaned(m) : m \in net}
      /\ faults < MaxFaults /\ faults' = faults + 1
  BY DEF Crash, journal
<1>2. \A m \in net : /\ Orphaned(m).h = m.h /\ Orphaned(m).g = m.g
                     /\ Orphaned(m).by = NoTask
                     /\ Orphaned(m) \in [h : Helper, g : Gen, by : Task \cup {NoTask}]
  <2>1. net \subseteq [h : Helper, g : Gen, by : Task \cup {NoTask}]
    BY DEF ShareInv, TypeOK
  <2> QED
    BY <2>1 DEF Orphaned
<1>3. Reach' = Reach
  BY <1>1, <1>2, SMT DEF Reach
<1>4. TypeOK'
  <2>1. job' \in [Task -> JobType]
    BY <1>1, IdleSound
  <2>2. faults' \in 0..MaxFaults
    BY <1>1, ShareAssumption, SMT DEF ShareInv, TypeOK
  <2>3. net' \subseteq [h : Helper, g : Gen, by : Task \cup {NoTask}]
    BY <1>1, <1>2
  <2> QED
    BY <1>1, <2>1, <2>2, <2>3 DEF ShareInv, TypeOK
<1>5. JournalInv
  BY DEF ShareInv
<1>6. NothingForgotten' /\ AcceptedIsHeld' /\ ConfirmedIsRevealed'
  BY <1>1, <1>3, <1>5 DEF JournalInv, NothingForgotten, AcceptedIsHeld,
                          ConfirmedIsRevealed
<1>7. JournalInv'
  BY <1>1, <1>3, <1>5, <1>6 DEF JournalInv
<1>8. ASSUME NEW t \in Task
      PROVE  Shape(t, job[t])' /\ Owns(t, job[t])' /\ Works(t, job[t], row, net, held)'
  <2>1. job'[t] = Idle /\ Idle' = Idle
    BY <1>1 DEF Idle, Absent
  <2>2. Shape(t, Idle) /\ Owns(t, Idle)' /\ Works(t, Idle, row', net', held')
    BY IdleSound
  <2>3. Shape(t, job[t])'
    BY <2>1, <2>2 DEF Shape
  <2>4. Owns(t, job[t])'
    BY <2>1, <2>2 DEF Owns
  <2> QED
    BY <2>1, <2>2, <2>3, <2>4
<1>9. ShareInv'
  BY <1>4, <1>7, <1>8 DEF ShareInv
<1>10. UNCHANGED Ledger!ledgerVars
  BY <1>1, <1>3 DEF Ledger!ledgerVars
<1>11. \A m \in net' \ net : m.by = NoTask
  BY <1>1, <1>2
<1> QED
  BY <1>9, <1>10, <1>11 DEF Steps

-----------------------------------------------------------------------------
(* The vote, and every step.                                               *)

\* The row goes with the commitment it belongs to, and the tasks that still
\* work for it find it gone: its generation is never stored again.
LEMMA ForgetSteps ==
  ASSUME ShareInv, row' = Absent, used \subseteq used', used' \subseteq Gen,
         vote' \in used' \cup {NoGen}, vote' \notin used, vc' \in BOOLEAN,
         UNCHANGED <<lock, job, world, faults>>
  PROVE  Steps
<1>1. /\ net' = net /\ held' = held /\ revealed' = revealed /\ clock' = clock
      /\ lock' = lock /\ job' = job /\ faults' = faults
      /\ used \subseteq Gen /\ NoGen \notin used /\ JournalInv
  BY ShareAssumption DEF world, ShareInv, TypeOK
<1>2. /\ Absent \in RowType /\ Absent.gen = NoGen /\ ~ Absent.confirmed
      /\ Absent.st = [h \in Helper |-> "none"]
      /\ \A h \in Helper : Absent.st[h] = "none"
  <2>1. Cardinality(Helper) \in Nat
    BY Counts
  <2> QED
    BY <2>1, SMT DEF Absent, RowType, Evidence
<1>3. Reach' = Reach /\ \A p \in Reach : p[2] \in used
  BY <1>1 DEF Reach, JournalInv
<1>4. JournalInv'
  <2>1. \A h : <<h, NoGen>> \notin Reach
    BY <1>1, <1>3
  <2>2. NothingForgotten' /\ AcceptedIsHeld' /\ ConfirmedIsRevealed'
    BY <1>2, <1>3, <2>1 DEF NothingForgotten, AcceptedIsHeld, ConfirmedIsRevealed
  <2>3. Absent' = Absent
    BY DEF Absent
  <2> QED
    BY <1>2, <1>3, <2>2, <2>3 DEF JournalInv
<1>5. TypeOK'
  BY <1>1, <1>2 DEF ShareInv, TypeOK
<1>6. ASSUME NEW t \in Task
      PROVE  Shape(t, job[t])' /\ Owns(t, job[t])' /\ Works(t, job[t], row, net, held)'
  <2>1. Shape(t, job[t]) /\ Owns(t, job[t])
    BY DEF ShareInv
  <2>2. Shape(t, job[t])'
    BY <1>1, <2>1 DEF Shape
  <2>3. job[t].pc # "idle" => job[t].gen # vote' /\ job[t].gen # NoGen
    BY <1>1, <2>1 DEF Owns
  <2>4. Owns(t, job[t])'
    BY <1>1, <2>1, <2>3 DEF Owns
  <2>5. Works(t, job[t], row', net', held')
    BY <1>2, <2>3 DEF Works, Busy
  <2> QED
    BY <1>1, <2>2, <2>4, <2>5
<1>7. Ledger!Forget
  BY <1>1, <1>2, <1>3, SMT DEF Ledger!Forget, Ledger!NoEvidence
<1> QED
  BY <1>1, <1>4, <1>5, <1>6, <1>7 DEF Steps, ShareInv, Ledger!LedgerNext

\* Recording the position of the commitment changes nothing the tasks rely on.
LEMMA PositionSteps ==
  ASSUME ShareInv, record_vc_position
  PROVE  Steps
<1>1. /\ net' = net /\ held' = held /\ revealed' = revealed /\ clock' = clock
      /\ lock' = lock /\ job' = job /\ faults' = faults /\ vc' = TRUE
      /\ vote' = vote /\ row' = row /\ used' = used
  BY DEF world, record_vc_position
<1>2. Reach' = Reach /\ TypeOK'
  BY <1>1 DEF Reach, ShareInv, TypeOK
<1>3. JournalInv
  BY DEF ShareInv
<1>4. NothingForgotten' /\ AcceptedIsHeld' /\ ConfirmedIsRevealed'
  BY <1>1, <1>2, <1>3 DEF JournalInv, NothingForgotten, AcceptedIsHeld,
                          ConfirmedIsRevealed
<1>5. JournalInv'
  BY <1>1, <1>2, <1>3, <1>4 DEF JournalInv
<1>6. ASSUME NEW t \in Task
      PROVE  Shape(t, job[t])' /\ Owns(t, job[t])' /\ Works(t, job[t], row, net, held)'
  <2>1. Shape(t, job[t]) /\ Owns(t, job[t]) /\ Works(t, job[t], row, net, held)
    BY DEF ShareInv
  <2>2. Shape(t, job[t])'
    BY <1>1, <2>1 DEF Shape
  <2>3. Owns(t, job[t])'
    BY <1>1, <2>1 DEF Owns
  <2> QED
    BY <1>1, <2>1, <2>2, <2>3
<1>7. UNCHANGED Ledger!ledgerVars
  BY <1>1, <1>2 DEF Ledger!ledgerVars
<1> QED
  BY <1>1, <1>2, <1>5, <1>6, <1>7 DEF Steps, ShareInv

\* Every step of the system.
LEMMA NextSteps ==
  ASSUME ShareInv, Next
  PROVE  Steps
<1>1. /\ vote \in used \cup {NoGen} /\ used \subseteq Gen /\ NoGen \notin Gen
      /\ vc \in BOOLEAN /\ faults \in 0..MaxFaults /\ MaxFaults \in Nat
  BY ShareAssumption DEF ShareInv, JournalInv, TypeOK
<1>2. ASSUME NEW g \in Gen, store_vote(g) PROVE Steps
  BY <1>1, <1>2, ForgetSteps DEF store_vote
<1>3. CASE clear_round
  BY <1>1, <1>3, ForgetSteps DEF clear_round
<1>4. ASSUME NEW t \in Task, StoreFails(t) PROVE Steps
  BY <1>1, <1>4, Leaves, SMT DEF StoreFails
<1>5. CASE HelperStep
  BY <1>5, ArriveSteps, LoseSteps, AnswerSteps, RevealSteps DEF HelperStep
<1> QED
  BY <1>2, <1>3, <1>4, <1>5, PositionSteps, DelivererSteps, TrackerSteps,
     TickSteps, CrashSteps DEF Next

\* Nothing is stored, sent or running at the start.
LEMMA Starting ==
  ASSUME Init
  PROVE  ShareInv /\ Ledger!LedgerInit
<1>1. /\ Absent \in RowType /\ Absent.gen = NoGen /\ ~ Absent.confirmed
      /\ Absent.st = [h \in Helper |-> "none"]
      /\ \A h \in Helper : Absent.st[h] = "none"
  <2>1. Cardinality(Helper) \in Nat
    BY Counts
  <2> QED
    BY <2>1, SMT DEF Absent, RowType, Evidence
<1>2. Reach = {}
  BY DEF Init, Reach
<1>3. TypeOK
  <2>1. job \in [Task -> JobType]
    BY IdleSound DEF Init
  <2>2. 0 \in 0..MaxClock /\ 0 \in 0..MaxFaults
    BY ShareAssumption, SMT
  <2> QED
    BY <1>1, <2>1, <2>2 DEF Init, TypeOK
<1>4. JournalInv
  BY <1>1, <1>2 DEF Init, JournalInv, NothingForgotten, AcceptedIsHeld,
                    ConfirmedIsRevealed
<1>5. ASSUME NEW t \in Task
      PROVE  Shape(t, job[t]) /\ Owns(t, job[t]) /\ Works(t, job[t], row, net, held)
  <2>1. job[t] = Idle /\ Idle.pc = "idle" /\ \A h \in Helper : Idle.out[h] = "none"
    BY DEF Init, Idle
  <2>2. Shape(t, Idle) /\ Works(t, Idle, row, net, held)
    BY IdleSound
  <2>3. Owns(t, Idle)
    BY <2>1 DEF Owns, Busy
  <2> QED
    BY <2>1, <2>2, <2>3
<1>6. Ledger!LedgerInit
  BY <1>1, <1>2, SMT DEF Init, Ledger!LedgerInit, Ledger!NoEvidence
<1> QED
  BY <1>3, <1>4, <1>5, <1>6 DEF ShareInv

\* A step that changes nothing.
LEMMA Stutters ==
  ASSUME ShareInv, UNCHANGED vars
  PROVE  Steps
<1>1. /\ net' = net /\ held' = held /\ revealed' = revealed /\ clock' = clock
      /\ lock' = lock /\ job' = job /\ faults' = faults /\ vc' = vc
      /\ vote' = vote /\ row' = row /\ used' = used
  BY DEF vars
<1>2. Reach' = Reach /\ TypeOK' /\ UNCHANGED <<journal, lock, job>>
  BY <1>1 DEF Reach, ShareInv, TypeOK, journal
<1>3. ShareInv'
  BY <1>1, <1>2, OutsideStep
<1>4. UNCHANGED Ledger!ledgerVars
  BY <1>1, <1>2 DEF Ledger!ledgerVars
<1> QED
  BY <1>1, <1>3, <1>4 DEF Steps

-----------------------------------------------------------------------------
(* What delivery and tracking keep, for every fleet, every number of       *)
(* deliveries and tracking passes and every generation.                    *)

\* The inductive invariant: a task that holds the share's lock and whose row is
\* in place knows which of its requests can have reached a helper, and the
\* generation of a row that is gone is not stored again (share.rs, the operation
\* lock and the generation checks of storage/queries/share_delegations.rs).
THEOREM ShareSafety == Spec => []ShareInv
<1>1. Init => ShareInv
  BY Starting
<1>2. ShareInv /\ [Next]_vars => ShareInv'
  BY NextSteps, Stutters DEF Steps
<1> QED
  BY <1>1, <1>2, PTL DEF Spec

\* The journal, the tasks and the requests keep their shape over every
\* interleaving of deliveries, passes, cleanup and crashes.
THEOREM ShareTypes == Spec => []TypeOK
<1>1. ShareInv => TypeOK
  BY DEF ShareInv
<1> QED
  BY <1>1, ShareSafety, PTL

\* No helper that has the share of the current row, or may still get it, is
\* missing from the journal (add_attempting_server_for_generation before every
\* request, mark_definite_failure only after a request known to have failed).
THEOREM NoHelperForgotten == Spec => []NothingForgotten
<1>1. ShareInv => NothingForgotten
  BY DEF ShareInv, JournalInv
<1> QED
  BY <1>1, ShareSafety, PTL

\* An honest helper the journal lists as accepted has the share of the row's own
\* generation (resolve_delivery_attempt_for_generation).
THEOREM AcceptanceIsTrue == Spec => []AcceptedIsHeld
<1>1. ShareInv => AcceptedIsHeld
  BY DEF ShareInv, JournalInv
<1> QED
  BY <1>1, ShareSafety, PTL

\* A row marked as confirmed belongs to a generation whose reveal is on chain as
\* long as the helpers that misreport are fewer than the quorum
\* (mark_share_confirmed after poll_share_helpers).
THEOREM ConfirmationIsTrue == Spec => []ConfirmedIsRevealed
<1>1. ShareInv => ConfirmedIsRevealed
  BY DEF ShareInv, JournalInv
<1> QED
  BY <1>1, ShareSafety, PTL

\* No task sends the share of a row that is confirmed (next_helper reads the row
\* again before a helper is contacted a second time).
THEOREM ConfirmedIsLeftAlone == Spec => NoPostOnceConfirmed
<1> DEFINE A == \A m \in net' \ net : m.by # NoTask /\ m.g = row.gen => ~ row.confirmed
<1>1. ShareInv /\ [Next]_vars => [A]_vars
  BY NextSteps, Stutters DEF Steps
<1>2. Spec => [][A]_vars
  BY <1>1, ShareSafety, PTL DEF Spec
<1> QED
  BY <1>2 DEF NoPostOnceConfirmed

\* Every behaviour of delivery, tracking, cleanup and crashes is one of the
\* ledger of ShareLedger.
THEOREM ImplementsShareLedger == Spec => KeepsLedger
<1>1. Init => Ledger!LedgerInit
  BY Starting
<1>2. ShareInv /\ [Next]_vars => [Ledger!LedgerNext]_(Ledger!ledgerVars)
  BY NextSteps, Stutters DEF Steps
<1> QED
  BY <1>1, <1>2, ShareSafety, PTL DEF Spec, KeepsLedger, Ledger!LedgerSpec
=============================================================================
