-------------------------- MODULE PlacementProofs ---------------------------
(***************************************************************************)
(* Delivery and replenishment place a share at no more helpers than its    *)
(* target, for any fleet and any number of operations and generations.     *)
(*                                                                         *)
(* PlaceInv is inductive with ShareInv.  It says where the share may be    *)
(* placed: which job every open attempt belongs to, and how much room the  *)
(* row has for what the job may still reserve.                             *)
(***************************************************************************)
EXTENDS ShareDeliveryProofs

USE Zenon

\* The job has reserved the helper and not settled it yet.
Marked(t, j, h) ==
  /\ Busy(j)
  /\ t \in Deliverer => h \in ToSet(j.wave)
  /\ t \in Tracker => h = j.h /\ j.pc \in {"dispatch", "settle", "resolve"} /\ Fresh(j, h)

\* What a job knows of the row's target, and which helpers it may ask: without a fault a
\* pass finds nothing interrupted, and before the share is overdue it asks fresh ones only.
JobPlaces(t, j, r, c, f) ==
  /\ t \in Deliverer => j.goal <= Target
  /\ t \in Tracker =>
       /\ j.gen = r.gen => j.goal <= r.target
       /\ j.over => c >= 2
       /\ f = 0 => j.intr = {}
       /\ j.pc = "reserve" => Fresh(j, j.h)
       /\ f = 0 /\ j.pc \in {"dispatch", "settle", "resolve"} /\ ~ j.over => Fresh(j, j.h)
  /\ j.pc \in {"reserve", "resolve"} /\ j.seen.gen # j.gen => r.gen # j.gen

\* Without a fault, an attempt in the journal is that of a job under way.
PlaceInv ==
  /\ row.gen # NoGen => row.target >= Target
  /\ \A t \in Task : JobPlaces(t, job[t], row, clock, faults)
  /\ faults = 0 => \A h \in Helper : row.st[h] = "attempting" =>
       \E t \in Task : job[t].gen = row.gen /\ Marked(t, job[t], h)
  /\ PlacementBound

LEMMA RowFacts ==
  ASSUME NEW r \in RowType
  PROVE  r.st \in [Helper -> Evidence] /\ r.target \in Nat
<1>1. r.st \in [Helper -> Evidence] /\ r.target \in 0..Cardinality(Helper)
  BY DEF RowType
<1>2. Cardinality(Helper) \in Nat
  BY Counts
<1> QED
  BY <1>1, <1>2, SMT

\* A row that places the share nowhere else keeps its bound.
LEMMA SameRoom ==
  ASSUME PlacementBound, row \in RowType, row' \in RowType, row'.target >= row.target,
         clock' < 2 => clock < 2, faults' = 0 => faults = 0,
         clock' < 2 /\ faults' = 0 =>
           \A h \in Helper : row'.st[h] \in {"accepted", "attempting"} =>
                               row.st[h] \in {"accepted", "attempting"}
  PROVE  PlacementBound'
<1> SUFFICES ASSUME clock' < 2, faults' = 0
             PROVE  Cardinality(In(row, "accepted")' \cup In(row, "attempting")')
                      <= row'.target
  BY DEF PlacementBound
<1> DEFINE S == In(row, "accepted") \cup In(row, "attempting")
           T == In(row', "accepted") \cup In(row', "attempting")
<1>1. T \in SUBSET S /\ S \in SUBSET Helper /\ T \in SUBSET Helper
  BY DEF In
<1>2. IsFiniteSet(S)
  BY <1>1, FleetAssumption, FS_Subset
<1>3. Cardinality(T) <= Cardinality(S) /\ Cardinality(T) \in Nat /\ Cardinality(S) \in Nat
  BY <1>1, <1>2, FS_Subset, Counts
<1>4. row.target \in Nat /\ row'.target \in Nat
  BY RowFacts
<1>5. Cardinality(S) <= row.target
  BY DEF PlacementBound
<1>6. T = In(row, "accepted")' \cup In(row, "attempting")'
  BY DEF In
<1> HIDE DEF S, T
<1>7. Cardinality(T) <= row'.target
  BY <1>3, <1>4, <1>5, SMT
<1> QED
  BY <1>6, <1>7

\* One job moves, and the row with it.
LEMMA PlaceStep ==
  ASSUME ShareInv, PlaceInv, NEW t \in Task, NEW n \in JobType,
         job' = [job EXCEPT ![t] = n], clock' = clock, faults' = 0 => faults = 0,
         row' \in RowType, row'.gen = row.gen, row'.target >= row.target,
         JobPlaces(t, n, row', clock', faults'),
         \A h \in Helper : faults' = 0 /\ row'.st[h] = "attempting" =>
           \/ n.gen = row.gen /\ Marked(t, n, h)
           \/ row.st[h] = "attempting" /\ ~ (job[t].gen = row.gen /\ Marked(t, job[t], h)),
         PlacementBound'
  PROVE  PlaceInv'
<1>1. /\ job \in [Task -> JobType] /\ row \in RowType /\ row.target \in Nat /\ row'.target \in Nat
      /\ job'[t] = n /\ \A u \in Task : u # t => job'[u] = job[u]
  BY RowFacts DEF ShareInv, TypeOK
<1>2. row'.gen # NoGen => row'.target >= Target
  <2>1. row.gen # NoGen => row.target >= Target
    BY DEF PlaceInv
  <2>2. Target \in Nat
    BY ShareAssumption, Counts, SMT
  <2> QED
    BY <1>1, <2>1, <2>2, SMT
<1>3. ASSUME NEW u \in Task PROVE JobPlaces(u, job'[u], row', clock', faults')
  <2>1. CASE u = t
    BY <1>1, <2>1
  <2>2. CASE u # t
    <3>1. job'[u] = job[u] /\ job[u] \in JobType /\ JobPlaces(u, job[u], row, clock, faults)
      BY <1>1, <2>2 DEF PlaceInv
    <3>2. job[u].goal \in Nat
      BY <3>1 DEF JobType
    <3>3. job[u].goal <= row.target => job[u].goal <= row'.target
      BY <1>1, <3>2, SMT
    <3> QED
      BY <3>1, <3>3 DEF JobPlaces
  <2> QED
    BY <2>1, <2>2
<1>4. ASSUME faults' = 0, NEW h \in Helper, row'.st[h] = "attempting"
      PROVE  \E u \in Task : job'[u].gen = row'.gen /\ Marked(u, job'[u], h)
  <2>1. CASE n.gen = row.gen /\ Marked(t, n, h)
    BY <1>1, <2>1
  <2>2. CASE row.st[h] = "attempting" /\ ~ (job[t].gen = row.gen /\ Marked(t, job[t], h))
    <3>1. PICK u \in Task : job[u].gen = row.gen /\ Marked(u, job[u], h)
      BY <1>4, <2>2 DEF PlaceInv
    <3>2. u # t
      BY <2>2, <3>1
    <3> QED
      BY <1>1, <3>1, <3>2
  <2> QED
    BY <1>4, <2>1, <2>2
<1> QED
  BY <1>2, <1>3, <1>4 DEF PlaceInv

LEMMA TidyPlaces ==
  ASSUME NEW t \in Task, NEW j \in JobType
  PROVE  /\ Tidy(j) \in JobType /\ Tidy(j).gen = j.gen
         /\ \A r, c, f : JobPlaces(t, j, r, c, f) => JobPlaces(t, Tidy(j), r, c, f)
         /\ \A h : Marked(t, j, h) => Marked(t, Tidy(j), h)
<1>1. /\ Tidy(j) \in JobType /\ Tidy(j).pc = j.pc /\ Tidy(j).gen = j.gen
      /\ Tidy(j).acc = j.acc /\ Tidy(j).amb = j.amb /\ Tidy(j).intr = j.intr
      /\ Tidy(j).wave = j.wave
      /\ j.pc \in {"reserve", "resolve", "dispatch", "settle"} => Tidy(j).h = j.h
  BY Tidied
<1>2. /\ Tidy(j).goal = j.goal /\ Tidy(j).over = j.over
      /\ j.pc \in {"reserve", "resolve"} => Tidy(j).seen = j.seen
  BY SMT DEF Tidy, JobType
<1>3. PICK n : n = Tidy(j)
  OBVIOUS
<1>4. ASSUME NEW r, NEW c, NEW f, JobPlaces(t, j, r, c, f) PROVE JobPlaces(t, n, r, c, f)
  BY <1>1, <1>2, <1>3, <1>4 DEF JobPlaces, Fresh
<1>5. ASSUME NEW h, Marked(t, j, h) PROVE Marked(t, n, h)
  BY <1>1, <1>3, <1>5 DEF Marked, Fresh, Busy
<1> QED
  BY <1>1, <1>3, <1>4, <1>5

\* A job goes on and writes to the row.
LEMMA PlaceGoes ==
  ASSUME ShareInv, PlaceInv, NEW t \in Task, NEW r \in JobType, Goto(t, r),
         clock' = clock, faults' = faults,
         row' \in RowType, row'.gen = row.gen, row'.target >= row.target,
         JobPlaces(t, r, row', clock, faults),
         \A h \in Helper : faults = 0 /\ row'.st[h] = "attempting" =>
           \/ r.gen = row.gen /\ Marked(t, r, h)
           \/ row.st[h] = "attempting" /\ ~ (job[t].gen = row.gen /\ Marked(t, job[t], h)),
         PlacementBound'
  PROVE  PlaceInv'
<1>1. PICK n \in JobType : n = Tidy(r)
  BY TidyPlaces
<1>2. job' = [job EXCEPT ![t] = n] /\ n.gen = r.gen
  BY <1>1, TidyPlaces DEF Goto
<1>3. JobPlaces(t, n, row', clock', faults')
  BY <1>1, TidyPlaces
<1>4. \A h \in Helper : faults' = 0 /\ row'.st[h] = "attempting" =>
           \/ n.gen = row.gen /\ Marked(t, n, h)
           \/ row.st[h] = "attempting" /\ ~ (job[t].gen = row.gen /\ Marked(t, job[t], h))
  BY <1>1, <1>2, TidyPlaces
<1> QED
  BY <1>2, <1>3, <1>4, PlaceStep

\* A row that stays.
LEMMA RowStays ==
  ASSUME ShareInv, PlaceInv, UNCHANGED <<row, clock>>, faults' = 0 => faults = 0
  PROVE  row' \in RowType /\ row'.gen = row.gen /\ row'.target >= row.target /\ PlacementBound'
<1>1. row \in RowType /\ row.target \in Nat /\ row' = row /\ clock' = clock
  BY RowFacts DEF ShareInv, TypeOK
<1>2. row'.target >= row.target
  BY <1>1, SMT
<1>3. PlacementBound'
  BY <1>1 DEF PlaceInv, PlacementBound, In
<1> QED
  BY <1>1, <1>2, <1>3

LEMMA QuietGoes ==
  ASSUME ShareInv, PlaceInv, NEW t \in Task, NEW r \in JobType, Goto(t, r),
         UNCHANGED <<row, clock, faults>>, JobPlaces(t, r, row, clock, faults),
         \A h \in Helper : faults = 0 /\ job[t].gen = row.gen /\ Marked(t, job[t], h) =>
           r.gen = row.gen /\ Marked(t, r, h)
  PROVE  PlaceInv'
<1>1. row' \in RowType /\ row'.gen = row.gen /\ row'.target >= row.target /\ PlacementBound'
  BY RowStays
<1> QED
  BY <1>1, PlaceGoes

\* A job ends, and has nothing under way unless there was a fault.
LEMMA PlaceLeaves ==
  ASSUME ShareInv, PlaceInv, NEW t \in Task, Leave(t), clock' = clock, faults' = 0 => faults = 0,
         row' \in RowType, row'.gen = row.gen, row'.target >= row.target, PlacementBound',
         \A h \in Helper : faults' = 0 /\ row'.st[h] = "attempting" =>
           row.st[h] = "attempting" /\ ~ (job[t].gen = row.gen /\ Marked(t, job[t], h))
  PROVE  PlaceInv'
<1>1. Idle \in JobType
  BY IdleSound
<1>2. Idle.goal = 0 /\ ~ Idle.over /\ Idle.intr = {} /\ Idle.pc = "idle"
  BY DEF Idle
<1>3. 0 <= Target /\ 0 <= row'.target
  <2>1. Target \in Nat /\ row'.target \in Nat
    BY ShareAssumption, Counts, RowFacts, SMT
  <2> QED
    BY <2>1, SMT
<1>4. JobPlaces(t, Idle, row', clock', faults')
  BY <1>2, <1>3 DEF JobPlaces
<1>5. job' = [job EXCEPT ![t] = Idle]
  BY DEF Leave
<1> QED
  BY <1>1, <1>4, <1>5, PlaceStep

LEMMA QuietLeaves ==
  ASSUME ShareInv, PlaceInv, NEW t \in Task, Leave(t), UNCHANGED <<row, clock>>,
         faults' = 0 => faults = 0,
         \A h \in Helper : ~ (faults' = 0 /\ job[t].gen = row.gen /\ Marked(t, job[t], h))
  PROVE  PlaceInv'
<1>1. row' \in RowType /\ row'.gen = row.gen /\ row'.target >= row.target /\ PlacementBound'
  BY RowStays
<1> QED
  BY <1>1, PlaceLeaves

-----------------------------------------------------------------------------
(* Initial delivery places the share.                                      *)

\* A reservation is made where there is room for it.
LEMMA StartsPlaced ==
  ASSUME ShareInv, PlaceInv, NEW t \in Task, Starts(t), UNCHANGED <<clock, faults>>,
         clock < 2 /\ faults = 0 =>
           Cardinality(In(row, "accepted") \cup In(row, "attempting")) < row.target
  PROVE  row'.target >= row.target /\ PlacementBound'
<1> DEFINE S == In(row, "accepted") \cup In(row, "attempting")
           h == job[t].h
<1>1. row \in RowType /\ row' \in RowType /\ h \in Helper
      /\ \A x \in Helper : row'.st[x] = IF x = h THEN "attempting" ELSE row.st[x]
  BY Reserved DEF ShareInv, TypeOK
<1>2. row.target \in Nat /\ row'.target = row.target
  <2>1. row'.target = row.target
    BY <1>1 DEF Starts, RowType
  <2> QED
    BY <1>1, <2>1, RowFacts
<1>3. S \in SUBSET Helper /\ In(row', "accepted") \cup In(row', "attempting") \in SUBSET (S \cup {h})
  BY <1>1 DEF In
<1>4. Cardinality(S) \in Nat /\ IsFiniteSet(S)
  BY <1>3, Counts, FleetAssumption, FS_Subset
<1> DEFINE T == In(row', "accepted") \cup In(row', "attempting")
<1>5. T = In(row, "accepted")' \cup In(row, "attempting")'
  BY DEF In
<1>6. T \in SUBSET Helper
  BY DEF In
<1>7. clock < 2 /\ faults = 0 => Cardinality(S) < row.target
  OBVIOUS
<1> HIDE DEF S, T, h
<1>8. /\ IsFiniteSet(S \cup {h})
      /\ Cardinality(S \cup {h}) = Cardinality(S) \/ Cardinality(S \cup {h}) = Cardinality(S) + 1
  BY <1>4, FS_AddElement
<1>9. Cardinality(T) <= Cardinality(S \cup {h}) /\ Cardinality(T) \in Nat
  BY <1>3, <1>6, <1>8, FS_Subset, Counts DEF T
<1>10. clock < 2 /\ faults = 0 => Cardinality(T) <= row'.target
  BY <1>2, <1>4, <1>7, <1>8, <1>9, SMT
<1> QED
  BY <1>2, <1>5, <1>10, SMT DEF PlacementBound

\* A delivery goes on with the helpers of its wave.
LEMMA DeliveryStays ==
  ASSUME ShareInv, PlaceInv, NEW t \in Deliverer, NEW r \in JobType, Goto(t, r),
         UNCHANGED <<row, clock, faults>>, r.goal = job[t].goal, r.gen = job[t].gen,
         Busy(r), r.wave = job[t].wave,
         r.pc \in {"reserve", "resolve"} => r.seen = row
  PROVE  PlaceInv'
<1>1. t \in Task /\ t \notin Tracker /\ JobPlaces(t, job[t], row, clock, faults)
  BY ShareAssumption DEF Task, PlaceInv
<1>2. JobPlaces(t, r, row, clock, faults)
  BY <1>1 DEF JobPlaces
<1>3. \A h \in Helper : Marked(t, job[t], h) => Marked(t, r, h)
  BY <1>1 DEF Marked
<1> QED
  BY <1>1, <1>2, <1>3, QuietGoes

LEMMA RereadPlaces ==
  ASSUME ShareInv, PlaceInv, NEW t \in Task, Reread(t), job[t].pc \in {"reserve", "resolve"},
         UNCHANGED <<row, clock, faults>>
  PROVE  PlaceInv'
<1> DEFINE r == [job[t] EXCEPT !.seen = row]
<1>1. job[t] \in JobType /\ row \in RowType /\ JobPlaces(t, job[t], row, clock, faults)
  BY JobTyped DEF PlaceInv
<1>2. /\ r \in JobType /\ r.pc = job[t].pc /\ r.h = job[t].h /\ r.gen = job[t].gen
      /\ r.wave = job[t].wave /\ r.acc = job[t].acc /\ r.amb = job[t].amb
      /\ r.intr = job[t].intr /\ r.goal = job[t].goal /\ r.over = job[t].over
      /\ r.seen = row
  BY <1>1 DEF JobType
<1>3. Goto(t, r)
  BY DEF Reread
<1> HIDE DEF r
<1>4. JobPlaces(t, r, row, clock, faults)
  BY <1>1, <1>2 DEF JobPlaces, Fresh
<1>5. \A h \in Helper : Marked(t, job[t], h) => Marked(t, r, h)
  BY <1>2 DEF Marked, Busy, Fresh
<1> QED
  BY <1>2, <1>3, <1>4, <1>5, QuietGoes

LEMMA StartPostsPlaces ==
  ASSUME ShareInv, PlaceInv, NEW t \in Deliverer, job[t].pc \in {"wave", "reserve"},
         StartPosts(t), UNCHANGED <<row, clock, faults>>
  PROVE  PlaceInv'
<1>1. t \in Task /\ job[t] \in JobType /\ faults' = faults
  BY JobTyped DEF Task
<1>2. CASE job[t].wave = <<>>
  <2>1. \A h : h \notin ToSet(job[t].wave)
    BY <1>2, SMT DEF ToSet
  <2>2. \A h \in Helper : ~ Marked(t, job[t], h)
    BY <2>1 DEF Marked
  <2>3. Leave(t)
    BY <1>2 DEF StartPosts
  <2> QED
    BY <1>1, <2>2, <2>3, QuietLeaves
<1>3. CASE job[t].wave # <<>>
  <2> DEFINE o == [h \in Helper |->
                    IF \E i \in DOMAIN job[t].wave : job[t].wave[i] = h
                    THEN "queued" ELSE "none"]
             r == [job[t] EXCEPT !.pc = "post", !.out = o]
  <2>1. o \in [Helper -> Outcomes]
    BY DEF Outcomes
  <2>2. Goto(t, r)
    BY <1>3 DEF StartPosts
  <2> HIDE DEF o
  <2>3. /\ r \in JobType /\ r.pc = "post" /\ r.gen = job[t].gen
        /\ r.wave = job[t].wave /\ r.goal = job[t].goal
    BY <1>1, <2>1 DEF JobType, Pcs
  <2> HIDE DEF r
  <2>4. Busy(r)
    BY <2>3 DEF Busy
  <2> QED
    BY <2>2, <2>3, <2>4, DeliveryStays
<1> QED
  BY <1>2, <1>3

\* A job at the generation being opened is there already.
LEMMA OpenedFor ==
  ASSUME ShareInv, NEW u \in Task, vote # NoGen, job[u].gen = vote
  PROVE  row.gen = vote
<1>1. Idle.gen = NoGen
  BY DEF Idle
<1> QED
  BY <1>1, JobTyped DEF Shape, Owns

LEMMA PreparePlaces ==
  ASSUME ShareInv, PlaceInv, NEW t \in Deliverer, prepare_committed_share_delivery(t)
  PROVE  PlaceInv'
<1> DEFINE target == raised_target(row.target)
<1>1. /\ t \in Task /\ t \notin Tracker /\ row \in RowType /\ job \in [Task -> JobType]
      /\ job[t] = Idle /\ job[t] \in JobType /\ vote \in Gen \cup {NoGen}
      /\ vote # NoGen /\ row.gen \in {NoGen, vote} /\ Target \in Nat
  <2>1. /\ t \in Task /\ t \notin Tracker /\ job[t].pc = "idle" /\ vote # NoGen
        /\ row.gen \in {NoGen, vote}
    BY ShareAssumption DEF Task, prepare_committed_share_delivery
  <2>2. job[t] = Idle
    BY <2>1, JobTyped DEF Shape
  <2>3. vote \in Gen \cup {NoGen}
    BY DEF ShareInv, TypeOK
  <2>4. Target \in Nat
    BY ShareAssumption, Counts, SMT
  <2> QED
    BY <2>1, <2>2, <2>3, <2>4, JobTyped
<1>2. [Idle EXCEPT !.pc = "prepared", !.gen = vote] \in JobType
  BY <1>1 DEF JobType, Pcs
<1>3. PICK j \in JobType : j = [Idle EXCEPT !.pc = "prepared", !.gen = vote]
  BY <1>2
<1>4. PICK n \in JobType : n = Tidy(j)
  BY TidyPlaces, <1>1
<1>5. /\ job' = [job EXCEPT ![t] = n]
      /\ row' = [row EXCEPT !.gen = vote, !.target = target]
      /\ clock' = clock /\ faults' = faults
  BY <1>3, <1>4 DEF prepare_committed_share_delivery, Goto, world
<1>6. target \in 0..Cardinality(Helper)
  BY <1>1, Counts DEF RowType
<1>7. row.target \in Nat /\ target \in Nat /\ target >= row.target /\ target >= Target
  <2>1. row.target \in Nat
    BY <1>1, RowFacts
  <2> QED
    BY <1>1, <2>1, SMT DEF raised_target
<1> HIDE DEF target
<1>8. row' \in RowType /\ row'.gen = vote /\ row'.st = row.st /\ row'.target = target
  BY <1>1, <1>5, <1>6 DEF RowType
<1>9. j.pc = "prepared" /\ j.goal = 0
  <2>1. j.pc = "prepared" /\ j.goal = Idle.goal
    BY <1>1, <1>3, SMT DEF JobType, Pcs
  <2>2. Idle.goal = 0
    BY DEF Idle
  <2> QED
    BY <2>1, <2>2
<1>10. JobPlaces(t, n, row', clock', faults')
  <2>1. 0 <= Target
    BY <1>1, SMT
  <2>2. JobPlaces(t, j, row', clock', faults')
    BY <1>1, <1>9, <2>1 DEF JobPlaces
  <2> QED
    BY <1>1, <1>4, <2>2, TidyPlaces
<1>11. ASSUME NEW u \in Task PROVE JobPlaces(u, job'[u], row', clock', faults')
  <2>1. CASE u = t
    BY <1>1, <1>5, <1>10, <2>1
  <2>2. CASE u # t
    <3>1. /\ job'[u] = job[u] /\ job[u] \in JobType
          /\ JobPlaces(u, job[u], row, clock, faults)
      BY <1>1, <1>5, <2>2 DEF PlaceInv
    <3>2. job[u].gen = row'.gen => job[u].gen = row.gen
      BY <1>1, <1>8, OpenedFor
    <3>3. job[u].goal \in Nat
      BY <3>1 DEF JobType
    <3>4. job[u].goal <= row.target => job[u].goal <= row'.target
      BY <1>7, <1>8, <3>3, SMT
    <3> QED
      BY <1>5, <3>1, <3>2, <3>4 DEF JobPlaces
  <2> QED
    BY <2>1, <2>2
<1>12. ASSUME faults' = 0, NEW h \in Helper, row'.st[h] = "attempting"
       PROVE  \E u \in Task : job'[u].gen = row'.gen /\ Marked(u, job'[u], h)
  <2>1. row.st[h] = "attempting" /\ faults = 0
    BY <1>5, <1>8, <1>12
  <2>2. row.gen # NoGen
    <3>1. Absent.st[h] = "none"
      BY DEF Absent
    <3> QED
      BY <2>1, <3>1 DEF ShareInv, JournalInv
  <2>3. PICK u \in Task : job[u].gen = row.gen /\ Marked(u, job[u], h)
    BY <2>1 DEF PlaceInv
  <2>4. u # t
    <3>1. Idle.pc = "idle"
      BY DEF Idle
    <3> QED
      BY <1>1, <2>3, <3>1 DEF Marked, Busy
  <2> QED
    BY <1>1, <1>5, <1>8, <2>2, <2>3, <2>4
<1>13. PlacementBound'
  <2>1. row'.target >= row.target /\ PlacementBound
    BY <1>7, <1>8 DEF PlaceInv
  <2> QED
    BY <1>1, <1>5, <1>8, <2>1, SameRoom
<1> QED
  BY <1>7, <1>8, <1>11, <1>12, <1>13 DEF PlaceInv

LEMMA LockPlaces ==
  ASSUME ShareInv, PlaceInv, NEW t \in Deliverer, lock_delivery(t)
  PROVE  PlaceInv'
<1> DEFINE j == job[t]
           acc == In(row, "accepted")
           left == In(row, "none")
           goal == Least(Target, Cardinality(acc) + Cardinality(left))
           r == [j EXCEPT !.pc = "wave", !.acc = acc, !.left = left, !.goal = goal]
<1>1. t \in Task /\ t \notin Tracker /\ j \in JobType /\ j.pc = "prepared"
  BY JobTyped, ShareAssumption DEF Task, lock_delivery
<1>2. UNCHANGED <<row, clock, faults>> /\ faults' = faults
  BY DEF lock_delivery, journal, world
<1>3. \A h \in Helper : ~ Marked(t, j, h)
  BY <1>1 DEF Marked, Busy
<1>4. CASE Leave(t)
  BY <1>1, <1>2, <1>3, <1>4, QuietLeaves
<1>5. CASE Goto(t, r)
  <2>1. acc \in SUBSET Helper /\ left \in SUBSET Helper
    BY DEF In
  <2> HIDE DEF acc, left
  <2>2. goal \in Nat /\ goal <= Target
    <3>1. Cardinality(acc) \in Nat /\ Cardinality(left) \in Nat
      BY <2>1, Counts
    <3>2. Target \in Nat
      BY ShareAssumption, Counts, SMT
    <3> QED
      BY <3>1, <3>2, SMT DEF Least
  <2> HIDE DEF goal
  <2>3. r \in JobType /\ r.pc = "wave" /\ r.goal = goal
    BY <1>1, <2>1, <2>2 DEF JobType, Pcs
  <2>4. Goto(t, r)
    BY <1>5
  <2> HIDE DEF r
  <2>5. JobPlaces(t, r, row, clock, faults)
    BY <1>1, <2>2, <2>3 DEF JobPlaces
  <2> QED
    BY <1>1, <1>2, <1>3, <2>3, <2>4, <2>5, QuietGoes
<1> QED
  BY <1>4, <1>5 DEF lock_delivery, load_current_delivery_state

LEMMA ReserveReadPlaces ==
  ASSUME ShareInv, PlaceInv, NEW t \in Deliverer, NEW h \in Helper, reserve_read(t, h)
  PROVE  PlaceInv'
<1> DEFINE r == [job[t] EXCEPT !.pc = "reserve", !.h = h, !.seen = row]
<1>1. job[t] \in JobType /\ row \in RowType
  BY JobTyped DEF Task
<1>2. /\ r \in JobType /\ r.pc = "reserve" /\ r.gen = job[t].gen /\ r.seen = row
      /\ r.goal = job[t].goal /\ r.wave = job[t].wave
  BY <1>1 DEF JobType, Pcs
<1>3. Goto(t, r) /\ UNCHANGED <<row, clock, faults>>
  BY DEF reserve_read, journal, world
<1> HIDE DEF r
<1>4. Busy(r)
  BY <1>2 DEF Busy
<1> QED
  BY <1>2, <1>3, <1>4, DeliveryStays

\* What a reservation that started says of the row it read.
StartedOn(s, g, h, goal, allow) ==
  /\ s.gen = g /\ ~ s.confirmed /\ s.st[h] = "none"
  /\ ~ allow => Cardinality(In(s, "accepted") \cup In(s, "attempting")) < goal

LEMMA Answers ==
  ASSUME NEW s \in RowType, NEW g, NEW h, NEW goal \in Nat, NEW allow \in BOOLEAN,
         reservation(s, g, h, goal, allow) = "Started"
  PROVE  StartedOn(s, g, h, goal, allow)
<1>1. /\ s.gen = g /\ ~ s.confirmed /\ s.st[h] = "none"
      /\ ~ (~ allow /\ Cardinality(In(s, "accepted") \cup In(s, "attempting")) >= goal)
  BY DEF reservation
<1>2. In(s, "accepted") \cup In(s, "attempting") \in SUBSET Helper
  BY DEF In
<1>3. Cardinality(In(s, "accepted") \cup In(s, "attempting")) \in Nat
  BY <1>2, Counts
<1> QED
  BY <1>1, <1>3, SMT DEF StartedOn

LEMMA BeginPlaces ==
  ASSUME ShareInv, PlaceInv, NEW t \in Deliverer, begin_delivery_attempt(t)
  PROVE  PlaceInv'
<1> DEFINE j == job[t]
           answer == reservation(j.seen, j.gen, j.h, j.goal, FALSE)
<1>1. /\ t \in Task /\ t \notin Tracker /\ j \in JobType /\ j.pc = "reserve"
      /\ j.wave \in Seq(Helper) /\ j.seen \in RowType /\ row \in RowType
      /\ JobPlaces(t, j, row, clock, faults) /\ Busy(j) /\ j.h \in Helper
  BY JobTyped, ShareAssumption DEF Task, begin_delivery_attempt, PlaceInv, Busy, Shape
<1>2. UNCHANGED <<clock, faults>> /\ clock' = clock /\ faults' = faults
  BY DEF begin_delivery_attempt, world
<1>3. j.goal \in Nat /\ j.left \ {j.h} \in SUBSET Helper
  BY <1>1 DEF JobType
<1>4. CASE /\ answer = "Started" /\ same_row(row, j.seen)
           /\ row' = [row EXCEPT !.st = [j.seen.st EXCEPT ![j.h] = "attempting"]]
           /\ Goto(t, [j EXCEPT !.pc = "wave", !.left = @ \ {j.h},
                                !.wave = Append(@, j.h)])
  <2> DEFINE r == [j EXCEPT !.pc = "wave", !.left = @ \ {j.h},
                            !.wave = Append(@, j.h)]
  <2>1. /\ j.seen.gen = j.gen /\ ~ j.seen.confirmed /\ j.seen.st[j.h] = "none"
        /\ Cardinality(In(j.seen, "accepted") \cup In(j.seen, "attempting")) < j.goal
    <3>1. StartedOn(j.seen, j.gen, j.h, j.goal, FALSE)
      BY <1>1, <1>3, <1>4, Answers
    <3> QED
      BY <3>1 DEF StartedOn
  <2>2. Starts(t) /\ row.st = j.seen.st
    BY <1>1, <1>4, <2>1 DEF Starts, same_row
  <2>3. /\ row.gen = j.gen /\ row.gen # NoGen
        /\ row' \in RowType /\ row'.gen = row.gen
        /\ \A x \in Helper : row'.st[x] = IF x = j.h THEN "attempting" ELSE row.st[x]
    BY <1>1, <2>2, Reserved
  <2>4. Cardinality(In(row, "accepted") \cup In(row, "attempting")) < row.target
    <3>1. In(row, "accepted") \cup In(row, "attempting")
            = In(j.seen, "accepted") \cup In(j.seen, "attempting")
      BY <2>2 DEF In
    <3>2. In(row, "accepted") \cup In(row, "attempting") \in SUBSET Helper
      BY DEF In
    <3>3. /\ Cardinality(In(row, "accepted") \cup In(row, "attempting")) \in Nat
          /\ Cardinality(In(row, "accepted") \cup In(row, "attempting")) < j.goal
      BY <2>1, <3>1, <3>2, Counts
    <3>4. j.goal <= Target /\ row.target >= Target
      BY <1>1, <2>3 DEF JobPlaces, PlaceInv
    <3>5. Target \in Nat /\ row.target \in Nat
      BY <1>1, ShareAssumption, Counts, RowFacts, SMT
    <3> QED
      BY <1>3, <3>3, <3>4, <3>5, SMT
  <2>5. row'.target >= row.target /\ PlacementBound'
    BY <1>1, <1>2, <2>2, <2>4, StartsPlaced
  <2>6. /\ Append(j.wave, j.h) \in Seq(Helper)
        /\ ToSet(Append(j.wave, j.h)) = ToSet(j.wave) \cup {j.h}
    BY <1>1, Waves
  <2>7. /\ r \in JobType /\ r.pc = "wave" /\ r.gen = j.gen /\ r.goal = j.goal
        /\ r.wave = Append(j.wave, j.h)
    BY <1>1, <1>3, <2>6 DEF JobType, Pcs
  <2>8. Goto(t, r)
    BY <1>4
  <2> HIDE DEF r
  <2>9. JobPlaces(t, r, row', clock, faults)
    BY <1>1, <2>7 DEF JobPlaces
  <2>10. ASSUME NEW h \in Helper, row'.st[h] = "attempting"
         PROVE  \/ r.gen = row.gen /\ Marked(t, r, h)
                \/ row.st[h] = "attempting" /\ ~ (j.gen = row.gen /\ Marked(t, j, h))
    <3>1. Busy(r)
      BY <2>7 DEF Busy
    <3>2. h = j.h => Marked(t, r, h)
      BY <1>1, <2>6, <2>7, <3>1 DEF Marked
    <3>3. Marked(t, j, h) => Marked(t, r, h)
      BY <1>1, <2>6, <2>7, <3>1 DEF Marked
    <3> QED
      BY <2>3, <2>7, <2>10, <3>2, <3>3
  <2> QED
    BY <1>1, <1>2, <2>3, <2>5, <2>7, <2>8, <2>9, <2>10, PlaceGoes
<1>5. CASE Reread(t) /\ UNCHANGED row
  BY <1>1, <1>2, <1>5, RereadPlaces
<1>6. CASE Goto(t, [j EXCEPT !.pc = "wave", !.left = @ \ {j.h}]) /\ UNCHANGED row
  <2> DEFINE r == [j EXCEPT !.pc = "wave", !.left = @ \ {j.h}]
  <2>1. /\ r \in JobType /\ r.pc = "wave" /\ r.gen = j.gen /\ r.goal = j.goal
        /\ r.wave = j.wave
    BY <1>1, <1>3 DEF JobType, Pcs
  <2>2. Goto(t, r) /\ UNCHANGED <<row, clock, faults>>
    BY <1>2, <1>6
  <2> HIDE DEF r
  <2>3. Busy(r)
    BY <2>1 DEF Busy
  <2> QED
    BY <2>1, <2>2, <2>3, DeliveryStays
<1>7. CASE StartPosts(t) /\ UNCHANGED row
  BY <1>1, <1>2, <1>7, StartPostsPlaces
<1>8. CASE answer = "StaleGeneration" /\ Leave(t) /\ UNCHANGED row
  <2>1. j.seen.gen # j.gen
    BY <1>8 DEF reservation
  <2>2. row.gen # j.gen
    BY <1>1, <2>1 DEF JobPlaces
  <2> QED
    BY <1>1, <1>2, <1>8, <2>2, QuietLeaves
<1> QED
  BY <1>4, <1>5, <1>6, <1>7, <1>8 DEF begin_delivery_attempt

\* The row an outcome is written to keeps its target.
LEMMA StoreKeepsTarget ==
  ASSUME ShareInv, NEW t \in Task, NEW effect, NEW reset, Resolving(t, effect, reset),
         row' \in RowType
  PROVE  row'.target >= row.target
<1>1. row \in RowType
  BY DEF ShareInv, TypeOK
<1>2. row'.target = row.target
  BY <1>1 DEF Resolving, Store, RowType
<1>3. row.target \in Nat
  BY <1>1, RowFacts
<1> QED
  BY <1>2, <1>3, SMT

LEMMA ApplyReadPlaces ==
  ASSUME ShareInv, PlaceInv, NEW t \in Deliverer, apply_read(t)
  PROVE  PlaceInv'
<1> DEFINE j == job[t]
           h == Head(job[t].wave)
           r == [j EXCEPT !.pc = "resolve", !.h = h, !.seen = row]
<1>1. /\ t \in Task /\ j \in JobType /\ row \in RowType /\ j.pc = "post" /\ Busy(j)
      /\ j.wave \in Seq(Helper) /\ j.wave # <<>> /\ Works(t, j, row, net, held)
  BY JobTyped DEF Task, Busy, Shape, apply_read
<1>2. h \in Helper /\ h \in ToSet(j.wave)
  BY <1>1, Waves
<1>3. UNCHANGED <<row, clock, faults>> /\ faults' = faults
  BY DEF apply_read, journal, world
<1>4. CASE j.out[h] = "stale" /\ Leave(t)
  <2>1. row.gen # j.gen
    BY <1>1, <1>2, <1>4 DEF Works, Delivers, Attempt
  <2> QED
    BY <1>1, <1>3, <1>4, <2>1, QuietLeaves
<1>5. CASE Goto(t, r)
  <2>1. /\ r \in JobType /\ r.pc = "resolve" /\ r.gen = j.gen /\ r.goal = j.goal
        /\ r.wave = j.wave /\ r.seen = row
    BY <1>1, <1>2 DEF JobType, Pcs
  <2>2. Goto(t, r)
    BY <1>5
  <2> HIDE DEF r
  <2>3. Busy(r)
    BY <2>1 DEF Busy
  <2> QED
    BY <1>3, <2>1, <2>2, <2>3, DeliveryStays
<1> QED
  BY <1>4, <1>5 DEF apply_read

LEMMA ResolvePlaces ==
  ASSUME ShareInv, PlaceInv, NEW t \in Deliverer, resolve_delivery_attempt(t)
  PROVE  PlaceInv'
<1> DEFINE j == job[t]
           h == job[t].h
           effect == Effect(job[t].out[job[t].h])
<1>1. /\ t \in Task /\ t \notin Tracker /\ j \in JobType /\ j.pc = "resolve"
      /\ Busy(j) /\ j.wave \in Seq(Helper) /\ j.wave # <<>> /\ h \in Helper
      /\ Works(t, j, row, net, held) /\ row \in RowType
      /\ j.out \in [Helper -> Outcomes] /\ JobPlaces(t, j, row, clock, faults)
  BY JobTyped, ShareAssumption DEF Task, Busy, Shape, resolve_delivery_attempt, PlaceInv
<1>2. UNCHANGED <<clock, faults>> /\ clock' = clock /\ faults' = faults
  BY DEF resolve_delivery_attempt, world
<1>3. CASE j.seen.gen # j.gen /\ Leave(t) /\ UNCHANGED row
  <2>1. row.gen # j.gen
    BY <1>1, <1>3 DEF JobPlaces
  <2> QED
    BY <1>1, <1>2, <1>3, <2>1, QuietLeaves
<1>4. CASE Reread(t) /\ UNCHANGED row
  BY <1>1, <1>2, <1>4, RereadPlaces
<1>5. CASE /\ j.seen.gen = j.gen /\ same_row(row, j.seen)
           /\ Store(row, resolved(j.seen, h, effect, FALSE))
           /\ Goto(t, [j EXCEPT !.pc = IF Len(j.wave) = 1 THEN "wave" ELSE "post",
                         !.wave = Tail(@), !.out[j.h] = "none",
                         !.acc = IF j.out[j.h] = "accepted"
                                 THEN @ \cup {j.h} ELSE @])
  <2> DEFINE pc == IF Len(j.wave) = 1 THEN "wave" ELSE "post"
             o == [j.out EXCEPT ![h] = "none"]
             acc == IF j.out[h] = "accepted" THEN j.acc \cup {h} ELSE j.acc
             e == Written(effect, row.st[h])
             r == [j EXCEPT !.pc = pc, !.wave = Tail(j.wave), !.out = o, !.acc = acc]
  <2>1. effect \in {"Accepted", "Ambiguous", "DefiniteFailure", "nothing"}
        /\ effect # "nothing" /\ Resolving(t, effect, FALSE)
    BY <1>1, <1>5 DEF Resolving, Effect
  <2>2. /\ row.gen = j.gen /\ row' \in RowType /\ row'.gen = row.gen
        /\ \A x \in Helper : row'.st[x] = IF x = h THEN e ELSE row.st[x]
    <3>1. RowResolved(t, effect)
      BY <1>1, <2>1, Resolved
    <3> QED
      BY <3>1 DEF RowResolved
  <2>3. Goto(t, r)
    BY <1>5
  <2>4. Tail(j.wave) \in Seq(Helper) /\ pc \in {"wave", "post"}
    BY <1>1, Waves
  <2>5. o \in [Helper -> Outcomes] /\ acc \in SUBSET Helper
    <3>1. j.acc \in SUBSET Helper
      BY <1>1 DEF JobType
    <3> QED
      BY <1>1, <3>1 DEF Outcomes
  <2>6. h = Head(j.wave) /\ row.st[h] = "attempting"
    <3>1. Delivers(t, j, row, net, held) /\ Head(j.wave) \in ToSet(j.wave)
      BY <1>1, <2>2, Waves DEF Works
    <3> QED
      BY <1>1, <3>1 DEF Delivers, Attempt
  <2>7. ToSet(j.wave) \subseteq ToSet(Tail(j.wave)) \cup {h}
    BY <1>1, <2>6, Waves
  <2>8. e # "attempting"
    BY <2>1, <2>6 DEF Written
  <2>9. row'.target >= row.target
    BY <1>1, <2>1, <2>2, StoreKeepsTarget
  <2> HIDE DEF pc, o, acc, e
  <2>10. /\ r \in JobType /\ r.pc = pc /\ r.gen = j.gen /\ r.goal = j.goal
         /\ r.wave = Tail(j.wave)
    BY <1>1, <2>4, <2>5 DEF JobType, Pcs
  <2> HIDE DEF r
  <2>11. Busy(r) /\ JobPlaces(t, r, row', clock, faults)
    BY <1>1, <2>4, <2>10 DEF JobPlaces, Busy
  <2>12. ASSUME NEW x \in Helper, row'.st[x] = "attempting"
         PROVE  \/ r.gen = row.gen /\ Marked(t, r, x)
                \/ row.st[x] = "attempting" /\ ~ (j.gen = row.gen /\ Marked(t, j, x))
    <3>1. x # h /\ row.st[x] = "attempting"
      BY <2>2, <2>8, <2>12
    <3>2. Marked(t, j, x) => Marked(t, r, x)
      BY <1>1, <2>7, <2>10, <2>11, <3>1 DEF Marked
    <3> QED
      BY <2>2, <2>10, <3>1, <3>2
  <2>13. PlacementBound'
    <3>1. PlacementBound
      BY DEF PlaceInv
    <3>2. \A x \in Helper : row'.st[x] \in {"accepted", "attempting"} =>
                              row.st[x] \in {"accepted", "attempting"}
      BY <2>2, <2>6
    <3> QED
      BY <1>1, <1>2, <2>2, <2>9, <3>1, <3>2, SameRoom
  <2> QED
    BY <1>1, <1>2, <2>2, <2>3, <2>9, <2>10, <2>11, <2>12, <2>13, PlaceGoes
<1> QED
  BY <1>3, <1>4, <1>5 DEF resolve_delivery_attempt

\* A job whose outcome for one helper is known.
LEMMA OutcomePlaces ==
  ASSUME ShareInv, PlaceInv, NEW t \in Task, NEW h \in Helper, NEW o \in Outcomes,
         Goto(t, [job[t] EXCEPT !.out[h] = o]), UNCHANGED <<row, clock, faults>>
  PROVE  PlaceInv'
<1> DEFINE j == job[t]
           p == [j.out EXCEPT ![h] = o]
<1>1. j \in JobType /\ j.out \in [Helper -> Outcomes] /\ JobPlaces(t, j, row, clock, faults)
  BY JobTyped DEF PlaceInv
<1>2. p \in [Helper -> Outcomes]
  BY <1>1
<1>3. [j EXCEPT !.out = p] \in JobType /\ [j EXCEPT !.out = p] = [j EXCEPT !.out[h] = o]
  <2> HIDE DEF p
  <2>1. [j EXCEPT !.out = p] \in JobType
    BY <1>1, <1>2 DEF JobType
  <2> QED
    BY <1>1, <2>1 DEF JobType, p
<1> HIDE DEF p
<1>4. PICK r \in JobType : r = [j EXCEPT !.out = p]
  BY <1>3
<1>5. /\ r.pc = j.pc /\ r.gen = j.gen /\ r.acc = j.acc /\ r.amb = j.amb
      /\ r.intr = j.intr /\ r.wave = j.wave /\ r.h = j.h /\ r.goal = j.goal
      /\ r.over = j.over /\ r.seen = j.seen
  BY <1>1, <1>4 DEF JobType
<1>6. Goto(t, r)
  BY <1>3, <1>4
<1>7. JobPlaces(t, r, row, clock, faults)
  BY <1>1, <1>5 DEF JobPlaces, Fresh
<1>8. \A x \in Helper : Marked(t, j, x) => Marked(t, r, x)
  BY <1>5 DEF Marked, Busy, Fresh
<1> QED
  BY <1>5, <1>6, <1>7, <1>8, QuietGoes

\* Every step of an initial delivery.
LEMMA DelivererPlaces ==
  ASSUME ShareInv, PlaceInv, NEW t \in Deliverer, DelivererStep(t)
  PROVE  PlaceInv'
<1>1. t \in Task
  BY DEF Task
<1>2. CASE cancel_lock_wait(t)
  <2>1. Leave(t) /\ UNCHANGED <<row, clock>> /\ faults' = faults /\ ~ Busy(job[t])
    BY <1>2 DEF cancel_lock_wait, journal, world, Busy
  <2> QED
    BY <1>1, <2>1, QuietLeaves DEF Marked
<1>3. CASE end_wave(t)
  <2>1. StartPosts(t) /\ UNCHANGED <<row, clock, faults>> /\ job[t].pc = "wave"
    BY <1>3 DEF end_wave, journal, world
  <2> QED
    BY <2>1, StartPostsPlaces
<1>4. ASSUME NEW h \in Helper, post_capacity_refused(t, h) PROVE PlaceInv'
  <2>1. /\ Goto(t, [job[t] EXCEPT !.out[h] = "failed"]) /\ "failed" \in Outcomes
        /\ UNCHANGED <<row, clock, faults>>
    BY <1>4 DEF post_capacity_refused, journal, world, Outcomes
  <2> QED
    BY <1>1, <2>1, OutcomePlaces
<1>5. ASSUME NEW h \in Helper, post_share(t, h) PROVE PlaceInv'
  <2>1. UNCHANGED <<row, clock, faults>> /\ "sent" \in Outcomes /\ "stale" \in Outcomes
    BY <1>5 DEF post_share, journal, Outcomes
  <2>2. \/ Goto(t, [job[t] EXCEPT !.out[h] = "sent"])
        \/ Goto(t, [job[t] EXCEPT !.out[h] = "stale"])
    BY <1>5 DEF post_share
  <2> QED
    BY <1>1, <2>1, <2>2, OutcomePlaces
<1> QED
  BY <1>2, <1>3, <1>4, <1>5, PreparePlaces, LockPlaces, BeginPlaces, ApplyReadPlaces,
     ResolvePlaces, ReserveReadPlaces DEF DelivererStep

-----------------------------------------------------------------------------
(* Tracking places the share.                                              *)

\* A pass goes on with no helper in hand, or with the same one.
LEMMA PassStays ==
  ASSUME ShareInv, PlaceInv, NEW t \in Tracker, NEW r \in JobType, Goto(t, r),
         UNCHANGED <<row, clock, faults>>, r.goal = job[t].goal, r.gen = job[t].gen,
         r.intr = job[t].intr, r.over = job[t].over \/ (r.over => clock >= 2),
         r.pc \in {"reserve", "resolve"} => r.seen = row,
         r.pc = "reserve" => Fresh(r, r.h),
         faults = 0 /\ r.pc \in {"dispatch", "settle", "resolve"} /\ ~ r.over =>
           Fresh(r, r.h),
         \A h \in Helper : Marked(t, job[t], h) => Marked(t, r, h)
  PROVE  PlaceInv'
<1>1. t \in Task /\ t \notin Deliverer /\ JobPlaces(t, job[t], row, clock, faults)
  BY ShareAssumption DEF Task, PlaceInv
<1>2. JobPlaces(t, r, row, clock, faults)
  BY <1>1 DEF JobPlaces
<1> QED
  BY <1>1, <1>2, QuietGoes

\* A pass that has reserved nothing, or whose row is gone, may end.
LEMMA PassEnds ==
  ASSUME ShareInv, PlaceInv, NEW t \in Tracker, Leave(t), UNCHANGED <<row, clock, faults>>,
         job[t].gen = row.gen /\ job[t].pc \in {"dispatch", "settle", "resolve"} =>
           ~ Fresh(job[t], job[t].h)
  PROVE  PlaceInv'
<1>1. t \in Task /\ faults' = faults
  BY DEF Task
<1>2. \A h \in Helper : ~ (job[t].gen = row.gen /\ Marked(t, job[t], h))
  BY DEF Marked
<1> QED
  BY <1>1, <1>2, QuietLeaves

LEMMA WalkPlaces ==
  ASSUME ShareInv, PlaceInv, NEW t \in Tracker, walk_pending_shares(t)
  PROVE  PlaceInv'
<1> DEFINE acc == In(row, "accepted")
           amb == In(row, "unknown")
           intr == In(row, "attempting")
           goal == Least(row.target, Cardinality(Helper))
           pc == IF Ready THEN "poll" ELSE "decide"
           r == [Idle EXCEPT !.pc = pc, !.gen = row.gen, !.goal = goal,
                             !.acc = acc, !.amb = amb, !.intr = intr]
<1>1. /\ t \in Task /\ t \notin Deliverer /\ row \in RowType /\ lock = NoTask
      /\ Idle \in JobType /\ job[t] = Idle
  <2>1. t \in Task /\ t \notin Deliverer /\ job[t].pc = "idle"
    BY ShareAssumption DEF Task, walk_pending_shares
  <2>2. row \in RowType /\ Idle \in JobType /\ job[t] = Idle
    BY <2>1, JobTyped DEF Shape
  <2> QED
    BY <2>1, <2>2 DEF walk_pending_shares, LockFree
<1>2. Goto(t, r) /\ UNCHANGED <<row, clock, faults>>
  BY DEF walk_pending_shares, journal, world
<1>3. ASSUME NEW u \in Task PROVE ~ Busy(job[u])
  <2>1. NoTask \notin Task
    BY ShareAssumption DEF Task, NoTask
  <2>2. Owns(u, job[u])
    BY DEF ShareInv
  <2> QED
    BY <1>1, <2>1, <2>2 DEF Owns
<1>4. faults = 0 => intr = {}
  BY <1>3 DEF PlaceInv, Marked, In
<1>5. acc \in SUBSET Helper /\ amb \in SUBSET Helper /\ intr \in SUBSET Helper
  BY DEF In
<1>6. goal \in Nat /\ goal <= row.target /\ pc \in {"poll", "decide"}
  <2>1. Cardinality(Helper) \in Nat
    BY Counts
  <2>2. row.target \in Nat
    BY <1>1, RowFacts
  <2> QED
    BY <2>1, <2>2, SMT DEF Least
<1>7. row.gen \in Gen \cup {NoGen}
  BY <1>1 DEF RowType
<1>8. Idle.over = FALSE
  BY DEF Idle
<1> HIDE DEF acc, amb, intr, goal, pc
<1>9. r \in JobType /\ r.pc = pc /\ r.goal = goal /\ r.intr = intr /\ r.over = Idle.over
  BY <1>1, <1>5, <1>6, <1>7 DEF JobType, Pcs
<1> HIDE DEF r
<1>10. JobPlaces(t, r, row, clock, faults)
  BY <1>1, <1>4, <1>6, <1>8, <1>9 DEF JobPlaces
<1>11. \A h \in Helper : ~ Marked(t, job[t], h)
  BY <1>1, <1>3 DEF Marked
<1> QED
  BY <1>1, <1>2, <1>9, <1>10, <1>11, QuietGoes

LEMMA PollPlaces ==
  ASSUME ShareInv, PlaceInv, NEW t \in Tracker, poll_share_helpers(t)
  PROVE  PlaceInv'
<1> DEFINE j == job[t]
<1>1. t \in Task /\ j \in JobType /\ j.pc = "poll"
  BY JobTyped DEF Task, poll_share_helpers
<1>2. UNCHANGED <<row, clock, faults>>
  BY DEF poll_share_helpers, journal, world
<1>3. PICK pc \in {"confirm", "decide"} : Goto(t, [j EXCEPT !.pc = pc])
  BY DEF poll_share_helpers
<1> DEFINE r == [j EXCEPT !.pc = pc]
<1>4. /\ r \in JobType /\ r.pc = pc /\ r.gen = j.gen /\ r.goal = j.goal
      /\ r.intr = j.intr /\ r.over = j.over
  BY <1>1 DEF JobType, Pcs
<1>5. Goto(t, r)
  BY <1>3
<1> HIDE DEF r
<1>6. \A h \in Helper : ~ Marked(t, j, h)
  BY <1>1 DEF Marked
<1>7. r.pc \notin {"reserve", "dispatch", "settle", "resolve"}
  BY <1>4
<1> QED
  BY <1>2, <1>4, <1>5, <1>6, <1>7, PassStays

LEMMA ConfirmPlaces ==
  ASSUME ShareInv, PlaceInv, NEW t \in Tracker, mark_share_confirmed(t)
  PROVE  PlaceInv'
<1>1. t \in Task /\ row \in RowType /\ job[t].pc = "confirm"
  BY JobTyped DEF Task, mark_share_confirmed
<1>2. Leave(t) /\ clock' = clock /\ faults' = faults
  BY DEF mark_share_confirmed, world
<1>3. row' \in RowType /\ row'.gen = row.gen /\ row'.st = row.st /\ row'.target = row.target
  <2>1. CASE row' = row
    BY <1>1, <2>1
  <2>2. CASE row' = [row EXCEPT !.confirmed = TRUE]
    BY <1>1, <2>2 DEF RowType
  <2> QED
    BY <2>1, <2>2 DEF mark_share_confirmed
<1>4. row'.target >= row.target
  <2>1. row.target \in Nat
    BY <1>1, RowFacts
  <2> QED
    BY <1>3, <2>1, SMT
<1>5. PlacementBound
  BY DEF PlaceInv
<1>6. PlacementBound'
  BY <1>1, <1>2, <1>3, <1>4, <1>5, SameRoom
<1>7. \A h \in Helper : ~ Marked(t, job[t], h)
  BY <1>1 DEF Marked
<1> QED
  BY <1>1, <1>2, <1>3, <1>4, <1>6, <1>7, PlaceLeaves

LEMMA DecidePlaces ==
  ASSUME ShareInv, PlaceInv, NEW t \in Tracker, decide_recovery(t) \/ recovery_material(t)
  PROVE  PlaceInv'
<1> DEFINE j == job[t]
           under == Cardinality(j.acc) < j.goal
           r1 == [j EXCEPT !.pc = "call", !.over = Overdue,
                           !.full = Overdue \/ under, !.left = Helper]
           r2 == [j EXCEPT !.pc = "pick", !.cap = FALSE]
<1>1. t \in Task /\ j \in JobType /\ j.pc \in {"decide", "call"} /\ clock \in 0..MaxClock
  BY JobTyped DEF Task, decide_recovery, recovery_material, ShareInv, TypeOK
<1>2. UNCHANGED <<row, clock, faults>>
  BY DEF decide_recovery, recovery_material, journal, world
<1>3. \A h \in Helper : ~ Marked(t, j, h)
  BY <1>1 DEF Marked
<1>4. CASE Leave(t)
  BY <1>1, <1>2, <1>4, PassEnds
<1>5. CASE Goto(t, r1)
  <2>1. Overdue \in BOOLEAN /\ (Overdue \/ under) \in BOOLEAN /\ Helper \in SUBSET Helper
    BY DEF Overdue
  <2>2. /\ r1 \in JobType /\ r1.pc = "call" /\ r1.gen = j.gen /\ r1.goal = j.goal
        /\ r1.intr = j.intr /\ r1.over = Overdue
    BY <1>1, <2>1, ZenonT(60) DEF JobType, Pcs
  <2>3. Goto(t, r1)
    BY <1>5
  <2>4. Overdue => clock >= 2
    BY <1>1, ShareAssumption, SMT DEF Overdue
  <2> HIDE DEF r1
  <2>5. (r1.over => clock >= 2) /\ r1.pc \notin {"reserve", "dispatch", "settle", "resolve"}
    BY <2>2, <2>4
  <2> QED
    BY <1>2, <1>3, <2>2, <2>3, <2>5, PassStays
<1>6. CASE Goto(t, r2)
  <2>1. /\ r2 \in JobType /\ r2.pc = "pick" /\ r2.gen = j.gen /\ r2.goal = j.goal
        /\ r2.intr = j.intr /\ r2.over = j.over
    BY <1>1 DEF JobType, Pcs
  <2>2. Goto(t, r2) /\ r2.pc \notin {"reserve", "dispatch", "settle", "resolve"}
    BY <1>6, <2>1
  <2> HIDE DEF r2
  <2> QED
    BY <1>2, <1>3, <2>1, <2>2, PassStays
<1> QED
  BY <1>4, <1>5, <1>6 DEF decide_recovery, recovery_material

\* Helpers with evidence come up only in an overdue share or after an interruption.
LEMMA ForemostFresh ==
  ASSUME NEW j \in JobType, NEW h \in Foremost(j)
  PROVE  Fresh(j, h) \/ j.intr # {} \/ j.over
<1>1. PICK i \in 1..4 : h \in recovery_order(j)[i]
  BY DEF Foremost
<1>2. i = 1 \/ i = 2 \/ i = 3 \/ i = 4
  BY <1>1, SMT
<1>3. CASE i = 1
  BY <1>1, <1>3, SMT DEF recovery_order, Fresh
<1>4. CASE i = 2
  BY <1>1, <1>4, SMT DEF recovery_order
<1>5. CASE i = 3
  BY <1>1, <1>5, SMT DEF recovery_order
<1>6. CASE i = 4
  BY <1>1, <1>6, SMT DEF recovery_order
<1> QED
  BY <1>2, <1>3, <1>4, <1>5, <1>6

LEMMA NextHelperPlaces ==
  ASSUME ShareInv, PlaceInv, NEW t \in Tracker, NEW h \in Helper, next_helper(t, h)
  PROVE  PlaceInv'
<1> DEFINE k == [job[t] EXCEPT !.left = @ \ {h}, !.h = h]
           pc == IF row.confirmed THEN "pick" ELSE "dispatch"
           r1 == [k EXCEPT !.pc = "reserve", !.seen = row]
           r3 == [k EXCEPT !.pc = pc]
<1>1. /\ t \in Task /\ job[t] \in JobType /\ job[t].pc = "pick" /\ row \in RowType
      /\ JobPlaces(t, job[t], row, clock, faults) /\ h \in Foremost(job[t])
  BY JobTyped DEF Task, next_helper, PlaceInv
<1>2. UNCHANGED <<row, clock, faults>>
  BY DEF next_helper, journal, world
<1>3. job[t].left \ {h} \in SUBSET Helper /\ pc \in {"pick", "dispatch"}
  BY <1>1 DEF JobType
<1>4. /\ k \in JobType /\ k.pc = "pick" /\ k.h = h /\ k.gen = job[t].gen
      /\ k.acc = job[t].acc /\ k.amb = job[t].amb /\ k.intr = job[t].intr
      /\ k.goal = job[t].goal /\ k.over = job[t].over
  BY <1>1, <1>3 DEF JobType
<1>5. \/ Goto(t, r1) /\ Fresh(k, h)
      \/ Goto(t, k)
      \/ Goto(t, r3) /\ ~ Fresh(k, h)
      \/ Leave(t)
  BY DEF next_helper
<1>6. \A x \in Helper : ~ Marked(t, job[t], x)
  BY <1>1 DEF Marked
<1>7. faults = 0 /\ ~ Fresh(k, h) => k.over
  <2>1. Fresh(job[t], h) \/ job[t].intr # {} \/ job[t].over
    BY <1>1, ForemostFresh
  <2>2. faults = 0 => job[t].intr = {}
    BY <1>1 DEF JobPlaces
  <2> QED
    BY <1>4, <2>1, <2>2 DEF Fresh
<1> HIDE DEF k, pc
<1>8. CASE Leave(t)
  BY <1>1, <1>2, <1>8, PassEnds
<1>9. CASE Goto(t, r1) /\ Fresh(k, h)
  <2>1. /\ r1 \in JobType /\ r1.pc = "reserve" /\ r1.h = h /\ r1.gen = k.gen
        /\ r1.acc = k.acc /\ r1.amb = k.amb /\ r1.intr = k.intr
        /\ r1.goal = k.goal /\ r1.over = k.over /\ r1.seen = row
    BY <1>1, <1>4 DEF JobType, Pcs
  <2>2. Goto(t, r1)
    BY <1>9
  <2> HIDE DEF r1
  <2>3. Fresh(r1, r1.h)
    BY <1>9, <2>1 DEF Fresh
  <2> QED
    BY <1>2, <1>4, <1>6, <2>1, <2>2, <2>3, PassStays
<1>10. CASE Goto(t, k)
  <2>1. k.pc \notin {"reserve", "dispatch", "settle", "resolve"}
    BY <1>4
  <2> QED
    BY <1>2, <1>4, <1>6, <1>10, <2>1, PassStays
<1>11. CASE Goto(t, r3) /\ ~ Fresh(k, h)
  <2>1. /\ r3 \in JobType /\ r3.pc = pc /\ r3.gen = k.gen
        /\ r3.intr = k.intr /\ r3.goal = k.goal /\ r3.over = k.over
    BY <1>3, <1>4 DEF JobType, Pcs
  <2>2. Goto(t, r3) /\ r3.pc \notin {"reserve", "resolve"}
    BY <1>3, <1>11, <2>1
  <2> HIDE DEF r3
  <2>3. faults = 0 => r3.over
    BY <1>7, <1>11, <2>1
  <2> QED
    BY <1>2, <1>4, <1>6, <2>1, <2>2, <2>3, PassStays
<1> QED
  BY <1>5, <1>8, <1>9, <1>10, <1>11

LEMMA BeginExistingPlaces ==
  ASSUME ShareInv, PlaceInv, NEW t \in Tracker, begin_existing_delivery_attempt(t)
  PROVE  PlaceInv'
<1> DEFINE j == job[t]
           allow == j.over \/ j.intr # {}
           answer == reservation(j.seen, j.gen, j.h, j.goal, allow)
           cap == j.cap \/ answer = "PlacementCapacityReached"
           r1 == [j EXCEPT !.pc = "dispatch"]
           r2 == [j EXCEPT !.pc = "pick", !.cap = cap]
<1>1. /\ t \in Task /\ t \notin Deliverer /\ j \in JobType /\ j.pc = "reserve"
      /\ j.h \in Helper /\ j.seen \in RowType /\ row \in RowType
      /\ JobPlaces(t, j, row, clock, faults)
  BY JobTyped, ShareAssumption DEF Task, Shape, begin_existing_delivery_attempt, PlaceInv
<1>2. UNCHANGED <<clock, faults>> /\ clock' = clock /\ faults' = faults
  BY DEF begin_existing_delivery_attempt, world
<1>3. j.goal \in Nat /\ allow \in BOOLEAN /\ cap \in BOOLEAN
  BY <1>1 DEF JobType
<1>4. \A x \in Helper : ~ Marked(t, j, x)
  BY <1>1 DEF Marked
<1>5. CASE /\ answer = "Started" /\ same_row(row, j.seen)
           /\ row' = [row EXCEPT !.st = [j.seen.st EXCEPT ![j.h] = "attempting"]]
           /\ Goto(t, r1)
  <2>1. StartedOn(j.seen, j.gen, j.h, j.goal, allow)
    <3> HIDE DEF allow
    <3> QED
      BY <1>1, <1>3, <1>5, Answers
  <2>2. Starts(t) /\ row.st = j.seen.st
    BY <1>1, <1>5, <2>1 DEF Starts, same_row, StartedOn
  <2>3. /\ row.gen = j.gen /\ row.gen # NoGen
        /\ row' \in RowType /\ row'.gen = row.gen
        /\ \A x \in Helper : row'.st[x] = IF x = j.h THEN "attempting" ELSE row.st[x]
    BY <1>1, <2>2, Reserved
  <2>4. ASSUME clock < 2, faults = 0
        PROVE  Cardinality(In(row, "accepted") \cup In(row, "attempting")) < row.target
    <3>1. clock \in Nat
      BY ShareAssumption, SMT DEF ShareInv, TypeOK
    <3>2. ~ (clock >= 2)
      BY <2>4, <3>1, SMT
    <3>3. ~ allow /\ j.goal <= row.target
      BY <1>1, <2>3, <2>4, <3>2 DEF JobPlaces
    <3>4. In(row, "accepted") \cup In(row, "attempting")
            = In(j.seen, "accepted") \cup In(j.seen, "attempting")
      BY <2>2 DEF In
    <3>5. In(row, "accepted") \cup In(row, "attempting") \in SUBSET Helper
      BY DEF In
    <3>6. /\ Cardinality(In(row, "accepted") \cup In(row, "attempting")) \in Nat
          /\ Cardinality(In(row, "accepted") \cup In(row, "attempting")) < j.goal
      BY <2>1, <3>3, <3>4, <3>5, Counts DEF StartedOn
    <3>7. row.target \in Nat
      BY <1>1, RowFacts
    <3> QED
      BY <1>3, <3>3, <3>6, <3>7, SMT
  <2>5. row'.target >= row.target /\ PlacementBound'
    BY <1>1, <1>2, <2>2, <2>4, StartsPlaced
  <2>6. /\ r1 \in JobType /\ r1.pc = "dispatch" /\ r1.gen = j.gen /\ r1.h = j.h
        /\ r1.acc = j.acc /\ r1.amb = j.amb /\ r1.intr = j.intr
        /\ r1.goal = j.goal /\ r1.over = j.over
    BY <1>1 DEF JobType, Pcs
  <2>7. Goto(t, r1)
    BY <1>5
  <2> HIDE DEF r1
  <2>8. Fresh(r1, r1.h) /\ Busy(r1)
    BY <1>1, <2>6 DEF JobPlaces, Fresh, Busy
  <2>9. j.goal <= row.target => j.goal <= row'.target
    <3>1. row.target \in Nat /\ row'.target \in Nat
      BY <1>1, <2>3, RowFacts
    <3> QED
      BY <1>3, <2>5, <3>1, SMT
  <2>10. JobPlaces(t, r1, row', clock, faults)
    BY <1>1, <2>3, <2>6, <2>8, <2>9 DEF JobPlaces
  <2>11. Marked(t, r1, j.h)
    BY <1>1, <2>6, <2>8 DEF Marked
  <2>12. \A h \in Helper : faults = 0 /\ row'.st[h] = "attempting" =>
           \/ r1.gen = row.gen /\ Marked(t, r1, h)
           \/ row.st[h] = "attempting" /\ ~ (j.gen = row.gen /\ Marked(t, j, h))
    BY <1>4, <2>3, <2>6, <2>11
  <2> QED
    BY <1>1, <1>2, <2>3, <2>5, <2>6, <2>7, <2>10, <2>12, PlaceGoes
<1>6. CASE Reread(t) /\ UNCHANGED row
  BY <1>1, <1>2, <1>6, RereadPlaces
<1>7. CASE Goto(t, r2) /\ UNCHANGED row
  <2> HIDE DEF cap
  <2>1. /\ r2 \in JobType /\ r2.pc = "pick" /\ r2.gen = j.gen
        /\ r2.intr = j.intr /\ r2.goal = j.goal /\ r2.over = j.over
    BY <1>1, <1>3 DEF JobType, Pcs
  <2>2. /\ Goto(t, r2) /\ UNCHANGED <<row, clock, faults>>
        /\ r2.pc \notin {"reserve", "dispatch", "settle", "resolve"}
    BY <1>2, <1>7, <2>1
  <2> HIDE DEF r2
  <2> QED
    BY <1>4, <2>1, <2>2, PassStays
<1>8. CASE Leave(t) /\ UNCHANGED row
  BY <1>1, <1>2, <1>8, PassEnds
<1> QED
  BY <1>5, <1>6, <1>7, <1>8 DEF begin_existing_delivery_attempt

LEMMA ResubmitPlaces ==
  ASSUME ShareInv, PlaceInv, NEW t \in Tracker, resubmit_share(t)
  PROVE  PlaceInv'
<1> DEFINE j == job[t]
<1>1. /\ t \in Task /\ t \notin Deliverer /\ j \in JobType /\ j.pc = "dispatch"
      /\ j.h \in Helper /\ j.out \in [Helper -> Outcomes] /\ Busy(j)
      /\ JobPlaces(t, j, row, clock, faults)
  BY JobTyped, ShareAssumption DEF Task, Shape, resubmit_share, PlaceInv, Busy
<1>2. UNCHANGED <<row, clock, faults>>
  BY DEF resubmit_share, journal
<1>3. PICK o \in Outcomes : Goto(t, [j EXCEPT !.pc = "settle", !.out[j.h] = o])
  BY DEF resubmit_share, Outcomes
<1> DEFINE p == [j.out EXCEPT ![j.h] = o]
           r == [j EXCEPT !.pc = "settle", !.out = p]
<1>4. p \in [Helper -> Outcomes]
  BY <1>1
<1>5. Goto(t, r)
  BY <1>3
<1> HIDE DEF p
<1>6. /\ r \in JobType /\ r.pc = "settle" /\ r.h = j.h /\ r.gen = j.gen
      /\ r.acc = j.acc /\ r.amb = j.amb /\ r.intr = j.intr
      /\ r.goal = j.goal /\ r.over = j.over
  BY <1>1, <1>4 DEF JobType, Pcs
<1> HIDE DEF r
<1>7. \A x : Fresh(j, x) => Fresh(r, x)
  BY <1>6 DEF Fresh
<1>8. faults = 0 /\ ~ r.over => Fresh(r, r.h)
  BY <1>1, <1>6, <1>7 DEF JobPlaces
<1>9. \A x \in Helper : Marked(t, j, x) => Marked(t, r, x)
  BY <1>1, <1>6, <1>7 DEF Marked, Busy
<1>10. r.pc \notin {"reserve", "resolve"}
  BY <1>6
<1> QED
  BY <1>2, <1>5, <1>6, <1>8, <1>9, <1>10, PassStays

\* The outcome at a helper the pass reserved is always written.
LEMMA FreshSettles ==
  ASSUME NEW j, Fresh(j, j.h)
  PROVE  RecoveryEffect(j) \in {"Accepted", "Ambiguous", "DefiniteFailure"}
<1>1. CASE j.out[j.h] = "accepted"
  BY <1>1 DEF RecoveryEffect
<1>2. CASE j.out[j.h] = "cancelled"
  BY <1>2 DEF RecoveryEffect
<1>3. CASE j.out[j.h] = "ambiguous"
  BY <1>3 DEF RecoveryEffect, Fresh
<1>4. CASE j.out[j.h] \notin {"accepted", "cancelled", "ambiguous"}
  BY <1>4 DEF RecoveryEffect, Fresh
<1> QED
  BY <1>1, <1>2, <1>3, <1>4

LEMMA SettlePlaces ==
  ASSUME ShareInv, PlaceInv, NEW t \in Tracker, settle_read(t)
  PROVE  PlaceInv'
<1> DEFINE j == job[t]
           s == [j EXCEPT !.pc = "resolve", !.seen = row]
<1>1. /\ t \in Task /\ t \notin Deliverer /\ j \in JobType /\ j.pc = "settle"
      /\ j.h \in Helper /\ row \in RowType /\ JobPlaces(t, j, row, clock, faults)
  BY JobTyped, ShareAssumption DEF Task, Shape, settle_read, PlaceInv
<1>2. UNCHANGED <<row, clock, faults>>
  BY DEF settle_read, journal, world
<1>3. CASE RecoveryEffect(j) = "nothing" /\ AfterContact(t)
  <2>1. ~ Fresh(j, j.h)
    BY <1>3, FreshSettles
  <2>2. \A x \in Helper : ~ Marked(t, j, x)
    BY <1>1, <2>1 DEF Marked
  <2>3. CASE Leave(t)
    BY <1>2, <2>1, <2>3, PassEnds
  <2>4. CASE ~ Leave(t)
    <3>1. PICK r \in JobType :
            /\ Goto(t, r) /\ r.gen = j.gen /\ r.intr = j.intr
            /\ r.goal = j.goal /\ r.over = j.over /\ r.pc \in {"pick", "call"}
      BY <1>1, <1>3, <2>4, Afterwards
    <3>2. r.pc \notin {"reserve", "dispatch", "settle", "resolve"}
      BY <3>1
    <3> QED
      BY <1>2, <2>2, <3>1, <3>2, PassStays
  <2> QED
    BY <2>3, <2>4
<1>4. CASE Goto(t, s)
  <2>1. /\ s \in JobType /\ s.pc = "resolve" /\ s.gen = j.gen /\ s.h = j.h
        /\ s.acc = j.acc /\ s.amb = j.amb /\ s.intr = j.intr
        /\ s.goal = j.goal /\ s.over = j.over /\ s.seen = row
    BY <1>1 DEF JobType, Pcs
  <2>2. Goto(t, s)
    BY <1>4
  <2> HIDE DEF s
  <2>3. \A x : Fresh(j, x) => Fresh(s, x)
    BY <2>1 DEF Fresh
  <2>4. faults = 0 /\ ~ s.over => Fresh(s, s.h)
    BY <1>1, <2>1, <2>3 DEF JobPlaces
  <2>5. \A x \in Helper : Marked(t, j, x) => Marked(t, s, x)
    BY <1>1, <2>1, <2>3 DEF Marked, Busy
  <2> QED
    BY <1>2, <2>1, <2>2, <2>4, <2>5, PassStays
<1> QED
  BY <1>3, <1>4 DEF settle_read

LEMMA ResolveRecoveryPlaces ==
  ASSUME ShareInv, PlaceInv, NEW t \in Tracker, resolve_recovery_attempt(t)
  PROVE  PlaceInv'
<1> DEFINE j == job[t]
           h == job[t].h
           effect == RecoveryEffect(job[t])
           e == Written(effect, row.st[h])
<1>1. /\ t \in Task /\ t \notin Deliverer /\ j \in JobType /\ j.pc = "resolve"
      /\ Busy(j) /\ h \in Helper /\ Works(t, j, row, net, held) /\ row \in RowType
      /\ JobPlaces(t, j, row, clock, faults)
  BY JobTyped, ShareAssumption DEF Task, Busy, Shape, resolve_recovery_attempt, PlaceInv
<1>2. UNCHANGED <<clock, faults>> /\ clock' = clock /\ faults' = faults
  BY DEF resolve_recovery_attempt, world
<1>3. CASE j.seen.gen # j.gen /\ Leave(t) /\ UNCHANGED row
  <2>1. row.gen # j.gen
    BY <1>1, <1>3 DEF JobPlaces
  <2> QED
    BY <1>2, <1>3, <2>1, PassEnds
<1>4. CASE Reread(t) /\ UNCHANGED row
  BY <1>1, <1>2, <1>4, RereadPlaces
<1>5. CASE /\ j.seen.gen = j.gen /\ same_row(row, j.seen)
           /\ Store(row, resolved(j.seen, h, effect, j.over)) /\ AfterContact(t)
  <2>1. Resolving(t, effect, j.over) /\ row.gen = j.gen
    BY <1>1, <1>5 DEF Resolving, same_row
  <2>2. /\ effect \in {"Accepted", "Ambiguous", "DefiniteFailure", "nothing"}
        /\ e = "attempting" => row.st[h] = "attempting"
        /\ Fresh(j, h) => effect # "nothing" /\ row.st[h] = "attempting"
    <3>1. Tracks(t, j, row, net, held)
      BY <1>1, <2>1 DEF Works
    <3>2. Fresh(j, h) => effect # "nothing" /\ row.st[h] = "attempting"
      BY <1>1, <3>1, FreshSettles DEF Tracks, Attempt
    <3>3. effect \in {"Accepted", "Ambiguous", "DefiniteFailure", "nothing"}
      BY <1>1, <2>1, Contacted
    <3>4. e = "attempting" => row.st[h] = "attempting"
      BY <3>3 DEF Written
    <3> QED
      BY <3>2, <3>3, <3>4
  <2>3. Fresh(j, h) => e # "attempting"
    BY <2>2 DEF Written
  <2> HIDE DEF effect
  <2>4. /\ row' \in RowType /\ row'.gen = row.gen
        /\ \A x \in Helper : row'.st[x] = IF x = h THEN e ELSE row.st[x]
    <3>1. j.over \in BOOLEAN
      BY <1>1 DEF JobType
    <3>2. RowResolved(t, effect)
      BY <1>1, <2>1, <2>2, <3>1, Resolved
    <3> QED
      BY <3>2 DEF RowResolved
  <2>5. row'.target >= row.target
    BY <1>1, <2>1, <2>4, StoreKeepsTarget
  <2> HIDE DEF e
  <2>6. PlacementBound'
    <3>1. ASSUME clock' < 2, faults' = 0, NEW x \in Helper,
                 row'.st[x] \in {"accepted", "attempting"}
          PROVE  row.st[x] \in {"accepted", "attempting"}
      <4>1. CASE x # h
        BY <2>4, <3>1, <4>1
      <4>2. CASE x = h
        <5>1. clock \in Nat
          BY ShareAssumption, SMT DEF ShareInv, TypeOK
        <5>2. ~ (clock >= 2)
          BY <1>2, <3>1, <5>1, SMT
        <5>3. Fresh(j, h)
          BY <1>1, <1>2, <3>1, <5>2 DEF JobPlaces
        <5> QED
          BY <2>2, <4>2, <5>3
      <4> QED
        BY <4>1, <4>2
    <3>2. PlacementBound
      BY DEF PlaceInv
    <3> QED
      BY <1>1, <1>2, <2>4, <2>5, <3>1, <3>2, SameRoom
  <2>7. ASSUME NEW x \in Helper, row'.st[x] = "attempting"
        PROVE  row.st[x] = "attempting" /\ ~ (j.gen = row.gen /\ Marked(t, j, x))
    <3>1. CASE x # h
      BY <1>1, <2>4, <2>7, <3>1 DEF Marked
    <3>2. CASE x = h
      <4>1. e = "attempting"
        BY <2>4, <2>7, <3>2
      <4> QED
        BY <1>1, <2>2, <2>3, <3>2, <4>1 DEF Marked
    <3> QED
      BY <3>1, <3>2
  <2>8. CASE Leave(t)
    BY <1>1, <1>2, <2>4, <2>5, <2>6, <2>7, <2>8, PlaceLeaves
  <2>9. CASE ~ Leave(t)
    <3>1. PICK r \in JobType :
            /\ Goto(t, r) /\ r.gen = j.gen /\ r.intr = j.intr
            /\ r.goal = j.goal /\ r.over = j.over /\ r.pc \in {"pick", "call"}
      BY <1>1, <1>5, <2>9, Afterwards
    <3>2. j.goal <= row.target => j.goal <= row'.target
      <4>1. row.target \in Nat /\ row'.target \in Nat
        BY <1>1, <2>4, RowFacts
      <4>2. j.goal \in Nat
        BY <1>1 DEF JobType
      <4> QED
        BY <2>5, <4>1, <4>2, SMT
    <3>3. r.pc \notin {"reserve", "dispatch", "settle", "resolve"}
      BY <3>1
    <3>4. JobPlaces(t, r, row', clock, faults)
      BY <1>1, <2>1, <3>1, <3>2, <3>3 DEF JobPlaces
    <3> QED
      BY <1>1, <1>2, <2>4, <2>5, <2>6, <2>7, <3>1, <3>4, PlaceGoes
  <2> QED
    BY <2>8, <2>9
<1> QED
  BY <1>3, <1>4, <1>5 DEF resolve_recovery_attempt

\* Every step of a tracking pass.
LEMMA TrackerPlaces ==
  ASSUME ShareInv, PlaceInv, NEW t \in Tracker, TrackerStep(t)
  PROVE  PlaceInv'
<1>1. CASE end_pass(t)
  <2>1. Leave(t) /\ UNCHANGED <<row, clock, faults>> /\ job[t].pc \in {"pick", "poll"}
    BY <1>1 DEF end_pass, journal, world
  <2> QED
    BY <2>1, PassEnds
<1> QED
  BY <1>1, WalkPlaces, PollPlaces, ConfirmPlaces, DecidePlaces, BeginExistingPlaces,
     ResubmitPlaces, SettlePlaces, ResolveRecoveryPlaces, NextHelperPlaces DEF TrackerStep

-----------------------------------------------------------------------------
(* The rest of the system.                                                 *)

\* A step that changes neither the row nor the tasks.
LEMMA AsidePlaces ==
  ASSUME ShareInv, PlaceInv, UNCHANGED <<row, job, faults>>, clock' \in {clock, clock + 1}
  PROVE  PlaceInv'
<1>1. row' = row /\ job' = job /\ faults' = faults /\ clock \in Nat /\ row \in RowType
      /\ row.target \in Nat
  <2>1. clock \in Nat
    BY ShareAssumption, SMT DEF ShareInv, TypeOK
  <2>2. row \in RowType
    BY DEF ShareInv, TypeOK
  <2> QED
    BY <2>1, <2>2, RowFacts
<1>2. (clock >= 2 => clock' >= 2) /\ (clock' < 2 => clock < 2) /\ row'.target >= row.target
  BY <1>1, SMT
<1>3. PlacementBound /\ row' \in RowType
  BY <1>1 DEF PlaceInv
<1>4. PlacementBound'
  BY <1>1, <1>2, <1>3, SameRoom
<1>5. ASSUME NEW t \in Task PROVE JobPlaces(t, job[t], row, clock', faults)
  BY <1>2 DEF PlaceInv, JobPlaces
<1> QED
  BY <1>1, <1>4, <1>5 DEF PlaceInv

\* The row is gone.
LEMMA ForgetPlaces ==
  ASSUME ShareInv, PlaceInv, row' = Absent, UNCHANGED <<job, clock, faults>>
  PROVE  PlaceInv'
<1>1. /\ Absent.gen = NoGen /\ Absent.target = 0
      /\ \A h \in Helper : Absent.st[h] = "none"
  BY DEF Absent
<1>2. job' = job /\ clock' = clock /\ faults' = faults
  OBVIOUS
<1>3. ASSUME NEW t \in Task PROVE JobPlaces(t, job[t], row', clock, faults)
  <2>1. /\ JobPlaces(t, job[t], row, clock, faults) /\ Shape(t, job[t])
        /\ Owns(t, job[t]) /\ NoGen \notin used
    BY ShareAssumption DEF PlaceInv, ShareInv, TypeOK
  <2>2. CASE job[t].pc = "idle"
    <3>1. job[t] = Idle /\ Idle.goal = 0 /\ 0 <= 0
      BY <2>1, <2>2, SMT DEF Shape, Idle
    <3>2. job[t].goal <= row'.target
      BY <1>1, <3>1
    <3> QED
      BY <2>1, <2>2, <3>2 DEF JobPlaces
  <2>3. CASE job[t].pc # "idle"
    <3>1. job[t].gen # row'.gen
      BY <1>1, <2>1, <2>3 DEF Owns
    <3> QED
      BY <2>1, <3>1 DEF JobPlaces
  <2> QED
    BY <2>2, <2>3
<1>4. PlacementBound'
  <2>1. In(row, "accepted")' \cup In(row, "attempting")' = {}
    BY <1>1 DEF In
  <2>2. Cardinality({}) = 0 /\ 0 <= 0
    BY FS_EmptySet, SMT
  <2> QED
    BY <1>1, <2>1, <2>2 DEF PlacementBound
<1> QED
  BY <1>1, <1>2, <1>3, <1>4 DEF PlaceInv

LEMMA CrashPlaces ==
  ASSUME ShareInv, PlaceInv, Crash
  PROVE  PlaceInv'
<1>1. /\ row' = row /\ clock' = clock /\ job' = [t \in Task |-> Idle]
      /\ faults' = faults + 1 /\ faults \in 0..MaxFaults
  BY DEF Crash, journal, ShareInv, TypeOK
<1>2. faults' # 0
  BY <1>1, ShareAssumption, SMT
<1>3. Idle.goal = 0 /\ ~ Idle.over /\ Idle.pc = "idle"
  BY DEF Idle
<1>4. 0 <= Target /\ 0 <= row.target
  <2>1. row \in RowType
    BY DEF ShareInv, TypeOK
  <2>2. Target \in Nat /\ row.target \in Nat
    BY <2>1, ShareAssumption, Counts, RowFacts, SMT
  <2> QED
    BY <2>2, SMT
<1>5. ASSUME NEW t \in Task PROVE JobPlaces(t, job'[t], row', clock', faults')
  <2>1. job'[t] = Idle
    BY <1>1
  <2> QED
    BY <1>1, <1>2, <1>3, <1>4, <2>1 DEF JobPlaces
<1>6. row'.gen # NoGen => row'.target >= Target
  BY <1>1 DEF PlaceInv
<1> QED
  BY <1>2, <1>5, <1>6 DEF PlaceInv, PlacementBound

LEMMA NextPlaces ==
  ASSUME ShareInv, PlaceInv, Next
  PROVE  PlaceInv'
<1>1. ASSUME NEW g \in Gen, store_vote(g) PROVE PlaceInv'
  BY <1>1, ForgetPlaces DEF store_vote, world
<1>2. CASE clear_round
  BY <1>2, ForgetPlaces DEF clear_round, world
<1>3. CASE record_vc_position
  BY <1>3, AsidePlaces DEF record_vc_position, world
<1>4. CASE Tick
  BY <1>4, AsidePlaces DEF Tick, journal
<1>5. ASSUME NEW t \in Task, StoreFails(t) PROVE PlaceInv'
  <2>1. Leave(t) /\ UNCHANGED <<row, clock>> /\ faults' = faults + 1
    BY <1>5 DEF StoreFails, journal, world
  <2>2. faults' # 0
    BY <2>1, ShareAssumption, SMT DEF ShareInv, TypeOK
  <2> QED
    BY <2>1, <2>2, QuietLeaves
<1>6. ASSUME NEW m \in net, Arrive(m) \/ Lose(m) PROVE PlaceInv'
  BY <1>6, AsidePlaces DEF Arrive, Lose, journal
<1>7. ASSUME NEW h \in Helper, NEW g \in Gen, Reveal(h, g) PROVE PlaceInv'
  BY <1>7, AsidePlaces DEF Reveal, journal
<1>8. ASSUME NEW t \in Task, NEW h \in Helper,
             Accepts(t, h) \/ Refused(t, h) \/ Unknown(t, h)
      PROVE  PlaceInv'
  <2>1. PICK o \in Outcomes : Goto(t, [job[t] EXCEPT !.out[h] = o])
    BY <1>8 DEF Accepts, Refused, Unknown, Outcomes
  <2>2. UNCHANGED <<row, clock, faults>>
    BY <1>8 DEF Accepts, Refused, Unknown, journal
  <2> QED
    BY <2>1, <2>2, OutcomePlaces
<1> QED
  BY <1>1, <1>2, <1>3, <1>4, <1>5, <1>6, <1>7, <1>8, CrashPlaces, DelivererPlaces,
     TrackerPlaces DEF Next, HelperStep

\* Before a share is overdue and without a fault, initial delivery and every
\* tracking pass together place it at no more helpers than the target of its row
\* (add_attempting_server_for_generation counts the helpers that have the share
\* or may get it, under the lock, against the row it then compares and writes).
THEOREM PlacementIsBounded == Spec => []PlacementBound
<1>1. Init => PlaceInv
  <2> SUFFICES ASSUME Init PROVE PlaceInv
    OBVIOUS
  <2>1. /\ Absent.gen = NoGen /\ Absent.target = 0
        /\ \A h \in Helper : Absent.st[h] = "none"
    BY DEF Absent
  <2>2. row = Absent /\ job = [t \in Task |-> Idle]
    BY DEF Init
  <2>3. Idle.goal = 0 /\ ~ Idle.over /\ Idle.pc = "idle" /\ Idle.intr = {}
    BY DEF Idle
  <2>4. Target \in Nat
    BY ShareAssumption, Counts, SMT
  <2>5. 0 <= Target /\ 0 <= row.target
    BY <2>1, <2>2, <2>4, SMT
  <2>6. ASSUME NEW t \in Task PROVE JobPlaces(t, job[t], row, clock, faults)
    <3>1. job[t] = Idle
      BY <2>2
    <3> QED
      BY <2>3, <2>5, <3>1 DEF JobPlaces
  <2>7. PlacementBound
    <3>1. In(row, "accepted") \cup In(row, "attempting") = {}
      BY <2>1, <2>2 DEF In
    <3>2. Cardinality({}) = 0
      BY FS_EmptySet
    <3> QED
      BY <2>5, <3>1, <3>2 DEF PlacementBound
  <2> QED
    BY <2>1, <2>2, <2>6, <2>7 DEF PlaceInv
<1>2. ShareInv /\ PlaceInv /\ [Next]_vars => PlaceInv'
  <2>1. ASSUME ShareInv, PlaceInv, UNCHANGED vars PROVE PlaceInv'
    BY <2>1, AsidePlaces DEF vars
  <2> QED
    BY <2>1, NextPlaces
<1>3. PlaceInv => PlacementBound
  BY DEF PlaceInv
<1> QED
  BY <1>1, <1>2, <1>3, ShareSafety, PTL DEF Spec

=============================================================================
