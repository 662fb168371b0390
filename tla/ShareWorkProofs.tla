-------------------------- MODULE ShareWorkProofs ---------------------------
(***************************************************************************)
(* The completion of a unit of votes, for any number of votes and shares   *)
(* and any number of delivery jobs at a time, and the plans of a round's   *)
(* votes, for any ballot and any bundles.                                  *)
(*                                                                         *)
(* A unit is dispatched with all its plans or was before there were any;   *)
(* the loop over its votes leaves each one ready or with an error; and a   *)
(* vote's report is final only when each of its delivery jobs has been     *)
(* recorded, so that "advanced" speaks of shares that are held.            *)
(*                                                                         *)
(* Then the tracking runs of a round, for any shares, runs and timing.     *)
(***************************************************************************)
EXTENDS VoteCompletion, ShareDesignation, ShareTrackingDrive, FiniteSetTheorems,
        SequenceTheorems, WellFoundedInduction, TLAPS

USE Zenon

Outcomes == {"accepted", "ambiguous", "nowhere", "error", "skipped", "nothing"}

JobStates == [at : {"none", "queued", "active", "delivered", "recorded"}, got : Outcomes]

Places == {"idle", "enter", "preflight", "prepare", "chain", "recover", "latePreflight",
           "submit", "deliver", "done"}

Dispositions == {"none", "cancelled", "failed", "pending", "terminal", "incomplete", "advanced"}

Units == [kind : {"legacy", "standalone", "combined"}, dispatched : BOOLEAN,
          plans : SUBSET VoteIn, positions : {{}, VoteIn}]

Steps == [at : Places, votes : Seq(VoteIn), advance : BOOLEAN, plansFirst : BOOLEAN,
          fleet : BOOLEAN, next : Nat \ {0}, ready : SUBSET VoteIn, errors : SUBSET VoteIn,
          interrupted : BOOLEAN, disposition : Dispositions, taken : 0..MaxSteps]

CompletionShape ==
  /\ unit \in Units /\ step \in Steps
  /\ held \in [Job -> {"nothing", "ambiguous", "accepted"}]
  /\ jobs \in [Job -> JobStates]
  /\ DOMAIN results = VoteIn

Planned == unit.kind = "legacy" \/ unit.plans = VoteIn

\* A unit is dispatched with all its plans, or was before there were plans.
Plans ==
  /\ unit.positions # {} => unit.dispatched
  /\ unit.dispatched => Planned
  /\ step.at = "chain" => Planned
  /\ step.at = "enter" /\ step.advance /\ ~step.plansFirst => unit.dispatched
  /\ step.plansFirst => step.advance
  /\ step.advance => /\ Len(step.votes) > 0
                     /\ \A v \in VoteIn : \E i \in 1..Len(step.votes) : step.votes[i] = v
  /\ step.at \in {"enter", "preflight"} => step.next = 1
  /\ step.at \in {"preflight", "prepare"} => step.plansFirst
  /\ step.at = "prepare" =>
       /\ step.next <= Len(step.votes)
       /\ \A i \in 1..Len(step.votes) : i < step.next => step.votes[i] \in unit.plans

\* Every vote the loop has passed is ready or has an error.
Passed ==
  /\ step.at \in {"enter", "preflight", "prepare", "chain"} => step.ready = {} /\ step.errors = {}
  /\ step.at \in {"chain", "recover", "latePreflight"} =>
       \A i \in 1..Len(step.votes) :
         i < step.next /\ step.at # "chain" => step.votes[i] \in step.ready \cup step.errors
  /\ step.at = "chain" => step.next = 1
  /\ step.at \in {"submit", "deliver"} =>
       \/ step.interrupted
       \/ \A i \in 1..Len(step.votes) : step.votes[i] \in step.ready \cup step.errors
  /\ step.disposition # "none" => step.at = "done"

\* A vote's jobs are queued together, and its report is made with the last.
Queue ==
  /\ \A j \in Job : jobs[j].got = "accepted" => held[j] = "accepted"
  /\ \A v \in VoteIn : results[v].final => \A s \in DOMAIN results[v].delivered :
       results[v].delivered[s] \in {"accepted", "ambiguous", "nowhere"}
  /\ step.at = "deliver" => \A v \in VoteIn :
       \/ /\ \A s \in Payload : jobs[<<v, s>>].at = "none"
          /\ v \in step.ready => results[v].error # "none" \/ Payload = {}
       \/ /\ \A s \in Payload : jobs[<<v, s>>].at # "none"
          /\ (\A s \in Payload : jobs[<<v, s>>].at = "recorded") => results[v].final

CompletionInv == CompletionShape /\ Plans /\ Passed /\ Queue /\ AdvancedMeansHeld

-----------------------------------------------------------------------------
(* Facts the steps share.                                                  *)

\* The fields of the running step have their types.
LEMMA StepFacts ==
  ASSUME CompletionInv
  PROVE  /\ step.at \in Places /\ step.votes \in Seq(VoteIn) /\ step.advance \in BOOLEAN
         /\ step.plansFirst \in BOOLEAN /\ step.fleet \in BOOLEAN /\ step.next \in Nat \ {0}
         /\ step.ready \in SUBSET VoteIn /\ step.errors \in SUBSET VoteIn
         /\ step.interrupted \in BOOLEAN /\ step.taken \in 0..MaxSteps
         /\ unit \in Units /\ unit.plans \in SUBSET VoteIn /\ unit.positions \in {{}, VoteIn}
         /\ Len(step.votes) \in Nat
         /\ \A i \in 1..Len(step.votes) : step.votes[i] \in VoteIn
<1>1. step \in Steps /\ unit \in Units
  BY DEF CompletionInv, CompletionShape
<1>2. /\ step.at \in Places /\ step.votes \in Seq(VoteIn) /\ step.advance \in BOOLEAN
      /\ step.plansFirst \in BOOLEAN /\ step.fleet \in BOOLEAN /\ step.next \in Nat \ {0}
      /\ step.ready \in SUBSET VoteIn /\ step.errors \in SUBSET VoteIn
      /\ step.interrupted \in BOOLEAN /\ step.taken \in 0..MaxSteps
  BY <1>1 DEF Steps
<1>3. Len(step.votes) \in Nat /\ step.votes \in [1..Len(step.votes) -> VoteIn]
  BY <1>2, LenProperties
<1> QED
  BY <1>1, <1>2, <1>3 DEF Units

\* The votes of a unit are listed by their positions.
AllVotes == [i \in 1..Cardinality(VoteIn) |-> i]

LEMMA WholeUnit ==
  /\ AllVotes \in Seq(VoteIn) /\ Len(AllVotes) > 0
  /\ \A v \in VoteIn : \E i \in 1..Len(AllVotes) : AllVotes[i] = v
<1>1. PICK votes : votes = AllVotes
  OBVIOUS
<1>2. PICK n \in Nat \ {0} : n = Cardinality(VoteIn) /\ VoteIn = 1..n
  <2>1. Cardinality(VoteIn) \in Nat
    BY CompletionAssumption, FS_CardinalityType
  <2>2. 1..0 = {}
    BY SMT
  <2> QED
    BY <2>1, <2>2, CompletionAssumption
<1>3. votes = [i \in 1..n |-> i]
  BY <1>2, <1>1 DEF AllVotes
<1>4. votes \in [1..n -> VoteIn] /\ n \in Nat
  BY <1>2, <1>3
<1>5. votes \in Seq(VoteIn)
  BY <1>4, SeqDef
<1>6. Len(votes) = n
  <2>1. Len(votes) \in Nat /\ 1..n = 1..Len(votes)
    BY <1>4, <1>5, LenProperties
  <2>2. ASSUME NEW a \in Nat, NEW b \in Nat, 1..a = 1..b PROVE a <= b
    <3>1. a = 0 \/ a \in 1..a
      BY SMT
    <3> QED
      BY <2>2, <3>1, SMT
  <2>3. n <= Len(votes) /\ Len(votes) <= n
    BY <1>4, <2>1, <2>2
  <2> QED
    <3>1. \A a, b \in Nat : a <= b /\ b <= a => a = b
      BY SMT
    <3> QED
      BY <1>4, <2>1, <2>3, <3>1
<1>7. (\A v \in VoteIn : \E i \in 1..n : votes[i] = v) /\ n > 0
  <2>1. \A i \in 1..n : votes[i] = i
    BY <1>3
  <2>2. n > 0
    BY <1>4, SMT
  <2> QED
    BY <1>2, <2>1, <2>2
<1>8. /\ votes \in Seq(VoteIn) /\ Len(votes) > 0
      /\ \A v \in VoteIn : \E i \in 1..Len(votes) : votes[i] = v
  BY <1>5, <1>6, <1>7
<1> QED
  BY <1>1, <1>8

\* Steps of the control that leave the jobs and the reports alone.
LEMMA QueueStays ==
  ASSUME CompletionInv, UNCHANGED <<jobs, held, results>>, step'.at # "deliver",
         step'.disposition # "advanced"
  PROVE  Queue' /\ AdvancedMeansHeld'
<1>1. Queue'
  BY DEF CompletionInv, Queue
<1>2. AdvancedMeansHeld'
  BY DEF CompletionInv, AdvancedMeansHeld
<1> QED
  BY <1>1, <1>2

\* What a control step has to show.
LEMMA ControlKeeps ==
  ASSUME CompletionInv, UNCHANGED <<jobs, held, results>>, step'.at # "deliver",
         step'.disposition # "advanced", unit' \in Units, step' \in Steps, Plans', Passed'
  PROVE  CompletionInv'
<1>1. CompletionShape'
  BY DEF CompletionInv, CompletionShape
<1> QED
  BY <1>1, QueueStays DEF CompletionInv

\* A step may end wherever it is, dispatched units being planned.
LEMMA FinishKeeps ==
  ASSUME CompletionInv,
         NEW how \in {"cancelled", "failed", "pending", "terminal", "incomplete"},
         step' = Finish(step, how), unit' \in Units,
         unit'.positions # {} => unit'.dispatched, unit'.dispatched => Planned',
         UNCHANGED <<jobs, held, results>>
  PROVE  CompletionInv'
<1>1. step \in Steps
  BY DEF CompletionInv, CompletionShape
<1>2. /\ step' \in Steps /\ step'.at = "done" /\ step'.disposition = how
      /\ step'.plansFirst = step.plansFirst /\ step'.advance = step.advance
      /\ step'.votes = step.votes
  <2>1. step' = [step EXCEPT !.at = "done", !.disposition = how]
    BY DEF Finish
  <2>2. how \in Dispositions /\ "done" \in Places
    BY DEF Dispositions, Places
  <2> QED
    BY <1>1, <2>1, <2>2 DEF Steps
<1>3. Plans'
  BY <1>2, SMT DEF CompletionInv, Plans
<1>4. Passed'
  BY <1>2 DEF Passed
<1> QED
  BY <1>2, <1>3, <1>4, ControlKeeps

\* A fresh step, with no job and no report.
LEMMA FreshKeeps ==
  ASSUME CompletionInv, step' \in Steps, step'.at \in {"idle", "enter"},
         step'.disposition = "none", jobs' = NoJobs,
         results' = [v \in VoteIn |-> NoResult], UNCHANGED <<unit, held>>, Plans', Passed'
  PROVE  CompletionInv'
<1>1. jobs' \in [Job -> JobStates] /\ \A j \in Job : jobs'[j].got = "nothing"
  BY DEF NoJobs, JobStates, Outcomes
<1>2. DOMAIN results' = VoteIn /\ \A v \in VoteIn : results'[v].final = FALSE
  BY DEF NoResult
<1>3. CompletionShape'
  BY <1>1, <1>2 DEF CompletionInv, CompletionShape
<1>4. Queue'
  BY <1>1, <1>2 DEF Queue
<1>5. AdvancedMeansHeld'
  BY <1>2 DEF AdvancedMeansHeld
<1> QED
  BY <1>3, <1>4, <1>5 DEF CompletionInv

\* No step is running.
LEMMA IdleIsStep ==
  /\ IdleStep \in Steps /\ IdleStep.at = "idle" /\ IdleStep.disposition = "none"
  /\ ~IdleStep.advance /\ ~IdleStep.plansFirst
<1>1. <<>> \in Seq(VoteIn) /\ 1 \in Nat \ {0} /\ 0 \in 0..MaxSteps
  BY CompletionAssumption, SMT
<1>2. "idle" \in Places /\ "none" \in Dispositions /\ {} \in SUBSET VoteIn
  BY DEF Places, Dispositions
<1> QED
  BY <1>1, <1>2 DEF IdleStep, Steps

LEMMA CompletionStarts ==
  ASSUME CompletionInit
  PROVE  CompletionInv
<1>1. PICK kind \in {"legacy", "standalone", "combined"} :
        unit = [kind |-> kind, dispatched |-> kind = "legacy", plans |-> {}, positions |-> {}]
  BY DEF CompletionInit
<1>2. /\ held = [j \in Job |-> "nothing"] /\ step = IdleStep /\ jobs = NoJobs
      /\ results = [v \in VoteIn |-> NoResult]
  BY DEF CompletionInit
<1>3. unit \in Units /\ (unit.dispatched => unit.kind = "legacy") /\ unit.positions = {}
  BY <1>1 DEF Units
<1>4. step \in Steps /\ step.at = "idle" /\ step.disposition = "none" /\ ~step.advance
      /\ ~step.plansFirst
  BY <1>2, IdleIsStep
<1>5. jobs \in [Job -> JobStates] /\ \A j \in Job : jobs[j].got = "nothing"
  BY <1>2 DEF NoJobs, JobStates, Outcomes
<1>6. \A v \in VoteIn : results[v].final = FALSE
  BY <1>2 DEF NoResult
<1>7. CompletionShape
  BY <1>2, <1>3, <1>4, <1>5 DEF CompletionShape
<1>8. Plans
  BY <1>3, <1>4 DEF Plans, Planned
<1>9. Passed /\ Queue /\ AdvancedMeansHeld
  BY <1>4, <1>5, <1>6 DEF Passed, Queue, AdvancedMeansHeld
<1> QED
  BY <1>7, <1>8, <1>9 DEF CompletionInv

-----------------------------------------------------------------------------
(* The steps.                                                              *)

LEMMA BeginKeeps ==
  ASSUME CompletionInv, begin_completion
  PROVE  CompletionInv'
<1>1. /\ step.at = "idle" /\ step.taken < MaxSteps /\ jobs' = NoJobs
      /\ results' = [v \in VoteIn |-> NoResult] /\ UNCHANGED <<unit, held>>
  BY DEF begin_completion
<1>2. PICK taken : taken = step.taken + 1
  OBVIOUS
<1>3. taken \in 0..MaxSteps
  BY <1>1, <1>2, StepFacts, CompletionAssumption, SMT
<1>4. "enter" \in Places
  BY DEF Places
<1>5. IdleStep.next = 1 /\ IdleStep.ready = {} /\ IdleStep.errors = {}
  BY DEF IdleStep
<1>6. CASE unit.positions = {}
  <2>1. PICK votes : votes = AllVotes
    OBVIOUS
  <2>2. /\ votes \in Seq(VoteIn) /\ Len(votes) > 0
        /\ \A v \in VoteIn : \E i \in 1..Len(votes) : votes[i] = v
    BY <2>1, WholeUnit
  <2>3. PICK first : first = PlansFirst
    OBVIOUS
  <2>4. first = ~unit.dispatched /\ first \in BOOLEAN
    BY <2>3 DEF PlansFirst
  <2>5. step' = [IdleStep EXCEPT !.at = "enter", !.advance = TRUE, !.plansFirst = first,
                                 !.votes = votes, !.taken = taken]
    BY <1>2, <1>6, <2>1, <2>3 DEF begin_completion, AllVotes
  <2>6. /\ step' \in Steps /\ step'.at = "enter" /\ step'.disposition = "none"
        /\ step'.advance = TRUE /\ step'.plansFirst = first /\ step'.votes = votes
        /\ step'.next = 1 /\ step'.ready = {} /\ step'.errors = {}
    BY <1>3, <1>4, <1>5, <2>2, <2>4, <2>5, IdleIsStep DEF Steps
  <2>7. Plans'
    BY <1>1, <2>2, <2>4, <2>6 DEF CompletionInv, Plans, Planned
  <2>8. Passed'
    BY <2>6 DEF Passed
  <2> QED
    BY <1>1, <2>6, <2>7, <2>8, FreshKeeps
<1>7. CASE unit.positions # {}
  <2>1. PICK v \in VoteIn :
          step' = [IdleStep EXCEPT !.at = "enter", !.votes = <<v>>, !.taken = taken]
    BY <1>2, <1>7 DEF begin_completion
  <2>2. <<v>> \in Seq(VoteIn)
    BY SMT
  <2>3. /\ step' \in Steps /\ step'.at = "enter" /\ step'.disposition = "none"
        /\ ~step'.advance /\ ~step'.plansFirst
        /\ step'.next = 1 /\ step'.ready = {} /\ step'.errors = {}
    BY <1>3, <1>4, <1>5, <2>1, <2>2, IdleIsStep DEF Steps
  <2>4. Plans'
    BY <1>1, <2>3 DEF CompletionInv, Plans, Planned
  <2>5. Passed'
    BY <2>3 DEF Passed
  <2> QED
    BY <1>1, <2>3, <2>4, <2>5, FreshKeeps
<1> QED
  BY <1>6, <1>7

\* A step that ends and leaves the unit as it is.
LEMMA StopKeeps ==
  ASSUME CompletionInv,
         NEW how \in {"cancelled", "failed", "pending", "terminal", "incomplete"},
         step' = Finish(step, how), UNCHANGED <<unit, jobs, held, results>>
  PROVE  CompletionInv'
<1>1. unit' \in Units
  BY StepFacts
<1>2. (unit'.positions # {} => unit'.dispatched) /\ (unit'.dispatched => Planned')
  BY DEF CompletionInv, Plans, Planned
<1> QED
  BY <1>1, <1>2, FinishKeeps

\* The step goes on to another place.
LEMMA MoveFacts ==
  ASSUME CompletionInv, NEW a \in Places, step' = [step EXCEPT !.at = a],
         step.at # "done"
  PROVE  /\ step' \in Steps /\ step'.at = a /\ step'.disposition = "none"
         /\ step'.votes = step.votes /\ step'.advance = step.advance
         /\ step'.plansFirst = step.plansFirst /\ step'.next = step.next
         /\ step'.ready = step.ready /\ step'.errors = step.errors
         /\ step'.interrupted = step.interrupted
<1>1. step \in Steps /\ step.disposition = "none"
  BY DEF CompletionInv, CompletionShape, Passed
<1> QED
  BY <1>1 DEF Steps

LEMMA EnterKeeps ==
  ASSUME CompletionInv, enter_completion
  PROVE  CompletionInv'
<1>1. step.at = "enter" /\ UNCHANGED <<unit, held, jobs, results>>
  BY DEF enter_completion
<1>2. CASE step.interrupted
  BY <1>1, <1>2, StopKeeps DEF enter_completion
<1>3. CASE ~step.interrupted
  <2>1. PICK a : a = IF step.plansFirst THEN "preflight"
                     ELSE IF step.advance THEN "chain" ELSE "recover"
    OBVIOUS
  <2>2. a \in Places /\ step' = [step EXCEPT !.at = a] /\ step.at # "done" /\ a # "deliver"
    BY <1>1, <1>3, <2>1 DEF Places, enter_completion
  <2>3. /\ step' \in Steps /\ step'.at = a /\ step'.disposition = "none"
        /\ step'.votes = step.votes /\ step'.advance = step.advance
        /\ step'.plansFirst = step.plansFirst /\ step'.next = step.next
        /\ step'.ready = step.ready /\ step'.errors = step.errors
    BY <2>2, MoveFacts
  <2>4. Plans'
    <3>1. a \in {"preflight", "chain", "recover"}
          /\ (a = "preflight" => step.plansFirst)
          /\ (a = "chain" => step.advance /\ ~step.plansFirst)
      BY <2>1
    <3>2. step.next = 1 /\ (a = "chain" => unit.dispatched)
      BY <1>1, <3>1 DEF CompletionInv, Plans
    <3> QED
      BY <1>1, <2>3, <3>1, <3>2, SMT DEF CompletionInv, Plans, Planned
  <2>5. Passed'
    <3>1. step.ready = {} /\ step.errors = {} /\ step.next = 1
      BY <1>1 DEF CompletionInv, Passed, Plans
    <3>2. \A i \in 1..Len(step.votes) : ~(i < 1)
      BY StepFacts, SMT
    <3>3. a \in {"preflight", "chain", "recover"}
      BY <2>1
    <3> QED
      BY <2>3, <3>1, <3>2, <3>3 DEF Passed
  <2>6. unit' \in Units
    BY <1>1, StepFacts
  <2> QED
    BY <1>1, <2>2, <2>3, <2>4, <2>5, <2>6, ControlKeeps
<1> QED
  BY <1>2, <1>3

LEMMA PreflightKeeps ==
  ASSUME CompletionInv, preflight_fleet
  PROVE  CompletionInv'
<1>1. step.at = "preflight" /\ UNCHANGED <<unit, held, jobs, results>>
  BY DEF preflight_fleet
<1>2. CASE step' = Finish(step, "failed")
  BY <1>1, <1>2, StopKeeps
<1>3. CASE step.interrupted /\ step' = Finish(step, "cancelled")
  BY <1>1, <1>3, StopKeeps
<1>4. CASE step' = [step EXCEPT !.fleet = TRUE, !.at = "prepare"]
  <2>1. step \in Steps /\ step.disposition = "none" /\ "prepare" \in Places
    BY <1>1 DEF CompletionInv, CompletionShape, Passed, Places
  <2>2. /\ step' \in Steps /\ step'.at = "prepare" /\ step'.disposition = "none"
        /\ step'.votes = step.votes /\ step'.advance = step.advance
        /\ step'.plansFirst = step.plansFirst /\ step'.next = step.next
        /\ step'.ready = step.ready /\ step'.errors = step.errors
    BY <1>4, <2>1 DEF Steps
  <2>3. step.next = 1 /\ step.plansFirst /\ step.advance /\ Len(step.votes) > 0
    BY <1>1 DEF CompletionInv, Plans
  <2>4. 1 <= Len(step.votes) /\ \A i \in 1..Len(step.votes) : ~(i < 1)
    BY <2>3, StepFacts, SMT
  <2>5. Plans'
    BY <1>1, <2>2, <2>3, <2>4, SMT DEF CompletionInv, Plans, Planned
  <2>6. Passed'
    BY <1>1, <2>2 DEF CompletionInv, Passed
  <2>7. unit' \in Units
    BY <1>1, StepFacts
  <2> QED
    BY <1>1, <2>2, <2>5, <2>6, <2>7, ControlKeeps
<1> QED
  BY <1>2, <1>3, <1>4 DEF preflight_fleet

LEMMA PrepareKeeps ==
  ASSUME CompletionInv, prepare_share_delivery
  PROVE  CompletionInv'
<1>1. step.at = "prepare" /\ UNCHANGED <<held, jobs, results>>
  BY DEF prepare_share_delivery
<1>2. CASE step' = Finish(step, "failed") /\ UNCHANGED unit
  BY <1>1, <1>2, StopKeeps
<1>3. ASSUME unit' = [unit EXCEPT !.plans = @ \cup {step.votes[step.next]}],
             step' = IF step.next = Len(step.votes)
                     THEN [step EXCEPT !.next = 1, !.at = "chain"]
                     ELSE [step EXCEPT !.next = @ + 1]
      PROVE  CompletionInv'
  <2>1. /\ step.plansFirst /\ step.advance /\ step.next <= Len(step.votes)
        /\ \A v \in VoteIn : \E i \in 1..Len(step.votes) : step.votes[i] = v
        /\ \A i \in 1..Len(step.votes) : i < step.next => step.votes[i] \in unit.plans
        /\ Len(step.votes) > 0
        /\ step.ready = {} /\ step.errors = {} /\ step.disposition = "none"
    BY <1>1 DEF CompletionInv, Plans, Passed
  <2>2. step.next \in 1..Len(step.votes)
    BY <2>1, StepFacts, SMT
  <2>3. PICK planned : planned = unit.plans \cup {step.votes[step.next]}
    OBVIOUS
  <2>4. planned \in SUBSET VoteIn
    BY <2>2, <2>3, StepFacts
  <2>5. /\ unit' \in Units /\ unit'.plans = planned /\ unit'.kind = unit.kind
        /\ unit'.dispatched = unit.dispatched /\ unit'.positions = unit.positions
    BY <1>3, <2>3, <2>4, StepFacts DEF Units
  <2>6. unit'.dispatched => Planned'
    BY <2>3, <2>4, <2>5 DEF CompletionInv, Plans, Planned
  <2>7. step \in Steps
    BY DEF CompletionInv, CompletionShape
  <2>8. CASE step.next = Len(step.votes)
    <3>1. 1 \in Nat \ {0} /\ "chain" \in Places
      BY SMT DEF Places
    <3>2. /\ step' \in Steps /\ step'.at = "chain" /\ step'.disposition = "none"
          /\ step'.votes = step.votes /\ step'.advance = step.advance
          /\ step'.plansFirst = step.plansFirst /\ step'.next = 1
          /\ step'.ready = step.ready /\ step'.errors = step.errors
      BY <1>3, <2>1, <2>7, <2>8, <3>1 DEF Steps
    <3>3. \A i \in 1..Len(step.votes) : i < step.next \/ i = step.next
      BY <2>8, StepFacts, SMT
    <3>4. planned = VoteIn
      <4>1. \A i \in 1..Len(step.votes) : step.votes[i] \in planned
        BY <2>1, <2>3, <3>3
      <4> QED
        <5>1. \A v \in VoteIn : v \in planned
          BY <2>1, <4>1
        <5> QED
          BY <2>4, <5>1
    <3>5. Plans'
      <4>1. Planned'
        BY <2>5, <3>4 DEF Planned
      <4> QED
        BY <2>1, <2>5, <3>2, <4>1, SMT DEF CompletionInv, Plans
    <3>6. Passed'
      BY <2>1, <3>2 DEF Passed
    <3> QED
      BY <1>1, <2>5, <3>2, <3>5, <3>6, ControlKeeps
  <2>9. CASE step.next # Len(step.votes)
    <3>1. PICK next : next = step.next + 1
      OBVIOUS
    <3>2. /\ next \in Nat \ {0} /\ next <= Len(step.votes)
          /\ \A i \in 1..Len(step.votes) : i < next => i < step.next \/ i = step.next
      <4>1. \A n, m \in Nat : n <= m /\ n # m =>
              /\ n + 1 \in Nat \ {0} /\ n + 1 <= m
              /\ \A i \in 1..m : i < n + 1 => i < n \/ i = n
        BY SMT
      <4>2. step.next \in Nat /\ Len(step.votes) \in Nat
        BY StepFacts
      <4> QED
        BY <2>1, <2>9, <3>1, <4>1, <4>2
    <3>3. /\ step' \in Steps /\ step'.at = "prepare" /\ step'.disposition = "none"
          /\ step'.votes = step.votes /\ step'.advance = step.advance
          /\ step'.plansFirst = step.plansFirst /\ step'.next = next
          /\ step'.ready = step.ready /\ step'.errors = step.errors
      BY <1>1, <1>3, <2>1, <2>7, <2>9, <3>1, <3>2 DEF Steps
    <3>4. \A i \in 1..Len(step.votes) : i < next => step.votes[i] \in planned
      BY <2>1, <2>3, <3>2
    <3>5. Plans'
      BY <2>1, <2>5, <2>6, <3>2, <3>3, <3>4, SMT DEF CompletionInv, Plans
    <3>6. Passed'
      BY <2>1, <3>3 DEF Passed
    <3> QED
      BY <1>1, <2>5, <3>3, <3>5, <3>6, ControlKeeps
  <2> QED
    BY <2>8, <2>9
<1> QED
  BY <1>2, <1>3 DEF prepare_share_delivery

LEMMA AdvanceKeeps ==
  ASSUME CompletionInv, advance_until_terminal
  PROVE  CompletionInv'
<1>1. step.at = "chain" /\ UNCHANGED <<held, jobs, results>>
  BY DEF advance_until_terminal
<1>2. Planned /\ step.disposition = "none"
  BY <1>1 DEF CompletionInv, Plans, Passed
<1>3. CASE UNCHANGED unit /\ step' \in {Finish(step, "failed"), Finish(step, "cancelled")}
  BY <1>1, <1>3, StopKeeps
<1>4. ASSUME unit' = [unit EXCEPT !.dispatched = TRUE],
             NEW how \in {"pending", "terminal", "failed", "cancelled"},
             step' = Finish(step, how)
      PROVE  CompletionInv'
  <2>1. /\ unit' \in Units /\ unit'.plans = unit.plans /\ unit'.kind = unit.kind
        /\ unit'.dispatched = TRUE /\ unit'.positions = unit.positions
    BY <1>4, StepFacts DEF Units
  <2>2. Planned'
    BY <1>2, <2>1 DEF Planned
  <2> QED
    BY <1>1, <1>4, <2>1, <2>2, FinishKeeps
<1>5. ASSUME unit' = [unit EXCEPT !.dispatched = TRUE, !.positions = VoteIn],
             step' = [step EXCEPT !.at = "recover"]
      PROVE  CompletionInv'
  <2>1. /\ unit' \in Units /\ unit'.plans = unit.plans /\ unit'.kind = unit.kind
        /\ unit'.dispatched = TRUE /\ unit'.positions = VoteIn
    BY <1>5, StepFacts DEF Units
  <2>2. Planned'
    BY <1>2, <2>1 DEF Planned
  <2>3. "recover" \in Places /\ step.at # "done"
    BY <1>1 DEF Places
  <2>4. /\ step' \in Steps /\ step'.at = "recover" /\ step'.disposition = "none"
        /\ step'.votes = step.votes /\ step'.advance = step.advance
        /\ step'.plansFirst = step.plansFirst /\ step'.next = step.next
        /\ step'.ready = step.ready /\ step'.errors = step.errors
    BY <1>5, <2>3, MoveFacts
  <2>5. Plans'
    BY <2>1, <2>2, <2>4, SMT DEF CompletionInv, Plans
  <2>6. step.next = 1
    BY <1>1 DEF CompletionInv, Passed
  <2>7. \A i \in 1..Len(step.votes) : ~(i < 1)
    BY StepFacts, SMT
  <2>8. Passed'
    BY <2>4, <2>6, <2>7 DEF Passed
  <2> QED
    BY <1>1, <2>1, <2>4, <2>5, <2>8, ControlKeeps
<1>6. ASSUME unit.positions = {}, unit' = [unit EXCEPT !.dispatched = FALSE, !.plans = {}],
             step' = Finish(step, "terminal")
      PROVE  CompletionInv'
  <2>1. /\ unit' \in Units /\ unit'.dispatched = FALSE /\ unit'.positions = {}
    BY <1>6, StepFacts DEF Units
  <2>2. (unit'.positions # {} => unit'.dispatched) /\ (unit'.dispatched => Planned')
    BY <2>1
  <2> QED
    BY <1>1, <1>6, <2>1, <2>2, FinishKeeps
<1>7. \/ UNCHANGED unit /\ step' \in {Finish(step, "failed"), Finish(step, "cancelled")}
      \/ /\ unit.positions = {} /\ unit' = [unit EXCEPT !.dispatched = FALSE, !.plans = {}]
         /\ step' = Finish(step, "terminal")
      \/ /\ unit' = [unit EXCEPT !.dispatched = TRUE]
         /\ \E how \in {"pending", "terminal", "failed", "cancelled"} : step' = Finish(step, how)
      \/ /\ unit' = [unit EXCEPT !.dispatched = TRUE, !.positions = VoteIn]
         /\ step' = [step EXCEPT !.at = "recover"]
  BY DEF advance_until_terminal
<1> QED
  BY <1>3, <1>4, <1>5, <1>7, <1>6

\* A step of the recovery loop keeps the plans it found.
LEMMA LoopPlans ==
  ASSUME CompletionInv, step.at \in {"recover", "latePreflight"},
         step'.at \in {"recover", "latePreflight", "submit"},
         step'.votes = step.votes, step'.advance = step.advance,
         step'.plansFirst = step.plansFirst, unit'.kind = unit.kind,
         unit'.dispatched = unit.dispatched, unit'.positions = unit.positions,
         unit.plans \subseteq unit'.plans, unit'.plans \subseteq VoteIn
  PROVE  Plans'
<1>1. unit'.dispatched => Planned'
  BY DEF CompletionInv, Plans, Planned
<1>2. unit'.positions # {} => unit'.dispatched
  BY DEF CompletionInv, Plans
<1> QED
  BY <1>1, <1>2, SMT DEF CompletionInv, Plans

\* Passing the vote the loop is at.
LEMMA LoopPasses ==
  ASSUME CompletionInv, step.at = "recover", step.next \in 1..Len(step.votes),
         step'.at = "recover", step'.votes = step.votes, step'.disposition = "none",
         step'.next = step.next + 1,
         step.ready \cup step.errors \cup {step.votes[step.next]}
           \subseteq step'.ready \cup step'.errors
  PROVE  Passed'
<1>1. \A n, m \in Nat : n \in 1..m =>
        \A i \in 1..m : i < n + 1 => i < n \/ i = n
  BY SMT
<1>2. step.next \in Nat /\ Len(step.votes) \in Nat
  BY StepFacts
<1>3. \A i \in 1..Len(step.votes) :
        i < step.next => step.votes[i] \in step.ready \cup step.errors
  BY DEF CompletionInv, Passed
<1>4. \A i \in 1..Len(step.votes) :
        i < step.next + 1 => step.votes[i] \in step'.ready \cup step'.errors
  BY <1>1, <1>2, <1>3
<1> QED
  BY <1>4 DEF Passed

LEMMA RecoverKeeps ==
  ASSUME CompletionInv, recover_vote
  PROVE  CompletionInv'
<1>1. step.at = "recover" /\ UNCHANGED <<held, jobs, results>>
  BY DEF recover_vote
<1>2. step \in Steps /\ step.disposition = "none" /\ unit \in Units
  BY <1>1 DEF CompletionInv, CompletionShape, Passed
<1>3. ASSUME UNCHANGED unit, NEW a \in {"submit", "latePreflight"},
             step' = [step EXCEPT !.at = a],
             a = "submit" => step.interrupted \/ step.next > Len(step.votes)
      PROVE  CompletionInv'
  <2>1. a \in Places /\ step.at # "done"
    BY <1>1 DEF Places
  <2>2. /\ step' \in Steps /\ step'.at = a /\ step'.disposition = "none"
        /\ step'.votes = step.votes /\ step'.advance = step.advance
        /\ step'.plansFirst = step.plansFirst /\ step'.next = step.next
        /\ step'.ready = step.ready /\ step'.errors = step.errors
        /\ step'.interrupted = step.interrupted
    BY <1>3, <2>1, MoveFacts
  <2>3. Plans'
    BY <1>1, <1>3, <2>2, LoopPlans, StepFacts
  <2>4. \A i \in 1..Len(step.votes) :
          i < step.next => step.votes[i] \in step.ready \cup step.errors
    BY <1>1 DEF CompletionInv, Passed
  <2>5. step.next > Len(step.votes) => \A i \in 1..Len(step.votes) : i < step.next
    BY StepFacts, SMT
  <2>6. Passed'
    BY <1>3, <2>2, <2>4, <2>5 DEF Passed
  <2> QED
    BY <1>1, <1>2, <1>3, <2>2, <2>3, <2>6, ControlKeeps
<1>4. ASSUME ~(step.next > Len(step.votes)), NEW ready \in SUBSET VoteIn,
             NEW errors \in SUBSET VoteIn, NEW planned \in SUBSET VoteIn,
             step' = [step EXCEPT !.ready = ready, !.errors = errors, !.next = @ + 1],
             unit' = [unit EXCEPT !.plans = planned], unit.plans \subseteq planned,
             step.ready \cup step.errors \cup {step.votes[step.next]} \subseteq ready \cup errors
      PROVE  CompletionInv'
  <2>1. PICK next : next = step.next + 1
    OBVIOUS
  <2>2. next \in Nat \ {0} /\ step.next \in 1..Len(step.votes)
    BY <1>4, <2>1, StepFacts, SMT
  <2>3. /\ step' \in Steps /\ step'.at = "recover" /\ step'.disposition = "none"
        /\ step'.votes = step.votes /\ step'.advance = step.advance
        /\ step'.plansFirst = step.plansFirst /\ step'.next = next
        /\ step'.ready = ready /\ step'.errors = errors
    BY <1>1, <1>2, <1>4, <2>1, <2>2 DEF Steps
  <2>4. /\ unit' \in Units /\ unit'.plans = planned /\ unit'.kind = unit.kind
        /\ unit'.dispatched = unit.dispatched /\ unit'.positions = unit.positions
    BY <1>2, <1>4 DEF Units
  <2>5. Plans'
    BY <1>1, <1>4, <2>3, <2>4, LoopPlans
  <2>6. Passed'
    BY <1>1, <1>4, <2>1, <2>2, <2>3, LoopPasses
  <2> QED
    BY <1>1, <2>3, <2>4, <2>5, <2>6, ControlKeeps
<1>5. CASE step.interrupted \/ step.next > Len(step.votes)
  <2>1. step' = [step EXCEPT !.at = "submit"] /\ UNCHANGED unit
    BY <1>5 DEF recover_vote
  <2> QED
    BY <1>3, <1>5, <2>1
<1>6. CASE ~(step.interrupted \/ step.next > Len(step.votes))
  <2>1. PICK v : v = step.votes[step.next]
    OBVIOUS
  <2>2. v \in VoteIn
    <3>1. step.next \in 1..Len(step.votes)
      BY <1>6, StepFacts, SMT
    <3> QED
      BY <2>1, <3>1, StepFacts
  <2>3. /\ step.ready \in SUBSET VoteIn /\ step.errors \in SUBSET VoteIn
        /\ unit.plans \in SUBSET VoteIn
    BY StepFacts
  <2>4. ASSUME step' = Skip(step, v), UNCHANGED unit PROVE CompletionInv'
    <3>1. step' = [step EXCEPT !.ready = step.ready, !.errors = step.errors \cup {v},
                               !.next = @ + 1]
      BY <1>2, <2>4 DEF Skip, Steps
    <3>2. unit' = [unit EXCEPT !.plans = unit.plans]
      BY <1>2, <2>4 DEF Units
    <3>3. step.errors \cup {v} \in SUBSET VoteIn
      BY <2>2, <2>3
    <3>4. step.ready \cup step.errors \cup {step.votes[step.next]}
            \subseteq step.ready \cup (step.errors \cup {v})
      BY <2>1
    <3> QED
      BY <1>4, <1>6, <2>3, <3>1, <3>2, <3>3, <3>4
  <2>5. CASE step' = [step EXCEPT !.at = "latePreflight"] /\ UNCHANGED unit
    BY <1>3, <2>5
  <2>6. ASSUME unit' = IF step.plansFirst THEN unit ELSE [unit EXCEPT !.plans = @ \cup {v}],
               step' = [step EXCEPT !.ready = @ \cup {v}, !.next = @ + 1]
        PROVE  CompletionInv'
    <3>1. step' = [step EXCEPT !.ready = step.ready \cup {v}, !.errors = step.errors,
                               !.next = @ + 1]
      BY <1>2, <2>6 DEF Steps
    <3>2. PICK planned \in SUBSET VoteIn :
            unit' = [unit EXCEPT !.plans = planned] /\ unit.plans \subseteq planned
      <4>1. CASE step.plansFirst
        <5>1. unit' = [unit EXCEPT !.plans = unit.plans]
          BY <1>2, <2>6, <4>1 DEF Units
        <5> QED
          BY <2>3, <5>1
      <4>2. CASE ~step.plansFirst
        <5>1. unit' = [unit EXCEPT !.plans = unit.plans \cup {v}]
          BY <2>6, <4>2
        <5>2. unit.plans \cup {v} \in SUBSET VoteIn
          BY <2>2, <2>3
        <5> QED
          BY <5>1, <5>2
      <4> QED
        BY <4>1, <4>2
    <3>3. step.ready \cup {v} \in SUBSET VoteIn
      BY <2>2, <2>3
    <3>4. step.ready \cup step.errors \cup {step.votes[step.next]}
            \subseteq (step.ready \cup {v}) \cup step.errors
      BY <2>1
    <3> QED
      BY <1>4, <1>6, <2>3, <3>1, <3>2, <3>3, <3>4
  <2>7. \/ step' = Skip(step, v) /\ UNCHANGED unit
        \/ step' = [step EXCEPT !.at = "latePreflight"] /\ UNCHANGED unit
        \/ /\ unit' = IF step.plansFirst THEN unit ELSE [unit EXCEPT !.plans = @ \cup {v}]
           /\ step' = [step EXCEPT !.ready = @ \cup {v}, !.next = @ + 1]
    BY <1>6, <2>1 DEF recover_vote
  <2> QED
    BY <2>4, <2>5, <2>6, <2>7
<1> QED
  BY <1>5, <1>6

LEMMA LatePreflightKeeps ==
  ASSUME CompletionInv, late_preflight_fleet
  PROVE  CompletionInv'
<1>1. step.at = "latePreflight" /\ UNCHANGED <<unit, held, jobs, results>>
  BY DEF late_preflight_fleet
<1>2. step \in Steps /\ step.disposition = "none" /\ unit' \in Units
  BY <1>1 DEF CompletionInv, CompletionShape, Passed
<1>3. CASE step' = Finish(step, "failed")
  BY <1>1, <1>3, StopKeeps
<1>4. ASSUME NEW fleet \in BOOLEAN, NEW a \in {"submit", "recover"},
             a = "submit" => step.interrupted,
             step' = [step EXCEPT !.fleet = fleet, !.at = a]
      PROVE  CompletionInv'
  <2>1. a \in Places
    BY DEF Places
  <2>2. /\ step' \in Steps /\ step'.at = a /\ step'.disposition = "none"
        /\ step'.votes = step.votes /\ step'.advance = step.advance
        /\ step'.plansFirst = step.plansFirst /\ step'.next = step.next
        /\ step'.ready = step.ready /\ step'.errors = step.errors
        /\ step'.interrupted = step.interrupted
    BY <1>2, <1>4, <2>1 DEF Steps
  <2>3. Plans'
    BY <1>1, <2>2, LoopPlans, StepFacts
  <2>4. Passed'
    BY <1>1, <1>4, <2>2 DEF CompletionInv, Passed
  <2> QED
    BY <1>1, <1>2, <2>2, <2>3, <2>4, ControlKeeps
<1>5. CASE step.interrupted /\ step' = [step EXCEPT !.at = "submit"]
  <2>1. step' = [step EXCEPT !.fleet = step.fleet, !.at = "submit"] /\ step.fleet \in BOOLEAN
    BY <1>2, <1>5 DEF Steps
  <2> QED
    BY <1>4, <1>5, <2>1
<1>6. CASE step' = [step EXCEPT !.fleet = TRUE, !.at = "recover"]
  BY <1>4, <1>6
<1> QED
  BY <1>3, <1>5, <1>6 DEF late_preflight_fleet

\* A job of the queue: its vote and its share.
LEMMA JobParts ==
  /\ \A v \in VoteIn, s \in Payload : <<v, s>> \in Job /\ <<v, s>>[1] = v
  /\ \A j \in Job : j[1] \in VoteIn /\ j[2] \in Payload /\ j = <<j[1], j[2]>>
BY SMT DEF Job

LEMMA RecordedAt ==
  ASSUME NEW state, NEW out, state = [at |-> "recorded", got |-> out]
  PROVE  state.at = "recorded"
OBVIOUS

\* The unit and the control of the step as they were.
LEMMA ControlStays ==
  ASSUME CompletionInv, UNCHANGED <<unit, step>>
  PROVE  unit' \in Units /\ step' \in Steps /\ Plans' /\ Passed'
<1>1. unit' \in Units /\ step' \in Steps
  BY DEF CompletionInv, CompletionShape
<1>2. Plans'
  BY DEF CompletionInv, Plans, Planned
<1>3. Passed'
  BY DEF CompletionInv, Passed
<1> QED
  BY <1>1, <1>2, <1>3

\* A job that is not recorded yet goes on; what a helper accepted stays accepted.
LEMMA JobKeeps ==
  ASSUME CompletionInv, NEW j \in Job, step.at = "deliver",
         jobs[j].at \in {"queued", "active"},
         NEW state \in JobStates, state.at \in {"active", "delivered"},
         jobs' = [jobs EXCEPT ![j] = state], UNCHANGED <<unit, step, results>>,
         held' \in [Job -> {"nothing", "ambiguous", "accepted"}],
         \A k \in Job : held[k] = "accepted" => held'[k] = "accepted",
         state.got = "accepted" => held'[j] = "accepted"
  PROVE  CompletionInv'
<1>1. jobs \in [Job -> JobStates] /\ DOMAIN results = VoteIn
  BY DEF CompletionInv, CompletionShape
<1>2. /\ jobs' \in [Job -> JobStates] /\ jobs'[j] = state
      /\ \A k \in Job : k # j => jobs'[k] = jobs[k]
  BY <1>1
<1>3. CompletionShape'
  BY <1>1, <1>2, ControlStays DEF CompletionShape
<1>4. Queue'
  <2>1. \A k \in Job : jobs'[k].got = "accepted" => held'[k] = "accepted"
    BY <1>2 DEF CompletionInv, Queue
  <2>2. ASSUME NEW v \in VoteIn
        PROVE  \/ /\ \A s \in Payload : jobs'[<<v, s>>].at = "none"
                  /\ v \in step.ready => results[v].error # "none" \/ Payload = {}
               \/ /\ \A s \in Payload : jobs'[<<v, s>>].at # "none"
                  /\ (\A s \in Payload : jobs'[<<v, s>>].at = "recorded") => results[v].final
    <3>1. CASE /\ \A s \in Payload : jobs[<<v, s>>].at = "none"
               /\ v \in step.ready => results[v].error # "none" \/ Payload = {}
      <4>1. \A s \in Payload : <<v, s>> # j /\ <<v, s>> \in Job
        BY <3>1, JobParts
      <4> QED
        BY <1>2, <3>1, <4>1
    <3>2. CASE /\ \A s \in Payload : jobs[<<v, s>>].at # "none"
               /\ (\A s \in Payload : jobs[<<v, s>>].at = "recorded") => results[v].final
      <4>1. \A s \in Payload : jobs'[<<v, s>>].at # "none"
        BY <1>2, <3>2, JobParts
      <4>2. (\A s \in Payload : jobs'[<<v, s>>].at = "recorded") =>
              \A s \in Payload : jobs[<<v, s>>].at = "recorded"
        BY <1>2, JobParts
      <4> QED
        BY <3>2, <4>1, <4>2
    <3> QED
      BY <3>1, <3>2 DEF CompletionInv, Queue
  <2> QED
    BY <2>1, <2>2 DEF CompletionInv, Queue
<1>5. AdvancedMeansHeld'
  <2>1. step.disposition = "none"
    BY DEF CompletionInv, Passed
  <2>2. ASSUME NEW v \in VoteIn, results[v].final
        PROVE  /\ DOMAIN results[v].delivered \cap results[v].pending = {}
               /\ DOMAIN results[v].delivered \cup results[v].pending = Payload
               /\ \A s \in DOMAIN results[v].delivered :
                    /\ jobs'[<<v, s>>] = [at |-> "recorded", got |-> results[v].delivered[s]]
                    /\ results[v].delivered[s] = "accepted" => held'[<<v, s>>] = "accepted"
    <3>1. /\ DOMAIN results[v].delivered \cap results[v].pending = {}
          /\ DOMAIN results[v].delivered \cup results[v].pending = Payload
          /\ \A s \in DOMAIN results[v].delivered :
               /\ jobs[<<v, s>>] = [at |-> "recorded", got |-> results[v].delivered[s]]
               /\ results[v].delivered[s] = "accepted" => held[<<v, s>>] = "accepted"
      BY <2>2 DEF CompletionInv, AdvancedMeansHeld
    <3>2. \A s \in DOMAIN results[v].delivered : s \in Payload /\ <<v, s>> \in Job
      BY <3>1, JobParts
    <3>3. \A s \in DOMAIN results[v].delivered : <<v, s>> # j
      <4>1. \A s \in DOMAIN results[v].delivered : jobs[<<v, s>>].at = "recorded"
        BY <3>1, RecordedAt
      <4>2. jobs[j].at # "recorded"
        OBVIOUS
      <4> QED
        BY <4>1, <4>2
    <3> QED
      BY <1>2, <3>1, <3>2, <3>3
  <2> QED
    BY <2>1, <2>2, SMT DEF AdvancedMeansHeld
<1> QED
  BY <1>3, <1>4, <1>5, ControlStays DEF CompletionInv

LEMMA AcquireKeeps ==
  ASSUME CompletionInv, NEW j \in Job, acquire(j)
  PROVE  CompletionInv'
<1>1. /\ step.at = "deliver" /\ jobs[j].at = "queued"
      /\ UNCHANGED <<unit, held, step, results>>
  BY DEF acquire
<1>2. jobs \in [Job -> JobStates] /\ held \in [Job -> {"nothing", "ambiguous", "accepted"}]
  BY DEF CompletionInv, CompletionShape
<1>3. CASE jobs' = [jobs EXCEPT ![j] = [at |-> "delivered", got |-> "skipped"]]
  <2>1. PICK state : state = [at |-> "delivered", got |-> "skipped"]
    OBVIOUS
  <2>2. state \in JobStates /\ state.at = "delivered" /\ state.got = "skipped"
    BY <2>1 DEF JobStates, Outcomes
  <2> QED
    BY <1>1, <1>2, <1>3, <2>1, <2>2, JobKeeps
<1>4. CASE jobs' = [jobs EXCEPT ![j].at = "active"]
  <2>1. PICK state : state = [jobs[j] EXCEPT !.at = "active"]
    OBVIOUS
  <2>2. state \in JobStates /\ state.at = "active" /\ state.got = jobs[j].got
    BY <1>2, <2>1 DEF JobStates
  <2>3. jobs' = [jobs EXCEPT ![j] = state]
    BY <1>4, <2>1
  <2>4. state.got = "accepted" => held[j] = "accepted"
    BY <2>2 DEF CompletionInv, Queue
  <2> QED
    BY <1>1, <1>2, <2>2, <2>3, <2>4, JobKeeps
<1> QED
  BY <1>3, <1>4 DEF acquire

LEMMA DeliverKeeps ==
  ASSUME CompletionInv, NEW j \in Job, deliver(j)
  PROVE  CompletionInv'
<1>1. /\ step.at = "deliver" /\ jobs[j].at = "active" /\ UNCHANGED <<unit, step, results>>
  BY DEF deliver
<1>2. held \in [Job -> {"nothing", "ambiguous", "accepted"}]
  BY DEF CompletionInv, CompletionShape
<1>3. PICK got \in {"accepted", "ambiguous", "nowhere", "error"} :
        /\ jobs' = [jobs EXCEPT ![j] = [at |-> "delivered", got |-> got]]
        /\ held' = [held EXCEPT ![j] =
             IF @ = "accepted" \/ got \in {"nowhere", "error"} THEN @ ELSE got]
  BY DEF deliver
<1>4. PICK state : state = [at |-> "delivered", got |-> got]
  OBVIOUS
<1>5. state \in JobStates /\ state.at = "delivered" /\ state.got = got
  BY <1>4 DEF JobStates, Outcomes
<1>6. PICK h : h = IF held[j] = "accepted" \/ got \in {"nowhere", "error"} THEN held[j] ELSE got
  OBVIOUS
<1>7. h \in {"nothing", "ambiguous", "accepted"} /\ (held[j] = "accepted" => h = "accepted")
      /\ (got = "accepted" => h = "accepted")
  BY <1>2, <1>6
<1>8. held' = [held EXCEPT ![j] = h]
  BY <1>3, <1>6
<1>9. /\ held' \in [Job -> {"nothing", "ambiguous", "accepted"}]
      /\ \A k \in Job : held[k] = "accepted" => held'[k] = "accepted"
      /\ (got = "accepted" => held'[j] = "accepted")
  BY <1>2, <1>7, <1>8
<1> QED
  BY <1>1, <1>3, <1>4, <1>5, <1>9, JobKeeps

LEMMA RecordKeeps ==
  ASSUME CompletionInv, NEW j \in Job, record_and_finish(j)
  PROVE  CompletionInv'
<1>1. step.at = "deliver" /\ jobs[j].at = "delivered" /\ UNCHANGED <<unit, held, step>>
  BY DEF record_and_finish
<1>2. jobs \in [Job -> JobStates] /\ DOMAIN results = VoteIn
      /\ held \in [Job -> {"nothing", "ambiguous", "accepted"}]
  BY DEF CompletionInv, CompletionShape
<1>3. PICK v \in VoteIn : v = j[1] /\ j = <<v, j[2]>> /\ j[2] \in Payload
  BY JobParts
<1>4. PICK r : r = batch_delivery_report(v, jobs')
  OBVIOUS
<1>5. /\ jobs' = [jobs EXCEPT ![j].at = "recorded"]
      /\ \/ /\ \A s \in Payload : jobs'[<<v, s>>].at = "recorded"
            /\ results' = [results EXCEPT ![v] = r]
         \/ /\ ~(\A s \in Payload : jobs'[<<v, s>>].at = "recorded")
            /\ results' = results
  BY <1>3, <1>4 DEF record_and_finish
<1>6. /\ jobs' \in [Job -> JobStates] /\ jobs'[j].at = "recorded" /\ jobs'[j].got = jobs[j].got
      /\ \A k \in Job : k # j => jobs'[k] = jobs[k]
  <2>1. PICK state : state = [jobs[j] EXCEPT !.at = "recorded"]
    OBVIOUS
  <2>2. state \in JobStates /\ state.at = "recorded" /\ state.got = jobs[j].got
    BY <1>2, <2>1 DEF JobStates
  <2>3. jobs' = [jobs EXCEPT ![j] = state]
    BY <1>5, <2>1
  <2> QED
    BY <1>2, <2>2, <2>3
<1>7. DOMAIN results' = VoteIn /\ \A w \in VoteIn : w # v => results'[w] = results[w]
  BY <1>2, <1>5
<1>8. /\ r.final = TRUE
      /\ DOMAIN r.delivered \subseteq Payload
      /\ r.pending = Payload \ DOMAIN r.delivered
      /\ \A s \in DOMAIN r.delivered :
           /\ r.delivered[s] = jobs'[<<v, s>>].got
           /\ r.delivered[s] \in {"accepted", "ambiguous", "nowhere"}
  <2>1. PICK completed : completed =
          {s \in Payload : jobs'[<<v, s>>].got \in {"accepted", "ambiguous", "nowhere"}}
    OBVIOUS
  <2>2. /\ r.final = TRUE /\ r.delivered = [s \in completed |-> jobs'[<<v, s>>].got]
        /\ r.pending = Payload \ completed
    BY <1>4, <2>1 DEF batch_delivery_report
  <2>3. /\ DOMAIN r.delivered = completed
        /\ \A s \in completed : r.delivered[s] = jobs'[<<v, s>>].got
    BY <2>2
  <2>4. \A s \in completed :
          s \in Payload /\ jobs'[<<v, s>>].got \in {"accepted", "ambiguous", "nowhere"}
    BY <2>1
  <2> QED
    BY <2>2, <2>3, <2>4
<1>9. \A k \in Job : jobs'[k].got = "accepted" => held'[k] = "accepted"
  <2>1. \A k \in Job : jobs'[k].got = jobs[k].got
    BY <1>6
  <2> QED
    BY <1>1, <2>1 DEF CompletionInv, Queue
<1>10. results'[v] = r \/ results'[v] = results[v]
  BY <1>2, <1>5
<1>11. CompletionShape'
  BY <1>1, <1>2, <1>6, <1>7, ControlStays, ZenonT(40) DEF CompletionShape
<1>12. Queue'
  <2>1. ASSUME NEW w \in VoteIn, results'[w].final, NEW s \in DOMAIN results'[w].delivered
        PROVE  results'[w].delivered[s] \in {"accepted", "ambiguous", "nowhere"}
    <3>1. CASE results'[w] = results[w]
      BY <2>1, <3>1 DEF CompletionInv, Queue
    <3>2. CASE w = v /\ results'[v] = r
      BY <1>8, <2>1, <3>2
    <3> QED
      BY <1>7, <1>10, <3>1, <3>2
  <2>2. ASSUME NEW w \in VoteIn
        PROVE  \/ /\ \A s \in Payload : jobs'[<<w, s>>].at = "none"
                  /\ w \in step.ready => results'[w].error # "none" \/ Payload = {}
               \/ /\ \A s \in Payload : jobs'[<<w, s>>].at # "none"
                  /\ (\A s \in Payload : jobs'[<<w, s>>].at = "recorded") => results'[w].final
    <3>1. CASE w # v
      <4>1. \A s \in Payload : jobs'[<<w, s>>] = jobs[<<w, s>>]
        <5>1. \A s \in Payload : <<w, s>> \in Job /\ <<w, s>>[1] # j[1]
          BY <1>3, <3>1, JobParts
        <5> QED
          BY <1>6, <5>1
      <4>2. results'[w] = results[w]
        BY <1>7, <3>1
      <4>3. \/ /\ \A s \in Payload : jobs[<<w, s>>].at = "none"
               /\ w \in step.ready => results[w].error # "none" \/ Payload = {}
            \/ /\ \A s \in Payload : jobs[<<w, s>>].at # "none"
               /\ (\A s \in Payload : jobs[<<w, s>>].at = "recorded") => results[w].final
        BY <1>1 DEF CompletionInv, Queue
      <4> QED
        BY <4>1, <4>2, <4>3
    <3>2. CASE w = v
      <4>1. ~(\A s \in Payload : jobs[<<v, s>>].at = "none")
        BY <1>1, <1>3
      <4>2. \A s \in Payload : jobs[<<v, s>>].at # "none"
        BY <1>1, <4>1 DEF CompletionInv, Queue
      <4>3. \A s \in Payload : jobs'[<<v, s>>].at # "none"
        BY <1>6, <4>2, JobParts
      <4>4. (\A s \in Payload : jobs'[<<v, s>>].at = "recorded") => results'[v].final
        BY <1>2, <1>5, <1>8
      <4> QED
        BY <3>2, <4>3, <4>4
    <3> QED
      BY <3>1, <3>2
  <2> QED
    BY <1>1, <1>9, <2>1, <2>2 DEF Queue
<1>13. AdvancedMeansHeld'
  <2>1. step.disposition = "none"
    BY <1>1 DEF CompletionInv, Passed
  <2>2. ASSUME NEW w \in VoteIn, results'[w].final
        PROVE  /\ DOMAIN results'[w].delivered \cap results'[w].pending = {}
               /\ DOMAIN results'[w].delivered \cup results'[w].pending = Payload
               /\ \A s \in DOMAIN results'[w].delivered :
                    /\ jobs'[<<w, s>>] = [at |-> "recorded", got |-> results'[w].delivered[s]]
                    /\ results'[w].delivered[s] = "accepted" => held'[<<w, s>>] = "accepted"
    <3>1. CASE results'[w] = results[w]
      <4>1. /\ DOMAIN results[w].delivered \cap results[w].pending = {}
            /\ DOMAIN results[w].delivered \cup results[w].pending = Payload
            /\ \A s \in DOMAIN results[w].delivered :
                 /\ jobs[<<w, s>>] = [at |-> "recorded", got |-> results[w].delivered[s]]
                 /\ results[w].delivered[s] = "accepted" => held[<<w, s>>] = "accepted"
        BY <2>2, <3>1 DEF CompletionInv, AdvancedMeansHeld
      <4>2. \A s \in DOMAIN results[w].delivered : <<w, s>> \in Job
        BY <4>1, JobParts
      <4>3. \A s \in DOMAIN results[w].delivered : jobs[<<w, s>>].at = "recorded"
        BY <4>1, RecordedAt
      <4>4. \A s \in DOMAIN results[w].delivered : <<w, s>> # j
        BY <1>1, <4>3
      <4> QED
        BY <1>1, <1>6, <3>1, <4>1, <4>2, <4>4, ZenonT(40)
    <3>2. CASE w = v /\ results'[v] = r /\ \A s \in Payload : jobs'[<<v, s>>].at = "recorded"
      <4>1. \A s \in DOMAIN r.delivered : s \in Payload /\ <<v, s>> \in Job
        BY <1>8, JobParts
      <4>2. \A s \in DOMAIN r.delivered :
              jobs'[<<v, s>>] = [at |-> "recorded", got |-> r.delivered[s]]
        BY <1>6, <1>8, <3>2, <4>1 DEF JobStates
      <4>3. \A s \in DOMAIN r.delivered : r.delivered[s] = "accepted" => held'[<<v, s>>] = "accepted"
        BY <1>8, <1>9, <4>1
      <4>4. /\ DOMAIN r.delivered \cap r.pending = {}
            /\ DOMAIN r.delivered \cup r.pending = Payload
        BY <1>8, <4>1
      <4> QED
        BY <3>2, <4>2, <4>3, <4>4
    <3> QED
      BY <1>2, <1>5, <1>7, <3>1, <3>2
  <2> QED
    BY <1>1, <2>1, <2>2, SMT DEF AdvancedMeansHeld
<1> QED
  BY <1>1, <1>11, <1>12, <1>13, ControlStays DEF CompletionInv

LEMMA SubmitKeeps ==
  ASSUME CompletionInv, submit_votes
  PROVE  CompletionInv'
<1>1. step.at = "submit" /\ UNCHANGED <<unit, held>> /\ step' = [step EXCEPT !.at = "deliver"]
  BY DEF submit_votes
<1>2. PICK unprepared :
        /\ results' = [v \in VoteIn |-> IF v \in unprepared THEN Unprepared ELSE NoResult]
        /\ jobs' = [j \in Job |-> [NoJobs[j] EXCEPT !.at =
                      IF j[1] \in step.ready \ unprepared THEN "queued" ELSE "none"]]
  BY DEF submit_votes
<1>3. "deliver" \in Places /\ step.at # "done"
  BY <1>1 DEF Places
<1>4. /\ step' \in Steps /\ step'.at = "deliver" /\ step'.disposition = "none"
      /\ step'.votes = step.votes /\ step'.advance = step.advance
      /\ step'.plansFirst = step.plansFirst /\ step'.next = step.next
      /\ step'.ready = step.ready /\ step'.errors = step.errors
      /\ step'.interrupted = step.interrupted
  BY <1>1, <1>3, MoveFacts
<1>5. Plans'
  BY <1>1, <1>4, SMT DEF CompletionInv, Plans, Planned
<1>6. Passed'
  BY <1>1, <1>4 DEF CompletionInv, Passed
<1>7. ASSUME NEW j \in Job
      PROVE  /\ jobs'[j] \in JobStates /\ jobs'[j].got = "nothing"
             /\ jobs'[j].at = IF j[1] \in step.ready \ unprepared THEN "queued" ELSE "none"
  <2>1. PICK at : at = IF j[1] \in step.ready \ unprepared THEN "queued" ELSE "none"
    OBVIOUS
  <2>2. PICK none : none = NoJobs[j]
    OBVIOUS
  <2>3. none = [at |-> "none", got |-> "nothing"]
    BY <2>2 DEF NoJobs
  <2>4. none \in JobStates /\ none.got = "nothing"
    BY <2>3 DEF JobStates, Outcomes
  <2>5. jobs'[j] = [none EXCEPT !.at = at]
    BY <1>2, <2>1, <2>2
  <2>6. at \in {"none", "queued", "active", "delivered", "recorded"}
    BY <2>1
  <2> QED
    BY <2>1, <2>4, <2>5, <2>6 DEF JobStates
<1>8. jobs' \in [Job -> JobStates]
  <2>1. jobs' = [j \in Job |-> jobs'[j]]
    BY <1>2
  <2> QED
    BY <1>7, <2>1
<1>9. DOMAIN <<>> = {}
  BY SMT
<1>10. /\ NoResult.final = FALSE /\ Unprepared.final = TRUE
       /\ Unprepared.error = "preparation" /\ Unprepared.pending = Payload
       /\ Unprepared.delivered = <<>>
  BY DEF Unprepared, NoResult
<1>11. /\ DOMAIN results' = VoteIn
       /\ \A v \in VoteIn : results'[v].final => results'[v] = Unprepared
       /\ \A v \in VoteIn : v \in unprepared => results'[v] = Unprepared
  BY <1>2, <1>10
<1>12. CompletionShape'
  BY <1>1, <1>4, <1>8, <1>11, StepFacts DEF CompletionInv, CompletionShape
<1>13. Queue'
  <2>1. ASSUME NEW v \in VoteIn
        PROVE  \/ /\ \A s \in Payload : jobs'[<<v, s>>].at = "none"
                  /\ v \in step.ready => results'[v].error # "none" \/ Payload = {}
               \/ /\ \A s \in Payload : jobs'[<<v, s>>].at # "none"
                  /\ (\A s \in Payload : jobs'[<<v, s>>].at = "recorded") => results'[v].final
    <3>1. \A s \in Payload : jobs'[<<v, s>>].at =
            IF v \in step.ready \ unprepared THEN "queued" ELSE "none"
      BY <1>7, JobParts
    <3>2. CASE Payload = {}
      BY <3>2
    <3>3. CASE Payload # {} /\ v \in step.ready \ unprepared
      BY <3>1, <3>3
    <3>4. CASE v \notin step.ready \ unprepared
      BY <1>10, <1>11, <3>1, <3>4
    <3> QED
      BY <3>2, <3>3, <3>4
  <2>2. \A j \in Job : jobs'[j].got # "accepted"
    BY <1>7
  <2>3. \A v \in VoteIn : results'[v].final => DOMAIN results'[v].delivered = {}
    BY <1>9, <1>10, <1>11
  <2> QED
    BY <1>4, <2>1, <2>2, <2>3 DEF Queue
<1>14. AdvancedMeansHeld'
  <2>1. \A v \in VoteIn : results'[v].final =>
          DOMAIN results'[v].delivered = {} /\ results'[v].pending = Payload
    BY <1>9, <1>10, <1>11
  <2> QED
    BY <1>4, <2>1 DEF AdvancedMeansHeld
<1> QED
  BY <1>5, <1>6, <1>12, <1>13, <1>14 DEF CompletionInv

\* A step that reports its unit advanced delivered every share of every vote of it.
LEMMA AdvancedKeeps ==
  ASSUME CompletionInv, step.at = "deliver", step' = Finish(step, "advanced"),
         UNCHANGED <<unit, held, jobs, results>>,
         JobsAt("queued") \cup JobsAt("active") \cup JobsAt("delivered") = {},
         step.errors = {}, ~step.interrupted,
         \A v \in step.ready : /\ results[v].error = "none"
                               /\ delivery_progress(results[v]) = "complete"
  PROVE  CompletionInv'
<1>1. step \in Steps /\ "done" \in Places /\ "advanced" \in Dispositions
  BY DEF CompletionInv, CompletionShape, Places, Dispositions
<1>2. /\ step' \in Steps /\ step'.at = "done" /\ step'.disposition = "advanced"
      /\ step'.plansFirst = step.plansFirst /\ step'.advance = step.advance
      /\ step'.votes = step.votes
  BY <1>1 DEF Steps, Finish
<1>3. Plans'
  BY <1>2, SMT DEF CompletionInv, Plans, Planned
<1>4. Passed'
  BY <1>2 DEF Passed
<1>5. CompletionShape'
  BY <1>2 DEF CompletionInv, CompletionShape
<1>6. Queue'
  BY <1>2 DEF CompletionInv, Queue
<1>7. ASSUME NEW i \in 1..Len(step.votes), NEW s \in Payload
      PROVE  held[<<step.votes[i], s>>] = "accepted"
  <2>1. PICK v \in VoteIn : v = step.votes[i]
    BY StepFacts
  <2>2. v \in step.ready
    BY <2>1 DEF CompletionInv, Passed
  <2>3. results[v].error = "none" /\ delivery_progress(results[v]) = "complete"
    BY <2>2
  <2>4. \A t \in Payload : jobs[<<v, t>>].at \in {"none", "recorded"}
    <3>1. \A j \in Job : jobs[j].at \notin {"queued", "active", "delivered"}
      BY DEF JobsAt
    <3>2. \A j \in Job : jobs[j].at \in {"none", "queued", "active", "delivered", "recorded"}
      BY DEF CompletionInv, CompletionShape, JobStates
    <3> QED
      BY <3>1, <3>2, JobParts
  <2>5. results[v].final
    <3>1. \/ /\ \A t \in Payload : jobs[<<v, t>>].at = "none"
             /\ v \in step.ready => results[v].error # "none" \/ Payload = {}
          \/ /\ \A t \in Payload : jobs[<<v, t>>].at # "none"
             /\ (\A t \in Payload : jobs[<<v, t>>].at = "recorded") => results[v].final
      BY DEF CompletionInv, Queue
    <3> QED
      BY <2>2, <2>3, <2>4, <3>1
  <2>6. PICK r : r = results[v]
    OBVIOUS
  <2>7. /\ DOMAIN r.delivered \cup r.pending = Payload
        /\ \A t \in DOMAIN r.delivered : r.delivered[t] = "accepted" => held[<<v, t>>] = "accepted"
        /\ \A t \in DOMAIN r.delivered : r.delivered[t] \in {"accepted", "ambiguous", "nowhere"}
    BY <2>5, <2>6 DEF CompletionInv, AdvancedMeansHeld, Queue
  <2>8. /\ r.pending = {} /\ \A t \in DOMAIN r.delivered : r.delivered[t] # "nowhere"
        /\ \A t \in DOMAIN r.delivered : r.delivered[t] # "ambiguous"
    BY <2>3, <2>6 DEF delivery_progress
  <2> QED
    BY <2>1, <2>7, <2>8
<1>8. AdvancedMeansHeld'
  BY <1>2, <1>7, SMT DEF CompletionInv, AdvancedMeansHeld
<1> QED
  BY <1>3, <1>4, <1>5, <1>6, <1>8 DEF CompletionInv

LEMMA SettleKeeps ==
  ASSUME CompletionInv, settle_completion
  PROVE  CompletionInv'
<1>1. /\ step.at = "deliver" /\ UNCHANGED <<unit, held, jobs, results>>
      /\ JobsAt("queued") \cup JobsAt("active") \cup JobsAt("delivered") = {}
  BY DEF settle_completion
<1> DEFINE covered  == {results[v] : v \in step.ready}
           failing  == step.errors \cup {v \in step.ready : results[v].error # "none"}
           progress == {delivery_progress(r) : r \in covered}
           how      == IF failing # {} THEN "failed"
                       ELSE IF step.interrupted \/ \E r \in covered : r.cancelled
                       THEN "cancelled"
                       ELSE IF "incomplete" \in progress THEN "incomplete"
                       ELSE IF "awaiting" \in progress THEN "pending" ELSE "advanced"
<1>2. step' = Finish(step, how)
  BY DEF settle_completion
<1>3. CASE how # "advanced"
  <2>1. how \in {"cancelled", "failed", "pending", "terminal", "incomplete"}
    BY <1>3
  <2> QED
    BY <1>1, <1>2, <2>1, StopKeeps
<1>4. CASE how = "advanced"
  <2>1. /\ failing = {} /\ ~step.interrupted
        /\ "incomplete" \notin progress /\ "awaiting" \notin progress
    BY <1>4
  <2>2. step.errors = {} /\ \A v \in step.ready : results[v].error = "none"
    BY <2>1
  <2>3. ASSUME NEW v \in step.ready PROVE delivery_progress(results[v]) = "complete"
    <3>1. delivery_progress(results[v]) \in progress
      OBVIOUS
    <3>2. delivery_progress(results[v]) \in {"incomplete", "awaiting", "complete"}
      BY DEF delivery_progress
    <3> QED
      BY <2>1, <3>1, <3>2
  <2>4. step' = Finish(step, "advanced")
    BY <1>2, <1>4
  <2> QED
    BY <1>1, <2>1, <2>2, <2>3, <2>4, AdvancedKeeps
<1> QED
  BY <1>3, <1>4

LEMMA InterruptKeeps ==
  ASSUME CompletionInv, interrupt_step
  PROVE  CompletionInv'
<1>1. /\ step.at \notin {"idle", "done"} /\ step' = [step EXCEPT !.interrupted = TRUE]
      /\ UNCHANGED <<unit, held, jobs, results>>
  BY DEF interrupt_step
<1>2. step \in Steps /\ step.disposition = "none"
  BY <1>1 DEF CompletionInv, CompletionShape, Passed
<1>3. /\ step' \in Steps /\ step'.at = step.at /\ step'.disposition = "none"
      /\ step'.votes = step.votes /\ step'.advance = step.advance
      /\ step'.plansFirst = step.plansFirst /\ step'.next = step.next
      /\ step'.ready = step.ready /\ step'.errors = step.errors
      /\ step'.interrupted = TRUE
  BY <1>1, <1>2 DEF Steps
<1>4. Plans'
  BY <1>1, <1>3, SMT DEF CompletionInv, Plans, Planned
<1>5. Passed'
  BY <1>3 DEF CompletionInv, Passed
<1>6. CompletionShape'
  BY <1>1, <1>3 DEF CompletionInv, CompletionShape
<1>7. Queue'
  BY <1>1, <1>3 DEF CompletionInv, Queue
<1>8. AdvancedMeansHeld'
  BY <1>1, <1>3 DEF CompletionInv, AdvancedMeansHeld
<1> QED
  BY <1>4, <1>5, <1>6, <1>7, <1>8 DEF CompletionInv

LEMMA LeaveKeeps ==
  ASSUME CompletionInv, leave_step
  PROVE  CompletionInv'
<1>1. /\ step' = [IdleStep EXCEPT !.taken = step.taken] /\ jobs' = NoJobs
      /\ results' = [v \in VoteIn |-> NoResult] /\ UNCHANGED <<unit, held>>
  BY DEF leave_step
<1>2. step.taken \in 0..MaxSteps
  BY StepFacts
<1>3. /\ step' \in Steps /\ step'.at = "idle" /\ step'.disposition = "none"
      /\ ~step'.advance /\ ~step'.plansFirst
  BY <1>1, <1>2, IdleIsStep DEF Steps
<1>4. Plans'
  BY <1>1, <1>3 DEF CompletionInv, Plans, Planned
<1>5. Passed'
  BY <1>3 DEF Passed
<1> QED
  BY <1>1, <1>3, <1>4, <1>5, FreshKeeps

LEMMA ResignKeeps ==
  ASSUME CompletionInv, resign_unit
  PROVE  CompletionInv'
<1>1. /\ step.at = "idle" /\ ~unit.dispatched /\ unit' = [unit EXCEPT !.plans = {}]
      /\ UNCHANGED <<held, step, jobs, results>>
  BY DEF resign_unit
<1>2. /\ unit' \in Units /\ unit'.dispatched = unit.dispatched
      /\ unit'.positions = unit.positions
  BY <1>1, StepFacts DEF Units
<1>3. step' \in Steps /\ step.disposition = "none"
  BY <1>1 DEF CompletionInv, CompletionShape, Passed
<1>4. Plans'
  BY <1>1, <1>2, SMT DEF CompletionInv, Plans
<1>5. Passed'
  BY <1>1 DEF CompletionInv, Passed
<1> QED
  BY <1>1, <1>2, <1>3, <1>4, <1>5, ControlKeeps

\* A step that leaves the unit, the step, its jobs and its reports alone.
LEMMA CompletionStays ==
  ASSUME CompletionInv, UNCHANGED <<unit, held, step, jobs, results>>
  PROVE  CompletionInv'
<1>1. CompletionShape' /\ Queue'
  BY DEF CompletionInv, CompletionShape, Queue
<1>2. AdvancedMeansHeld'
  BY DEF CompletionInv, AdvancedMeansHeld
<1> QED
  BY <1>1, <1>2, ControlStays DEF CompletionInv

-----------------------------------------------------------------------------
(* What the steps keep.                                                    *)

\* Every reachable state of the completion of a vote unit (vote_completion.rs and its
\* delivery queue) satisfies the inductive invariant: the plans, the progress of the
\* recovery loop and the queue agree with the place the step is at.
THEOREM CompletionInvariant == CompletionSpec => []CompletionInv
<1>1. CompletionInit => CompletionInv
  BY CompletionStarts
<1>2. ASSUME CompletionInv, [CompletionNext]_completionVars PROVE CompletionInv'
  <2>1. CASE begin_completion \/ enter_completion \/ preflight_fleet
    BY <2>1, BeginKeeps, EnterKeeps, PreflightKeeps, <1>2
  <2>2. CASE prepare_share_delivery \/ advance_until_terminal \/ recover_vote
    BY <2>2, PrepareKeeps, AdvanceKeeps, RecoverKeeps, <1>2
  <2>3. CASE late_preflight_fleet \/ submit_votes \/ settle_completion
    BY <2>3, LatePreflightKeeps, SubmitKeeps, SettleKeeps, <1>2
  <2>4. CASE \E j \in Job : acquire(j) \/ deliver(j) \/ record_and_finish(j)
    BY <2>4, AcquireKeeps, DeliverKeeps, RecordKeeps, <1>2
  <2>5. CASE interrupt_step \/ leave_step \/ resign_unit
    BY <2>5, InterruptKeeps, LeaveKeeps, ResignKeeps, <1>2
  <2>6. CASE other_wallet_delivers \/ UNCHANGED completionVars
    BY <2>6, CompletionStays, <1>2 DEF other_wallet_delivers, completionVars
  <2> QED
    BY <1>2, <2>1, <2>2, <2>3, <2>4, <2>5, <2>6 DEF CompletionNext
<1> QED
  BY <1>1, <1>2, PTL DEF CompletionSpec

\* Wherever a completion step failed, was interrupted or the process stopped, a unit
\* whose votes are on chain has the durable helper plans that prepare_share_delivery
\* writes before the broadcast, unless it was dispatched before plans existed.
THEOREM ConfirmedUnitsHavePlans == CompletionSpec => []ConfirmedUnitHasPlans
<1>1. CompletionInv => ConfirmedUnitHasPlans
  BY DEF CompletionInv, Plans, Planned, ConfirmedUnitHasPlans
<1> QED
  BY <1>1, CompletionInvariant, PTL

\* settle_completion reports a unit advanced only when some helper accepted every share
\* of every vote of the step, in whatever order the queue's jobs finished, and the one
\* report of each vote accounts for each of its shares once.
THEOREM AdvancedUnitsAreHeld == CompletionSpec => []AdvancedMeansHeld
<1>1. CompletionInv => AdvancedMeansHeld
  BY DEF CompletionInv
<1> QED
  BY <1>1, CompletionInvariant, PTL

(***************************************************************************)
(* The immediate share of a round: the mark on a plan and the designation  *)
(* row are written and voided together.                                    *)
(***************************************************************************)

\* The plans are a table over the votes, and the mark is where the designation is.
MarkInv ==
  /\ plans \in [Key -> {"none", "plain", "immediate"}]
  /\ designated \in Key \cup {NoKey}
  /\ Marked = IF designated = NoKey THEN {} ELSE {designated}

BallotRows ==
  [at : {"absent", "signed", "posting", "dispatched", "confirmed"},
   choice : Options \cup {"open", "skipped"}, unit : {"alone", "batch", "combined"}]

Together(k, j) == k[1] = j[1] /\ ballots[k].unit # "alone" /\ ballots[j].unit # "alone"

\* A bundle has one unit of several votes at a time, and its members are always at
\* the same stage.
UnitsInv ==
  /\ intent \in [Proposal -> Options \cup {"open", "skipped"}]
  /\ ballots \in [Key -> BallotRows]
  /\ \A k \in Key : ballots[k].at \in {"absent", "confirmed"} => ballots[k].unit = "alone"
  /\ \A k, j \in Key : Together(k, j) =>
       ballots[k].at = ballots[j].at /\ ballots[k].unit = ballots[j].unit

\* The designation stays.
MarkKept == designated # NoKey /\ lifecycle_owned(designated) => designated' = designated

\* It stays, or goes with the combined unit that the chain refused or failed.
MarkStays ==
  designated # NoKey /\ lifecycle_owned(designated) =>
    \/ designated' = designated
    \/ /\ ballots[designated].at # "confirmed" /\ ballots[designated].unit = "combined"
       /\ designated' = NoKey
       /\ \A m \in WholeUnits({designated}) : plans'[m] = "none"

\* There is no vote without a bundle and a proposal.
LEMMA NoKeyIsNone == NoKey \notin Key
BY SMT DEF NoKey, Key

\* Voiding votes voids their plans and, with the plan that carries the mark, the
\* designation, which stays if the chain owns none of them.
LEMMA ClearingKeepsMark ==
  ASSUME MarkInv, NEW ks, ClearVotes(ks)
  PROVE  MarkInv' /\ ((\A k \in ks : ~lifecycle_owned(k)) => MarkKept)
<1>1. plans' \in [Key -> {"none", "plain", "immediate"}] /\ designated' \in Key \cup {NoKey}
  BY DEF MarkInv, ClearVotes
<1>2. Marked' = Marked \ ks
  BY DEF MarkInv, ClearVotes, Marked
<1>3. designated' = IF designated \in ks THEN NoKey ELSE designated
  BY DEF ClearVotes
<1>4. Marked' = IF designated' = NoKey THEN {} ELSE {designated'}
  <2>1. CASE designated = NoKey
    BY <1>2, <1>3, <2>1 DEF MarkInv
  <2>2. CASE designated # NoKey /\ designated \in ks
    BY <1>2, <1>3, <2>2 DEF MarkInv
  <2>3. CASE designated # NoKey /\ designated \notin ks
    BY <1>2, <1>3, <2>3 DEF MarkInv
  <2> QED
    BY <2>1, <2>2, <2>3
<1> QED
  BY <1>1, <1>3, <1>4 DEF MarkInv, MarkKept

\* Preparing a plan marks it when it is the expected one, and designates its vote in
\* the same transaction; otherwise no plan is marked or loses its mark.
LEMMA PreparingKeepsMark ==
  ASSUME MarkInv, NEW k \in Key, prepare_share_delivery_plan(k)
  PROVE  MarkInv' /\ MarkKept
<1>1. PICK key :
        /\ key = immediate_key(Chosen(durable_decisions) \cap roster)
        /\ validate_round_immediate_plans(key)
        /\ designated' = IF key = k THEN k ELSE designated
        /\ plans' = [plans EXCEPT ![k] = IF key = k THEN "immediate" ELSE "plain"]
  BY DEF prepare_share_delivery_plan
<1>2. designated # NoKey => key = designated
  BY <1>1 DEF immediate_key
<1>3. Marked \subseteq {key}
  BY <1>1 DEF validate_round_immediate_plans
<1>4. plans' \in [Key -> {"none", "plain", "immediate"}] /\ designated' \in Key \cup {NoKey}
  BY <1>1 DEF MarkInv
<1>5. Marked' = IF designated' = NoKey THEN {} ELSE {designated'}
  <2>1. CASE key = k
    <3>1. Marked' = {k}
      BY <1>1, <1>3, <2>1 DEF Marked, MarkInv
    <3> QED
      BY <1>1, <2>1, <3>1, NoKeyIsNone
  <2>2. CASE key # k
    <3>1. k \notin Marked
      BY <1>3, <2>2
    <3>2. Marked' = Marked
      BY <1>1, <2>2, <3>1 DEF Marked, MarkInv
    <3> QED
      BY <1>1, <2>2, <3>2 DEF MarkInv
  <2> QED
    BY <2>1, <2>2
<1> QED
  BY <1>1, <1>2, <1>4, <1>5 DEF MarkInv, MarkKept

\* A unit that a step takes from one stage to another stays together.
LEMMA UnitMoves ==
  ASSUME UnitsInv, NEW k \in Key, NEW from \in {"signed", "posting"},
         NEW to \in {"signed", "posting", "dispatched"}, UnitGoes(k, from, to)
  PROVE  UnitsInv' /\ UNCHANGED <<plans, designated>>
<1>1. /\ ballots' = [m \in Key |-> IF m \in WholeUnits({k}) /\ ballots[m].at = from
                                   THEN [ballots[m] EXCEPT !.at = to] ELSE ballots[m]]
      /\ UNCHANGED <<intent, plans, designated>>
  BY DEF UnitGoes
<1>2. \A m \in Key :
        /\ ballots'[m] \in BallotRows /\ ballots'[m].unit = ballots[m].unit
        /\ ballots'[m].at = IF m \in WholeUnits({k}) /\ ballots[m].at = from
                            THEN to ELSE ballots[m].at
  BY <1>1, SMT DEF UnitsInv, BallotRows
<1>3. ballots' \in [Key -> BallotRows]
  BY <1>1, <1>2
<1>4. \A m \in Key : ballots'[m].at \in {"absent", "confirmed"} => ballots'[m].unit = "alone"
  BY <1>2 DEF UnitsInv
<1>5. ASSUME NEW m \in Key, NEW j \in Key, Together(m, j)
      PROVE  m \in WholeUnits({k}) => j \in WholeUnits({k})
  BY <1>5 DEF Together, WholeUnits
<1>6. \A m, j \in Key : Together(m, j) => Together(j, m)
  BY DEF Together
<1>7. \A m, j \in Key : Together(m, j)' => Together(m, j)
  BY <1>2 DEF Together
<1>8. ASSUME NEW m \in Key, NEW j \in Key, Together(m, j)'
      PROVE  ballots'[m].at = ballots'[j].at /\ ballots'[m].unit = ballots'[j].unit
  <2>1. Together(m, j) /\ Together(j, m)
    BY <1>6, <1>7, <1>8
  <2>2. ballots[m].at = ballots[j].at /\ ballots[m].unit = ballots[j].unit
    BY <2>1 DEF UnitsInv
  <2>3. m \in WholeUnits({k}) <=> j \in WholeUnits({k})
    BY <1>5, <2>1
  <2> QED
    BY <1>2, <2>2, <2>3
<1> QED
  BY <1>1, <1>3, <1>4, <1>8 DEF UnitsInv

\* Votes that are voided leave their units.
LEMMA ClearingKeepsUnits ==
  ASSUME UnitsInv, NEW ks, ClearVotes(ks),
         intent' \in [Proposal -> Options \cup {"open", "skipped"}]
  PROVE  UnitsInv'
<1>1. Absent \in BallotRows /\ Absent.unit = "alone"
  BY DEF Absent, BallotRows
<1>2. ballots' = [k \in Key |-> IF k \in ks THEN Absent ELSE ballots[k]]
  BY DEF ClearVotes
<1>3. \A k \in Key : ballots'[k] = ballots[k] \/ ballots'[k] = Absent
  BY <1>2
<1>4. ballots' \in [Key -> BallotRows]
  BY <1>1, <1>2 DEF UnitsInv
<1>5. \A k \in Key : ballots'[k].at \in {"absent", "confirmed"} => ballots'[k].unit = "alone"
  BY <1>1, <1>3 DEF UnitsInv
<1>6. \A k \in Key : ballots'[k].unit # "alone" => ballots'[k] = ballots[k]
  BY <1>1, <1>3
<1>7. ASSUME NEW k \in Key, NEW j \in Key, Together(k, j)'
      PROVE  ballots'[k].at = ballots'[j].at /\ ballots'[k].unit = ballots'[j].unit
  <2>1. ballots'[k] = ballots[k] /\ ballots'[j] = ballots[j] /\ Together(k, j)
    BY <1>6, <1>7 DEF Together
  <2> QED
    BY <2>1 DEF UnitsInv
<1> QED
  BY <1>4, <1>5, <1>7 DEF UnitsInv

\* A cast signs one vote, or one new unit in a bundle that has no other.
LEMMA CastKeepsUnits ==
  ASSUME UnitsInv, NEW b \in Index, NEW ps \in SUBSET Proposal, cast_votes(b, ps)
  PROVE  UnitsInv'
<1>1. PICK u \in {"alone", "batch", "combined"} :
        ballots' = [k \in Key |->
          IF k[1] = b /\ k[2] \in ps
          THEN [at |-> "signed", choice |-> intent[k[2]], unit |-> u] ELSE ballots[k]]
  BY DEF cast_votes
<1>2. \A k \in Key : k[1] \in Index /\ k[2] \in Proposal /\ k = <<k[1], k[2]>>
  BY SMT DEF Key
<1>3. ASSUME NEW k \in Key
      PROVE  /\ ballots'[k] \in BallotRows
             /\ IF k[1] = b /\ k[2] \in ps
                THEN ballots'[k].at = "signed" /\ ballots'[k].unit = u
                ELSE ballots'[k] = ballots[k]
  <2>1. intent[k[2]] \in Options \cup {"open", "skipped"}
    BY <1>2, <1>3 DEF UnitsInv
  <2>2. CASE k[1] = b /\ k[2] \in ps
    <3>1. ballots'[k] = [at |-> "signed", choice |-> intent[k[2]], unit |-> u]
      BY <1>1, <2>2
    <3> QED
      BY <2>1, <2>2, <3>1, SMT DEF BallotRows
  <2>3. CASE ~ (k[1] = b /\ k[2] \in ps)
    BY <1>1, <2>3 DEF UnitsInv
  <2> QED
    BY <2>2, <2>3
<1>4. ballots' \in [Key -> BallotRows]
  BY <1>1, <1>3
<1>5. \A k \in Key : ballots'[k].at \in {"absent", "confirmed"} => ballots'[k].unit = "alone"
  BY <1>3 DEF UnitsInv
<1>6. \A k \in Key : k[1] = b => ballots[k].unit = "alone"
  <2>1. \A p \in Proposal : ballots[<<b, p>>].at \in {"absent", "confirmed"}
    BY DEF cast_votes
  <2>2. \A k \in Key : k[1] = b => ballots[k].at \in {"absent", "confirmed"}
    BY <1>2, <2>1
  <2> QED
    BY <2>2 DEF UnitsInv
<1>7. ASSUME NEW k \in Key, NEW j \in Key, Together(k, j)'
      PROVE  ballots'[k].at = ballots'[j].at /\ ballots'[k].unit = ballots'[j].unit
  <2>1. k[1] = j[1] /\ ballots'[k].unit # "alone" /\ ballots'[j].unit # "alone"
    BY <1>7 DEF Together
  <2>2. CASE k[1] = b
    BY <1>3, <1>6, <2>1, <2>2
  <2>3. CASE k[1] # b
    <3>1. ballots'[k] = ballots[k] /\ ballots'[j] = ballots[j]
      BY <1>3, <2>1, <2>3
    <3>2. Together(k, j)
      BY <2>1, <3>1 DEF Together
    <3> QED
      BY <3>1, <3>2 DEF UnitsInv
  <2> QED
    BY <2>2, <2>3
<1>8. intent' = intent
  BY DEF cast_votes
<1> QED
  BY <1>4, <1>5, <1>7, <1>8 DEF UnitsInv

\* The members of a unit that is confirmed are votes by themselves from then on.
LEMMA ConfirmKeepsUnits ==
  ASSUME UnitsInv, NEW k \in Key, record_vc_position(k)
  PROVE  UnitsInv'
<1>1. /\ ballots' = [m \in Key |-> IF m \in WholeUnits({k}) /\ ballots[m].at = "dispatched"
                       THEN [ballots[m] EXCEPT !.at = "confirmed", !.unit = "alone"]
                       ELSE ballots[m]]
      /\ intent' = intent
  BY DEF record_vc_position
<1>2. ASSUME NEW m \in Key
      PROVE  /\ ballots'[m] \in BallotRows
             /\ \/ ballots'[m] = ballots[m]
                \/ ballots'[m].at = "confirmed" /\ ballots'[m].unit = "alone"
  <2>1. ballots[m] \in BallotRows
    BY DEF UnitsInv
  <2>2. \/ ballots'[m] = ballots[m]
        \/ ballots'[m] = [ballots[m] EXCEPT !.at = "confirmed", !.unit = "alone"]
    BY <1>1
  <2> DEFINE r == [ballots[m] EXCEPT !.at = "confirmed", !.unit = "alone"]
  <2>3. r \in BallotRows /\ r.at = "confirmed" /\ r.unit = "alone"
    BY <2>1 DEF BallotRows
  <2> HIDE DEF r
  <2> QED
    BY <2>1, <2>2, <2>3 DEF r
<1>3. ballots' \in [Key -> BallotRows]
  BY <1>1, <1>2
<1>4. \A m \in Key : ballots'[m].at \in {"absent", "confirmed"} => ballots'[m].unit = "alone"
  BY <1>2 DEF UnitsInv
<1>5. ASSUME NEW m \in Key, NEW j \in Key, Together(m, j)'
      PROVE  ballots'[m].at = ballots'[j].at /\ ballots'[m].unit = ballots'[j].unit
  <2>1. ballots'[m] = ballots[m] /\ ballots'[j] = ballots[j] /\ Together(m, j)
    BY <1>2, <1>5 DEF Together
  <2>2. ballots[m].at = ballots[j].at /\ ballots[m].unit = ballots[j].unit
    BY <2>1 DEF UnitsInv
  <2> QED
    BY <2>1, <2>2
<1> QED
  BY <1>1, <1>3, <1>4, <1>5 DEF UnitsInv

\* A combined unit the chain refused is voided as a whole, so a designation that goes
\* was that unit's.
LEMMA RetiringKeepsMark ==
  ASSUME MarkInv, UnitsInv, NEW k \in Key, retire_rejected_combined_generation(k)
  PROVE  MarkInv' /\ UnitsInv' /\ MarkStays
<1>1. /\ ballots[k].at \in {"posting", "dispatched"} /\ ballots[k].unit = "combined"
      /\ ClearVotes(WholeUnits({k})) /\ intent' = intent
  BY DEF retire_rejected_combined_generation
<1>2. MarkInv' /\ UnitsInv'
  BY <1>1, ClearingKeepsMark, ClearingKeepsUnits DEF UnitsInv
<1>3. CASE designated \notin WholeUnits({k})
  <2>1. designated' = designated
    BY <1>1, <1>3 DEF ClearVotes
  <2> QED
    BY <1>2, <2>1 DEF MarkStays
<1>4. CASE designated \in WholeUnits({k})
  <2>1. designated \in Key /\ (designated = k \/ Together(designated, k))
    BY <1>1, <1>4 DEF WholeUnits, Together
  <2>2. ballots[designated].at # "confirmed" /\ ballots[designated].unit = "combined"
    BY <1>1, <2>1 DEF UnitsInv
  <2>3. designated[1] = k[1]
    BY <2>1 DEF Together
  <2>4. \A m \in WholeUnits({designated}) : m \in Key /\ m \in WholeUnits({k})
    BY <1>1, <1>4, <2>1, <2>2, <2>3 DEF WholeUnits
  <2>5. \A m \in WholeUnits({designated}) : plans'[m] = "none"
    BY <1>1, <2>4 DEF ClearVotes
  <2>6. designated' = NoKey
    BY <1>1, <1>4 DEF ClearVotes
  <2> QED
    BY <1>2, <2>2, <2>5, <2>6 DEF MarkStays
<1> QED
  BY <1>3, <1>4

\* Every step keeps the mark with the designation.
LEMMA StepKeepsMark ==
  ASSUME MarkInv, UnitsInv, [DesignationNext]_designationVars
  PROVE  MarkInv' /\ UnitsInv' /\ MarkStays
<1>1. UNCHANGED <<plans, designated>> => MarkInv' /\ MarkStays
  BY DEF MarkInv, Marked, MarkStays
<1>2. ASSUME UNCHANGED <<ballots, intent>> PROVE UnitsInv'
  <2>1. \A k, j \in Key : Together(k, j)' <=> Together(k, j)
    BY <1>2 DEF Together
  <2> QED
    BY <1>2, <2>1 DEF UnitsInv
<1>3. MarkKept => MarkStays
  BY DEF MarkKept, MarkStays
<1>4. CASE \E p \in Proposal : \/ \E d \in Options \cup {"skipped"} : set_ballot_intent(p, d)
                               \/ clear_ballot_intent(p)
  <2>1. PICK p \in Proposal, d \in Options \cup {"open", "skipped"} :
          /\ invalidate_unsubmitted_vote_recoveries_for_intent(p, d)
          /\ intent' = [intent EXCEPT ![p] = d]
    BY <1>4 DEF set_ballot_intent, clear_ballot_intent
  <2>2. /\ \A k \in WholeUnits(Contradicted(p, d)) : ~lifecycle_owned(k)
        /\ ClearVotes(WholeUnits(Contradicted(p, d)))
    BY <2>1 DEF invalidate_unsubmitted_vote_recoveries_for_intent
  <2>3. intent' \in [Proposal -> Options \cup {"open", "skipped"}]
    BY <2>1 DEF UnitsInv
  <2> QED
    BY <1>3, <2>2, <2>3, ClearingKeepsMark, ClearingKeepsUnits
<1>5. CASE \E b \in Index : retire_undispatched_votes_outside_roster(b)
  <2>1. PICK b \in Index : retire_undispatched_votes_outside_roster(b)
    BY <1>5
  <2> DEFINE ks == {k \in WholeUnits(Departed(b)) : ~lifecycle_owned(k)}
  <2>2. /\ ClearVotes(ks) /\ \A k \in ks : ~lifecycle_owned(k)
        /\ intent' = intent
    BY <2>1 DEF retire_undispatched_votes_outside_roster
  <2> HIDE DEF ks
  <2>3. intent' \in [Proposal -> Options \cup {"open", "skipped"}]
    BY <2>2 DEF UnitsInv
  <2> QED
    BY <1>3, <2>2, <2>3, ClearingKeepsMark, ClearingKeepsUnits
<1>6. CASE \E k \in Key : prepare_share_delivery_plan(k)
  <2>1. UNCHANGED <<ballots, intent>>
    BY <1>6 DEF prepare_share_delivery_plan
  <2> QED
    BY <1>2, <1>3, <1>6, <2>1, PreparingKeepsMark
<1>7. CASE \/ \E r \in (SUBSET Proposal) \ {{}} : bind_roster(r)
           \/ \E b \in Index : confirm_delegation(b) \/ delete_bundles_from(b)
  BY <1>1, <1>2, <1>7 DEF bind_roster, confirm_delegation, delete_bundles_from
<1>8. CASE \E b \in Index, ps \in SUBSET Proposal : cast_votes(b, ps)
  <2>1. UNCHANGED <<plans, designated>>
    BY <1>8 DEF cast_votes
  <2> QED
    BY <1>1, <1>8, <2>1, CastKeepsUnits
<1>9. CASE \E k \in Key : \/ dispatch(k) \/ remove_fresh_reservation(k)
                         \/ possibly_dispatched(k)
  BY <1>1, <1>9, UnitMoves DEF dispatch, remove_fresh_reservation, possibly_dispatched
<1>10. CASE \E k \in Key : retire_rejected_combined_generation(k)
  BY <1>10, RetiringKeepsMark
<1>11. CASE \E k \in Key : record_vc_position(k)
  <2>1. UNCHANGED <<plans, designated>>
    BY <1>11 DEF record_vc_position
  <2> QED
    BY <1>1, <1>11, <2>1, ConfirmKeepsUnits
<1>12. CASE UNCHANGED designationVars
  BY <1>1, <1>2, <1>12 DEF designationVars
<1> QED
  BY <1>4, <1>5, <1>6, <1>7, <1>8, <1>9, <1>10, <1>11, <1>12 DEF DesignationNext

\* However intents, roster and bundles change between plans, one share at most is
\* marked immediate, the mark and the designation name the same vote, and once the
\* lifecycle owns that vote the designation stays: for any ballot and any bundles.  It
\* goes only with the plans of a whole combined unit that the chain refused or failed
\* (retire_rejected_combined_generation), never once that is confirmed.
THEOREM OneShareIsImmediate == DesignationSpec => OneImmediateShare
<1>1. DesignationInit => MarkInv /\ UnitsInv
  <2> SUFFICES ASSUME DesignationInit PROVE MarkInv /\ UnitsInv
    OBVIOUS
  <2>1. MarkInv
    BY DEF DesignationInit, MarkInv, Marked
  <2>2. Absent \in BallotRows /\ Absent.unit = "alone"
    BY DEF Absent, BallotRows
  <2>3. \A k \in Key : ballots[k] = Absent
    BY DEF DesignationInit
  <2>4. UnitsInv
    BY <2>2, <2>3 DEF DesignationInit, UnitsInv, Together
  <2> QED
    BY <2>1, <2>4
<1>2. MarkInv /\ UnitsInv /\ [DesignationNext]_designationVars
        => MarkInv' /\ UnitsInv' /\ MarkStays
  BY StepKeepsMark
<1>3. MarkInv' /\ MarkStays =>
        /\ Marked' = IF designated' = NoKey THEN {} ELSE {designated'}
        /\ designated # NoKey /\ lifecycle_owned(designated) =>
             \/ designated' = designated
             \/ /\ ballots[designated].at # "confirmed" /\ ballots[designated].unit = "combined"
                /\ designated' = NoKey
                /\ \A m \in WholeUnits({designated}) : plans'[m] = "none"
  BY DEF MarkInv, MarkStays
<1> QED
  BY <1>1, <1>2, <1>3, PTL DEF DesignationSpec, OneImmediateShare

(***************************************************************************)
(* Tracking runs of a round, for any number of shares, runs and passes,    *)
(* and any timing.                                                         *)
(*                                                                         *)
(* A run keeps two books, the report and the report of the pass it is in.  *)
(* The invariant compares both with what the run's passes have really done *)
(* to the shares, and says what a pass may still assume of its worklist,   *)
(* so that the two books add up whenever a run ends.                       *)
(***************************************************************************)

TrackedRows == [created : Nat, submit : Nat, confirmed : BOOLEAN, short : BOOLEAN,
                material : BOOLEAN]

Reports == [confirmed : SUBSET Share, resubmitted : SUBSET Share, ambiguous : SUBSET Share,
            unrecoverable : SUBSET Share]

Driving == {"boundary", "context", "walking", "polling", "waiting"}

Stops == {"Cancelled", "AlreadyDriving", "VoteEndReached", "Failing", "PassBudgetExhausted",
          "NothingToTrack", "AllConfirmed", "Dropped"}

Drives == [pc : {"idle", "claiming"} \cup Driving \cup Stops, budget : Int,
           todo : SUBSET Share, since : Int, until : Int, passes : Nat, failures : Nat,
           owed : Nat, pass : Reports, report : Reports]

DriveShape ==
  /\ scenario \in Scenarios /\ seconds \in Nat
  /\ tracked \in [Share -> TrackedRows]
  /\ drives \in [DriveRun -> Drives] /\ did \in [DriveRun -> Reports]
  /\ roundHolder \in DriveRun \cup {"nobody"}

\* Report and pass of a run, d, hold together what its passes did, e.
BooksAgree(d, e) ==
  /\ e.confirmed = d.report.confirmed \cup d.pass.confirmed
  /\ e.resubmitted = d.report.resubmitted \cup d.pass.resubmitted
  /\ e.ambiguous \ e.resubmitted = (d.report.ambiguous \cup d.pass.ambiguous) \ e.resubmitted
  /\ d.report.ambiguous \cap d.report.resubmitted = {}
  /\ d.report.unrecoverable \cap d.report.confirmed = {}

\* A pass looks at each share once, and only at shares the run has not confirmed.
InPass(d, e) ==
  /\ d.todo \cap (d.report.confirmed \cup d.pass.confirmed) = {}
  /\ d.pass.unrecoverable \cap (d.todo \cup d.report.confirmed \cup d.pass.confirmed) = {}
  /\ d.passes # 0
  /\ d.pc = "polling" => d.todo # {}
  /\ d.passes = 1 /\ d.owed = 0 => d.todo = {} /\ e = EmptyReport

\* One run, with what it did and the rows it tracks.
RunOk(d, e, rows) ==
  /\ d.pc # "Dropped" => BooksAgree(d, e)
  /\ d.pc \notin {"walking", "polling"} => d.pass = EmptyReport
  /\ d.pc \in {"walking", "polling"} => InPass(d, e)
  /\ \A s \in e.confirmed : rows[s].confirmed
  /\ d.passes = 0 => e = EmptyReport
  /\ d.pc \in {"AllConfirmed", "NothingToTrack"} => \A s \in Share : rows[s].confirmed
  /\ d.pc = "NothingToTrack" => e = EmptyReport

\* A report says what its run did.
ReportAgrees(report, e) ==
  /\ report.confirmed = e.confirmed
  /\ report.resubmitted = e.resubmitted
  /\ report.ambiguous = e.ambiguous \ e.resubmitted
  /\ report.unrecoverable \cap report.confirmed = {}

Finished(d, why) == [d EXCEPT !.pc = why, !.todo = {}, !.since = 0, !.until = 0, !.owed = 0,
                              !.pass = EmptyReport]

\* What RoundIsHandedOver says of one step.
HandedOver ==
  \A r \in DriveRun :
    /\ drives'[r].pc \in Driving => roundHolder' = r
    /\ drives[r].pc # "AlreadyDriving" /\ drives'[r].pc = "AlreadyDriving"
         => \E h \in DriveRun \ (stopped \cup {r}) : roundHolder = h /\ roundHolder' = h

OneHolder == \A r \in DriveRun : drives[r].pc \in Driving <=> roundHolder = r

DriveInv ==
  DriveShape /\ OneHolder /\ \A r \in DriveRun : RunOk(drives[r], did[r], tracked)

-----------------------------------------------------------------------------
(* Least and greatest elements.                                            *)

\* A nonempty set of naturals has a least element.
LEMMA LeastNatural ==
  ASSUME NEW S \in SUBSET Nat, S # {}
  PROVE  Min(S) \in S /\ \A y \in S : Min(S) <= y
<1> DEFINE R == OpToRel(<, Nat)
<1>1. IsWellFoundedOn(R, Nat)
  BY NatLessThanWellFounded
<1>2. PICK x \in S : \A y \in S : ~(<<y, x>> \in R)
  BY <1>1, WFMin
<1>3. \A a, b \in Nat : <<a, b>> \in R <=> a < b
  BY SMT DEF OpToRel
<1>4. \A a, b \in Nat : ~(a < b) => b <= a
  BY SMT
<1>5. \A y \in S : x <= y
  BY <1>2, <1>3, <1>4
<1> QED
  BY <1>5 DEF Min

\* The least and the greatest of two integers.
LEMMA OfTwo ==
  ASSUME NEW a \in Int, NEW b \in Int
  PROVE  /\ Min({a, b}) \in {a, b} /\ Min({a, b}) <= a /\ Min({a, b}) <= b
         /\ Max({a, b}) \in {a, b} /\ Max({a, b}) >= a /\ Max({a, b}) >= b
<1>1. a <= a /\ b <= b /\ (a <= b \/ b <= a) /\ a >= a /\ b >= b /\ (a >= b \/ b >= a)
  BY SMT
<1>2. \E x \in {a, b} : \A y \in {a, b} : x <= y
  BY <1>1
<1>3. \E x \in {a, b} : \A y \in {a, b} : x >= y
  BY <1>1
<1>4. Min({a, b}) \in {a, b} /\ \A y \in {a, b} : Min({a, b}) <= y
  BY <1>2 DEF Min
<1>5. Max({a, b}) \in {a, b} /\ \A y \in {a, b} : Max({a, b}) >= y
  BY <1>3 DEF Max
<1> QED
  BY <1>4, <1>5

-----------------------------------------------------------------------------
(* Runs and their reports.                                                 *)

LEMMA EmptyReportFacts ==
  /\ EmptyReport \in Reports /\ EmptyReport.confirmed = {} /\ EmptyReport.resubmitted = {}
  /\ EmptyReport.ambiguous = {} /\ EmptyReport.unrecoverable = {}
BY DEF EmptyReport, Reports

\* Confirming shares disturbs no run.
LEMMA RowsGrow ==
  ASSUME NEW d, NEW e \in Reports, NEW rows, NEW more, RunOk(d, e, rows),
         \A s \in Share : rows[s].confirmed => more[s].confirmed
  PROVE  RunOk(d, e, more)
<1>1. e.confirmed \subseteq Share
  BY DEF Reports
<1> QED
  BY <1>1 DEF RunOk

\* A step of one run: the others stay as they are.
LEMMA OneRun ==
  ASSUME DriveInv, NEW r \in DriveRun, NEW d \in Drives, NEW e \in Reports,
         drives' = [drives EXCEPT ![r] = d], did' = [did EXCEPT ![r] = e],
         UNCHANGED <<scenario, seconds>>,
         tracked' \in [Share -> TrackedRows],
         \A s \in Share : tracked[s].confirmed => tracked'[s].confirmed,
         RunOk(d, e, tracked'),
         d.pc \in Driving => roundHolder \in {r, "nobody"} /\ roundHolder' = r,
         d.pc \notin Driving =>
           roundHolder' = IF roundHolder = r THEN "nobody" ELSE roundHolder,
         drives[r].pc # "AlreadyDriving" /\ d.pc = "AlreadyDriving" =>
           \E h \in DriveRun \ (stopped \cup {r}) : roundHolder = h /\ roundHolder' = h
  PROVE  DriveInv' /\ HandedOver
<1>1. /\ drives \in [DriveRun -> Drives] /\ did \in [DriveRun -> Reports]
      /\ roundHolder \in DriveRun \cup {"nobody"} /\ "nobody" \notin DriveRun
  BY DriveAssumption DEF DriveInv, DriveShape
<1>2. /\ drives' \in [DriveRun -> Drives] /\ did' \in [DriveRun -> Reports]
      /\ drives'[r] = d /\ did'[r] = e
      /\ \A q \in DriveRun : q # r => drives'[q] = drives[q] /\ did'[q] = did[q]
  BY <1>1
<1>3. DriveShape'
  BY <1>1, <1>2 DEF DriveInv, DriveShape
<1>4. OneHolder'
  <2>1. ASSUME NEW q \in DriveRun PROVE drives'[q].pc \in Driving <=> roundHolder' = q
    <3>1. drives[q].pc \in Driving <=> roundHolder = q
      BY DEF DriveInv, OneHolder
    <3>2. CASE q = r
      BY <1>1, <1>2, <3>2
    <3>3. CASE q # r
      BY <1>1, <1>2, <3>1, <3>3
    <3> QED
      BY <3>2, <3>3
  <2> QED
    BY <2>1 DEF OneHolder
<1>5. ASSUME NEW q \in DriveRun PROVE RunOk(drives'[q], did'[q], tracked')
  <2>1. CASE q = r
    BY <1>2, <2>1
  <2>2. CASE q # r
    <3>1. RunOk(drives[q], did[q], tracked) /\ did[q] \in Reports
      BY <1>1 DEF DriveInv
    <3>2. PICK more : more = tracked'
      OBVIOUS
    <3>3. RunOk(drives[q], did[q], more)
      BY <3>1, <3>2, RowsGrow
    <3> QED
      BY <1>2, <2>2, <3>2, <3>3
  <2> QED
    BY <2>1, <2>2
<1>6. HandedOver
  BY <1>2, <1>4 DEF HandedOver, OneHolder
<1> QED
  BY <1>3, <1>4, <1>5, <1>6 DEF DriveInv

\* Between passes the report says everything.
LEMMA BetweenPasses ==
  ASSUME NEW d \in Drives, NEW e \in Reports, NEW rows, RunOk(d, e, rows),
         d.pc \notin {"walking", "polling", "Dropped"}
  PROVE  ReportAgrees(d.report, e)
<1>1. BooksAgree(d, e) /\ d.pass = EmptyReport
  BY DEF RunOk
<1> QED
  BY <1>1, EmptyReportFacts DEF BooksAgree, ReportAgrees

\* A pass that ends leaves its effects in the report, whole or in part.
LEMMA AbsorbAgrees ==
  ASSUME NEW d \in Drives, NEW e \in Reports, NEW rows, RunOk(d, e, rows),
         d.pc \in {"walking", "polling"}
  PROVE  /\ absorb_partial(d.report, d.pass) \in Reports
         /\ ReportAgrees(absorb_partial(d.report, d.pass), e)
         /\ absorb(d.report, d.pass) \in Reports
         /\ ReportAgrees(absorb(d.report, d.pass), e)
<1>1. BooksAgree(d, e) /\ InPass(d, e)
  BY DEF RunOk
<1>2. PICK rep \in Reports : rep = d.report
  BY DEF Drives
<1>3. PICK pass \in Reports : pass = d.pass
  BY DEF Drives
<1>4. PICK amb : amb = (rep.ambiguous \cup pass.ambiguous) \ (rep.resubmitted \cup pass.resubmitted)
  OBVIOUS
<1>5. PICK con : con = rep.confirmed \cup pass.confirmed
  OBVIOUS
<1>6. PICK res : res = rep.resubmitted \cup pass.resubmitted
  OBVIOUS
<1>7. PICK unr : unr = rep.unrecoverable \ (pass.confirmed \cup pass.resubmitted \cup pass.ambiguous)
  OBVIOUS
<1>8. /\ con \in SUBSET Share /\ res \in SUBSET Share /\ amb \in SUBSET Share
      /\ unr \in SUBSET Share /\ pass.unrecoverable \in SUBSET Share
  BY <1>4, <1>5, <1>6, <1>7 DEF Reports
<1>9. PICK eff : eff = absorb_durable_effects(rep, pass)
  OBVIOUS
<1>10. /\ eff \in Reports /\ eff.confirmed = con /\ eff.resubmitted = res
       /\ eff.ambiguous = amb /\ eff.unrecoverable = rep.unrecoverable
  <2>1. eff = [rep EXCEPT !.confirmed = con, !.resubmitted = res, !.ambiguous = amb]
    BY <1>4, <1>5, <1>6, <1>9 DEF absorb_durable_effects
  <2> QED
    BY <1>8, <2>1 DEF Reports
<1>11. con = e.confirmed /\ res = e.resubmitted /\ amb = e.ambiguous \ e.resubmitted
  BY <1>1, <1>2, <1>3, <1>4, <1>5, <1>6 DEF BooksAgree
<1>12. PICK part : part = absorb_partial(rep, pass)
  OBVIOUS
<1>13. part = [eff EXCEPT !.unrecoverable = unr]
  BY <1>7, <1>9, <1>10, <1>12 DEF absorb_partial
<1>14. /\ part \in Reports /\ part.confirmed = con /\ part.resubmitted = res
       /\ part.ambiguous = amb /\ part.unrecoverable = unr
  BY <1>8, <1>10, <1>13 DEF Reports
<1>15. unr \cap con = {}
  BY <1>1, <1>2, <1>5, <1>7 DEF BooksAgree
<1>16. PICK whole : whole = absorb(rep, pass)
  OBVIOUS
<1>17. whole = [eff EXCEPT !.unrecoverable = pass.unrecoverable]
  BY <1>9, <1>16 DEF absorb
<1>18. /\ whole \in Reports /\ whole.confirmed = con /\ whole.resubmitted = res
       /\ whole.ambiguous = amb /\ whole.unrecoverable = pass.unrecoverable
  BY <1>8, <1>10, <1>17 DEF Reports
<1>19. pass.unrecoverable \cap con = {}
  BY <1>1, <1>2, <1>3, <1>5 DEF InPass
<1>20. ReportAgrees(part, e) /\ ReportAgrees(whole, e)
  BY <1>11, <1>14, <1>15, <1>18, <1>19 DEF ReportAgrees
<1> QED
  BY <1>2, <1>3, <1>12, <1>14, <1>16, <1>18, <1>20

\* The facts of one run.
LEMMA RunFacts ==
  ASSUME DriveInv, NEW r \in DriveRun
  PROVE  /\ drives[r] \in Drives /\ did[r] \in Reports /\ RunOk(drives[r], did[r], tracked)
         /\ did = [did EXCEPT ![r] = did[r]]
         /\ tracked \in [Share -> TrackedRows] /\ seconds \in Nat /\ scenario \in Scenarios
         /\ (drives[r].pc \in Driving <=> roundHolder = r)
         /\ "nobody" \notin DriveRun /\ roundHolder \in DriveRun \cup {"nobody"}
BY DriveAssumption DEF DriveInv, DriveShape, OneHolder

\* A run that ends.
LEMMA FinishRun ==
  ASSUME DriveInv, NEW r \in DriveRun, NEW d \in Drives, NEW why \in Stops,
         FinishDrive(r, d, why), UNCHANGED <<scenario, seconds, tracked, did>>,
         why # "Dropped" => ReportAgrees(d.report, did[r]),
         d.passes = drives[r].passes,
         why \in {"AllConfirmed", "NothingToTrack"} => \A s \in Share : tracked[s].confirmed,
         why = "NothingToTrack" => did[r] = EmptyReport,
         why = "AlreadyDriving" =>
           \E h \in DriveRun \ (stopped \cup {r}) : roundHolder = h /\ roundHolder' = h
  PROVE  DriveInv' /\ HandedOver
<1>1. /\ did[r] \in Reports /\ RunOk(drives[r], did[r], tracked)
      /\ did = [did EXCEPT ![r] = did[r]] /\ tracked \in [Share -> TrackedRows]
  BY RunFacts
<1>2. PICK f : f = Finished(d, why)
  OBVIOUS
<1>3. /\ drives' = [drives EXCEPT ![r] = f]
      /\ roundHolder' = IF roundHolder = r THEN "nobody" ELSE roundHolder
  BY <1>2 DEF FinishDrive, Finished
<1>4. 0 \in Int /\ 0 \in Nat
  BY SMT
<1>5. {} \in SUBSET Share
  OBVIOUS
<1>6. /\ f \in Drives /\ f.pc = why /\ f.report = d.report /\ f.pass = EmptyReport
      /\ f.passes = d.passes
  BY <1>2, <1>4, <1>5, EmptyReportFacts DEF Finished, Drives
<1>7. why \notin Driving /\ why \notin {"walking", "polling"}
  BY DEF Stops, Driving
<1>8. why # "Dropped" => BooksAgree(f, did[r])
  BY <1>6, EmptyReportFacts DEF BooksAgree, ReportAgrees
<1>9. RunOk(f, did[r], tracked)
  BY <1>1, <1>6, <1>7, <1>8 DEF RunOk
<1> QED
  BY <1>1, <1>3, <1>6, <1>7, <1>9, OneRun

\* A run that goes on without doing anything to a share.
LEMMA MoveRun ==
  ASSUME DriveInv, NEW r \in DriveRun, NEW d \in Drives,
         drives' = [drives EXCEPT ![r] = d], UNCHANGED <<scenario, seconds, tracked, did>>,
         RunOk(d, did[r], tracked), d.pc \notin Stops,
         d.pc \in Driving => roundHolder \in {r, "nobody"} /\ roundHolder' = r,
         d.pc \notin Driving => roundHolder # r /\ UNCHANGED roundHolder
  PROVE  DriveInv' /\ HandedOver
<1>1. /\ did[r] \in Reports /\ did = [did EXCEPT ![r] = did[r]]
      /\ tracked \in [Share -> TrackedRows]
  BY RunFacts
<1>2. d.pc # "AlreadyDriving"
  BY DEF Stops
<1> QED
  BY <1>1, <1>2, OneRun

\* Places between the passes are alike.
LEMMA QuietMove ==
  ASSUME NEW d \in Drives, NEW e \in Reports, NEW rows, RunOk(d, e, rows),
         d.pc \notin {"walking", "polling", "Dropped"},
         NEW c \in Drives, c.pc \in {"claiming", "boundary", "context", "waiting"},
         c.report = d.report, c.pass = d.pass, c.passes = d.passes
  PROVE  RunOk(c, e, rows)
<1>1. BooksAgree(d, e) /\ d.pass = EmptyReport
  BY DEF RunOk
<1>2. BooksAgree(c, e)
  BY <1>1 DEF BooksAgree
<1> QED
  BY <1>1, <1>2 DEF RunOk

-----------------------------------------------------------------------------
(* The steps.                                                              *)

LEMMA RunOnClockKeeps ==
  ASSUME DriveInv, UNCHANGED scenario, NEW r \in DriveRun, run_on_clock(r)
  PROVE  DriveInv' /\ HandedOver
<1>1. /\ drives[r] \in Drives /\ did[r] \in Reports /\ RunOk(drives[r], did[r], tracked)
      /\ (drives[r].pc \in Driving <=> roundHolder = r)
  BY RunFacts
<1>2. drives[r].pc = "idle" /\ UNCHANGED <<seconds, tracked, did>>
  BY DEF run_on_clock
<1>3. CASE FinishDrive(r, drives[r], "Cancelled")
  BY <1>1, <1>2, <1>3, BetweenPasses, FinishRun DEF Stops
<1>4. ASSUME NEW budget \in scenario.budgets,
             DriveBecomes(r, [drives[r] EXCEPT !.pc = "claiming", !.budget = budget])
      PROVE  DriveInv' /\ HandedOver
  <2>1. budget \in Int
    <3>1. scenario \in Scenarios
      BY RunFacts
    <3>2. scenario.budgets \in SUBSET (Nat \cup {NoSeconds})
      BY <3>1, DriveAssumption
    <3>3. NoSeconds \in Int /\ \A n \in Nat : n \in Int
      BY SMT DEF NoSeconds
    <3> QED
      BY <1>4, <3>2, <3>3
  <2>2. PICK c : c = [drives[r] EXCEPT !.pc = "claiming", !.budget = budget]
    OBVIOUS
  <2>3. /\ c \in Drives /\ c.pc = "claiming" /\ c.report = drives[r].report
        /\ c.pass = drives[r].pass /\ c.passes = drives[r].passes
    BY <1>1, <2>1, <2>2 DEF Drives
  <2>4. RunOk(c, did[r], tracked)
    BY <1>1, <1>2, <2>3, QuietMove
  <2>5. c.pc \notin Driving /\ c.pc \notin Stops /\ roundHolder # r
    BY <1>1, <1>2, <2>3 DEF Driving, Stops
  <2>6. drives' = [drives EXCEPT ![r] = c] /\ UNCHANGED roundHolder
    BY <1>4, <2>2 DEF DriveBecomes
  <2> QED
    BY <1>2, <2>3, <2>4, <2>5, <2>6, MoveRun
<1> QED
  BY <1>3, <1>4 DEF run_on_clock

LEMMA ClaimRoundKeeps ==
  ASSUME DriveInv, UNCHANGED scenario, NEW r \in DriveRun, claim_round(r)
  PROVE  DriveInv' /\ HandedOver
<1>1. /\ drives[r] \in Drives /\ did[r] \in Reports /\ RunOk(drives[r], did[r], tracked)
      /\ (drives[r].pc \in Driving <=> roundHolder = r) /\ "nobody" \notin DriveRun
      /\ roundHolder \in DriveRun \cup {"nobody"} /\ seconds \in Nat
  BY RunFacts
<1>2. drives[r].pc = "claiming" /\ UNCHANGED <<seconds, tracked, did>>
  BY DEF claim_round
<1>3. CASE FinishDrive(r, drives[r], "Cancelled")
  BY <1>1, <1>2, <1>3, BetweenPasses, FinishRun DEF Stops
<1>4. CASE /\ roundHolder # "nobody" /\ is_live(roundHolder)
           /\ FinishDrive(r, drives[r], "AlreadyDriving")
  <2>1. roundHolder \in DriveRun \ (stopped \cup {r})
    BY <1>1, <1>2, <1>4 DEF is_live, Driving
  <2>2. roundHolder' = roundHolder
    BY <1>4, <2>1 DEF FinishDrive
  <2> QED
    BY <1>1, <1>2, <1>4, <2>1, <2>2, BetweenPasses, FinishRun DEF Stops
<1>5. ASSUME roundHolder = "nobody", roundHolder' = r,
             drives' = [drives EXCEPT ![r].pc = "boundary", ![r].since = seconds]
      PROVE  DriveInv' /\ HandedOver
  <2>1. seconds \in Int
    BY <1>1, SMT
  <2>2. PICK c : c = [drives[r] EXCEPT !.pc = "boundary", !.since = seconds]
    OBVIOUS
  <2>3. /\ c \in Drives /\ c.pc = "boundary" /\ c.report = drives[r].report
        /\ c.pass = drives[r].pass /\ c.passes = drives[r].passes
    BY <1>1, <2>1, <2>2 DEF Drives, Driving
  <2>4. RunOk(c, did[r], tracked)
    BY <1>1, <1>2, <2>3, QuietMove
  <2>5. c.pc \in Driving /\ c.pc \notin Stops
    BY <2>3 DEF Driving, Stops
  <2>6. drives' = [drives EXCEPT ![r] = c]
    <3>1. drives \in [DriveRun -> Drives]
      BY DEF DriveInv, DriveShape
    <3> QED
      BY <1>5, <2>2, <3>1
  <2> QED
    BY <1>2, <1>5, <2>3, <2>4, <2>5, <2>6, MoveRun
<1> QED
  BY <1>3, <1>4, <1>5 DEF claim_round

LEMMA HostContextKeeps ==
  ASSUME DriveInv, UNCHANGED scenario, NEW r \in DriveRun, host_context(r)
  PROVE  DriveInv' /\ HandedOver
<1>1. /\ drives[r] \in Drives /\ did[r] \in Reports /\ RunOk(drives[r], did[r], tracked)
      /\ (drives[r].pc \in Driving <=> roundHolder = r)
  BY RunFacts
<1>2. drives[r].pc = "boundary" /\ UNCHANGED <<seconds, tracked, did>>
  BY DEF host_context
<1>3. CASE FinishDrive(r, drives[r], "Cancelled")
  BY <1>1, <1>2, <1>3, BetweenPasses, FinishRun DEF Stops
<1>4. CASE DriveBecomes(r, [drives[r] EXCEPT !.pc = "context"])
  <2>1. PICK c : c = [drives[r] EXCEPT !.pc = "context"]
    OBVIOUS
  <2>2. /\ c \in Drives /\ c.pc = "context" /\ c.report = drives[r].report
        /\ c.pass = drives[r].pass /\ c.passes = drives[r].passes
    BY <1>1, <2>1 DEF Drives, Driving
  <2>3. RunOk(c, did[r], tracked)
    BY <1>1, <1>2, <2>2, QuietMove
  <2>4. c.pc \in Driving /\ c.pc \notin Stops /\ roundHolder = r
    BY <1>1, <1>2, <2>2 DEF Driving, Stops
  <2>5. drives' = [drives EXCEPT ![r] = c] /\ roundHolder' = r
    BY <1>4, <2>1, <2>4 DEF DriveBecomes
  <2> QED
    BY <1>2, <2>2, <2>3, <2>4, <2>5, MoveRun
<1> QED
  BY <1>3, <1>4 DEF host_context

\* A pass is counted at least as far as the second.
LEMMA CountFacts ==
  ASSUME NEW d \in Drives
  PROVE  CountPass(d) \in Nat /\ CountPass(d) # 0 /\ (CountPass(d) = 1 => d.passes = 0)
<1>1. d.passes \in Nat /\ d.budget \in Int
  BY DEF Drives
<1>2. PICK n \in Nat : n = d.passes
  BY <1>1
<1>3. PICK m : m = Max({2, d.budget})
  OBVIOUS
<1>4. 2 \in Int
  BY SMT
<1>5. m \in {2, d.budget} /\ m >= 2
  BY <1>1, <1>3, <1>4, OfTwo
<1>6. m \in Int /\ n + 1 \in Int
  BY <1>1, <1>4, <1>5, SMT
<1>7. PICK c : c = Min({n + 1, m})
  OBVIOUS
<1>8. c \in {n + 1, m}
  BY <1>6, <1>7, OfTwo
<1>9. c \in Nat /\ c # 0 /\ (c = 1 => n = 0)
  BY <1>5, <1>6, <1>8, SMT
<1> QED
  BY <1>2, <1>3, <1>7, <1>9 DEF CountPass

LEMMA BeginPassKeeps ==
  ASSUME DriveInv, UNCHANGED scenario, NEW r \in DriveRun, begin_pass(r)
  PROVE  DriveInv' /\ HandedOver
<1>1. /\ drives[r] \in Drives /\ did[r] \in Reports /\ RunOk(drives[r], did[r], tracked)
      /\ (drives[r].pc \in Driving <=> roundHolder = r)
  BY RunFacts
<1>2. drives[r].pc = "context" /\ UNCHANGED <<seconds, tracked, did>>
  BY DEF begin_pass
<1>3. CASE \E why \in {"Cancelled", "VoteEndReached", "PassBudgetExhausted"} :
             FinishDrive(r, drives[r], why)
  BY <1>1, <1>2, <1>3, BetweenPasses, FinishRun DEF Stops
<1>4. CASE DriveBecomes(r, [drives[r] EXCEPT !.pc = "walking", !.passes = CountPass(drives[r]),
                                             !.todo = Unconfirmed,
                                             !.owed = Cardinality(Unconfirmed)])
  <2>1. PICK n : n = CountPass(drives[r])
    OBVIOUS
  <2>2. n \in Nat /\ n # 0 /\ (n = 1 => drives[r].passes = 0)
    BY <1>1, <2>1, CountFacts
  <2>3. PICK U \in SUBSET Share : U = Unconfirmed
    BY DEF Unconfirmed
  <2>4. PICK owed : owed = Cardinality(U)
    OBVIOUS
  <2>5. owed \in Nat /\ (owed = 0 => U = {})
    <3>1. IsFiniteSet(U)
      BY DriveAssumption, FS_Subset
    <3> QED
      BY <2>4, <3>1, FS_CardinalityType, FS_EmptySet
  <2>6. PICK c : c = [drives[r] EXCEPT !.pc = "walking", !.passes = n, !.todo = U, !.owed = owed]
    OBVIOUS
  <2>7. /\ c \in Drives /\ c.pc = "walking" /\ c.report = drives[r].report
        /\ c.pass = drives[r].pass /\ c.passes = n /\ c.todo = U /\ c.owed = owed
    BY <1>1, <2>2, <2>5, <2>6 DEF Drives, Driving
  <2>8. BooksAgree(c, did[r]) /\ c.pass = EmptyReport
    BY <1>1, <1>2, <2>7 DEF RunOk, BooksAgree
  <2>9. U \cap did[r].confirmed = {}
    BY <1>1, <2>3 DEF RunOk, Unconfirmed
  <2>10. InPass(c, did[r])
    <3>1. c.report.confirmed \cup c.pass.confirmed = did[r].confirmed
      BY <2>8 DEF BooksAgree
    <3>2. c.pass.unrecoverable = {}
      BY <2>8, EmptyReportFacts
    <3>3. n = 1 => did[r] = EmptyReport
      BY <1>1, <2>2 DEF RunOk
    <3> QED
      BY <2>2, <2>5, <2>7, <2>9, <3>1, <3>2, <3>3 DEF InPass
  <2>11. RunOk(c, did[r], tracked)
    BY <1>1, <2>2, <2>7, <2>8, <2>10 DEF RunOk
  <2>12. c.pc \in Driving /\ c.pc \notin Stops /\ roundHolder = r
    BY <1>1, <1>2, <2>7 DEF Driving, Stops
  <2>13. drives' = [drives EXCEPT ![r] = c] /\ roundHolder' = r
    BY <1>4, <2>1, <2>3, <2>4, <2>6, <2>12 DEF DriveBecomes
  <2> QED
    BY <1>2, <2>7, <2>11, <2>12, <2>13, MoveRun
<1> QED
  BY <1>3, <1>4 DEF begin_pass

\* The shares in C, R, A and U are added to a pass, and to what the run did.
Adds(pass, old, e, before, C, R, A, U) ==
  /\ pass.confirmed = old.confirmed \cup C /\ e.confirmed = before.confirmed \cup C
  /\ pass.resubmitted = old.resubmitted \cup R /\ e.resubmitted = before.resubmitted \cup R
  /\ pass.ambiguous = old.ambiguous \cup A /\ e.ambiguous = before.ambiguous \cup A
  /\ pass.unrecoverable = old.unrecoverable \cup U

\* The walk passes one share: what it did to it is in the pass and in what the run did.
LEMMA WalkRun ==
  ASSUME DriveInv, UNCHANGED <<scenario, seconds>>, NEW r \in DriveRun,
         drives[r].pc \in {"walking", "polling"},
         NEW s \in drives[r].todo, NEW pass \in Reports, NEW e \in Reports,
         WalkOn(r, s, pass), did' = [did EXCEPT ![r] = e],
         tracked' \in [Share -> TrackedRows],
         \A t \in Share : tracked[t].confirmed => tracked'[t].confirmed,
         NEW C \in SUBSET {s}, NEW R \in SUBSET {s}, NEW A \in SUBSET {s}, NEW U \in SUBSET {s},
         C = {} \/ U = {}, C # {} => tracked'[s].confirmed,
         Adds(pass, drives[r].pass, e, did[r], C, R, A, U)
  PROVE  DriveInv' /\ HandedOver
<1>1. /\ drives[r] \in Drives /\ did[r] \in Reports /\ RunOk(drives[r], did[r], tracked)
      /\ (drives[r].pc \in Driving <=> roundHolder = r)
  BY RunFacts
<1>2. PICK d \in Drives : d = drives[r]
  BY <1>1
<1>3. BooksAgree(d, did[r]) /\ InPass(d, did[r])
  BY <1>1, <1>2 DEF RunOk
<1>4. PICK todo : todo = d.todo \ {s}
  OBVIOUS
<1>5. todo \in SUBSET Share
  BY <1>4 DEF Drives
<1>6. PICK c : c = [d EXCEPT !.pc = "walking", !.todo = todo, !.pass = pass]
  OBVIOUS
<1>7. /\ c \in Drives /\ c.pc = "walking" /\ c.report = d.report
      /\ c.pass = pass /\ c.passes = d.passes /\ c.todo = todo /\ c.owed = d.owed
  BY <1>5, <1>6 DEF Drives, Driving
<1>8. BooksAgree(c, e)
  <2>1. e.confirmed = d.report.confirmed \cup pass.confirmed
    BY <1>2, <1>3 DEF BooksAgree, Adds
  <2>2. e.resubmitted = d.report.resubmitted \cup pass.resubmitted
    BY <1>2, <1>3 DEF BooksAgree, Adds
  <2>3. e.ambiguous \ e.resubmitted = (d.report.ambiguous \cup pass.ambiguous) \ e.resubmitted
    BY <1>2, <1>3 DEF BooksAgree, Adds
  <2> QED
    BY <1>3, <1>7, <2>1, <2>2, <2>3 DEF BooksAgree
<1>9. InPass(c, e)
  <2>1. todo \cap (d.report.confirmed \cup pass.confirmed) = {}
    BY <1>2, <1>3, <1>4 DEF InPass, Adds
  <2>2. pass.unrecoverable \cap (todo \cup d.report.confirmed \cup pass.confirmed) = {}
    <3>1. /\ s \in d.todo /\ s \notin d.report.confirmed /\ s \notin d.pass.confirmed
          /\ s \notin d.pass.unrecoverable
      BY <1>2, <1>3 DEF InPass
    <3>2. \A x \in d.pass.unrecoverable :
            x \notin d.todo /\ x \notin d.report.confirmed /\ x \notin d.pass.confirmed
      BY <1>3 DEF InPass
    <3>3. ASSUME NEW x \in pass.unrecoverable
          PROVE  x \notin todo /\ x \notin d.report.confirmed /\ x \notin pass.confirmed
      <4>1. CASE x \in d.pass.unrecoverable
        BY <1>2, <1>4, <3>1, <3>2, <4>1 DEF Adds
      <4>2. CASE x = s /\ U # {}
        BY <1>2, <1>4, <3>1, <4>2 DEF Adds
      <4> QED
        BY <1>2, <4>1, <4>2 DEF Adds
    <3> QED
      BY <3>3
  <2>3. ~(d.passes = 1 /\ d.owed = 0) /\ d.passes # 0
    BY <1>2, <1>3 DEF InPass
  <2> QED
    BY <1>7, <2>1, <2>2, <2>3 DEF InPass
<1>10. \A t \in e.confirmed : tracked'[t].confirmed
  <2>1. \A t \in did[r].confirmed : t \in Share /\ tracked[t].confirmed
    BY <1>1 DEF RunOk, Reports
  <2> QED
    BY <2>1 DEF Adds
<1>11. c.passes # 0 /\ c.pc \in Driving /\ roundHolder = r
  BY <1>1, <1>3, <1>7 DEF InPass, Driving
<1>12. RunOk(c, e, tracked')
  BY <1>7, <1>8, <1>9, <1>10, <1>11 DEF RunOk
<1>13. drives' = [drives EXCEPT ![r] = c] /\ roundHolder' = r
  BY <1>2, <1>4, <1>6, <1>11 DEF WalkOn, DriveBecomes
<1> QED
  BY <1>7, <1>11, <1>12, <1>13, OneRun

\* The least share of a walk is one of its shares.
LEMMA NextIsTodo ==
  ASSUME NEW d \in Drives, d.todo # {}
  PROVE  Min(d.todo) \in d.todo /\ Min(d.todo) \in Share
<1>1. d.todo \in SUBSET Share
  BY DEF Drives
<1>2. Cardinality(Share) \in Nat /\ Share = 1..Cardinality(Share)
  BY DriveAssumption, FS_CardinalityType
<1>3. \A n \in Nat : 1..n \subseteq Nat
  BY SMT
<1>4. d.todo \in SUBSET Nat
  BY <1>1, <1>2, <1>3
<1> QED
  BY <1>1, <1>4, LeastNatural

\* A row of a share changed in one flag.
LEMMA RowFacts ==
  ASSUME NEW s \in Share, tracked \in [Share -> TrackedRows],
         \/ tracked' = tracked
         \/ tracked' = [tracked EXCEPT ![s].short = FALSE]
         \/ tracked' = [tracked EXCEPT ![s].confirmed = TRUE]
  PROVE  /\ tracked' \in [Share -> TrackedRows]
         /\ \A t \in Share : tracked[t].confirmed => tracked'[t].confirmed
<1>1. CASE tracked' = tracked
  BY <1>1
<1>2. CASE tracked' = [tracked EXCEPT ![s].short = FALSE]
  <2>1. PICK row : row = [tracked[s] EXCEPT !.short = FALSE]
    OBVIOUS
  <2>2. row \in TrackedRows /\ row.confirmed = tracked[s].confirmed
    BY <2>1 DEF TrackedRows
  <2>3. tracked' = [tracked EXCEPT ![s] = row]
    BY <1>2, <2>1
  <2> QED
    BY <2>2, <2>3
<1>3. CASE tracked' = [tracked EXCEPT ![s].confirmed = TRUE]
  <2>1. PICK row : row = [tracked[s] EXCEPT !.confirmed = TRUE]
    OBVIOUS
  <2>2. row \in TrackedRows /\ row.confirmed
    BY <2>1 DEF TrackedRows
  <2>3. tracked' = [tracked EXCEPT ![s] = row]
    BY <1>3, <2>1
  <2> QED
    BY <2>2, <2>3
<1> QED
  BY <1>1, <1>2, <1>3

\* A share the walk passes over without doing anything to it.
LEMMA SkipShare ==
  ASSUME DriveInv, UNCHANGED <<scenario, seconds, did>>, NEW r \in DriveRun,
         drives[r].pc \in {"walking", "polling"}, NEW s \in drives[r].todo,
         WalkOn(r, s, drives[r].pass), UNCHANGED tracked
  PROVE  DriveInv' /\ HandedOver
<1>1. /\ drives[r].pass \in Reports /\ did[r] \in Reports /\ did = [did EXCEPT ![r] = did[r]]
      /\ tracked \in [Share -> TrackedRows]
  BY RunFacts DEF Drives
<1>2. PICK none \in SUBSET {s} : none = {}
  OBVIOUS
<1>3. PICK pass \in Reports : pass = drives[r].pass
  BY <1>1
<1>4. PICK e \in Reports : e = did[r]
  BY <1>1
<1>5. Adds(pass, drives[r].pass, e, did[r], none, none, none, none)
  BY <1>2, <1>3, <1>4 DEF Adds
<1>6. WalkOn(r, s, pass) /\ did' = [did EXCEPT ![r] = e]
  BY <1>1, <1>3, <1>4
<1> QED
  BY <1>1, <1>2, <1>5, <1>6, WalkRun

LEMMA RecoverShareKeeps ==
  ASSUME DriveInv, UNCHANGED <<scenario, seconds>>, NEW r \in DriveRun,
         drives[r].pc \in {"walking", "polling"}, NEW s \in drives[r].todo, s \in Share,
         recover_share(r, s)
  PROVE  DriveInv' /\ HandedOver
<1>1. /\ did[r] \in Reports /\ did \in [DriveRun -> Reports] /\ did = [did EXCEPT ![r] = did[r]]
      /\ tracked \in [Share -> TrackedRows]
  BY RunFacts DEF DriveInv, DriveShape
<1>2. PICK old \in Reports : old = drives[r].pass
  BY RunFacts DEF Drives
<1>3. PICK none \in SUBSET {s} : none = {}
  OBVIOUS
<1>4. PICK one \in SUBSET {s} : one = {s}
  OBVIOUS
<1>5. CASE WalkOn(r, s, drives[r].pass) /\ UNCHANGED <<tracked, did>>
  BY <1>5, SkipShare
<1>6. CASE /\ WalkOn(r, s, [old EXCEPT !.resubmitted = @ \cup {s}])
           /\ tracked' = [tracked EXCEPT ![s].short = FALSE] /\ Record(r, "resubmitted", s)
  <2>1. PICK pass : pass = [old EXCEPT !.resubmitted = @ \cup {s}]
    OBVIOUS
  <2>2. PICK e : e = [did[r] EXCEPT !.resubmitted = @ \cup {s}]
    OBVIOUS
  <2>3. /\ pass \in Reports /\ pass.confirmed = old.confirmed /\ pass.resubmitted = old.resubmitted \cup {s}
        /\ pass.ambiguous = old.ambiguous /\ pass.unrecoverable = old.unrecoverable
        /\ e \in Reports /\ e.confirmed = did[r].confirmed /\ e.resubmitted = did[r].resubmitted \cup {s}
        /\ e.ambiguous = did[r].ambiguous /\ e.unrecoverable = did[r].unrecoverable
    <3>1. /\ pass \in Reports /\ pass.confirmed = old.confirmed /\ pass.resubmitted = old.resubmitted \cup {s}
          /\ pass.ambiguous = old.ambiguous /\ pass.unrecoverable = old.unrecoverable
      <4>1. old.resubmitted \cup {s} \in SUBSET Share
        BY <1>1 DEF Reports
      <4> QED
        BY <2>1, <4>1 DEF Reports
    <3>2. /\ e \in Reports /\ e.confirmed = did[r].confirmed /\ e.resubmitted = did[r].resubmitted \cup {s}
          /\ e.ambiguous = did[r].ambiguous /\ e.unrecoverable = did[r].unrecoverable
      <4>1. did[r].resubmitted \cup {s} \in SUBSET Share
        BY <1>1 DEF Reports
      <4> QED
        BY <1>1, <2>2, <4>1 DEF Reports
    <3> QED
      BY <3>1, <3>2
  <2>4. Adds(pass, drives[r].pass, e, did[r], none, one, none, none)
    BY <1>2, <1>3, <1>4, <2>3 DEF Adds
  <2>5. did' = [did EXCEPT ![r] = e]
    BY <1>1, <1>6, <2>2 DEF Record
  <2>6. /\ tracked' \in [Share -> TrackedRows]
        /\ \A t \in Share : tracked[t].confirmed => tracked'[t].confirmed
    BY <1>1, <1>6, RowFacts
  <2>7. WalkOn(r, s, pass)
    BY <1>6, <2>1
  <2> QED
    BY <1>3, <2>3, <2>4, <2>5, <2>6, <2>7, WalkRun
<1>7. CASE /\ WalkOn(r, s, [old EXCEPT !.ambiguous = @ \cup {s}])
           /\ Record(r, "ambiguous", s) /\ UNCHANGED tracked
  <2>1. PICK pass : pass = [old EXCEPT !.ambiguous = @ \cup {s}]
    OBVIOUS
  <2>2. PICK e : e = [did[r] EXCEPT !.ambiguous = @ \cup {s}]
    OBVIOUS
  <2>3. /\ pass \in Reports /\ pass.confirmed = old.confirmed /\ pass.resubmitted = old.resubmitted
        /\ pass.ambiguous = old.ambiguous \cup {s} /\ pass.unrecoverable = old.unrecoverable
        /\ e \in Reports /\ e.confirmed = did[r].confirmed /\ e.resubmitted = did[r].resubmitted
        /\ e.ambiguous = did[r].ambiguous \cup {s} /\ e.unrecoverable = did[r].unrecoverable
    <3>1. /\ pass \in Reports /\ pass.confirmed = old.confirmed /\ pass.resubmitted = old.resubmitted
          /\ pass.ambiguous = old.ambiguous \cup {s} /\ pass.unrecoverable = old.unrecoverable
      <4>1. old.ambiguous \cup {s} \in SUBSET Share
        BY <1>1 DEF Reports
      <4> QED
        BY <2>1, <4>1 DEF Reports
    <3>2. /\ e \in Reports /\ e.confirmed = did[r].confirmed /\ e.resubmitted = did[r].resubmitted
          /\ e.ambiguous = did[r].ambiguous \cup {s} /\ e.unrecoverable = did[r].unrecoverable
      <4>1. did[r].ambiguous \cup {s} \in SUBSET Share
        BY <1>1 DEF Reports
      <4> QED
        BY <1>1, <2>2, <4>1 DEF Reports
    <3> QED
      BY <3>1, <3>2
  <2>4. Adds(pass, drives[r].pass, e, did[r], none, none, one, none)
    BY <1>2, <1>3, <1>4, <2>3 DEF Adds
  <2>5. did' = [did EXCEPT ![r] = e]
    BY <1>1, <1>7, <2>2 DEF Record
  <2>6. /\ tracked' \in [Share -> TrackedRows]
        /\ \A t \in Share : tracked[t].confirmed => tracked'[t].confirmed
    BY <1>1, <1>7
  <2> QED
    BY <1>3, <1>7, <2>1, <2>3, <2>4, <2>5, <2>6, WalkRun
<1>8. CASE /\ WalkOn(r, s, [old EXCEPT !.unrecoverable = @ \cup {s}])
           /\ UNCHANGED <<tracked, did>>
  <2>1. PICK pass : pass = [old EXCEPT !.unrecoverable = @ \cup {s}]
    OBVIOUS
  <2>2. PICK e \in Reports : e = did[r]
    BY <1>1
  <2>3. /\ pass \in Reports /\ pass.confirmed = old.confirmed /\ pass.resubmitted = old.resubmitted
        /\ pass.ambiguous = old.ambiguous /\ pass.unrecoverable = old.unrecoverable \cup {s}
    <3>1. /\ pass \in Reports /\ pass.confirmed = old.confirmed /\ pass.resubmitted = old.resubmitted
          /\ pass.ambiguous = old.ambiguous /\ pass.unrecoverable = old.unrecoverable \cup {s}
      <4>1. old.unrecoverable \cup {s} \in SUBSET Share
        BY <1>1 DEF Reports
      <4> QED
        BY <2>1, <4>1 DEF Reports
    <3> QED
      BY <3>1
  <2>4. Adds(pass, drives[r].pass, e, did[r], none, none, none, one)
    BY <1>2, <1>3, <1>4, <2>2, <2>3 DEF Adds
  <2>5. did' = [did EXCEPT ![r] = e]
    BY <1>1, <1>8, <2>2
  <2>6. /\ tracked' \in [Share -> TrackedRows]
        /\ \A t \in Share : tracked[t].confirmed => tracked'[t].confirmed
    BY <1>1, <1>8
  <2> QED
    BY <1>3, <1>8, <2>1, <2>3, <2>4, <2>5, <2>6, WalkRun, ZenonT(40)
<1> QED
  BY <1>2, <1>5, <1>6, <1>7, <1>8 DEF recover_share

LEMMA WalkShareKeeps ==
  ASSUME DriveInv, UNCHANGED scenario, NEW r \in DriveRun, walk_share(r)
  PROVE  DriveInv' /\ HandedOver
<1>1. /\ drives[r] \in Drives /\ did[r] \in Reports /\ RunOk(drives[r], did[r], tracked)
      /\ (drives[r].pc \in Driving <=> roundHolder = r) /\ seconds \in Nat
  BY RunFacts
<1>2. drives[r].pc = "walking" /\ drives[r].todo # {} /\ UNCHANGED <<seconds>>
  BY DEF walk_share
<1>3. PICK s \in drives[r].todo : s = NextShare(r) /\ s \in Share
  BY <1>1, <1>2, NextIsTodo DEF NextShare
<1>4. CASE WalkOn(r, s, drives[r].pass) /\ UNCHANGED <<tracked, did>>
  BY <1>2, <1>4, SkipShare
<1>5. CASE recover_share(r, s)
  BY <1>2, <1>3, <1>5, RecoverShareKeeps
<1>6. CASE /\ DriveBecomes(r, [drives[r] EXCEPT !.pc = "polling", !.until = seconds + PollMax])
           /\ UNCHANGED <<tracked, did>>
  <2>1. PICK until : until = seconds + PollMax
    OBVIOUS
  <2>2. until \in Int
    BY <1>1, <2>1, DriveAssumption, SMT
  <2>3. PICK c : c = [drives[r] EXCEPT !.pc = "polling", !.until = until]
    OBVIOUS
  <2>4. /\ c \in Drives /\ c.pc = "polling" /\ c.report = drives[r].report
        /\ c.pass = drives[r].pass /\ c.passes = drives[r].passes
        /\ c.todo = drives[r].todo /\ c.owed = drives[r].owed
    BY <1>1, <2>2, <2>3 DEF Drives, Driving
  <2>5. BooksAgree(drives[r], did[r]) /\ InPass(drives[r], did[r])
    BY <1>1, <1>2 DEF RunOk
  <2>6. BooksAgree(c, did[r]) /\ InPass(c, did[r])
    BY <1>2, <2>4, <2>5 DEF BooksAgree, InPass
  <2>7. RunOk(c, did[r], tracked)
    BY <1>1, <2>4, <2>6 DEF RunOk
  <2>8. c.pc \in Driving /\ c.pc \notin Stops /\ roundHolder = r
    BY <1>1, <1>2, <2>4 DEF Driving, Stops
  <2>9. drives' = [drives EXCEPT ![r] = c] /\ roundHolder' = r
    BY <1>6, <2>1, <2>3, <2>8 DEF DriveBecomes
  <2> QED
    BY <1>2, <1>6, <2>4, <2>7, <2>8, <2>9, MoveRun
<1> QED
  BY <1>3, <1>4, <1>5, <1>6 DEF walk_share

LEMMA PollShareKeeps ==
  ASSUME DriveInv, UNCHANGED scenario, NEW r \in DriveRun, poll_and_confirm_share(r)
  PROVE  DriveInv' /\ HandedOver
<1>1. /\ drives[r] \in Drives /\ did[r] \in Reports /\ RunOk(drives[r], did[r], tracked)
      /\ did \in [DriveRun -> Reports] /\ tracked \in [Share -> TrackedRows]
  BY RunFacts DEF DriveInv, DriveShape
<1>2. drives[r].pc = "polling" /\ UNCHANGED <<seconds>>
  BY DEF poll_and_confirm_share
<1>3. drives[r].todo # {}
  BY <1>1, <1>2 DEF RunOk, InPass
<1>4. PICK s \in drives[r].todo : s = NextShare(r) /\ s \in Share
  BY <1>1, <1>3, NextIsTodo DEF NextShare
<1>5. CASE recover_share(r, s)
  BY <1>2, <1>4, <1>5, RecoverShareKeeps
<1>6. CASE /\ WalkOn(r, s, [drives[r].pass EXCEPT !.confirmed = @ \cup {s}])
           /\ tracked' = [tracked EXCEPT ![s].confirmed = TRUE]
           /\ Record(r, "confirmed", s)
  <2>1. PICK old \in Reports : old = drives[r].pass
    BY <1>1 DEF Drives
  <2>2. PICK pass : pass = [old EXCEPT !.confirmed = @ \cup {s}]
    OBVIOUS
  <2>3. PICK e : e = [did[r] EXCEPT !.confirmed = @ \cup {s}]
    OBVIOUS
  <2>4. /\ pass \in Reports /\ pass.confirmed = old.confirmed \cup {s} /\ pass.resubmitted = old.resubmitted
        /\ pass.ambiguous = old.ambiguous /\ pass.unrecoverable = old.unrecoverable
        /\ e \in Reports /\ e.confirmed = did[r].confirmed \cup {s} /\ e.resubmitted = did[r].resubmitted
        /\ e.ambiguous = did[r].ambiguous /\ e.unrecoverable = did[r].unrecoverable
    <3>1. /\ pass \in Reports /\ pass.confirmed = old.confirmed \cup {s} /\ pass.resubmitted = old.resubmitted
          /\ pass.ambiguous = old.ambiguous /\ pass.unrecoverable = old.unrecoverable
      <4>1. old.confirmed \cup {s} \in SUBSET Share
        BY <1>1, <1>4 DEF Reports
      <4> QED
        BY <1>1, <1>4, <2>1, <2>2, <4>1 DEF Reports
    <3>2. /\ e \in Reports /\ e.confirmed = did[r].confirmed \cup {s} /\ e.resubmitted = did[r].resubmitted
          /\ e.ambiguous = did[r].ambiguous /\ e.unrecoverable = did[r].unrecoverable
      <4>1. did[r].confirmed \cup {s} \in SUBSET Share
        BY <1>1, <1>4 DEF Reports
      <4> QED
        BY <1>1, <1>4, <2>2, <2>3, <4>1 DEF Reports
    <3> QED
      BY <3>1, <3>2
  <2>5. PICK none \in SUBSET {s} : none = {}
    OBVIOUS
  <2>6. PICK one \in SUBSET {s} : one = {s}
    OBVIOUS
  <2>7. Adds(pass, drives[r].pass, e, did[r], one, none, none, none)
    BY <2>1, <2>4, <2>5, <2>6 DEF Adds
  <2>8. did' = [did EXCEPT ![r] = e]
    BY <1>1, <1>6, <2>3 DEF Record
  <2>9. /\ tracked' \in [Share -> TrackedRows]
        /\ \A t \in Share : tracked[t].confirmed => tracked'[t].confirmed
    BY <1>1, <1>4, <1>6, RowFacts
  <2>10. tracked'[s].confirmed
    BY <1>1, <1>4, <1>6 DEF TrackedRows
  <2>11. WalkOn(r, s, pass)
    BY <1>6, <2>1, <2>2
  <2> QED
    BY <1>2, <2>4, <2>5, <2>7, <2>8, <2>9, <2>10, <2>11, WalkRun
<1> QED
  BY <1>4, <1>5, <1>6 DEF poll_and_confirm_share

\* Saturating arithmetic stays within the naturals.
LEMMA SatFacts ==
  /\ \A a, b \in Nat : SatAdd(a, b) \in Nat
  /\ \A a, b \in Int : SatSub(a, b) \in Nat
<1>1. MaxSeconds \in Nat
  BY TimingAssumption
<1>2. ASSUME NEW a \in Nat, NEW b \in Nat PROVE SatAdd(a, b) \in Nat
  <2>1. a + b \in Nat /\ a + b \in Int /\ MaxSeconds \in Int
    BY <1>1, SMT
  <2>2. Min({a + b, MaxSeconds}) \in {a + b, MaxSeconds}
    BY <2>1, OfTwo
  <2> QED
    BY <1>1, <2>1, <2>2 DEF SatAdd
<1>3. ASSUME NEW a \in Int, NEW b \in Int PROVE SatSub(a, b) \in Nat
  <2>1. a - b \in Int /\ 0 \in Int
    BY SMT
  <2>2. PICK m : m = Max({a - b, 0})
    OBVIOUS
  <2>3. m \in {a - b, 0} /\ m >= 0
    BY <2>1, <2>2, OfTwo
  <2>4. m \in Int
    BY <2>1, <2>3
  <2>5. m \in Nat
    BY <2>3, <2>4, SMT
  <2> QED
    BY <2>2, <2>5 DEF SatSub
<1> QED
  BY <1>2, <1>3

\* The policy names no delay only when every share is confirmed.
LEMMA DelayFacts ==
  ASSUME NEW rows \in [Share -> TrackedRows], NEW now \in Nat, NEW delay,
         delay = next_tracking_delay_seconds({rows[s] : s \in Share}, now)
  PROVE  delay \in Int /\ (delay = NoSeconds => \A s \in Share : rows[s].confirmed)
<1> DEFINE shares  == {rows[s] : s \in Share}
           pending == {s \in shares : ~s.confirmed}
           checks  == {status_check_at(s) : s \in pending}
           later   == {t \in checks : t > now}
           future  == IF later = {} THEN {}
                      ELSE {Min({SatSub(Min(later), now), Timing["futureMax"]})}
           ready   == IF checks = later THEN {} ELSE {Timing["readyPoll"]}
<1>1. delay = IF pending = {} THEN NoSeconds ELSE Max({Min(future \cup ready), Timing["minDelay"]})
  BY DEF next_tracking_delay_seconds
<1>2. NoSeconds \in Int /\ \A n \in Nat : n \in Int /\ n # NoSeconds
  BY SMT DEF NoSeconds
<1>3. CASE pending = {}
  <2>1. \A s \in Share : rows[s].confirmed
    BY <1>3
  <2> QED
    BY <1>1, <1>2, <1>3, <2>1
<1>4. CASE pending # {}
  <2>1. /\ Timing["grace"] \in Nat /\ Timing["futureMax"] \in Nat
        /\ Timing["readyPoll"] \in Nat /\ Timing["minDelay"] \in Nat
    <3>1. 0..MaxSeconds \subseteq Nat
      BY TimingAssumption, SMT
    <3> QED
      BY <3>1, TimingAssumption
  <2>2. checks \in SUBSET Nat /\ checks # {}
    <3>1. ASSUME NEW s \in pending PROVE status_check_at(s) \in Nat
      <4>1. s \in TrackedRows
        OBVIOUS
      <4>2. share_recovery_base_time(s) \in Nat
        BY <4>1 DEF share_recovery_base_time, TrackedRows
      <4> QED
        BY <2>1, <4>2, SatFacts DEF status_check_at
    <3> QED
      BY <1>4, <3>1
  <2>3. later \in SUBSET Nat
    BY <2>2
  <2>4. future \in SUBSET Nat
    <3>1. CASE later = {}
      BY <3>1
    <3>2. CASE later # {}
      <4>1. PICK first \in Nat : first = Min(later)
        BY <2>3, <3>2, LeastNatural
      <4>2. SatSub(first, now) \in Nat
        BY <1>2, <4>1, SatFacts
      <4>3. Min({SatSub(first, now), Timing["futureMax"]}) \in {SatSub(first, now), Timing["futureMax"]}
        BY <1>2, <2>1, <4>2, OfTwo
      <4> QED
        BY <2>1, <3>2, <4>1, <4>2, <4>3
    <3> QED
      BY <3>1, <3>2
  <2>5. future \cup ready \in SUBSET Nat /\ future \cup ready # {}
    <3>1. ready \in SUBSET Nat
      BY <2>1
    <3>2. later = {} => ready # {}
      BY <2>2
    <3>3. later # {} => future # {}
      OBVIOUS
    <3> QED
      BY <2>4, <3>1, <3>2, <3>3
  <2>6. PICK m \in Nat : m = Min(future \cup ready)
    BY <2>5, LeastNatural
  <2>7. Max({m, Timing["minDelay"]}) \in {m, Timing["minDelay"]}
    BY <1>2, <2>1, OfTwo
  <2> HIDE DEF future, ready, later, checks
  <2>8. delay \in Nat
    BY <1>1, <1>4, <2>1, <2>6, <2>7
  <2> QED
    BY <1>2, <2>8
<1> QED
  BY <1>3, <1>4

\* A wait within the voting window is a number of seconds.
LEMMA WaitFacts ==
  ASSUME seconds \in Nat, NEW delay \in Int
  PROVE  seconds + wait_within_voting_window(delay) \in Int
<1>1. wait_within_voting_window(delay) \in Int
  <2>1. CASE VoteEnd = NoSeconds
    BY <2>1 DEF wait_within_voting_window
  <2>2. CASE VoteEnd # NoSeconds
    <3>1. VoteEnd \in Nat
      BY <2>2, DriveAssumption
    <3>2. \A n \in Nat : n \in Int
      BY SMT
    <3>3. SatSub(VoteEnd, seconds) \in Int
      BY <3>1, <3>2, SatFacts
    <3>4. Min({delay, SatSub(VoteEnd, seconds)}) \in {delay, SatSub(VoteEnd, seconds)}
      BY <3>3, OfTwo
    <3> QED
      BY <2>2, <3>3, <3>4 DEF wait_within_voting_window
  <2> QED
    BY <2>1, <2>2
<1>2. \A n \in Int : seconds + n \in Int
  BY SMT
<1> QED
  BY <1>1, <1>2

\* After a pass the run waits for the next one, or its budget is spent.
LEMMA AwaitKeeps ==
  ASSUME DriveInv, UNCHANGED <<scenario, seconds, tracked, did>>, NEW r \in DriveRun,
         drives[r].pc \in {"walking", "polling"}, NEW d \in Drives, NEW delay \in Int,
         ReportAgrees(d.report, did[r]), d.passes = drives[r].passes,
         await_next_pass(r, d, delay)
  PROVE  DriveInv' /\ HandedOver
<1>1. /\ did[r] \in Reports /\ RunOk(drives[r], did[r], tracked)
      /\ (drives[r].pc \in Driving <=> roundHolder = r) /\ seconds \in Nat
  BY RunFacts
<1>2. CASE FinishDrive(r, d, "PassBudgetExhausted")
  BY <1>2, FinishRun DEF Stops
<1>3. ASSUME DriveBecomes(r, [d EXCEPT !.pc = "waiting", !.pass = EmptyReport, !.todo = {},
                                       !.until = seconds + wait_within_voting_window(delay)])
      PROVE  DriveInv' /\ HandedOver
  <2>1. PICK until \in Int : until = seconds + wait_within_voting_window(delay)
    BY <1>1, WaitFacts
  <2>2. PICK c : c = [d EXCEPT !.pc = "waiting", !.pass = EmptyReport, !.todo = {}, !.until = until]
    OBVIOUS
  <2>3. {} \in SUBSET Share
    OBVIOUS
  <2>4. /\ c \in Drives /\ c.pc = "waiting" /\ c.report = d.report
        /\ c.pass = EmptyReport /\ c.passes = d.passes
    BY <2>2, <2>3, EmptyReportFacts DEF Drives, Driving
  <2>5. BooksAgree(c, did[r])
    BY <2>4, EmptyReportFacts DEF BooksAgree, ReportAgrees
  <2>6. RunOk(c, did[r], tracked)
    BY <1>1, <2>4, <2>5 DEF RunOk
  <2>7. c.pc \in Driving /\ c.pc \notin Stops /\ roundHolder = r
    BY <1>1, <2>4 DEF Driving, Stops
  <2>8. drives' = [drives EXCEPT ![r] = c] /\ roundHolder' = r
    BY <1>3, <2>1, <2>2, <2>7 DEF DriveBecomes
  <2> QED
    BY <2>4, <2>6, <2>7, <2>8, MoveRun
<1> QED
  BY <1>2, <1>3 DEF await_next_pass

\* A finished pass is absorbed, and the delay it leaves says whether a share is left.
LEMMA FinishPassKeeps ==
  ASSUME DriveInv, UNCHANGED scenario, NEW r \in DriveRun, finish_pass(r)
  PROVE  DriveInv' /\ HandedOver
<1>1. /\ drives[r] \in Drives /\ did[r] \in Reports /\ RunOk(drives[r], did[r], tracked)
      /\ tracked \in [Share -> TrackedRows] /\ seconds \in Nat
  BY RunFacts
<1>2. drives[r].pc \in {"walking", "polling"} /\ UNCHANGED <<seconds, tracked, did>>
  BY DEF finish_pass
<1>3. PICK rep : rep = IF drives[r].todo # {} THEN absorb_partial(drives[r].report, drives[r].pass)
                       ELSE absorb(drives[r].report, drives[r].pass)
  OBVIOUS
<1>4. rep \in Reports /\ ReportAgrees(rep, did[r])
  BY <1>1, <1>2, <1>3, AbsorbAgrees
<1>5. PICK after : after = [drives[r] EXCEPT !.failures = 0, !.report = rep]
  OBVIOUS
<1>6. 0 \in Nat
  BY SMT
<1>7. after \in Drives /\ after.report = rep /\ after.passes = drives[r].passes
  BY <1>1, <1>4, <1>5, <1>6 DEF Drives
<1>8. PICK delay : delay = next_tracking_delay_seconds({tracked[s] : s \in Share}, seconds)
  OBVIOUS
<1>9. delay \in Int /\ (delay = NoSeconds => \A s \in Share : tracked[s].confirmed)
  BY <1>1, <1>8, DelayFacts
<1>10. \/ FinishDrive(r, after, "Cancelled")
       \/ /\ r \notin stopped /\ delay = NoSeconds
          /\ FinishDrive(r, after, IF drives[r].passes = 1 /\ drives[r].owed = 0
                                   THEN "NothingToTrack" ELSE "AllConfirmed")
       \/ await_next_pass(r, after, delay)
  BY <1>3, <1>5, <1>8 DEF finish_pass
<1>11. CASE FinishDrive(r, after, "Cancelled")
  BY <1>2, <1>4, <1>7, <1>11, FinishRun DEF Stops
<1>12. CASE /\ delay = NoSeconds
            /\ FinishDrive(r, after, IF drives[r].passes = 1 /\ drives[r].owed = 0
                                     THEN "NothingToTrack" ELSE "AllConfirmed")
  <2>1. CASE drives[r].passes = 1 /\ drives[r].owed = 0
    <3>1. did[r] = EmptyReport
      BY <1>1, <1>2, <2>1 DEF RunOk, InPass
    <3>2. FinishDrive(r, after, "NothingToTrack")
      BY <1>12, <2>1
    <3> QED
      BY <1>2, <1>4, <1>7, <1>9, <1>12, <3>1, <3>2, FinishRun DEF Stops
  <2>2. CASE ~(drives[r].passes = 1 /\ drives[r].owed = 0)
    <3>1. FinishDrive(r, after, "AllConfirmed")
      BY <1>12, <2>2
    <3> QED
      BY <1>2, <1>4, <1>7, <1>9, <1>12, <3>1, FinishRun DEF Stops
  <2> QED
    BY <2>1, <2>2
<1>13. CASE await_next_pass(r, after, delay)
  BY <1>2, <1>4, <1>7, <1>9, <1>13, AwaitKeeps
<1> QED
  BY <1>10, <1>11, <1>12, <1>13

\* What a failed pass committed stays in the report.
LEMMA FailPassKeeps ==
  ASSUME DriveInv, UNCHANGED scenario, NEW r \in DriveRun, fail_pass(r)
  PROVE  DriveInv' /\ HandedOver
<1>1. /\ drives[r] \in Drives /\ did[r] \in Reports /\ RunOk(drives[r], did[r], tracked)
  BY RunFacts
<1>2. drives[r].pc \in {"walking", "polling"} /\ UNCHANGED <<seconds, tracked, did>>
  BY DEF fail_pass
<1>3. PICK rep : rep = absorb_partial(drives[r].report, drives[r].pass)
  OBVIOUS
<1>4. rep \in Reports /\ ReportAgrees(rep, did[r])
  BY <1>1, <1>2, <1>3, AbsorbAgrees
<1>5. PICK n : n = drives[r].failures + 1
  OBVIOUS
<1>6. n \in Nat
  <2>1. drives[r].failures \in Nat
    BY <1>1 DEF Drives
  <2> QED
    BY <1>5, <2>1, SMT
<1>7. PICK after : after = [drives[r] EXCEPT !.failures = n, !.report = rep]
  OBVIOUS
<1>8. after \in Drives /\ after.report = rep /\ after.passes = drives[r].passes
  BY <1>1, <1>4, <1>6, <1>7 DEF Drives
<1>9. FailureRetry \in Int
  <2>1. \A m \in Nat : m \in Int
    BY SMT
  <2> QED
    BY <2>1, DriveAssumption
<1>10. \/ FinishDrive(r, after, "Cancelled") \/ FinishDrive(r, after, "Failing")
       \/ await_next_pass(r, after, FailureRetry)
  BY <1>3, <1>5, <1>7 DEF fail_pass
<1>11. CASE \E why \in {"Cancelled", "Failing"} : FinishDrive(r, after, why)
  BY <1>2, <1>4, <1>8, <1>11, FinishRun DEF Stops
<1>12. CASE await_next_pass(r, after, FailureRetry)
  BY <1>2, <1>4, <1>8, <1>9, <1>12, AwaitKeeps
<1> QED
  BY <1>10, <1>11, <1>12

LEMMA SleepKeeps ==
  ASSUME DriveInv, UNCHANGED scenario, NEW r \in DriveRun, sleep_until_interrupted(r)
  PROVE  DriveInv' /\ HandedOver
<1>1. /\ drives[r] \in Drives /\ did[r] \in Reports /\ RunOk(drives[r], did[r], tracked)
      /\ (drives[r].pc \in Driving <=> roundHolder = r)
  BY RunFacts
<1>2. drives[r].pc = "waiting" /\ UNCHANGED <<seconds, tracked, did>>
  BY DEF sleep_until_interrupted
<1>3. CASE FinishDrive(r, drives[r], "Cancelled")
  BY <1>1, <1>2, <1>3, BetweenPasses, FinishRun DEF Stops
<1>4. CASE DriveBecomes(r, [drives[r] EXCEPT !.pc = "boundary", !.until = 0])
  <2>1. PICK c : c = [drives[r] EXCEPT !.pc = "boundary", !.until = 0]
    OBVIOUS
  <2>2. 0 \in Int
    BY SMT
  <2>3. /\ c \in Drives /\ c.pc = "boundary" /\ c.report = drives[r].report
        /\ c.pass = drives[r].pass /\ c.passes = drives[r].passes
    BY <1>1, <2>1, <2>2 DEF Drives, Driving
  <2>4. RunOk(c, did[r], tracked)
    BY <1>1, <1>2, <2>3, QuietMove
  <2>5. c.pc \in Driving /\ c.pc \notin Stops /\ roundHolder = r
    BY <1>1, <1>2, <2>3 DEF Driving, Stops
  <2>6. drives' = [drives EXCEPT ![r] = c] /\ roundHolder' = r
    BY <1>4, <2>1, <2>5 DEF DriveBecomes
  <2> QED
    BY <1>2, <2>3, <2>4, <2>5, <2>6, MoveRun
<1> QED
  BY <1>3, <1>4 DEF sleep_until_interrupted

\* A dropped run returns no report.
LEMMA DropRunKeeps ==
  ASSUME DriveInv, UNCHANGED scenario, NEW r \in DriveRun, drop_run(r)
  PROVE  DriveInv' /\ HandedOver
<1>1. drives[r] \in Drives
  BY RunFacts
<1>2. FinishDrive(r, drives[r], "Dropped") /\ UNCHANGED <<seconds, tracked, did>>
  BY DEF drop_run
<1> QED
  BY <1>1, <1>2, FinishRun DEF Stops

\* A step in which no run moves and no row loses its confirmation.
LEMMA RunsStay ==
  ASSUME DriveInv, UNCHANGED <<scenario, drives, roundHolder, did>>, seconds' \in Nat,
         tracked' \in [Share -> TrackedRows],
         \A s \in Share : tracked[s].confirmed => tracked'[s].confirmed
  PROVE  DriveInv' /\ HandedOver
<1>1. DriveShape' /\ OneHolder'
  BY DEF DriveInv, DriveShape, OneHolder
<1>2. ASSUME NEW r \in DriveRun PROVE RunOk(drives'[r], did'[r], tracked')
  <2>1. RunOk(drives[r], did[r], tracked) /\ did[r] \in Reports
    BY RunFacts
  <2>2. PICK more : more = tracked'
    OBVIOUS
  <2>3. RunOk(drives[r], did[r], more)
    BY <2>1, <2>2, RowsGrow
  <2> QED
    BY <2>2, <2>3
<1>3. HandedOver
  BY <1>1 DEF HandedOver, OneHolder
<1> QED
  BY <1>1, <1>2, <1>3 DEF DriveInv

LEMMA RunInterruptKeeps ==
  ASSUME DriveInv, UNCHANGED scenario, NEW r \in DriveRun, interrupt(r)
  PROVE  DriveInv' /\ HandedOver
<1>1. UNCHANGED <<seconds, tracked, drives, roundHolder, did>>
  BY DEF interrupt
<1>2. seconds \in Nat /\ tracked \in [Share -> TrackedRows]
  BY RunFacts
<1> QED
  BY <1>1, <1>2, RunsStay

LEMMA ConfirmElsewhereKeeps ==
  ASSUME DriveInv, UNCHANGED scenario, NEW s \in Share, confirm_elsewhere(s)
  PROVE  DriveInv' /\ HandedOver
<1>1. UNCHANGED <<seconds, drives, roundHolder, did>>
  BY DEF confirm_elsewhere
<1>2. seconds \in Nat /\ tracked \in [Share -> TrackedRows]
  BY DEF DriveInv, DriveShape
<1>3. PICK row : row = [tracked[s] EXCEPT !.confirmed = TRUE]
  OBVIOUS
<1>4. row \in TrackedRows /\ row.confirmed
  BY <1>2, <1>3 DEF TrackedRows
<1>5. tracked' = [tracked EXCEPT ![s] = row]
  BY <1>2, <1>3 DEF confirm_elsewhere
<1>6. /\ tracked' \in [Share -> TrackedRows]
      /\ \A t \in Share : tracked[t].confirmed => tracked'[t].confirmed
  BY <1>2, <1>4, <1>5
<1> QED
  BY <1>1, <1>2, <1>6, RunsStay

LEMMA DriveClockKeeps ==
  ASSUME DriveInv, UNCHANGED scenario, drive_clock
  PROVE  DriveInv' /\ HandedOver
<1>1. UNCHANGED <<drives, roundHolder, did, tracked>> /\ seconds' = seconds + 1
  BY DEF drive_clock
<1>2. seconds \in Nat /\ tracked \in [Share -> TrackedRows]
  BY DEF DriveInv, DriveShape
<1>3. seconds' \in Nat
  BY <1>1, <1>2, SMT
<1> QED
  BY <1>1, <1>2, <1>3, RunsStay

-----------------------------------------------------------------------------
(* The theorems.                                                           *)

LEMMA DriveStarts == DriveInit => DriveInv
<1> SUFFICES ASSUME DriveInit PROVE DriveInv
  OBVIOUS
<1>1. 0 \in Nat /\ 0 \in Int /\ NoSeconds \in Int
  BY SMT DEF NoSeconds
<1>2. {} \in SUBSET Share
  OBVIOUS
<1>3. /\ IdleDrive \in Drives /\ IdleDrive.pc = "idle" /\ IdleDrive.passes = 0
      /\ IdleDrive.pass = EmptyReport /\ IdleDrive.report = EmptyReport
  BY <1>1, <1>2, EmptyReportFacts DEF IdleDrive, Drives
<1>4. scenario \in Scenarios /\ seconds \in Nat /\ tracked \in [Share -> TrackedRows]
  BY DriveAssumption DEF DriveInit, TrackedRows
<1>5. /\ \A r \in DriveRun : drives[r] = IdleDrive /\ did[r] = EmptyReport
      /\ drives \in [DriveRun -> Drives] /\ did \in [DriveRun -> Reports]
      /\ roundHolder = "nobody"
  BY <1>3, EmptyReportFacts DEF DriveInit
<1>6. DriveShape
  BY <1>4, <1>5 DEF DriveShape
<1>7. OneHolder
  BY <1>3, <1>5, DriveAssumption DEF OneHolder, Driving
<1>8. ASSUME NEW rows PROVE RunOk(IdleDrive, EmptyReport, rows)
  BY <1>3, EmptyReportFacts DEF RunOk, BooksAgree
<1> QED
  BY <1>5, <1>6, <1>7, <1>8 DEF DriveInv

LEMMA DriveSteps == DriveInv /\ [DriveNext]_driveVars => DriveInv' /\ HandedOver
<1> SUFFICES ASSUME DriveInv, [DriveNext]_driveVars PROVE DriveInv' /\ HandedOver
  OBVIOUS
<1>1. CASE UNCHANGED driveVars
  <2>1. UNCHANGED <<scenario, seconds, tracked, drives, roundHolder, did>>
    BY <1>1 DEF driveVars
  <2>2. seconds \in Nat /\ tracked \in [Share -> TrackedRows]
    BY DEF DriveInv, DriveShape
  <2> QED
    BY <2>1, <2>2, RunsStay
<1>2. CASE DriveNext
  <2>1. UNCHANGED scenario
    BY <1>2 DEF DriveNext
  <2>2. CASE drive_clock
    BY <2>1, <2>2, DriveClockKeeps
  <2>3. ASSUME NEW s \in Share, confirm_elsewhere(s) PROVE DriveInv' /\ HandedOver
    BY <2>1, <2>3, ConfirmElsewhereKeeps
  <2>4. ASSUME NEW r \in DriveRun,
               \/ run_on_clock(r) \/ claim_round(r) \/ host_context(r) \/ begin_pass(r)
               \/ walk_share(r) \/ poll_and_confirm_share(r) \/ finish_pass(r) \/ fail_pass(r)
               \/ sleep_until_interrupted(r) \/ interrupt(r) \/ drop_run(r)
        PROVE  DriveInv' /\ HandedOver
    BY <2>1, <2>4, RunOnClockKeeps, ClaimRoundKeeps, HostContextKeeps, BeginPassKeeps,
       WalkShareKeeps, PollShareKeeps, FinishPassKeeps, FailPassKeeps, SleepKeeps,
       RunInterruptKeeps, DropRunKeeps
  <2> QED
    BY <1>2, <2>2, <2>3, <2>4 DEF DriveNext
<1> QED
  BY <1>1, <1>2

\* In every reachable state of the tracking driver the rows, runs and reports have
\* their shape, exactly the run in ACTIVE_RUNS is past its claim, and what a run's
\* passes did is in its report together with the pass under way.
THEOREM DriveInvariant == DriveSpec => []DriveInv
<1>1. DriveInit => DriveInv
  BY DriveStarts
<1>2. DriveInv /\ [DriveNext]_driveVars => DriveInv'
  BY DriveSteps
<1> QED
  BY <1>1, <1>2, PTL DEF DriveSpec

\* The report a run of the driver returns is what its passes did, for any number of
\* shares and runs, however passes fail and runs are stopped; and "all confirmed" and
\* "nothing to track" are said only when every share of the round is confirmed.
THEOREM RunReportsAreTrue == DriveSpec => []RunReportIsTrue
<1>1. ASSUME DriveInv PROVE RunReportIsTrue
  <2>1. ASSUME NEW r \in DriveRun, DriveEnded(r), drives[r].pc # "Dropped"
        PROVE  ReportAgrees(drives[r].report, did[r])
    <3>1. drives[r] \in Drives /\ did[r] \in Reports /\ RunOk(drives[r], did[r], tracked)
      BY <1>1, RunFacts
    <3>2. drives[r].pc \notin {"walking", "polling", "Dropped"}
      BY <2>1 DEF DriveEnded
    <3> QED
      BY <3>1, <3>2, BetweenPasses
  <2>2. ASSUME NEW r \in DriveRun
        PROVE  /\ drives[r].pc \in {"AllConfirmed", "NothingToTrack"} => Unconfirmed = {}
               /\ drives[r].pc = "NothingToTrack" => did[r] = EmptyReport
    <3>1. RunOk(drives[r], did[r], tracked)
      BY <1>1, RunFacts
    <3> QED
      BY <3>1 DEF RunOk, Unconfirmed
  <2> QED
    BY <2>1, <2>2 DEF RunReportIsTrue, ReportAgrees
<1>2. DriveInv => RunReportIsTrue
  BY <1>1
<1> QED
  BY <1>2, DriveInvariant, PTL

\* Only the run that holds the round drives it, and a run is turned away only while a
\* run that is neither cancelled nor itself holds the round through the step: a
\* cancelled driver is replaced and not mistaken for a live one.
THEOREM RoundsAreHandedOver == DriveSpec => RoundIsHandedOver
<1>1. DriveInv /\ [DriveNext]_driveVars => HandedOver
  BY DriveSteps
<1>2. DriveSpec => [][HandedOver]_driveVars
  BY <1>1, DriveInvariant, PTL DEF DriveSpec
<1> QED
  BY <1>2, PTL DEF RoundIsHandedOver, HandedOver, Driving
=============================================================================
