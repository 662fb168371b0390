------------------------- MODULE ShareTrackingDrive -------------------------
(***************************************************************************)
(* The driver that runs tracking passes over the shares of one round until *)
(* they are confirmed (share_tracking_drive/): the claim of the round, the *)
(* pass loop with its waits and budgets, and the report of the run.        *)
(*                                                                         *)
(* A pass is the walk of share_tracking/mod.rs reduced to what it does for *)
(* one share and one helper (ShareDelivery has the helpers).  Only status  *)
(* polls take time, at most PollMax seconds each; waits end on time.       *)
(***************************************************************************)
EXTENDS SharePolicy

CONSTANTS Share,            \* shares in the order they are walked: 1..n
          DriveRun,         \* runs of the driver, each with its own control
          Scenarios,        \* what to explore: the rows a round starts with, the clock,
                            \* the runs the host starts, until when, with which
                            \* max_passes (NoSeconds: none), and failing passes
          VoteEnd,          \* end of voting, or NoSeconds
          FailureRetry, MaxFailures,   \* failure_retry, max_consecutive_failures
          PollMax,          \* longest status poll
          Clock             \* bound of the clock

ASSUME DriveAssumption ==
  /\ VoteEnd \in Nat \cup {NoSeconds} /\ Clock \in Nat /\ PollMax \in Nat
  /\ FailureRetry \in Nat /\ MaxFailures \in Nat \ {0}
  /\ IsFiniteSet(Share) /\ Share = 1..Cardinality(Share) /\ "nobody" \notin DriveRun
  /\ Scenarios \subseteq
       [rows : [Share -> [created : Nat, submit : Nat, confirmed : BOOLEAN,
                          short : BOOLEAN, material : BOOLEAN]],
        at : Nat, runs : SUBSET DriveRun, start : Nat,
        budgets : SUBSET (Nat \cup {NoSeconds}), faults : Nat]

VARIABLES scenario,     \* the scenario explored
          seconds,      \* the host's clock
          tracked,      \* Share -> the durable row
          drives,       \* DriveRun -> the state of the run
          stopped,      \* runs that are cancelled, or whose epoch or wallet moved on
          roundHolder,  \* the run in ACTIVE_RUNS, or "nobody"
          faults,       \* failed passes so far
          did,          \* DriveRun -> what its passes really did
          tried         \* shares that had an overdue attempt

driveVars == <<scenario, seconds, tracked, drives, stopped, roundHolder, faults, did, tried>>

EmptyReport == [confirmed |-> {}, resubmitted |-> {}, ambiguous |-> {}, unrecoverable |-> {}]

IdleDrive == [pc |-> "idle", budget |-> NoSeconds, todo |-> {}, since |-> 0, until |-> 0,
              passes |-> 0, failures |-> 0, owed |-> 0, pass |-> EmptyReport, report |-> EmptyReport]

Unconfirmed == {s \in Share : ~tracked[s].confirmed}
DriveEnded(r) == drives[r].pc \in {"Cancelled", "AlreadyDriving", "VoteEndReached", "Failing",
                              "PassBudgetExhausted", "NothingToTrack", "AllConfirmed", "Dropped"}

\* The run returns: its admission is dropped with it.
FinishDrive(r, d, why) ==
  /\ drives' = [drives EXCEPT ![r] = [d EXCEPT !.pc = why, !.todo = {}, !.since = 0,
                                               !.until = 0, !.owed = 0, !.pass = EmptyReport]]
  /\ roundHolder' = IF roundHolder = r THEN "nobody" ELSE roundHolder

DriveBecomes(r, d) == drives' = [drives EXCEPT ![r] = d] /\ UNCHANGED roundHolder

-----------------------------------------------------------------------------
(* admission.rs and the head of the loop.                                  *)

\* A mistake: whoever holds the round counts as live.
AnyHolder(h) == TRUE

is_live(h) == h \notin stopped

run_on_clock(r) ==
  /\ drives[r].pc = "idle" /\ r \in scenario.runs /\ seconds <= scenario.start
  /\ \E budget \in scenario.budgets :
       IF r \in stopped THEN FinishDrive(r, drives[r], "Cancelled")
       ELSE DriveBecomes(r, [drives[r] EXCEPT !.pc = "claiming", !.budget = budget])
  /\ UNCHANGED <<seconds, tracked, stopped, faults, did, tried>>

\* A departing holder is waited for; a live one turns the caller away.
claim_round(r) ==
  /\ drives[r].pc = "claiming"
  /\ \/ /\ roundHolder = "nobody"
        /\ drives' = [drives EXCEPT ![r].pc = "boundary", ![r].since = seconds]
        /\ roundHolder' = r
     \/ /\ roundHolder # "nobody"
        /\ \/ is_live(roundHolder) /\ FinishDrive(r, drives[r], "AlreadyDriving")
           \/ ~is_live(roundHolder) /\ r \in stopped /\ FinishDrive(r, drives[r], "Cancelled")
  /\ UNCHANGED <<seconds, tracked, stopped, faults, did, tried>>

\* The host's callback, during which the run may be stopped.
host_context(r) ==
  /\ drives[r].pc = "boundary"
  /\ IF r \in stopped THEN FinishDrive(r, drives[r], "Cancelled")
     ELSE DriveBecomes(r, [drives[r] EXCEPT !.pc = "context"])
  /\ UNCHANGED <<seconds, tracked, stopped, faults, did, tried>>

\* Passes are counted as far as a decision reads the count.
CountPass(d) == Min({d.passes + 1, Max({2, d.budget})})

budget_spent(d) == d.budget # NoSeconds /\ d.passes >= d.budget

begin_pass(r) ==
  LET d == drives[r] IN
  /\ d.pc = "context"
  /\ IF r \in stopped THEN FinishDrive(r, d, "Cancelled")
     ELSE IF VoteEnd # NoSeconds /\ seconds >= VoteEnd THEN FinishDrive(r, d, "VoteEndReached")
     ELSE IF budget_spent(d) THEN FinishDrive(r, d, "PassBudgetExhausted")
     ELSE DriveBecomes(r, [d EXCEPT !.pc = "walking", !.passes = CountPass(d), !.todo = Unconfirmed,
                               !.owed = Cardinality(Unconfirmed)])
  /\ UNCHANGED <<seconds, tracked, stopped, faults, did, tried>>

-----------------------------------------------------------------------------
(* One pass: walk_pending_shares.                                          *)

overdue_for_retry(s) ==
  VoteEnd # NoSeconds /\ should_resubmit_share(tracked[s], seconds, VoteEnd)

WindowOpen == VoteEnd = NoSeconds \/ is_share_resubmission_window_open(seconds, VoteEnd)

WalkOn(r, s, pass) ==
  DriveBecomes(r, [drives[r] EXCEPT !.pc = "walking", !.todo = @ \ {s}, !.pass = pass])

Record(r, field, s) == did' = [did EXCEPT ![r][field] = @ \cup {s}]

\* The recovery of one share at the clock's time, after its poll if it had one.
recover_share(r, s) ==
  LET pass == drives[r].pass
      row == tracked[s]
  IN IF ~(WindowOpen /\ (overdue_for_retry(s) \/ row.short))
       THEN WalkOn(r, s, pass) /\ UNCHANGED <<tracked, did, tried>>
     ELSE /\ tried' = IF overdue_for_retry(s) THEN tried \cup {s} ELSE tried
          /\ \/ /\ row.material
                /\ WalkOn(r, s, [pass EXCEPT !.resubmitted = @ \cup {s}])
                /\ tracked' = [tracked EXCEPT ![s].short = FALSE] /\ Record(r, "resubmitted", s)
             \/ /\ row.material
                /\ WalkOn(r, s, [pass EXCEPT !.ambiguous = @ \cup {s}])
                /\ Record(r, "ambiguous", s) /\ UNCHANGED tracked
             \/ row.material /\ WalkOn(r, s, pass) /\ UNCHANGED <<tracked, did>>
             \/ /\ ~row.material
                /\ WalkOn(r, s, [pass EXCEPT !.unrecoverable = @ \cup {s}])
                /\ UNCHANGED <<tracked, did>>

NextShare(r) == Min(drives[r].todo)

walk_share(r) ==
  LET d == drives[r]
      s == NextShare(r)
      ready == is_share_ready_for_status_check(tracked[s], seconds)
  IN /\ d.pc = "walking" /\ d.todo # {} /\ r \notin stopped
     /\ IF tracked[s].confirmed \/ ~(ready \/ overdue_for_retry(s) \/ tracked[s].short)
          THEN WalkOn(r, s, d.pass) /\ UNCHANGED <<tracked, did, tried>>
        ELSE IF ready
          THEN DriveBecomes(r, [d EXCEPT !.pc = "polling", !.until = seconds + PollMax])
               /\ UNCHANGED <<tracked, did, tried>>
        ELSE recover_share(r, s)
     /\ UNCHANGED <<seconds, stopped, faults>>

\* The poll of a share answers, and recovery looks at the clock again.
poll_and_confirm_share(r) ==
  LET s == NextShare(r) IN
  /\ drives[r].pc = "polling" /\ r \notin stopped
  /\ \/ /\ WalkOn(r, s, [drives[r].pass EXCEPT !.confirmed = @ \cup {s}])
        /\ tracked' = [tracked EXCEPT ![s].confirmed = TRUE]
        /\ Record(r, "confirmed", s) /\ UNCHANGED tried
     \/ recover_share(r, s)
  /\ UNCHANGED <<seconds, stopped, faults>>

-----------------------------------------------------------------------------
(* run_ledger.rs and the tail of the loop.                                 *)

absorb_durable_effects(report, pass) ==
  [report EXCEPT !.confirmed = @ \cup pass.confirmed,
                 !.resubmitted = @ \cup pass.resubmitted,
                 !.ambiguous = (@ \cup pass.ambiguous) \ (report.resubmitted \cup pass.resubmitted)]

absorb(report, pass) ==
  [absorb_durable_effects(report, pass) EXCEPT !.unrecoverable = pass.unrecoverable]

\* A mistake: what a failed pass committed is forgotten with its error.
ForgetsPartial(report, pass) == report

absorb_partial(report, pass) ==
  [absorb_durable_effects(report, pass) EXCEPT
     !.unrecoverable = @ \ (pass.confirmed \cup pass.resubmitted \cup pass.ambiguous)]

wait_within_voting_window(delay) ==
  IF VoteEnd = NoSeconds THEN delay ELSE Min({delay, SatSub(VoteEnd, seconds)})

\* Budget before the wait.
await_next_pass(r, d, delay) ==
  IF budget_spent(d) THEN FinishDrive(r, d, "PassBudgetExhausted")
  ELSE DriveBecomes(r, [d EXCEPT !.pc = "waiting", !.pass = EmptyReport, !.todo = {},
                            !.until = seconds + wait_within_voting_window(delay)])

\* The walk ends: at its last share, or where it notices that the run is stopped.
finish_pass(r) ==
  LET d == drives[r]
      cancelled == r \in stopped
      delay == next_tracking_delay_seconds({tracked[s] : s \in Share}, seconds)
      after == [d EXCEPT !.failures = 0, !.report =
                  IF d.todo # {} THEN absorb_partial(@, d.pass) ELSE absorb(@, d.pass)]
  IN /\ \/ d.pc = "walking" /\ (d.todo = {} \/ cancelled)
        \/ d.pc = "polling" /\ cancelled
     /\ IF cancelled THEN FinishDrive(r, after, "Cancelled")
        ELSE IF delay = NoSeconds
          THEN FinishDrive(r, after, IF d.passes = 1 /\ d.owed = 0 THEN "NothingToTrack"
                                ELSE "AllConfirmed")
        ELSE await_next_pass(r, after, delay)
     /\ UNCHANGED <<seconds, tracked, stopped, faults, did, tried>>

\* Storage fails somewhere in the walk.
fail_pass(r) ==
  LET d == drives[r]
      after == [d EXCEPT !.failures = @ + 1, !.report = absorb_partial(@, d.pass)]
  IN /\ d.pc \in {"walking", "polling"} /\ faults < scenario.faults
     /\ faults' = faults + 1
     /\ IF r \in stopped THEN FinishDrive(r, after, "Cancelled")
        ELSE IF after.failures >= MaxFailures THEN FinishDrive(r, after, "Failing")
        ELSE await_next_pass(r, after, FailureRetry)
     /\ UNCHANGED <<seconds, tracked, stopped, did, tried>>

sleep_until_interrupted(r) ==
  /\ drives[r].pc = "waiting"
  /\ \/ r \in stopped /\ FinishDrive(r, drives[r], "Cancelled")
     \/ /\ r \notin stopped /\ seconds >= drives[r].until
        /\ DriveBecomes(r, [drives[r] EXCEPT !.pc = "boundary", !.until = 0])
  /\ UNCHANGED <<seconds, tracked, stopped, faults, did, tried>>

-----------------------------------------------------------------------------
(* The host: it stops a run, drops one, or confirms a share elsewhere.     *)

interrupt(r) ==
  /\ r \in scenario.runs \ stopped /\ ~DriveEnded(r)
  /\ stopped' = stopped \cup {r}
  /\ UNCHANGED <<seconds, tracked, drives, roundHolder, faults, did, tried>>

drop_run(r) ==
  /\ r \in stopped /\ drives[r].pc \in {"claiming", "polling", "waiting"}
  /\ FinishDrive(r, drives[r], "Dropped")
  /\ UNCHANGED <<seconds, tracked, stopped, faults, did, tried>>

confirm_elsewhere(s) ==
  /\ ~tracked[s].confirmed
  /\ tracked' = [tracked EXCEPT ![s].confirmed = TRUE]
  /\ UNCHANGED <<seconds, drives, stopped, roundHolder, faults, did, tried>>

\* Time passes in polls and in waits only.
drive_clock ==
  /\ seconds < Clock
  /\ \A r \in DriveRun :
       \/ r \in stopped \/ DriveEnded(r) \/ drives[r].pc = "idle"
       \/ drives[r].pc = "claiming" /\ roundHolder # "nobody" /\ ~is_live(roundHolder)
       \/ drives[r].pc \in {"polling", "waiting"} /\ drives[r].until > seconds
  /\ seconds' = seconds + 1
  /\ UNCHANGED <<tracked, drives, stopped, roundHolder, faults, did, tried>>

DriveInit ==
  /\ scenario \in Scenarios
  /\ seconds = scenario.at /\ tracked = scenario.rows
  /\ stopped = {} /\ roundHolder = "nobody" /\ faults = 0
  /\ drives = [r \in DriveRun |-> IdleDrive]
  /\ did = [r \in DriveRun |-> EmptyReport] /\ tried = {}

DriveNext ==
  /\ UNCHANGED scenario
  /\ \/ drive_clock \/ \E s \in Share : confirm_elsewhere(s)
     \/ \E r \in DriveRun :
          \/ run_on_clock(r) \/ claim_round(r) \/ host_context(r) \/ begin_pass(r)
          \/ walk_share(r) \/ poll_and_confirm_share(r) \/ finish_pass(r) \/ fail_pass(r)
          \/ sleep_until_interrupted(r) \/ interrupt(r) \/ drop_run(r)

DriveSpec == DriveInit /\ [][DriveNext]_driveVars

-----------------------------------------------------------------------------
(* Properties.                                                             *)

\* The shape of the runs and of the rows.
DriveTypes ==
  /\ seconds \in 0..Clock /\ stopped \subseteq DriveRun
  /\ roundHolder \in DriveRun \cup {"nobody"}
  /\ \A r \in DriveRun : drives[r].todo \subseteq Share /\ drives[r].failures \in 0..MaxFailures

LongestWait == Max({Timing["readyPoll"], Timing["minDelay"], FailureRetry})
WalkTime == PollMax * Cardinality(Share)

\* A share is retried while retrying still helps.  Where one run drives the round
\* from before the share is overdue, and is not stopped, every share that stays
\* unconfirmed gets its overdue attempt within the waits and passes that fit
\* between two looks at it, as long as the cutoff before the end leaves that much
\* time: no wait computed from the share rows or from a failure skips its window.
OverdueIsCaught ==
  \A r \in DriveRun, s \in Share :
    /\ VoteEnd # NoSeconds /\ roundHolder = r /\ r \notin stopped
    /\ drives[r].passes > 0 /\ drives[r].budget = NoSeconds
    /\ ~tracked[s].confirmed /\ drives[r].since <= retry_at(tracked[s], VoteEnd)
    /\ LET due == retry_at(tracked[s], VoteEnd) + (faults + 1) * (LongestWait + WalkTime) + WalkTime
       IN seconds >= due /\ due + Timing["cutoff"] < VoteEnd
    => s \in tried

\* The report of a run is what the run did.  Every share it confirmed and every
\* helper it reached is in the report, however the passes and the run ended; an
\* attempt is ambiguous only as long as no answer settled it; a confirmed share is
\* not called beyond repair; and "all confirmed" and "nothing to track" are said
\* only where no share of the round is left.
RunReportIsTrue ==
  \A r \in DriveRun :
    LET d == drives[r] IN
    /\ DriveEnded(r) /\ d.pc # "Dropped" =>
         /\ d.report.confirmed = did[r].confirmed
         /\ d.report.resubmitted = did[r].resubmitted
         /\ d.report.ambiguous = did[r].ambiguous \ did[r].resubmitted
         /\ d.report.unrecoverable \cap d.report.confirmed = {}
    /\ d.pc \in {"AllConfirmed", "NothingToTrack"} => Unconfirmed = {}
    /\ d.pc = "NothingToTrack" => did[r] = EmptyReport

\* One run drives a round, and the round is not left without one.  Only the holder
\* is past its claim, and a run is turned away only while a run that is still
\* wanted holds the round: the run that replaces a cancelled one waits for it.
RoundIsHandedOver ==
  [][\A r \in DriveRun :
       /\ drives'[r].pc \in {"boundary", "context", "walking", "polling", "waiting"}
            => roundHolder' = r
       /\ drives[r].pc # "AlreadyDriving" /\ drives'[r].pc = "AlreadyDriving"
            => \E h \in DriveRun \ (stopped \cup {r}) : roundHolder = h /\ roundHolder' = h
    ]_driveVars
=============================================================================
