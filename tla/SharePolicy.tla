---------------------------- MODULE SharePolicy ----------------------------
(***************************************************************************)
(* The arithmetic of share_policy/: how many helpers a share goes to, when *)
(* it is sent, when its status is read, when it is overdue and when the    *)
(* next tracking pass is due.  Seconds are u64 and saturate at MaxSeconds. *)
(***************************************************************************)
EXTENDS Integers, Sequences, FiniteSets, FiniteSetsExt

CONSTANTS MaxSeconds,  \* u64::MAX
          Timing,      \* ShareTimingPolicy
          BufferMax,   \* LAST_MOMENT_BUFFER_MAX_SECONDS
          DelayMax     \* SHARE_SUBMIT_AT_MAX_DELAY_SECONDS

ASSUME TimingAssumption ==
  /\ MaxSeconds \in Nat /\ BufferMax \in Nat /\ DelayMax \in Nat
  /\ Timing \in [{"grace", "minOverdue", "maxOverdue", "cutoff", "readyPoll",
                  "futureMax", "minDelay"} -> 0..MaxSeconds]

NoSeconds == -1   \* Option::None

SatAdd(a, b) == Min({a + b, MaxSeconds})
SatSub(a, b) == Max({a - b, 0})
CeilDiv(a, b) == (a + b - 1) \div b

-----------------------------------------------------------------------------
(* server_order.rs: counts.                                                *)

VOTE_COMMITMENT_SHARE_COUNT == 16
TARGET_COUNT_CAP == 10
MAX_INITIAL_SHARES_PER_SERVER == (VOTE_COMMITMENT_SHARE_COUNT * 3) \div 4

share_submission_target_count(n) == Min({(n \div 2) + (n % 2), TARGET_COUNT_CAP})

minimum_complete_batch_planning_server_count(target) ==
  CeilDiv(VOTE_COMMITMENT_SHARE_COUNT * target, MAX_INITIAL_SHARES_PER_SERVER)

\* share_server_selection_policy(n).min_server_count
min_server_count(n) ==
  IF n <= 1 THEN n
  ELSE minimum_complete_batch_planning_server_count(share_submission_target_count(n))

(* server_order.rs: orders.  swap[i] is the sample for position i.         *)

Swapped(s, i, j) == [s EXCEPT ![i] = s[j], ![j] = s[i]]

Samples(n) == {f \in [2..n -> 1..n] : \A i \in 2..n : f[i] <= i}

shuffled_share_server_order(s, swap) ==
  LET from[i \in 1..Len(s)] ==   \* the order once positions i and above are sampled
        LET above == IF i = Len(s) THEN s ELSE from[i + 1]
        IN IF i = 1 THEN above ELSE Swapped(above, i, swap[i])
  IN IF s = <<>> THEN s ELSE from[1]

-----------------------------------------------------------------------------
(* timing.rs and submission_schedule.rs.                                   *)

last_moment_buffer_seconds(start, end) ==
  IF end <= start THEN NoSeconds
  ELSE Min({CeilDiv(2 * (end - start), 5), BufferMax})

last_moment_deadline_seconds(start, end) ==
  LET buffer == last_moment_buffer_seconds(start, end) IN
  IF buffer = NoSeconds THEN NoSeconds ELSE SatSub(end, buffer)

is_last_moment(now, start, end) ==
  LET deadline == last_moment_deadline_seconds(start, end) IN
  deadline # NoSeconds /\ now >= deadline /\ now < end

\* The number of seconds over which a submission is spread; 0 for at once.
delayed_share_window_seconds(now, end, buffer, single) ==
  IF single \/ buffer \in {NoSeconds, 0} THEN 0
  ELSE Min({SatSub(SatSub(end, buffer), now), DelayMax})

\* Every submit_at that scheduled_share_submit_at_from_entropy can return.
scheduled_share_submit_at(now, end, buffer, single) ==
  LET window == delayed_share_window_seconds(now, end, buffer, single) IN
  IF window = 0 THEN {0} ELSE {SatAdd(now, d) : d \in 0..window - 1}

share_recovery_base_time(share) ==
  IF share.submit > 0 THEN share.submit ELSE share.created

status_check_at(share) == SatAdd(share_recovery_base_time(share), Timing["grace"])

is_share_ready_for_status_check(share, now) ==
  ~share.confirmed /\ now >= status_check_at(share)

overdue_threshold_seconds(share, end) ==
  LET quarter == SatSub(end, share_recovery_base_time(share)) \div 4
      most == Max({Timing["maxOverdue"], Timing["minOverdue"]})
  IN Min({Max({quarter, Timing["minOverdue"]}), most})

is_share_resubmission_window_open(now, end) == end > SatAdd(now, Timing["cutoff"])

retry_at(share, end) ==
  SatAdd(share_recovery_base_time(share), overdue_threshold_seconds(share, end))

should_resubmit_share(share, now, end) ==
  /\ ~share.confirmed /\ now >= retry_at(share, end)
  /\ is_share_resubmission_window_open(now, end)

\* A mistake: a ready share waits for the check of a later one.
FutureFirst(shares, now) ==
  LET pending == {s \in shares : ~s.confirmed}
      later == {status_check_at(s) : s \in {s \in pending : status_check_at(s) > now}}
  IN IF pending = {} THEN NoSeconds
     ELSE Max({Timing["minDelay"],
               IF later = {} THEN Timing["readyPoll"] ELSE SatSub(Min(later), now)})

next_tracking_delay_seconds(shares, now) ==
  LET pending == {s \in shares : ~s.confirmed}
      checks == {status_check_at(s) : s \in pending}
      later == {t \in checks : t > now}
      future == IF later = {} THEN {}
                ELSE {Min({SatSub(Min(later), now), Timing["futureMax"]})}
      ready == IF checks = later THEN {} ELSE {Timing["readyPoll"]}
  IN IF pending = {} THEN NoSeconds
     ELSE Max({Min(future \cup ready), Timing["minDelay"]})
=============================================================================
