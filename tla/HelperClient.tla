---------------------------- MODULE HelperClient ----------------------------
(***************************************************************************)
(* Requests of the helper client and the health table they share           *)
(* (helper/client.rs, helper/health.rs, helper/transport.rs).              *)
(*                                                                         *)
(* A status read may be repeated after any transient failure; a share POST *)
(* only after a failure that says the helper did not get it; a recovery    *)
(* POST never.  An initial POST carries the delivery deadline of its       *)
(* caller, who drops the whole request when it passes.  Each request is a  *)
(* call of its own, so what a helper received is recorded per request.     *)
(***************************************************************************)
EXTENDS Integers, Sequences, FiniteSets, SequencesExt

CONSTANTS Endpoint,
          Request,    \* the calls that are made
          OpsOf,      \* the operations each may be
          Cancels,    \* the calls whose caller may cancel them
          RetryDelays,      \* config.retry_delays
          HelperTimeout,    \* config.request_timeout and config.post_timeout
          DeliveryBudgets,     \* delivery budgets of initial POSTs
          Threshold,  \* HelperHealth.failure_threshold
          Cooldown,   \* HelperHealth.cooldown_seconds
          MaxInstant

ASSUME HelperAssumption ==
  /\ OpsOf \in [Request -> SUBSET {"status", "submit", "resubmit"}]
  /\ RetryDelays \in Seq(Nat \ {0}) /\ Len(RetryDelays) <= 2
  /\ HelperTimeout \in Nat \ {0} /\ DeliveryBudgets \subseteq Nat
  /\ Threshold \in Nat \ {0} /\ Cooldown \in Nat /\ MaxInstant \in Nat

VARIABLES instant, requests, health,
          posted,   \* what became of the share each request carries
          streak,  \* failures scored in a row, per helper
          since    \* when the last demotion of a helper was scored

clientVars == <<instant, requests, health, posted, streak, since>>

Unbounded == MaxInstant + 1
NotOpen == -1

-----------------------------------------------------------------------------
(* HelperError: the outcome of one attempt, and what it says of the POST.  *)

Usable == {"queued", "duplicate", "confirmed", "pending"}
HelperAnswer(op) ==
  {"transport", "429", "4xx", "5xx", "501", "ambiguous", "response"}
    \cup IF op = "status" THEN {"confirmed", "pending", "decode"}
                          ELSE {"queued", "duplicate", "unusable"}

is_transient(e) ==
  e \in {"transport", "timeout", "ambiguous", "response", "429", "5xx"}

is_ambiguous(e) ==
  e \in {"timeout", "ambiguous", "response", "unusable", "5xx", "501"}

\* How the caller books the end of a request.
Booked(op, e) ==
  IF op = "status" THEN "read"
  ELSE IF e \in Usable THEN "accepted"
  ELSE IF is_ambiguous(e) THEN "unknown" ELSE "definite"

-----------------------------------------------------------------------------
(* HelperHealth.                                                           *)

CleanScore == [fails |-> 0, opened |-> NotOpen]

\* A mistake: a helper that is not in cooldown is readmitted, too.
ReadmitsAnyone(s, t) ==
  IF t - s.opened >= Cooldown THEN [fails |-> Threshold - 1, opened |-> NotOpen] ELSE s

expire_cooldown_if_elapsed(s, t) ==
  IF s.opened # NotOpen /\ t - s.opened >= Cooldown
    THEN [fails |-> Threshold - 1, opened |-> NotOpen] ELSE s

ScoredFailure(s, t) ==
  LET e == expire_cooldown_if_elapsed(s, t) IN
  [fails |-> e.fails + 1,
   opened |-> IF e.fails + 1 >= Threshold /\ e.opened = NotOpen THEN t ELSE e.opened]

is_available(tbl, h, t) == expire_cooldown_if_elapsed(tbl[h], t).opened = NotOpen

\* Ordering the helpers readmits those whose cooldown is over.
AfterOrdering(tbl, H, t) ==
  [h \in Endpoint |-> IF h \in H THEN expire_cooldown_if_elapsed(tbl[h], t) ELSE tbl[h]]

candidate_servers ==
  \E H \in SUBSET Endpoint \ {{}} :
    /\ health' = AfterOrdering(health, H, instant)
    /\ health' # health
    /\ UNCHANGED <<instant, requests, posted, streak, since>>

\* A failure is stamped with the time at which the request ended.
ScoreTime(r) == requests[r].start + (instant - requests[r].start)

score(r, result) ==
  LET h == requests[r].to IN
  CASE result \in Usable ->
         /\ health' = [health EXCEPT ![h] = CleanScore]
         /\ streak' = [streak EXCEPT ![h] = 0]
         /\ UNCHANGED since
    [] result \in {"invalid", "cancelled", "deadline"} ->
         UNCHANGED <<health, streak, since>>
    [] OTHER ->
         /\ health' = [health EXCEPT ![h] = ScoredFailure(@, ScoreTime(r))]
         /\ streak' = [streak EXCEPT ![h] = @ + 1]
         /\ since' = [since EXCEPT ![h] =
              IF health'[h].opened # NotOpen
                   /\ expire_cooldown_if_elapsed(health[h], instant).opened = NotOpen
                THEN instant ELSE @]

-----------------------------------------------------------------------------
(* Requests.                                                               *)

IdleRequest ==
  [pc |-> "idle", op |-> "none", to |-> "none", start |-> 0, deadline |-> Unbounded,
   attempt |-> 0, until |-> 0, held |-> "none", result |-> "none", stop |-> FALSE]

SetRequest(r, q) == requests' = [requests EXCEPT ![r] = q]

EndRequest(r, result) ==
  /\ requests' = [requests EXCEPT ![r] =
       [IdleRequest EXCEPT !.pc = "done", !.result = Booked(requests[r].op, result)]]
  /\ score(r, result)
  /\ UNCHANGED instant

\* The checks on URL, ids and body come before any I/O and any scoring.
begin_request(r) ==
  /\ requests[r].pc = "idle"
  /\ \E op \in OpsOf[r], h \in Endpoint, valid \in BOOLEAN :
       \E d \in {Unbounded} \cup {instant + b : b \in DeliveryBudgets} :
         /\ d # Unbounded => op = "submit"
         /\ SetRequest(r,
              IF valid THEN [IdleRequest EXCEPT !.pc = "check", !.op = op, !.to = h,
                                                !.start = instant, !.deadline = d]
                       ELSE [IdleRequest EXCEPT !.pc = "done", !.result = Booked(op, "invalid")])
  /\ UNCHANGED <<instant, health, posted, streak, since>>

\* The caller's cancellation flag, read at the points the code reads it.
cancel_request(r) ==
  /\ r \in Cancels /\ ~requests[r].stop
  /\ requests[r].pc \in {"check", "flight", "backoff"}
  /\ SetRequest(r, [requests[r] EXCEPT !.stop = TRUE])
  /\ UNCHANGED <<instant, health, posted, streak, since>>

\* The checks before each attempt.  A recovery POST has no deadline and no
\* second attempt; an attempt gets what is left of the budget.
begin_attempt(r) ==
  LET q == requests[r] IN
  /\ q.pc = "check"
  /\ \/ q.stop /\ EndRequest(r, "cancelled") /\ UNCHANGED posted
     \/ /\ ~q.stop /\ instant >= q.deadline
        /\ EndRequest(r, IF q.held = "none" THEN "deadline" ELSE q.held)
        /\ UNCHANGED posted
     \/ /\ ~q.stop /\ instant < q.deadline
        /\ SetRequest(r, [q EXCEPT !.pc = "flight",
                                !.until = Min({instant + HelperTimeout, q.deadline})])
        /\ posted' = [posted EXCEPT ![r].flying = q.op # "status"]
        /\ UNCHANGED <<instant, health, streak, since>>

Backoffs(op) == IF op = "resubmit" THEN 0 ELSE Len(RetryDelays)

\* A mistake: an outcome-unknown POST is sent again.
RetriesAnything(op, e) == is_transient(e)

retryable(op, e) == is_transient(e) /\ (op = "status" \/ ~is_ambiguous(e))

\* A sleep that would reach the deadline is not begun: the error in hand is
\* returned instead.
FitsBackoff(q, wake) == wake < q.deadline

AttemptEnds(r, e) ==
  LET q == requests[r]
      wake == instant + RetryDelays[q.attempt + 1]
  IN CASE e \in Usable -> EndRequest(r, e)
       [] e \notin Usable /\ (q.attempt = Backoffs(q.op) \/ ~retryable(q.op, e)) -> EndRequest(r, e)
       [] OTHER ->
            \/ q.stop /\ EndRequest(r, "cancelled")
            \/ ~q.stop /\ ~FitsBackoff(q, wake) /\ EndRequest(r, e)
            \/ /\ ~q.stop /\ FitsBackoff(q, wake)
               /\ SetRequest(r, [q EXCEPT !.pc = "backoff", !.until = wake, !.held = e])
               /\ UNCHANGED <<instant, health, streak, since>>

\* The transport answers.  A connection that failed, and a refusal with a 4xx
\* status, say that this request did not reach the queue of the helper; an
\* acceptance says that it did; everything else says nothing.
transport_answer(r) ==
  /\ requests[r].pc = "flight"
  /\ \E e \in HelperAnswer(requests[r].op) :
       /\ \/ /\ e \in {"transport", "429", "4xx"}
             /\ posted[r].flying \/ requests[r].op = "status"
             /\ posted' = [posted EXCEPT ![r].flying = FALSE]
          \/ /\ e \in {"queued", "duplicate"} /\ ~posted[r].flying
             /\ UNCHANGED posted
          \/ /\ e \notin {"transport", "429", "4xx", "queued", "duplicate"}
             /\ UNCHANGED posted
       /\ AttemptEnds(r, e)

\* timeout_at around the transport.
attempt_times_out(r) ==
  /\ requests[r].pc = "flight" /\ instant >= requests[r].until
  /\ AttemptEnds(r, "timeout")
  /\ UNCHANGED posted

retry_wait(r) ==
  LET q == requests[r] IN
  /\ q.pc = "backoff" /\ instant >= q.until
  /\ \/ q.stop /\ EndRequest(r, "cancelled")
     \/ /\ ~q.stop
        /\ SetRequest(r, [q EXCEPT !.pc = "check", !.attempt = @ + 1])
        /\ UNCHANGED <<instant, health, streak, since>>
  /\ UNCHANGED posted

\* Initial delivery wraps the request in its own deadline.  The request is
\* polled first, so it is dropped only where it cannot take a step itself.
drop_request(r) ==
  LET q == requests[r] IN
  /\ instant >= q.deadline
  /\ q.pc = "flight" \/ (q.pc = "backoff" /\ instant < q.until)
  /\ SetRequest(r, [q EXCEPT !.pc = "done",
                          !.result = IF q.pc = "flight" THEN "unknown" ELSE "overslept"])
  /\ UNCHANGED <<instant, health, posted, streak, since>>

\* The network delivers a POST, perhaps long after the client gave up.
share_arrives(r) ==
  /\ posted[r].flying
  /\ posted' = [posted EXCEPT ![r] = [flying |-> FALSE, got |-> @.got + 1]]
  /\ UNCHANGED <<instant, requests, health, streak, since>>

client_clock ==
  /\ instant < MaxInstant /\ instant' = instant + 1
  /\ UNCHANGED <<requests, health, posted, streak, since>>

ClientInit ==
  /\ instant = 0
  /\ requests = [r \in Request |-> IdleRequest]
  /\ health = [h \in Endpoint |-> CleanScore]
  /\ posted = [r \in Request |-> [flying |-> FALSE, got |-> 0]]
  /\ streak = [h \in Endpoint |-> 0]
  /\ since = [h \in Endpoint |-> 0]

ClientNext ==
  \/ client_clock \/ candidate_servers
  \/ \E r \in Request :
       \/ begin_request(r) \/ cancel_request(r) \/ begin_attempt(r)
       \/ transport_answer(r) \/ attempt_times_out(r) \/ retry_wait(r)
       \/ drop_request(r) \/ share_arrives(r)

ClientSpec == ClientInit /\ [][ClientNext]_clientVars

-----------------------------------------------------------------------------
(* Properties.                                                             *)

\* Types of the requests, of the health table and of what was delivered.
ClientTypes ==
  /\ instant \in 0..MaxInstant
  /\ \A r \in Request :
       /\ requests[r].pc \in {"idle", "check", "flight", "backoff", "done"}
       /\ requests[r].attempt \in 0..Len(RetryDelays)
       /\ (requests[r].pc = "done") = (requests[r].result # "none")
  /\ health \in [Endpoint -> [fails : Nat, opened : {NotOpen} \cup 0..MaxInstant]]

\* What a submission reports is true of the helper.  Over all its attempts the
\* share reaches the helper's queue at most once ("an ambiguous failure is never
\* retried against the same helper", submit_share); an error that delivery books
\* as definite belongs to a POST that did not arrive and is not under way; and
\* the delivery deadline never drops a request that sleeps with a definite error
\* in its hands (the comment on an elapsed deadline in initial delivery).
OutcomesAreTrue ==
  \A r \in Request :
    /\ posted[r].got <= 1
    /\ requests[r].result = "definite" => posted[r] = [flying |-> FALSE, got |-> 0]
    /\ requests[r].result # "overslept"

\* A helper is demoted only after Threshold failures in a row, whatever
\* readmission assumed of it, and stays behind for the whole cooldown after the
\* request that demoted it ended, unless it answers: neither a slow request nor
\* failures during the cooldown move its end.
DemotionIsFair ==
  [][\A h \in Endpoint :
       /\ health'[h].opened # NotOpen => streak'[h] >= Threshold
       /\ health[h].opened # NotOpen /\ health'[h].opened # health[h].opened
            => streak'[h] = 0 \/ instant - since[h] >= Cooldown]_clientVars
=============================================================================
