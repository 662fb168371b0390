-------------------------- MODULE HelperPreflight --------------------------
(***************************************************************************)
(* The readiness race over a helper fleet (helper/client.rs): every helper *)
(* is probed at once, answers are collected until the soft timeout, and    *)
(* after it until enough helpers are ready or the hard timeout passes.     *)
(* The ready helpers come first in the ranking that placement uses.        *)
(***************************************************************************)
EXTENDS SharePolicy, SequencesExt

CONSTANTS FleetLists,  \* configured lists: sequences of spellings
          IdentityOf   \* canonical identity of a spelling, "bad" if it has none

VARIABLES race

Identities == {IdentityOf[u] : u \in DOMAIN IdentityOf} \ {"bad"}

NoRace == [pc |-> "idle", fleet |-> <<>>, open |-> {}, ok |-> {}, failed |-> {},
           joined |-> {}, soft |-> FALSE, clock |-> 0, ranked |-> <<>>, ready |-> 0]

\* canonical_helper_url_list with the checks of execute_preflight_fleet.
Acceptable(urls) ==
  /\ urls # <<>>
  /\ \A i \in DOMAIN urls : IdentityOf[urls[i]] # "bad"
  /\ \A i, j \in DOMAIN urls : IdentityOf[urls[i]] = IdentityOf[urls[j]] => i = j

execute_preflight_fleet ==
  /\ race.pc = "idle"
  /\ \E urls \in FleetLists :
       race' = IF Acceptable(urls)
         THEN LET fleet == [i \in DOMAIN urls |-> IdentityOf[urls[i]]] IN
              [race EXCEPT !.pc = "racing", !.fleet = fleet, !.open = ToSet(fleet)]
         ELSE [race EXCEPT !.pc = "invalid"]

\* A probe ends: only a timely response that says ok makes a helper ready.
probe(h) ==
  /\ race.pc = "racing" /\ h \in race.open
  /\ \/ race.clock < 2 /\ race' = [race EXCEPT !.open = @ \ {h}, !.ok = @ \cup {h}]
     \/ race' = [race EXCEPT !.open = @ \ {h}, !.failed = @ \cup {h}]

ReadyIn(r) == r.joined \cap r.ok
Answered(r) == (r.ok \cup r.failed) \ r.joined

from_readiness(r) ==
  LET IsReady(h) == h \in ReadyIn(r)
      IsNot(h) == h \notin ReadyIn(r)
  IN [r EXCEPT !.pc = "done", !.ready = Cardinality(ReadyIn(r)),
               !.ranked = SelectSeq(r.fleet, IsReady) \o SelectSeq(r.fleet, IsNot)]

\* A mistake: the race stops as soon as enough helpers are ready.
StopsWhenEnough(r) ==
  \/ r.joined = ToSet(r.fleet)
  \/ Cardinality(ReadyIn(r)) >= share_submission_target_count(Len(r.fleet))

\* The head of the loop.
RaceIsOver(r) ==
  \/ r.joined = ToSet(r.fleet)
  \/ r.soft /\ Cardinality(ReadyIn(r)) >= share_submission_target_count(Len(r.fleet))

Looped(r) == IF RaceIsOver(r) THEN from_readiness(r) ELSE r

join_next(h) ==
  /\ race.pc = "racing" /\ h \in Answered(race)
  /\ race' = Looped([race EXCEPT !.joined = @ \cup {h}])

\* A timeout is noticed only where no answer is waiting.
soft_timeout ==
  /\ race.pc = "racing" /\ Answered(race) = {} /\ ~race.soft /\ race.clock >= 1
  /\ race' = Looped([race EXCEPT !.soft = TRUE])

hard_timeout ==
  /\ race.pc = "racing" /\ Answered(race) = {} /\ race.soft /\ race.clock = 2
  /\ race' = from_readiness(race)

race_clock ==
  /\ race.pc = "racing" /\ race.clock < 2
  /\ race' = [race EXCEPT !.clock = @ + 1]

PreflightInit == race = NoRace
PreflightNext ==
  \/ execute_preflight_fleet \/ soft_timeout \/ hard_timeout \/ race_clock
  \/ \E h \in Identities : probe(h) \/ join_next(h)

-----------------------------------------------------------------------------
(* Properties.                                                             *)

\* The shape of the race and of its answer.
PreflightTypes ==
  /\ race.pc \in {"idle", "invalid", "racing", "done"}
  /\ race.joined \subseteq race.ok \cup race.failed

\* The snapshot that placement plans from.  It ranks every configured helper
\* once, the ready ones in front, and a helper counts as ready only if its own
\* probe said so in time.  The race gives up on a helper that has not answered
\* only when the soft timeout passed with enough ready helpers, or at the hard
\* timeout: a slow transport is not mistaken for an absent helper.
PreflightIsPatient ==
  race.pc = "done" =>
    /\ ToSet(race.ranked) = ToSet(race.fleet) /\ Len(race.ranked) = Len(race.fleet)
    /\ \A i \in DOMAIN race.ranked : i <= race.ready <=> race.ranked[i] \in ReadyIn(race)
    /\ race.open # {} =>
         \/ race.clock = 2
         \/ race.clock >= 1 /\ 2 * race.ready >= Len(race.fleet)
=============================================================================
