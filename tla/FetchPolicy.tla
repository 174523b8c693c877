----------------------------- MODULE FetchPolicy -----------------------------
(***************************************************************************)
(* How the response to a fetch moves a target: FetchPolicy                 *)
(* .evaluate_response (fetch_policy.py), the outcome GenericWebTarget and  *)
(* RssFeedTarget derive from it, and transition_for                        *)
(* (execution_semantics.py).  Delays are whole time units from the "now"   *)
(* of the run.  Only the scheduling columns are here: status,              *)
(* consecutive_failures and the delay until next_allowed_at.               *)
(***************************************************************************)
EXTENDS Integers, Sequences

CONSTANTS
  Interval,       \* check interval of the target
  BaseBackoff,    \* base_backoff_sec
  MaxBackoff,     \* max_backoff_sec
  MaxFailures,    \* max_consecutive_failures
  Ladder,         \* cooldown_ladder
  JitterDivisor,  \* 1 / jitter_ratio
  RetryAfterCap   \* retry_after_cap_sec

ASSUME PolicyAssumption ==
  /\ {Interval, BaseBackoff, MaxBackoff, MaxFailures, JitterDivisor, RetryAfterCap} \subseteq Nat \ {0}
  /\ Ladder \in Seq(Nat \ {0}) /\ Ladder # <<>>
  /\ \A i, j \in DOMAIN Ladder : i <= j => Ladder[i] <= Ladder[j]

(* The defaults of the constructor, 30 s, 600 s and 1800 s, are so, and    *)
(* whoever makes a FetchPolicy makes it with the defaults.                 *)
ASSUME BackoffAssumption == BaseBackoff <= MaxBackoff /\ BaseBackoff <= Ladder[1]

Status == {"normal", "backoff", "cooldown", "recovering"}
Isolated == {"cooldown", "recovering"}

(* Classes of response; "other" is 5xx and any unlisted code, "noStatus" is *)
(* a FetchResult of a timeout or a connection error (status_code None).     *)
Failures == {"notFound", "rateLimited", "other"}
Successes == {"ok", "notModified", "redirect"}
Responses == Successes \cup Failures \cup {"forbidden", "noStatus"}

NoRetryAfter == -1

AtLeast(a, b) == IF a >= b THEN a ELSE b
AtMost(a, b) == IF a <= b THEN a ELSE b

(* Bounded exponential backoff; the jitter is a hash of the target and the *)
(* failure, so any value within its ratio.                                 *)
Backoffs(failures) ==
  LET raw == AtMost(BaseBackoff * 2^(failures - 1), MaxBackoff)
      spread == raw \div JitterDivisor
  IN {AtLeast(1, raw + jitter) : jitter \in -spread..spread}

(* The rung of the ladder for a transport or server failure. *)
Rung(failures) == Ladder[1 + AtMost(AtLeast(0, failures - MaxFailures), Len(Ladder) - 1)]

(* A mutant: one failure too late. *)
EscalatesLate(status, failures) == failures > MaxFailures \/ status \in Isolated

(* The test all failing branches share. *)
Escalates(status, failures) == failures >= MaxFailures \/ status \in Isolated

(* A mutant: the delay of a success. *)
IsolateBriefly(failures, delay) == [status |-> "cooldown", failures |-> failures, delay |-> Interval]

Isolate(failures, delay) == [status |-> "cooldown", failures |-> failures, delay |-> delay]

Fail(status, failures, rung, delays) ==
  IF Escalates(status, failures)
  THEN {Isolate(failures, rung)}
  ELSE {[status |-> "backoff", failures |-> failures, delay |-> d] : d \in delays}

(* evaluate_response for a target with that status and that many failures. *)
(* status_code None matches no branch before "200 <= status_code", which   *)
(* raises TypeError: no evaluation.                                        *)
EvaluateResponse(status, failures, response, retryAfter) ==
  LET n == failures + 1
      bounded == AtLeast(1, AtMost(retryAfter, RetryAfterCap))
  IN CASE response \in Successes -> {[status |-> "normal", failures |-> 0, delay |-> Interval]}
       [] response = "forbidden" -> {Isolate(n, Ladder[1])}
       [] response = "notFound" -> Fail(status, n, Ladder[1], Backoffs(n))
       [] response = "rateLimited" ->
            IF retryAfter = NoRetryAfter
            THEN Fail(status, n, Ladder[1], Backoffs(n))
            ELSE Fail(status, n, AtLeast(Ladder[1], retryAfter), {bounded})
       [] response = "other" -> Fail(status, n, Rung(n), Backoffs(n))
       [] response = "noStatus" -> {}

(* The outcome of an adapter that fetched.  A redirect comes back from the *)
(* fetcher with an error text ("HTTP 302: Redirect"), hence fetch_failed.  *)
Outcome(response, evaluation) ==
  IF response = "ok" THEN "success"
  ELSE IF response = "notModified" THEN "not_modified"
  ELSE IF evaluation.status = "cooldown" THEN "policy_cooldown"
  ELSE "fetch_failed"

(* transition_for: what is stored. *)
TransitionFor(outcome, status, failures, evaluation) ==
  CASE outcome \in {"success", "not_modified"} ->
         [status |-> "normal", failures |-> 0, delay |-> Interval]
    [] outcome = "policy_cooldown" ->
         Isolate(IF evaluation.failures > 0 THEN evaluation.failures ELSE failures, evaluation.delay)
    [] outcome = "fetch_failed" ->
         [status |-> IF status \in Isolated THEN "cooldown" ELSE "backoff",
          failures |-> IF evaluation.failures > 0 THEN evaluation.failures ELSE failures + 1,
          delay |-> evaluation.delay]

(* All transitions a fetch can lead to.  The generic and the RSS adapter   *)
(* hand only ETag and Last-Modified on, so Retry-After is always absent.   *)
Transitions(status, failures, response) ==
  {TransitionFor(Outcome(response, e), status, failures, e) :
     e \in EvaluateResponse(status, failures, response, NoRetryAfter)}
=============================================================================
