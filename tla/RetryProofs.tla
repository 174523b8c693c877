------------------------------ MODULE RetryProofs ------------------------------
(***************************************************************************)
(* Proofs about the two components that try again after a failure, with    *)
(* delays that grow exponentially.  FetchPolicy and TargetLifecycle: for   *)
(* any ladder, backoffs, interval, number of failures to isolation, lease  *)
(* and length of a run.  InvestigationWorker: for any number of events,    *)
(* finitely many workers, any dispatchers, size of a batch, number of      *)
(* retries and crashes.                                                    *)
(***************************************************************************)
EXTENDS TargetLifecycle, InvestigationWorker, FiniteSetTheorems, WellFoundedInduction, TLAPS

-----------------------------------------------------------------------------
(* The arithmetic of the delays. *)

(* 2^n counts the subsets of 1..n. *)
LEMMA PowerOfTwo == ASSUME NEW n \in Nat PROVE 2^n \in Nat \ {0}
<1>1. IsFiniteSet(1..n) /\ Cardinality(1..n) = n
  BY FS_Interval
<1>2. IsFiniteSet(SUBSET (1..n)) /\ Cardinality(SUBSET (1..n)) = 2^n
  BY <1>1, FS_SUBSET
<1>3. SUBSET (1..n) # {}
  OBVIOUS
<1> QED BY <1>2, <1>3, FS_CardinalityType, FS_EmptySet

LEMMA Division ==
  ASSUME NEW x \in Nat, NEW d \in Nat \ {0}
  PROVE  /\ x \div d \in Nat /\ x \div d <= x
         /\ d * (x \div d) <= x /\ x < d * (x \div d) + d
OBVIOUS

(* The larger the backoff, the larger what is left after the jitter. *)
LEMMA LessJitter ==
  ASSUME NEW x \in Nat, NEW y \in Nat, y <= x, NEW d \in Nat \ {0}
  PROVE  y - y \div d <= x - x \div d
<1> DEFINE q == x \div d
           p == y \div d
<1>1. q \in Nat /\ p \in Nat /\ d * q <= x /\ y < d * p + d
  BY Division
<1> HIDE DEF q, p
<1>2. CASE q <= p
  BY <1>1, <1>2
<1>3. CASE p < q
  <2>1. d * q - d * p - d < x - y
    BY <1>1
  <2>2. d * (q - p - 1) = d * q - d * p - d
    BY <1>1
  <2>3. q - p - 1 <= d * (q - p - 1)
    BY <1>1, <1>3
  <2> QED BY <1>1, <2>1, <2>2, <2>3
<1>4. y - p <= x - q
  BY <1>1, <1>2, <1>3
<1> QED BY <1>4 DEF q, p

LEMMA LeastBackoffFacts == LeastBackoff \in Nat /\ LeastBackoff <= Ladder[1] /\ Ladder[1] \in Nat
<1>1. BaseBackoff \in Nat \ {0} /\ JitterDivisor \in Nat \ {0} /\ Ladder[1] \in Nat /\ BaseBackoff <= Ladder[1]
  BY PolicyAssumption, BackoffAssumption
<1>2. BaseBackoff \div JitterDivisor \in Nat /\ BaseBackoff \div JitterDivisor <= BaseBackoff
  BY <1>1, Division
<1> QED BY <1>1, <1>2 DEF LeastBackoff, AtLeast

LEMMA BackoffsFacts ==
  ASSUME NEW n \in Nat, NEW d \in Backoffs(n + 1)
  PROVE  d \in Nat /\ d >= LeastBackoff
<1> DEFINE raw == AtMost(BaseBackoff * 2^(n + 1 - 1), MaxBackoff)
           spread == raw \div JitterDivisor
<1>0. /\ BaseBackoff \in Nat \ {0} /\ MaxBackoff \in Nat \ {0} /\ JitterDivisor \in Nat \ {0}
      /\ BaseBackoff <= MaxBackoff
  BY PolicyAssumption, BackoffAssumption
<1>1. raw \in Nat /\ BaseBackoff <= raw
  <2>1. n + 1 - 1 = n
    OBVIOUS
  <2>2. 2^n \in Nat \ {0}
    BY PowerOfTwo
  <2> DEFINE power == 2^n
  <2>3. power \in Nat \ {0}
    BY <2>2
  <2>4. raw = AtMost(BaseBackoff * power, MaxBackoff)
    BY <2>1
  <2> HIDE DEF power, raw
  <2>5. BaseBackoff * power \in Nat /\ BaseBackoff <= BaseBackoff * power
    BY <1>0, <2>3
  <2> QED BY <1>0, <2>4, <2>5 DEF AtMost
<1>2. PICK jitter \in -spread..spread : d = AtLeast(1, raw + jitter)
  BY DEF Backoffs
<1> HIDE DEF raw
<1>3. spread \in Nat /\ BaseBackoff - BaseBackoff \div JitterDivisor <= raw - spread
  BY <1>0, <1>1, Division, LessJitter
<1>4. BaseBackoff \div JitterDivisor \in Nat
  BY <1>0, Division
<1> HIDE DEF spread
<1>5. jitter \in Int /\ -spread <= jitter
  BY <1>2, <1>3
<1> DEFINE least == BaseBackoff \div JitterDivisor
<1>6. least \in Nat /\ BaseBackoff - least <= raw - spread /\ LeastBackoff = AtLeast(1, BaseBackoff - least)
  BY <1>3, <1>4 DEF LeastBackoff
<1> HIDE DEF least
<1> QED BY <1>0, <1>1, <1>2, <1>3, <1>5, <1>6 DEF AtLeast

LEMMA RungFacts ==
  ASSUME NEW n \in Nat PROVE Rung(n) \in Nat /\ Rung(n) >= Ladder[1]
<1>1. Len(Ladder) \in Nat \ {0} /\ MaxFailures \in Nat /\ Ladder \in Seq(Nat)
  BY PolicyAssumption
<1>2. 1 + AtMost(AtLeast(0, n - MaxFailures), Len(Ladder) - 1) \in 1..Len(Ladder)
  BY <1>1 DEF AtMost, AtLeast
<1>3. DOMAIN Ladder = 1..Len(Ladder)
  BY <1>1
<1>4. \A i \in 1..Len(Ladder) : Ladder[i] \in Nat /\ Ladder[1] <= Ladder[i]
  <2>1. \A i \in 1..Len(Ladder) : Ladder[i] \in Nat
    BY <1>1
  <2>2. \A i \in 1..Len(Ladder) : 1 <= i /\ 1 \in 1..Len(Ladder)
    BY <1>1
  <2> QED BY <1>3, <2>1, <2>2, PolicyAssumption
<1> QED BY <1>2, <1>4 DEF Rung

-----------------------------------------------------------------------------
(* The policy. *)

Evaluation == [status : Status, failures : Nat, delay : Nat]

(* The three failing branches share their test: what does not escalate has *)
(* fewer failures than isolate and was not isolated, and either way waits  *)
(* for the least backoff.                                                  *)
LEMMA FailFacts ==
  ASSUME NEW status \in Status, NEW n \in Nat, NEW rung \in Nat, rung >= LeastBackoff,
         NEW e \in Fail(status, n + 1, rung, Backoffs(n + 1))
  PROVE  /\ e \in Evaluation /\ e.failures = n + 1 /\ e.delay >= LeastBackoff
         /\ e.status = "cooldown" \/ (e.status = "backoff" /\ ~Escalates(status, n + 1))
<1>1. CASE Escalates(status, n + 1)
  BY <1>1 DEF Fail, Isolate, Evaluation, Status
<1>2. CASE ~Escalates(status, n + 1)
  <2>1. PICK d \in Backoffs(n + 1) : e = [status |-> "backoff", failures |-> n + 1, delay |-> d]
    BY <1>2 DEF Fail
  <2> QED BY <1>2, <2>1, BackoffsFacts DEF Evaluation, Status
<1> QED BY <1>1, <1>2

LEMMA EvaluationFacts ==
  ASSUME NEW status \in Status, NEW n \in Nat, NEW response \in Responses,
         NEW e \in EvaluateResponse(status, n, response, NoRetryAfter)
  PROVE  /\ response # "noStatus" /\ e \in Evaluation
         /\ response \in Successes => e.status = "normal"
         /\ response \notin Successes =>
              /\ e.failures = n + 1
              /\ e.delay >= IF response = "forbidden" THEN Ladder[1] ELSE LeastBackoff
              /\ e.status = "cooldown" \/ (e.status = "backoff" /\ ~Escalates(status, n + 1))
<1>0. Ladder[1] \in Nat /\ Ladder[1] >= LeastBackoff /\ LeastBackoff \in Nat /\ Interval \in Nat
  BY LeastBackoffFacts, PolicyAssumption
<1>1. CASE response \in Successes
  <2>1. e = [status |-> "normal", failures |-> 0, delay |-> Interval]
    BY <1>1 DEF EvaluateResponse, Successes
  <2> QED BY <1>0, <1>1, <2>1 DEF Evaluation, Status, Successes
<1>2. CASE response = "forbidden"
  <2>1. e = Isolate(n + 1, Ladder[1])
    BY <1>2 DEF EvaluateResponse, Successes
  <2> QED BY <1>0, <1>2, <2>1 DEF Isolate, Evaluation, Status, Successes
<1>3. CASE response \in {"notFound", "rateLimited"}
  <2>1. e \in Fail(status, n + 1, Ladder[1], Backoffs(n + 1))
    BY <1>3 DEF EvaluateResponse, Successes, NoRetryAfter
  <2> QED BY <1>0, <1>3, <2>1, FailFacts DEF Successes
<1>4. CASE response = "other"
  <2>1. e \in Fail(status, n + 1, Rung(n + 1), Backoffs(n + 1))
    BY <1>4 DEF EvaluateResponse, Successes
  <2>2. Rung(n + 1) \in Nat /\ Rung(n + 1) >= LeastBackoff
    BY <1>0, RungFacts
  <2> QED BY <1>4, <2>1, <2>2, FailFacts DEF Successes
<1>5. CASE response = "noStatus"
  BY <1>5 DEF EvaluateResponse, Successes
<1> QED BY <1>1, <1>2, <1>3, <1>4, <1>5 DEF Responses, Failures

(* What transition_for makes of it, whichever outcome the adapter derives. *)
LEMMA TransitionFacts ==
  ASSUME NEW status \in Status, NEW n \in Nat, NEW response \in Responses,
         NEW t \in Transitions(status, n, response)
  PROVE  /\ t \in Evaluation
         /\ response \notin Successes =>
              /\ t.delay >= IF response = "forbidden" THEN Ladder[1] ELSE LeastBackoff
              /\ t.failures >= MaxFailures => t.status \in Isolated
<1>1. PICK e \in EvaluateResponse(status, n, response, NoRetryAfter) :
        t = TransitionFor(Outcome(response, e), status, n, e)
  BY DEF Transitions
<1>2. /\ e \in Evaluation /\ Interval \in Nat
      /\ response \in Successes => e.status = "normal"
      /\ response \notin Successes =>
           /\ e.failures = n + 1
           /\ e.delay >= IF response = "forbidden" THEN Ladder[1] ELSE LeastBackoff
           /\ e.status = "cooldown" \/ (e.status = "backoff" /\ ~Escalates(status, n + 1))
  BY EvaluationFacts, PolicyAssumption
<1>3. e.status \in Status /\ e.failures \in Nat /\ e.delay \in Nat
  BY <1>2 DEF Evaluation
<1>4. CASE response \in {"ok", "notModified"}
  <2>1. t = [status |-> "normal", failures |-> 0, delay |-> Interval]
    BY <1>1, <1>4 DEF TransitionFor, Outcome
  <2> QED BY <1>2, <1>4, <2>1 DEF Evaluation, Status, Successes
<1>5. CASE response \notin {"ok", "notModified"} /\ e.status = "cooldown"
  <2>1. t = Isolate(IF e.failures > 0 THEN e.failures ELSE n, e.delay)
    BY <1>1, <1>5 DEF TransitionFor, Outcome
  <2>2. t.status = "cooldown" /\ t.failures \in Nat /\ t.delay = e.delay /\ t \in Evaluation
    BY <1>3, <2>1 DEF Isolate, Evaluation, Status
  <2> QED BY <1>2, <2>2 DEF Isolated
<1>6. CASE response \notin {"ok", "notModified"} /\ e.status # "cooldown"
  <2>1. t = [status |-> IF status \in Isolated THEN "cooldown" ELSE "backoff",
             failures |-> IF e.failures > 0 THEN e.failures ELSE n + 1,
             delay |-> e.delay]
    BY <1>1, <1>6 DEF TransitionFor, Outcome
  <2>2. t \in Evaluation /\ t.delay = e.delay /\ t.failures = IF e.failures > 0 THEN e.failures ELSE n + 1
    BY <1>3, <2>1 DEF Evaluation, Status
  <2>3. ASSUME response \notin Successes PROVE ~(t.failures >= MaxFailures)
    <3>1. t.failures = n + 1 /\ ~Escalates(status, n + 1)
      BY <1>2, <1>6, <2>2, <2>3
    <3> QED BY <3>1, PolicyAssumption DEF Escalates
  <2> QED BY <1>2, <2>2, <2>3
<1> QED BY <1>4, <1>5, <1>6

-----------------------------------------------------------------------------
(* A target that was deleted owes nothing: the row that sync_rules inserts *)
(* for it may be claimed at once.                                          *)
AbsentOwesNothing == row.status = "absent" => cause = "none"

(* What batch-enable or -retag write back, if no result has been stored    *)
(* since they read it, keeps the pause, and the isolation unless it is the *)
(* status that they change.                                                *)
CopyFits ==
  copy # NoObject =>
    /\ copy.status # "absent"
    /\ ~stale =>
         /\ cause \in {"failure", "enabled"} => copy.wait + late >= owed
         /\ cause = "failure" /\ copy.failures >= MaxFailures => copy.status \in Isolated \cup {"normal"}

IInv == TypeOK /\ FailureDelayed /\ EscalatedIsIsolated /\ AbsentOwesNothing /\ CopyFits

LEMMA BoundFacts == FailureCap \in Nat /\ MaxFailures \in Nat \ {0} /\ MaxFailures <= FailureCap
BY PolicyAssumption DEF FailureCap

LEMMA RowFields ==
  ASSUME NEW r \in RowType
  PROVE  /\ r.status \in Status \cup {"absent"} /\ r.failures \in 0..FailureCap
         /\ r.wait \in Nat /\ r.lease \in Nat /\ r.token \in {0} \cup Tokens
BY DEF RowType

(* The steps that change neither what is owed nor the row's status, count  *)
(* and wait: only who has the lease, and what others have in memory.       *)
LEMMA QuietKeepsInv ==
  ASSUME IInv, row' \in RowType, row'.failures = row.failures, row'.wait = row.wait,
         row'.status = row.status \/ (row.status \in Isolated /\ row'.status \in Isolated),
         rule' \in [listed : BOOLEAN, enabled : BOOLEAN],
         run' \in RunType \cup {NoObject}, UNCHANGED <<copy, history>>
  PROVE  IInv'
<1> USE DEF history
<1>1. TypeOK'
  BY DEF IInv, TypeOK
<1>2. FailureDelayed' /\ EscalatedIsIsolated'
  BY DEF IInv, FailureDelayed, EscalatedIsIsolated
<1>3. AbsentOwesNothing' /\ CopyFits'
  BY DEF IInv, AbsentOwesNothing, CopyFits, Isolated
<1> QED BY <1>1, <1>2, <1>3 DEF IInv

(* The steps after which no pause is asked for. *)
LEMMA NoFailureKeepsInv ==
  ASSUME IInv, row' \in RowType, run' \in RunType \cup {NoObject}, copy' \in {copy, NoObject},
         owed' \in Nat, late' \in Nat, stale' \in BOOLEAN, UNCHANGED rule,
         cause' = "none" \/ (cause' = "overwritten" /\ row'.status # "absent")
  PROVE  IInv'
<1>1. TypeOK'
  BY DEF IInv, TypeOK
<1>2. FailureDelayed' /\ EscalatedIsIsolated' /\ AbsentOwesNothing'
  BY DEF FailureDelayed, EscalatedIsIsolated, AbsentOwesNothing
<1>3. CopyFits'
  BY DEF IInv, CopyFits
<1> QED BY <1>1, <1>2, <1>3 DEF IInv

LEMMA NewRowIsRow == NewRow \in RowType /\ Deleted \in RowType
BY BoundFacts DEF NewRow, Deleted, RowType, Status

LEMMA ReleasedIsRow ==
  ASSUME row \in RowType
  PROVE  /\ Released \in RowType /\ Released.status = row.status
         /\ Released.failures = row.failures /\ Released.wait = row.wait
BY DEF Released, RowType

-----------------------------------------------------------------------------
LEMMA InsertKeepsInv == ASSUME IInv, Insert PROVE IInv'
<1>1. /\ row.status = "absent" /\ row' = NewRow
      /\ UNCHANGED <<rule, run, copy, history>>
  BY DEF Insert
<1>3. /\ run' \in RunType \cup {NoObject} /\ owed' \in Nat /\ late' \in Nat /\ stale' \in BOOLEAN
      /\ copy' = copy /\ cause' = "none" /\ rule' = rule
  BY <1>1 DEF IInv, TypeOK, AbsentOwesNothing, history
<1> QED BY <1>1, <1>3, NewRowIsRow, NoFailureKeepsInv

LEMMA ClaimKeepsInv == ASSUME IInv, Claim PROVE IInv'
<1> DEFINE claimed == IF row.status = "cooldown" THEN "recovering" ELSE row.status
<1>1. PICK k \in Fresh :
        /\ row' = [row EXCEPT !.status = claimed, !.lease = LeaseTime + 1, !.token = k]
        /\ run' = [status |-> claimed, failures |-> row.failures, token |-> k, age |-> 0,
                   watched |-> Watched]
  BY DEF Claim
<1>2. row \in RowType /\ rule \in [listed : BOOLEAN, enabled : BOOLEAN] /\ k \in Tokens
      /\ LeaseTime + 1 \in Nat /\ 0 \in 0..MaxRun
  BY LifecycleAssumption DEF IInv, TypeOK, Fresh
<1>3. claimed \in Status /\ (claimed = row.status \/ (row.status \in Isolated /\ claimed \in Isolated))
  BY DEF Claim, Schedulable, Status, Isolated
<1>4. Watched \in BOOLEAN
  BY <1>2 DEF Watched
<1>5. UNCHANGED <<rule, copy, history>>
  BY DEF Claim
<1> HIDE DEF claimed
<1>6. row' \in RowType /\ row'.status = claimed /\ row'.failures = row.failures /\ row'.wait = row.wait
  BY <1>1, <1>2, <1>3 DEF RowType
<1>7. run' \in RunType
  BY <1>1, <1>2, <1>3, <1>4, RowFields DEF RunType
<1> QED BY <1>2, <1>3, <1>5, <1>6, <1>7, QuietKeepsInv

LEMMA FinalizeKeepsInv ==
  ASSUME IInv, NEW response \in Responses, Finalize(response) PROVE IInv'
<1>1. run \in RunType /\ run.status \in Status /\ run.failures \in Nat /\ run.age \in Nat
  BY LifecycleAssumption, BoundFacts DEF Finalize, IInv, TypeOK, RunType
<1>2. PICK t \in Transitions(run.status, run.failures, response) :
        row' = [status |-> t.status, failures |-> AtMost(t.failures, FailureCap),
                wait |-> FromNow(t.delay), lease |-> 0, token |-> 0]
  BY DEF Finalize
<1>3. /\ t.status \in Status /\ t.failures \in Nat /\ t.delay \in Nat
      /\ response \notin Successes =>
           /\ t.delay >= IF response = "forbidden" THEN Ladder[1] ELSE LeastBackoff
           /\ t.failures >= MaxFailures => t.status \in Isolated
  BY <1>1, <1>2, TransitionFacts DEF Evaluation
<1>4. AtMost(t.failures, FailureCap) \in 0..FailureCap /\ AtMost(t.failures, FailureCap) <= t.failures
  BY <1>3, BoundFacts DEF AtMost
<1>5. \A d \in Nat : FromNow(d) \in Nat
  BY <1>1 DEF FromNow, AtLeast
<1>7. /\ row'.status = t.status /\ row'.wait = FromNow(t.delay)
      /\ row'.failures = AtMost(t.failures, FailureCap)
  BY <1>2
<1>8. row' \in RowType
  BY <1>2, <1>3, <1>4, <1>5 DEF RowType
<1>9. /\ run' = NoObject /\ UNCHANGED <<rule, copy>> /\ Remember(response)
      /\ rule \in [listed : BOOLEAN, enabled : BOOLEAN] /\ copy \in RowType \cup {NoObject}
      /\ \A o \in RowType : copy = o => o.status \in Status \cup {"absent"}
  BY RowFields DEF Finalize, IInv, TypeOK
<1>10. CASE response \in Successes
  <2>1. owed' = 0 /\ late' = 0 /\ cause' = "none" /\ stale' \in BOOLEAN
    BY <1>9, <1>10 DEF Remember
  <2> QED BY <1>8, <1>9, <2>1, NoFailureKeepsInv
<1>11. CASE response \notin Successes
  <2>1. owed' = Demanded(response) /\ late' = run.age /\ cause' = "failure" /\ stale' = (copy # NoObject)
    BY <1>9, <1>11 DEF Remember
  <2>2. Demanded(response) \in Nat /\ t.delay >= Demanded(response)
    BY <1>3, <1>11, LeastBackoffFacts DEF Demanded
  <2>3. owed' \in Nat /\ late' \in Nat /\ row'.wait + late' >= owed'
    BY <1>1, <1>3, <1>7, <2>1, <2>2 DEF FromNow, AtLeast
  <2>4. TypeOK'
    BY <1>8, <1>9, <2>1, <2>3 DEF TypeOK
  <2>5. EscalatedIsIsolated'
    <3> SUFFICES ASSUME row'.failures >= MaxFailures PROVE t.status \in Isolated
      BY <1>7 DEF EscalatedIsIsolated
    <3> QED BY <1>3, <1>4, <1>7, <1>11, BoundFacts
  <2>6. AbsentOwesNothing'
    BY <1>3, <1>7 DEF AbsentOwesNothing, Status
  <2>7. CopyFits'
    BY <1>9, <2>1 DEF IInv, CopyFits
  <2> QED BY <2>3, <2>4, <2>5, <2>6, <2>7 DEF IInv, FailureDelayed
<1> QED BY <1>10, <1>11

LEMMA EndRunKeepsInv == ASSUME IInv, EndRun PROVE IInv'
<1>1. CASE Filtered \/ Blocked \/ FetchRaises
  BY <1>1, ReleasedIsRow, QuietKeepsInv DEF Filtered, Blocked, FetchRaises, IInv, TypeOK
<1>2. CASE Lost
  BY <1>2, QuietKeepsInv DEF Lost, IInv, TypeOK
<1> QED BY <1>1, <1>2, FinalizeKeepsInv DEF EndRun

LEMMA OperatorKeepsInv == ASSUME IInv, Operator PROVE IInv'
<1>0. /\ row \in RowType /\ rule \in [listed : BOOLEAN, enabled : BOOLEAN]
      /\ run \in RunType \cup {NoObject} /\ copy \in RowType \cup {NoObject}
      /\ owed \in Nat /\ late \in Nat /\ stale \in BOOLEAN
      /\ cause \in {"none", "failure", "enabled", "overwritten"}
  BY DEF IInv, TypeOK
<1>1. CASE BatchRead
  <2>1. PICK c \in {[row EXCEPT !.status = "normal"], row} : copy' = c
    BY <1>1 DEF BatchRead
  <2>2. c \in RowType /\ c.status \in {row.status, "normal"} /\ c.failures = row.failures /\ c.wait = row.wait
    BY <1>0 DEF RowType, Status
  <2>3. row.status # "absent" /\ stale' = FALSE /\ UNCHANGED <<row, rule, run, owed, late, cause>>
    BY <1>1 DEF BatchRead
  <2>4. TypeOK'
    BY <1>0, <2>1, <2>2, <2>3 DEF TypeOK
  <2>5. FailureDelayed' /\ EscalatedIsIsolated' /\ AbsentOwesNothing'
    BY <2>3 DEF IInv, FailureDelayed, EscalatedIsIsolated, AbsentOwesNothing
  <2>6. CopyFits'
    BY <2>1, <2>2, <2>3 DEF IInv, FailureDelayed, EscalatedIsIsolated, CopyFits
  <2> QED BY <2>4, <2>5, <2>6 DEF IInv
<1>2. CASE BatchSave
  <2>1. /\ copy # NoObject /\ copy \in RowType /\ row' = copy /\ copy' = NoObject /\ copy.status # "absent"
        /\ cause' = (IF stale THEN "overwritten"
                     ELSE IF cause = "failure" /\ copy.status = "normal" THEN "enabled" ELSE cause)
        /\ stale' = FALSE /\ UNCHANGED <<rule, run, owed, late>>
    BY <1>0, <1>2 DEF BatchSave, IInv, CopyFits
  <2>2. CASE stale
    BY <1>0, <2>1, <2>2, NoFailureKeepsInv
  <2>3. CASE ~stale
    <3>1. TypeOK'
      BY <1>0, <2>1, <2>3 DEF TypeOK
    <3>2. /\ cause' = "enabled" => cause \in {"failure", "enabled"}
          /\ cause' = "failure" => cause = "failure" /\ copy.status # "normal"
      BY <2>1, <2>3
    <3>3. FailureDelayed' /\ EscalatedIsIsolated'
      BY <2>1, <2>3, <3>2 DEF IInv, CopyFits, FailureDelayed, EscalatedIsIsolated
    <3>4. AbsentOwesNothing' /\ CopyFits'
      BY <2>1 DEF AbsentOwesNothing, CopyFits
    <3> QED BY <3>1, <3>3, <3>4 DEF IInv
  <2> QED BY <1>0, <2>2, <2>3
<1>3. CASE BatchDelete
  <2>1. row' = Deleted /\ owed' = 0 /\ late' = 0 /\ cause' = "none" /\ UNCHANGED <<rule, run, copy, stale>>
    BY <1>3 DEF BatchDelete
  <2> QED BY <1>0, <2>1, NewRowIsRow, NoFailureKeepsInv
<1>4. CASE EditFile \/ Register
  <2>1. rule' \in [listed : BOOLEAN, enabled : BOOLEAN] /\ UNCHANGED <<row, run, copy, history>>
    BY <1>0, <1>4 DEF EditFile, Register
  <2> QED BY <1>0, <2>1, QuietKeepsInv
<1> QED BY <1>1, <1>2, <1>3, <1>4 DEF Operator

LEMMA TickKeepsInv == ASSUME IInv, Tick PROVE IInv'
<1>0. /\ row \in RowType /\ rule \in [listed : BOOLEAN, enabled : BOOLEAN]
      /\ run \in RunType \cup {NoObject} /\ copy \in RowType \cup {NoObject}
      /\ owed \in Nat /\ late \in Nat /\ stale \in BOOLEAN /\ MaxRun \in Nat
      /\ cause \in {"none", "failure", "enabled", "overwritten"}
  BY LifecycleAssumption DEF IInv, TypeOK
<1>1. \A n \in Nat : Less(n) \in Nat
  BY DEF Less, AtLeast
<1>2. \A l, m, n \in Nat : m + l >= n => Less(m) + l >= Less(n)
  BY DEF Less, AtLeast
<1>3. ASSUME NEW r \in RowType
      PROVE  Aged(r) \in RowType /\ Aged(r).status = r.status /\ Aged(r).failures = r.failures
             /\ Aged(r).wait = Less(r.wait)
  BY <1>1 DEF Aged, RowType
<1>4. row' = Aged(row) /\ owed' = Less(owed) /\ UNCHANGED <<rule, late, cause, stale>>
  BY DEF Tick
<1>5. copy' \in RowType \cup {NoObject}
  BY <1>0, <1>3 DEF Tick
<1>6. run' \in RunType \cup {NoObject}
  <2>1. CASE run = NoObject
    BY <2>1 DEF Tick
  <2>2. CASE run # NoObject
    <3>1. run \in RunType /\ run.age + 1 \in 0..MaxRun
      BY <1>0, <2>2 DEF Tick, RunType
    <3>2. run' = [run EXCEPT !.age = @ + 1]
      BY <2>2 DEF Tick
    <3> QED BY <3>1, <3>2 DEF RunType
  <2> QED BY <2>1, <2>2
<1>7. TypeOK'
  BY <1>0, <1>1, <1>3, <1>4, <1>5, <1>6 DEF TypeOK
<1>8. row'.status = row.status /\ row'.failures = row.failures /\ row'.wait = Less(row.wait) /\ row.wait \in Nat
  BY <1>0, <1>3, <1>4, RowFields
<1>9. FailureDelayed'
  BY <1>0, <1>2, <1>4, <1>8 DEF IInv, FailureDelayed
<1>10. EscalatedIsIsolated' /\ AbsentOwesNothing'
  BY <1>4, <1>8 DEF IInv, EscalatedIsIsolated, AbsentOwesNothing
<1>11. CopyFits'
  <2> SUFFICES ASSUME copy' # NoObject PROVE CopyFits'
    BY DEF CopyFits
  <2>1. copy # NoObject /\ copy \in RowType /\ copy' = Aged(copy)
    BY <1>0 DEF Tick
  <2>2. copy'.status = copy.status /\ copy'.failures = copy.failures /\ copy'.wait = Less(copy.wait)
        /\ copy.wait \in Nat
    BY <1>3, <2>1, RowFields
  <2> QED BY <1>0, <1>2, <1>4, <2>1, <2>2 DEF IInv, CopyFits
<1> QED BY <1>7, <1>9, <1>10, <1>11 DEF IInv

-----------------------------------------------------------------------------
LEMMA IInvInit == Init => IInv
<1> SUFFICES ASSUME Init PROVE IInv
  OBVIOUS
<1>1. TypeOK
  BY NewRowIsRow DEF Init, TypeOK
<1> QED BY <1>1 DEF Init, IInv, FailureDelayed, EscalatedIsIsolated, AbsentOwesNothing, CopyFits

LEMMA IInvStep == IInv /\ [Next]_vars => IInv'
<1>1. ASSUME IInv, UNCHANGED vars PROVE IInv'
  BY <1>1, QuietKeepsInv DEF vars, IInv, TypeOK
<1> QED BY <1>1, InsertKeepsInv, ClaimKeepsInv, EndRunKeepsInv, OperatorKeepsInv, TickKeepsInv DEF Next

(* The inductive invariant. *)
THEOREM LifecycleInvariant == Spec => []IInv
BY IInvInit, IInvStep, PTL DEF Spec

(* The row of a target is a row: its status is one of the four, its count  *)
(* and its times are never negative, however late a run is stored, and     *)
(* whatever the operator writes back.                                      *)
THEOREM TypeCorrect == Spec => []TypeOK
<1>1. IInv => TypeOK
  BY DEF IInv
<1> QED BY <1>1, LifecycleInvariant, PTL

(* After a stored failure the next request waits for the least backoff, or *)
(* the first rung after a 403, from the response on, less at most the time *)
(* the run had taken until then, also when batch-enable or -retag write    *)
(* the row, unless they read it before the failure was stored.             *)
THEOREM FailuresDelay == Spec => []FailureDelayed
<1>1. IInv => FailureDelayed
  BY DEF IInv
<1> QED BY <1>1, LifecycleInvariant, PTL

(* MaxFailures failures in a row isolate a target, whichever of the policy *)
(* and the transition decided last.                                        *)
THEOREM EscalationIsolates == Spec => []EscalatedIsIsolated
<1>1. IInv => EscalatedIsIsolated
  BY DEF IInv
<1> QED BY <1>1, LifecycleInvariant, PTL


-----------------------------------------------------------------------------
(* InvestigationWorker. *)

(* The least-number principle: a batch has an event that comes first. *)
LEMMA LessIsWellFounded == \E R : IsWellFoundedOn(R, Nat) /\ \A x, y \in Nat : x < y => <<x, y>> \in R
<1>1. IsWellFoundedOn(OpToRel(<, Nat), Nat)
  BY NatLessThanWellFounded
<1>2. \A x, y \in Nat : x < y => <<x, y>> \in OpToRel(<, Nat)
  BY DEF OpToRel
<1> QED BY <1>1, <1>2

LEMMA EarliestIsInBatch ==
  ASSUME NEW batch \in SUBSET Events, batch # {} PROVE Earliest(batch) \in batch
<1>1. PICK R : IsWellFoundedOn(R, Nat) /\ \A x, y \in Nat : x < y => <<x, y>> \in R
  BY LessIsWellFounded
<1>2. batch \subseteq Nat
  BY InvestigationAssumption DEF Events
<1>3. IsWellFoundedOn(R, Nat) /\ batch \subseteq Nat /\ batch # {}
  BY <1>1, <1>2
<1>4. \E e \in batch : \A f \in batch : ~ (<<f, e>> \in R)
  BY <1>3, WFMin
<1>5. PICK e \in batch : \A f \in batch : ~ (<<f, e>> \in R)
  BY <1>4
<1>6. \A f \in batch : ~ (f < e)
  BY <1>1, <1>2, <1>5
<1>7. \A f \in batch : e <= f
  BY <1>2, <1>6
<1> QED BY <1>7 DEF Earliest

-----------------------------------------------------------------------------
(* The numbers 1 to n, which make the id of the nth row of an event while  *)
(* it has no result.                                                       *)
UpTo(n) == [k \in 1..n |-> k]

LEMMA UpToFacts ==
  ASSUME NEW n \in Nat
  PROVE  /\ UpTo(n) \in Seq(Nat) /\ Len(UpTo(n)) = n
         /\ Append(UpTo(n), n + 1) = UpTo(n + 1)
<1>1. UpTo(n) \in Seq(Nat) /\ Len(UpTo(n)) = n /\ UpTo(n + 1) \in Seq(Nat) /\ Len(UpTo(n + 1)) = n + 1
  BY DEF UpTo
<1>2. Append(UpTo(n), n + 1) \in Seq(Nat) /\ Len(Append(UpTo(n), n + 1)) = n + 1
  BY <1>1
<1>3. \A k \in 1..(n + 1) : Append(UpTo(n), n + 1)[k] = UpTo(n + 1)[k]
  <2> TAKE k \in 1..(n + 1)
  <2>1. CASE k = n + 1
    BY <1>1, <2>1 DEF UpTo
  <2>2. CASE k \in 1..n
    BY <1>1, <2>2 DEF UpTo
  <2>3. k = n + 1 \/ k \in 1..n
    OBVIOUS
  <2> QED BY <2>1, <2>2, <2>3
<1> QED BY <1>1, <1>2, <1>3

(* The workers that will record an attempt on e, or have a result of it. *)
Trying(e) == {w \in Workers : worker[w].pc \in {"running", "failed"} /\ Current(w) = e}

(* Without a result, the rows of an event are the attempts 1, 2, ... *)
RowsNumbered ==
  \A e \in Events : NoResult(e) =>
    \A i \in DOMAIN results[e] : results[e][i].retries = i /\ results[e][i].id = UpTo(i)

(* An attempt in hand is the next one, or one whose number is taken.  Only *)
(* a worker records a failed attempt; a result has no number.              *)
RowsInHand ==
  \A a \in Actors :
    /\ worker[a].pc = "saving" => worker[a].row.retries = 0
    /\ worker[a].pc = "failed" =>
         /\ a \in Workers /\ worker[a].row.retries # 0
         /\ NoResult(Current(a)) =>
              /\ worker[a].row.retries <= Len(results[Current(a)]) + 1
              /\ worker[a].row.id = UpTo(worker[a].row.retries)

(* Once the retries are used up, each further attempt takes the place of a *)
(* worker that was already running.                                        *)
AttemptsCounted ==
  \A e \in Events : NoResult(e) /\ Len(results[e]) >= MaxRetries =>
    Len(results[e]) + Cardinality(Trying(e)) <= RetryBound

AttemptsInv ==
  /\ InvestigationTypeOK
  /\ RowsNumbered
  /\ RowsInHand
  /\ AttemptsCounted

LEMMA BoundTypes ==
  /\ MaxRetries \in Nat \ {0} /\ Backoff \in Nat \ {0}
  /\ Cardinality(Workers) \in Nat \ {0} /\ RetryBound \in Nat /\ MaxRetries <= RetryBound
<1>1. Cardinality(Workers) \in Nat /\ Cardinality(Workers) # 0
  BY InvestigationAssumption, FS_CardinalityType, FS_EmptySet
<1> QED BY <1>1, InvestigationAssumption DEF RetryBound

LEMMA TryingFacts ==
  ASSUME NEW e PROVE IsFiniteSet(Trying(e)) /\ Cardinality(Trying(e)) \in Nat
BY InvestigationAssumption, FS_Subset, FS_CardinalityType DEF Trying

LEMMA AttemptsInit == InvestigationInit => AttemptsInv
<1> SUFFICES ASSUME InvestigationInit PROVE AttemptsInv
  OBVIOUS
<1>1. \A e \in Events : results[e] = <<>> /\ Len(results[e]) = 0
  BY DEF InvestigationInit
<1>2. \A a \in Actors : worker[a].pc = "idle"
  BY DEF InvestigationInit, Idle
<1>3. InvestigationTypeOK
  <2>1. Idle \in Working
    BY DEF Idle, Working
  <2>2. worker \in [Actors -> Working \cup Writing]
    BY <2>1 DEF InvestigationInit
  <2>3. results \in [Events -> Seq(Row)] /\ wait \in [Events -> Nat]
    BY DEF InvestigationInit
  <2> QED BY <1>1, <1>2, <2>2, <2>3, InvestigationAssumption DEF InvestigationTypeOK, InvestigationInit
<1>4. RowsNumbered /\ RowsInHand
  BY <1>1, <1>2 DEF RowsNumbered, RowsInHand
<1>5. AttemptsCounted
  BY <1>1, BoundTypes DEF AttemptsCounted
<1> QED BY <1>3, <1>4, <1>5 DEF AttemptsInv

Busy == {"polled", "running", "saving", "failed"}

(* What an actor may have in its hands. *)
Fits(a, s) ==
  /\ s \in Working \cup Writing
  /\ s.pc \in Busy => s.batch # {}
  /\ s.pc = "saving" => s.row.retries = 0
  /\ s.pc = "failed" =>
       /\ a \in Workers /\ s.row.retries # 0
       /\ NoResult(Earliest(s.batch)) =>
            /\ s.row.retries <= Len(results[Earliest(s.batch)]) + 1
            /\ s.row.id = UpTo(s.row.retries)

LEMMA ActorFits == ASSUME AttemptsInv, NEW a \in Actors PROVE Fits(a, worker[a])
BY DEF AttemptsInv, InvestigationTypeOK, RowsInHand, Fits, Busy, Current

(* The steps of one actor that store no row: none that joins those trying  *)
(* an event does so after its retries are used up.                         *)
LEMMA QuietStepKeepsInv ==
  ASSUME AttemptsInv, NEW a \in Actors, NEW s, Fits(a, s),
         worker' = [worker EXCEPT ![a] = s], UNCHANGED <<results, wait>>,
         crashes' \in 0..MaxCrashes,
         s.pc \in {"running", "failed"} =>
           \/ worker[a].pc \in {"running", "failed"} /\ Current(a) = Earliest(s.batch)
           \/ a \notin Workers
           \/ NoResult(Earliest(s.batch)) => Len(results[Earliest(s.batch)]) < MaxRetries
  PROVE  AttemptsInv'
<1>1. /\ results \in [Events -> Seq(Row)] /\ wait \in [Events -> Nat]
      /\ worker \in [Actors -> Working \cup Writing] /\ s \in Working \cup Writing
  BY DEF AttemptsInv, InvestigationTypeOK, Fits
<1>2. worker'[a] = s /\ \A b \in Actors \ {a} : worker'[b] = worker[b]
  BY <1>1
<1>3. InvestigationTypeOK'
  <2>1. worker' \in [Actors -> Working \cup Writing]
    BY <1>1
  <2>2. \A b \in Actors : worker'[b].pc \in Busy => worker'[b].batch # {}
    BY <1>2 DEF AttemptsInv, InvestigationTypeOK, Fits, Busy
  <2> QED BY <1>1, <2>1, <2>2 DEF AttemptsInv, InvestigationTypeOK, Busy
<1>4. \A e : NoResult(e)' <=> NoResult(e)
  BY DEF NoResult
<1>5. RowsNumbered'
  BY <1>4 DEF AttemptsInv, RowsNumbered
<1>6. RowsInHand'
  <2> SUFFICES ASSUME NEW b \in Actors
               PROVE  /\ worker'[b].pc = "saving" => worker'[b].row.retries = 0
                      /\ worker'[b].pc = "failed" =>
                           /\ b \in Workers /\ worker'[b].row.retries # 0
                           /\ NoResult(Earliest(worker'[b].batch)) =>
                                /\ worker'[b].row.retries <= Len(results[Earliest(worker'[b].batch)]) + 1
                                /\ worker'[b].row.id = UpTo(worker'[b].row.retries)
    BY <1>4 DEF RowsInHand, Current
  <2>1. Fits(b, worker'[b])
    BY <1>2, ActorFits
  <2> QED BY <2>1 DEF Fits
<1>7. AttemptsCounted'
  <2> SUFFICES ASSUME NEW e \in Events, NoResult(e), Len(results[e]) >= MaxRetries
               PROVE  Len(results[e]) + Cardinality(Trying(e)') <= RetryBound
    BY <1>4 DEF AttemptsCounted
  <2>1. Trying(e)' \subseteq Trying(e)
    <3> SUFFICES ASSUME NEW w \in Workers, worker'[w].pc \in {"running", "failed"},
                        Earliest(worker'[w].batch) = e
                 PROVE  worker[w].pc \in {"running", "failed"} /\ Current(w) = e
      BY DEF Trying, Current
    <3>1. CASE w = a
      <4>1. ~(NoResult(e) => Len(results[e]) < MaxRetries)
        BY <1>1, BoundTypes
      <4> QED BY <1>2, <3>1, <4>1
    <3>2. CASE w # a
      BY <1>2, <3>2 DEF Current, Actors
    <3> QED BY <3>1, <3>2
  <2>2. Cardinality(Trying(e)') <= Cardinality(Trying(e)) /\ Cardinality(Trying(e)') \in Nat
    BY <2>1, TryingFacts, FS_Subset, FS_CardinalityType
  <2>3. Len(results[e]) + Cardinality(Trying(e)) <= RetryBound /\ Len(results[e]) \in Nat
    BY <1>1 DEF AttemptsInv, AttemptsCounted
  <2> QED BY <2>2, <2>3, TryingFacts, BoundTypes
<1> QED BY <1>3, <1>5, <1>6, <1>7 DEF AttemptsInv

LEMMA LatestFacts ==
  ASSUME AttemptsInv, NEW e \in Events
  PROVE  /\ Latest(e) \in Row
         /\ NoResult(e) => Latest(e).retries = Len(results[e]) /\ Latest(e).id = UpTo(Len(results[e]))
<1>1. results[e] \in Seq(Row)
  BY DEF AttemptsInv, InvestigationTypeOK
<1>2. CASE results[e] = <<>>
  <2>1. Latest(e) = NoRow /\ Len(results[e]) = 0
    BY <1>2 DEF Latest, Investigated
  <2>2. NoRow \in Row
    BY DEF NoRow, Row, Statuses
  <2>3. NoRow.id = UpTo(0) /\ NoRow.retries = 0
    BY DEF NoRow, UpTo
  <2> QED BY <2>1, <2>2, <2>3
<1>3. CASE results[e] # <<>>
  <2>1. Len(results[e]) \in DOMAIN results[e] /\ Latest(e) = results[e][Len(results[e])]
    BY <1>1, <1>3 DEF Latest, Investigated
  <2> QED BY <1>1, <2>1 DEF AttemptsInv, RowsNumbered
<1> QED BY <1>2, <1>3

LEMMA AttemptFields == ASSUME NEW r \in Row PROVE r.id \in Seq(Nat) /\ r.retries \in Nat /\ r.status \in Statuses
BY DEF Row

LEMMA NextOfFits ==
  ASSUME AttemptsInv, NEW a \in Actors
  PROVE  Fits(a, NextOf(a)) /\ NextOf(a).pc \in {"polled", "idle"}
<1> DEFINE left == worker[a].batch \ {Current(a)}
<1>1. worker[a].batch \in SUBSET Events
  BY DEF AttemptsInv, InvestigationTypeOK, Working, Writing
<1>2. left \in SUBSET Events
  BY <1>1
<1>3. NextOf(a) = [pc |-> IF left # {} THEN "polled" ELSE "idle", batch |-> left]
  BY DEF NextOf
<1> HIDE DEF left
<1>4. NextOf(a) \in Working
  BY <1>2, <1>3 DEF Working
<1> QED BY <1>3, <1>4 DEF Fits, Busy

(* Where an actor is busy, its event is one of the events. *)
LEMMA CurrentFacts ==
  ASSUME AttemptsInv, NEW a \in Actors, worker[a].pc \in Busy
  PROVE  /\ worker[a].batch \in SUBSET Events /\ worker[a].batch # {}
         /\ Current(a) \in worker[a].batch /\ Current(a) \in Events
<1>1. worker[a].batch \in SUBSET Events /\ worker[a].batch # {}
  BY DEF AttemptsInv, InvestigationTypeOK, Working, Writing, Busy
<1> QED BY <1>1, EarliestIsInBatch DEF Current

-----------------------------------------------------------------------------
LEMMA PollKeepsInv == ASSUME AttemptsInv, NEW w \in Workers, Poll(w) PROVE AttemptsInv'
<1> DEFINE s == [pc |-> "polled", batch |-> Batch]
<1>1. Batch \in SUBSET Events /\ Batch # {}
  BY DEF Poll, Batch
<1>2. s \in Working
  BY <1>1 DEF Working
<1>3. Fits(w, s)
  BY <1>1, <1>2 DEF Fits, Busy
<1>4. worker' = [worker EXCEPT ![w] = s] /\ UNCHANGED <<results, wait>> /\ crashes' \in 0..MaxCrashes
  BY DEF Poll, AttemptsInv, InvestigationTypeOK
<1> QED BY <1>3, <1>4, QuietStepKeepsInv DEF Actors

LEMMA BeginKeepsInv == ASSUME AttemptsInv, NEW w \in Workers, Begin(w) PROVE AttemptsInv'
<1> DEFINE s == [pc |-> "running", batch |-> worker[w].batch]
<1>0. w \in Actors /\ worker[w].pc \in Busy
  BY DEF Actors, Begin, Busy
<1>1. UNCHANGED <<results, wait>> /\ crashes' \in 0..MaxCrashes
  BY DEF Begin, AttemptsInv, InvestigationTypeOK
<1>2. CASE Eligible(Current(w)) /\ ShouldRetry(Current(w))
  <2>1. worker' = [worker EXCEPT ![w] = s]
    BY <1>2 DEF Begin
  <2>2. s \in Working
    BY <1>0, CurrentFacts DEF Working
  <2>3. Fits(w, s)
    BY <1>0, <2>2, CurrentFacts DEF Fits, Busy
  <2>4. NoResult(Current(w)) => Len(results[Current(w)]) < MaxRetries
    <3>1. results[Current(w)] \in Seq(Row)
      BY <1>0, CurrentFacts DEF AttemptsInv, InvestigationTypeOK
    <3>2. ~Investigated(Current(w)) => Len(results[Current(w)]) = 0
      BY <3>1 DEF Investigated
    <3> QED BY <1>0, <1>2, <3>1, <3>2, CurrentFacts, LatestFacts, BoundTypes DEF ShouldRetry, Exhausted
  <2>5. s.pc = "running" /\ Earliest(s.batch) = Current(w)
    BY DEF Current
  <2> HIDE DEF s
  <2> QED BY <1>0, <1>1, <2>1, <2>3, <2>4, <2>5, QuietStepKeepsInv
<1>3. CASE ~(Eligible(Current(w)) /\ ShouldRetry(Current(w)))
  <2>1. worker' = [worker EXCEPT ![w] = NextOf(w)]
    BY <1>3 DEF Begin
  <2> QED BY <1>0, <1>1, <2>1, NextOfFits, QuietStepKeepsInv
<1> QED BY <1>2, <1>3

LEMMA RunsKeepsInv ==
  ASSUME AttemptsInv, NEW a \in Actors, NEW success \in Seq(Nat), Runs(a, success) PROVE AttemptsInv'
<1>1. PICK raised \in BOOLEAN, slow \in BOOLEAN, ok \in BOOLEAN, pages \in Pages :
        worker' = [worker EXCEPT ![a] = [pc |-> "saving", batch |-> worker[a].batch,
                     row |-> [id |-> success, status |-> EngineStatus(raised, slow, pages, ok), retries |-> 0]]]
  BY DEF Runs
<1> DEFINE r == [id |-> success, status |-> EngineStatus(raised, slow, pages, ok), retries |-> 0]
           s == [pc |-> "saving", batch |-> worker[a].batch, row |-> r]
<1>2. worker[a].batch \in SUBSET Events /\ worker[a].batch # {}
  BY CurrentFacts DEF Runs, Busy
<1>3. r \in Row /\ r.retries = 0
  BY DEF Row, Statuses, EngineStatus
<1> HIDE DEF r
<1>4. s \in Writing
  BY <1>2, <1>3 DEF Writing
<1>5. Fits(a, s) /\ s.pc = "saving"
  BY <1>2, <1>3, <1>4 DEF Fits, Busy
<1>6. worker' = [worker EXCEPT ![a] = s]
  BY <1>1 DEF r
<1>7. UNCHANGED <<results, wait>> /\ crashes' \in 0..MaxCrashes
  BY DEF Runs, AttemptsInv, InvestigationTypeOK
<1> HIDE DEF s
<1> QED BY <1>5, <1>6, <1>7, QuietStepKeepsInv

LEMMA RunFailsKeepsInv == ASSUME AttemptsInv, NEW w \in Workers, RunFails(w) PROVE AttemptsInv'
<1> DEFINE e == Current(w)
           r == FailedRow(e)
           s == [pc |-> "failed", batch |-> worker[w].batch, row |-> r]
<1>0. w \in Actors /\ worker[w].pc = "running" /\ worker[w].pc \in Busy
  BY DEF Actors, RunFails, Busy
<1>1. worker[w].batch \in SUBSET Events /\ worker[w].batch # {} /\ e \in Events
  BY <1>0, CurrentFacts
<1>2. Latest(e) \in Row /\ Latest(e).id \in Seq(Nat) /\ Latest(e).retries \in Nat
  BY <1>1, LatestFacts, AttemptFields
<1>3. /\ r.id = Append(Latest(e).id, Latest(e).retries + 1) /\ r.retries = Latest(e).retries + 1
      /\ r.status = "failed" /\ r = [id |-> r.id, status |-> "failed", retries |-> r.retries]
  BY DEF FailedRow
<1>4. r \in Row /\ r.retries # 0
  <2>1. r.id \in Seq(Nat) /\ r.retries \in Nat \ {0}
    BY <1>2, <1>3
  <2> HIDE DEF r
  <2> QED BY <1>3, <2>1 DEF Row, Statuses
<1>5. NoResult(e) => r.retries = Len(results[e]) + 1 /\ r.id = UpTo(r.retries)
  <2>1. results[e] \in Seq(Row) /\ Len(results[e]) \in Nat
    BY <1>1 DEF AttemptsInv, InvestigationTypeOK
  <2> HIDE DEF r, e
  <2> QED BY <1>1, <1>3, <2>1, LatestFacts, UpToFacts
<1>6. worker' = [worker EXCEPT ![w] = s]
  BY DEF RunFails
<1>7. UNCHANGED <<results, wait>> /\ crashes' \in 0..MaxCrashes
  BY DEF RunFails, AttemptsInv, InvestigationTypeOK
<1>8. Earliest(worker[w].batch) = e
  BY DEF Current
<1>9. results[e] \in Seq(Row) /\ Len(results[e]) \in Nat
  BY <1>1 DEF AttemptsInv, InvestigationTypeOK
<1> HIDE DEF r, e
<1>10. s \in Writing
  BY <1>1, <1>4 DEF Writing
<1>11. Fits(w, s)
  BY <1>1, <1>4, <1>5, <1>8, <1>9, <1>10 DEF Fits, Busy
<1>12. Earliest(s.batch) = e /\ Current(w) = e
  BY <1>8 DEF Current
<1> HIDE DEF s
<1> QED BY <1>0, <1>6, <1>7, <1>11, <1>12, QuietStepKeepsInv

LEMMA RestKeepsInv ==
  ASSUME AttemptsInv, NEW a \in Actors, NEW s \in {Idle, [Idle EXCEPT !.pc = "dead"]},
         worker' = [worker EXCEPT ![a] = s], UNCHANGED <<results, wait>>, crashes' \in 0..MaxCrashes
  PROVE  AttemptsInv'
<1>1. s \in Working /\ s.pc \in {"idle", "dead"}
  BY DEF Idle, Working
<1>2. Fits(a, s)
  BY <1>1 DEF Fits, Busy
<1> QED BY <1>1, <1>2, QuietStepKeepsInv

LEMMA DispatchKeepsInv == ASSUME AttemptsInv, NEW d \in Dispatchers, Dispatch(d) PROVE AttemptsInv'
<1>1. PICK e \in Events : worker' = [worker EXCEPT ![d] = [pc |-> "running", batch |-> {e}]]
  BY DEF Dispatch
<1> DEFINE s == [pc |-> "running", batch |-> {e}]
<1>2. s \in Working
  BY DEF Working
<1>3. Fits(d, s)
  BY <1>2 DEF Fits, Busy
<1>4. d \in Actors /\ d \notin Workers
  BY InvestigationAssumption DEF Actors
<1>5. UNCHANGED <<results, wait>> /\ crashes' \in 0..MaxCrashes
  BY DEF Dispatch, AttemptsInv, InvestigationTypeOK
<1> QED BY <1>1, <1>3, <1>4, <1>5, QuietStepKeepsInv

LEMMA CrashKeepsInv == ASSUME AttemptsInv, NEW a \in Actors, Crash(a) PROVE AttemptsInv'
<1>1. crashes' \in 0..MaxCrashes
  BY InvestigationAssumption DEF Crash, AttemptsInv, InvestigationTypeOK
<1> QED BY <1>1, RestKeepsInv DEF Crash

LEMMA TimeKeepsInv == ASSUME AttemptsInv, TimePasses PROVE AttemptsInv'
<1>1. wait' \in [Events -> Nat] /\ UNCHANGED <<results, worker, crashes>>
  BY DEF TimePasses, AttemptsInv, InvestigationTypeOK
<1>2. InvestigationTypeOK'
  BY <1>1 DEF AttemptsInv, InvestigationTypeOK
<1>3. RowsNumbered' /\ RowsInHand'
  BY <1>1 DEF AttemptsInv, RowsNumbered, RowsInHand, NoResult, Current
<1>4. AttemptsCounted'
  BY <1>1 DEF AttemptsInv, AttemptsCounted, NoResult, Trying, Current
<1> QED BY <1>2, <1>3, <1>4 DEF AttemptsInv

-----------------------------------------------------------------------------
LEMMA WaitAfterIsNat == ASSUME NEW r \in Row PROVE WaitAfter(r) \in Nat
<1>1. CASE r.retries \in 1..(MaxRetries - 1)
  <2>1. r.retries - 1 \in Nat
    BY <1>1, AttemptFields
  <2> DEFINE power == 2^(r.retries - 1)
  <2>2. power \in Nat
    BY <2>1, PowerOfTwo
  <2>3. WaitAfter(r) = Backoff * power
    BY <1>1 DEF WaitAfter
  <2> HIDE DEF power
  <2> QED BY <2>2, <2>3, BoundTypes
<1>2. CASE r.retries \notin 1..(MaxRetries - 1)
  BY <1>2 DEF WaitAfter
<1> QED BY <1>1, <1>2

LEMMA SaveKeepsInv == ASSUME AttemptsInv, NEW a \in Actors, Save(a) PROVE AttemptsInv'
<1>1. worker[a].pc \in {"saving", "failed"} /\ worker[a].pc \in Busy /\ UNCHANGED crashes
  BY DEF Save, Busy
<1>0. PICK e \in Events : e = Current(a)
  BY <1>1, CurrentFacts
<1> DEFINE r == worker[a].row
           n == Len(results[e])
<1>2. e \in Events /\ r \in Row /\ results[e] \in Seq(Row) /\ n \in Nat
  <2>2. r \in Row
    BY <1>1 DEF AttemptsInv, InvestigationTypeOK, Working, Writing
  <2> QED BY <2>2 DEF AttemptsInv, InvestigationTypeOK
<1>3. crashes' \in 0..MaxCrashes
  BY <1>1 DEF AttemptsInv, InvestigationTypeOK
<1>4. CASE \E i \in DOMAIN results[e] : results[e][i].id = r.id
  <2>1. worker' = [worker EXCEPT ![a] = [Idle EXCEPT !.pc = "dead"]] /\ UNCHANGED <<results, wait>>
    BY <1>0, <1>4 DEF Save
  <2> QED BY <1>3, <2>1, RestKeepsInv
<1>5. CASE ~ \E i \in DOMAIN results[e] : results[e][i].id = r.id
  <2>1. /\ results' = [results EXCEPT ![e] = Append(results[e], r)]
        /\ wait' = [wait EXCEPT ![e] = WaitAfter(r)]
        /\ worker' = [worker EXCEPT ![a] = NextOf(a)]
    BY <1>0, <1>5 DEF Save
  <2>2. /\ results \in [Events -> Seq(Row)] /\ wait \in [Events -> Nat]
        /\ worker \in [Actors -> Working \cup Writing]
    BY DEF AttemptsInv, InvestigationTypeOK
  <2>3. /\ NextOf(a) \in Working \cup Writing /\ NextOf(a).pc \in {"polled", "idle"}
        /\ NextOf(a).pc \in Busy => NextOf(a).batch # {}
    BY NextOfFits DEF Fits
  <2>4. worker'[a] = NextOf(a) /\ \A b \in Actors \ {a} : worker'[b] = worker[b]
    BY <2>1, <2>2
  <2>5. results'[e] = Append(results[e], r) /\ \A f \in Events \ {e} : results'[f] = results[f]
    BY <1>2, <2>1, <2>2
  <2>6. (worker[a].pc = "saving" => r.retries = 0) /\ (worker[a].pc = "failed" => a \in Workers)
    BY DEF AttemptsInv, RowsInHand
  <2>7. worker[a].pc = "failed" /\ NoResult(e) => r.retries <= n + 1 /\ r.id = UpTo(r.retries)
    BY <1>0 DEF AttemptsInv, RowsInHand
  <2>8. NoResult(e) => \A i \in DOMAIN results[e] : results[e][i].retries = i /\ results[e][i].id = UpTo(i)
    BY <1>2 DEF AttemptsInv, RowsNumbered
  <2>9. /\ \A b \in Actors : worker[b].pc = "failed" =>
             /\ b \in Workers /\ worker[b].row.retries # 0
             /\ NoResult(Current(b)) =>
                  /\ worker[b].row.retries <= Len(results[Current(b)]) + 1
                  /\ worker[b].row.id = UpTo(worker[b].row.retries)
        /\ \A b \in Actors : worker[b].pc = "saving" => worker[b].row.retries = 0
    BY DEF AttemptsInv, RowsInHand
  <2>10. \A b \in Actors : worker[b].pc \in Busy => Current(b) \in Events
    BY CurrentFacts
  <2>11. /\ Len(results'[e]) = n + 1 /\ DOMAIN results'[e] = 1..(n + 1) /\ results'[e][n + 1] = r
         /\ DOMAIN results[e] = 1..n /\ \A i \in 1..n : results'[e][i] = results[e][i]
    BY <1>2, <2>5
  <2>12. InvestigationTypeOK'
    <3>1. results' \in [Events -> Seq(Row)]
      <4>1. Append(results[e], r) \in Seq(Row)
        BY <1>2
      <4> QED BY <2>1, <2>2, <4>1
    <3>2. wait' \in [Events -> Nat]
      BY <1>2, <2>1, <2>2, WaitAfterIsNat
    <3>3. worker' \in [Actors -> Working \cup Writing]
      BY <2>1, <2>2, <2>3
    <3>4. \A b \in Actors : worker'[b].pc \in Busy => worker'[b].batch # {}
      BY <2>3, <2>4 DEF AttemptsInv, InvestigationTypeOK, Busy
    <3>5. ASSUME NEW f \in Events, NEW i \in DOMAIN results'[f], NEW j \in DOMAIN results'[f],
                 results'[f][i].id = results'[f][j].id
          PROVE  i = j
      <4>0. \A x, y \in DOMAIN results[f] : results[f][x].id = results[f][y].id => x = y
        BY DEF AttemptsInv, InvestigationTypeOK
      <4>1. CASE f # e
        BY <2>5, <3>5, <4>0, <4>1
      <4>2. CASE f = e
        <5>1. i \in 1..(n + 1) /\ j \in 1..(n + 1) /\ results'[e][i].id = results'[e][j].id
          BY <2>11, <3>5, <4>2
        <5>2. \A x \in 1..n : results'[e][x].id # r.id
          BY <1>5, <2>11
        <5>3. \A x, y \in 1..n : results'[e][x].id = results'[e][y].id => x = y
          BY <2>11, <4>0, <4>2
        <5>4. (i = n + 1 \/ i \in 1..n) /\ (j = n + 1 \/ j \in 1..n)
          BY <1>2, <5>1
        <5> HIDE DEF n, r
        <5> QED BY <2>11, <5>1, <5>2, <5>3, <5>4
      <4> QED BY <4>1, <4>2
    <3> QED BY <1>3, <3>1, <3>2, <3>3, <3>4, <3>5 DEF InvestigationTypeOK, Busy
  <2>13. \A f \in Events \ {e} : NoResult(f)' <=> NoResult(f)
    BY <2>5 DEF NoResult
  (* A row that leaves the event without result is the next attempt: the   *)
  (* ids of the earlier ones are taken.                                    *)
  <2>14. NoResult(e)' => /\ NoResult(e) /\ worker[a].pc = "failed" /\ a \in Workers
                         /\ r.retries = n + 1 /\ r.id = UpTo(n + 1)
    <3> SUFFICES ASSUME NoResult(e)'
                 PROVE  /\ NoResult(e) /\ worker[a].pc = "failed" /\ a \in Workers
                        /\ r.retries = n + 1 /\ r.id = UpTo(n + 1)
      OBVIOUS
    <3>0. \A i \in 1..(n + 1) : results'[e][i].retries # 0
      <4>1. \A i \in DOMAIN results'[e] : results'[e][i].retries # 0
        BY DEF NoResult
      <4> QED BY <2>11, <4>1
    <3>1. NoResult(e) /\ r.retries # 0
      BY <1>2, <2>11, <3>0 DEF NoResult
    <3>2. worker[a].pc = "failed" /\ a \in Workers
      BY <1>1, <2>6, <3>1
    <3>3. r.retries \in Nat /\ r.retries <= n + 1 /\ r.id = UpTo(r.retries)
      BY <1>2, <2>7, <3>1, <3>2, AttemptFields
    <3>4. r.retries \notin 1..n
      BY <1>5, <2>8, <2>11, <3>1, <3>3
    <3> QED BY <1>2, <3>1, <3>2, <3>3, <3>4
  <2> HIDE DEF n, r
  <2>15. RowsNumbered'
    <3> SUFFICES ASSUME NEW f \in Events, NoResult(f)', NEW i \in DOMAIN results'[f]
                 PROVE  results'[f][i].retries = i /\ results'[f][i].id = UpTo(i)
      BY DEF RowsNumbered
    <3>1. CASE f # e
      BY <2>5, <2>13, <3>1 DEF AttemptsInv, RowsNumbered
    <3>2. CASE f = e
      BY <1>2, <2>8, <2>11, <2>14, <3>2
    <3> QED BY <3>1, <3>2
  <2>16. RowsInHand'
    <3> SUFFICES ASSUME NEW b \in Actors
                 PROVE  /\ worker'[b].pc = "saving" => worker'[b].row.retries = 0
                        /\ worker'[b].pc = "failed" =>
                             /\ b \in Workers /\ worker'[b].row.retries # 0
                             /\ NoResult(Current(b))' =>
                                  /\ worker'[b].row.retries <= Len(results'[Current(b)']) + 1
                                  /\ worker'[b].row.id = UpTo(worker'[b].row.retries)
      BY DEF RowsInHand
    <3>1. CASE b = a
      BY <2>3, <2>4, <3>1
    <3>2. CASE b # a
      <4>1. worker'[b] = worker[b] /\ Current(b)' = Current(b)
        BY <2>4, <3>2 DEF Current
      <4> SUFFICES ASSUME worker[b].pc = "failed", NoResult(Current(b))'
                   PROVE  /\ worker[b].row.retries <= Len(results'[Current(b)]) + 1
                          /\ worker[b].row.id = UpTo(worker[b].row.retries)
        BY <2>9, <4>1
      <4>5. \A i \in DOMAIN results'[Current(b)] : results'[Current(b)][i].retries # 0
        BY <4>1 DEF NoResult
      <4>2. Current(b) \in Events
        BY <2>10 DEF Busy
      <4>3. CASE Current(b) # e
        <5>1. results'[Current(b)] = results[Current(b)]
          BY <2>5, <4>2, <4>3
        <5>2. NoResult(Current(b))
          BY <4>5, <5>1 DEF NoResult
        <5> QED BY <2>9, <5>1, <5>2
      <4>4. CASE Current(b) = e
        <5>0. NoResult(e)'
          BY <4>4, <4>5 DEF NoResult
        <5>1. worker[b].row.retries <= n + 1 /\ worker[b].row.id = UpTo(worker[b].row.retries)
          BY <2>9, <2>14, <4>4, <5>0 DEF n
        <5>2. worker[b].row.retries \in Nat
          <6>1. worker[b].row \in Row
            BY <2>2 DEF Working, Writing
          <6> QED BY <6>1, AttemptFields
        <5> QED BY <1>2, <2>11, <4>4, <5>1, <5>2
      <4> QED BY <4>3, <4>4
    <3> QED BY <3>1, <3>2
  <2>17. AttemptsCounted'
    <3> SUFFICES ASSUME NEW f \in Events, NoResult(f)', Len(results'[f]) >= MaxRetries
                 PROVE  Len(results'[f]) + Cardinality(Trying(f)') <= RetryBound
      BY DEF AttemptsCounted
    <3>1. Trying(f)' \subseteq Trying(f) \ {a}
      BY <2>3, <2>4 DEF Trying, Current, Actors
    <3>2. /\ IsFiniteSet(Trying(f) \ {a}) /\ Cardinality(Trying(f) \ {a}) \in Nat
          /\ Cardinality(Trying(f)') <= Cardinality(Trying(f) \ {a}) /\ Cardinality(Trying(f)') \in Nat
          /\ Cardinality(Trying(f) \ {a}) <= Cardinality(Trying(f))
          /\ a \in Trying(f) => Cardinality(Trying(f) \ {a}) = Cardinality(Trying(f)) - 1
      BY <3>1, TryingFacts, FS_RemoveElement, FS_Subset, FS_CardinalityType
    <3>3. CASE f # e
      <4>1. Len(results[f]) + Cardinality(Trying(f)) <= RetryBound /\ Len(results[f]) \in Nat
        BY <2>2, <2>5, <2>13, <3>3 DEF AttemptsInv, AttemptsCounted
      <4>2. Len(results'[f]) = Len(results[f])
        BY <2>5, <3>3
      <4> QED BY <3>2, <4>1, <4>2, TryingFacts, BoundTypes
    <3>4. CASE f = e
      <4>1. a \in Trying(e) /\ a \in Workers /\ NoResult(e)
        BY <1>0, <2>14, <3>4 DEF Trying
      <4>2. CASE n >= MaxRetries
        <5>1. n + Cardinality(Trying(e)) <= RetryBound
          BY <1>2, <4>1, <4>2 DEF AttemptsInv, AttemptsCounted, n
        <5> QED BY <1>2, <2>11, <3>2, <3>4, <4>1, <5>1, TryingFacts, BoundTypes
      <4>3. CASE ~(n >= MaxRetries)
        <5>1. n + 1 = MaxRetries
          BY <1>2, <2>11, <3>4, <4>3, BoundTypes
        <5>2. Cardinality(Trying(e)) <= Cardinality(Workers)
          BY InvestigationAssumption, FS_Subset DEF Trying
        <5> QED BY <2>11, <3>2, <3>4, <4>1, <5>1, <5>2, TryingFacts, BoundTypes DEF RetryBound
      <4> QED BY <4>2, <4>3
    <3> QED BY <3>3, <3>4
  <2> QED BY <2>12, <2>15, <2>16, <2>17 DEF AttemptsInv
<1> QED BY <1>4, <1>5

-----------------------------------------------------------------------------
LEMMA AttemptsStep == AttemptsInv /\ [InvestigationNext]_investigationVars => AttemptsInv'
<1> SUFFICES ASSUME AttemptsInv, [InvestigationNext]_investigationVars PROVE AttemptsInv'
  OBVIOUS
<1>1. ASSUME NEW w \in Workers, WorkerStep(w) PROVE AttemptsInv'
  <2>1. w \in Actors /\ <<>> \in Seq(Nat)
    BY DEF Actors
  <2> QED BY <1>1, <2>1, PollKeepsInv, BeginKeepsInv, RunsKeepsInv, RunFailsKeepsInv, SaveKeepsInv DEF WorkerStep
<1>2. ASSUME NEW d \in Dispatchers, DispatcherStep(d) PROVE AttemptsInv'
  <2>1. d \in Actors /\ <<0>> \in Seq(Nat)
    BY DEF Actors
  <2>2. ASSUME DispatchFails(d) PROVE AttemptsInv'
    BY <2>1, <2>2, RestKeepsInv DEF DispatchFails, AttemptsInv, InvestigationTypeOK
  <2> QED BY <1>2, <2>1, <2>2, DispatchKeepsInv, RunsKeepsInv, SaveKeepsInv DEF DispatcherStep
<1>3. ASSUME NEW a \in Actors, Restart(a) PROVE AttemptsInv'
  BY <1>3, RestKeepsInv DEF Restart, AttemptsInv, InvestigationTypeOK
<1>4. CASE UNCHANGED investigationVars
  BY <1>4 DEF investigationVars, AttemptsInv, InvestigationTypeOK, RowsNumbered, RowsInHand,
              AttemptsCounted, NoResult, Current, Trying
<1> QED BY <1>1, <1>2, <1>3, <1>4, CrashKeepsInv, TimeKeepsInv DEF InvestigationNext

(* The rows of an event without a result are its attempts 1, 2, ..., the   *)
(* ones in hand are the next, or will be turned away by their id, and once *)
(* the retries are used up each of them has its worker.                    *)
THEOREM AttemptsInvariant == InvestigationSpec => []AttemptsInv
BY AttemptsInit, AttemptsStep, PTL DEF InvestigationSpec

(* Rows are rows, their ids are unique for each event, however workers     *)
(* overtake each other, and an actor that is busy has an event.            *)
THEOREM InvestigationTypeCorrect == InvestigationSpec => []InvestigationTypeOK
<1>1. AttemptsInv => InvestigationTypeOK
  BY DEF AttemptsInv
<1> QED BY <1>1, AttemptsInvariant, PTL

(* As long as an event has no result, its retry count passes max_retries   *)
(* by no more than the workers besides the one that recorded the last      *)
(* retry: no crash, duplicate or late record makes them more.              *)
THEOREM RetriesAreBounded == InvestigationSpec => []RetriesBounded
<1>1. ASSUME AttemptsInv PROVE RetriesBounded
  <2> SUFFICES ASSUME NEW e \in Events, NoResult(e), NEW i \in DOMAIN results[e]
               PROVE  results[e][i].retries <= RetryBound
    BY DEF RetriesBounded
  <2>1. results[e] \in Seq(Row) /\ Len(results[e]) \in Nat
    BY <1>1 DEF AttemptsInv, InvestigationTypeOK
  <2>2. results[e][i].retries = i /\ i \in 1..Len(results[e])
    BY <1>1, <2>1 DEF AttemptsInv, RowsNumbered
  <2>3. Len(results[e]) <= RetryBound
    <3>1. CASE Len(results[e]) >= MaxRetries
      <4>1. Len(results[e]) + Cardinality(Trying(e)) <= RetryBound
        BY <1>1, <3>1 DEF AttemptsInv, AttemptsCounted
      <4> QED BY <2>1, <4>1, TryingFacts, BoundTypes
    <3>2. CASE Len(results[e]) < MaxRetries
      BY <2>1, <3>2, BoundTypes
    <3> QED BY <2>1, <3>1, <3>2, BoundTypes
  <2> QED BY <2>1, <2>2, <2>3, BoundTypes
<1> QED BY <1>1, AttemptsInvariant, PTL
=============================================================================
