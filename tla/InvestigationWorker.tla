-------------------------- MODULE InvestigationWorker --------------------------
(***************************************************************************)
(* Automatic investigations: workers that poll open events                 *)
(* (InvestigationWorker), the dispatch that follows a correlation          *)
(* (EventCorrelator.dispatch_investigation), the adapter, planner and      *)
(* engine they run, and the rows of investigation_results all of them      *)
(* read before and write after a run.                                      *)
(*                                                                         *)
(* The rows of an event are a sequence in the order of created_at; the row *)
(* id is unique: <<>> for inv_wk_<event>, <<0>> for inv_auto_<event>, and  *)
(* _retry_<n> appends n.  The worker is the one of the library: the worker *)
(* command of cli_handlers.py builds it without adapter, planner or        *)
(* engine, and then process_event always returns False.                    *)
(***************************************************************************)
EXTENDS Integers, Sequences, FiniteSets

CONSTANTS
  Workers, Dispatchers,
  Count,        \* events 1..Count, by created_at, all of them open
  Importance,   \* of the events
  BatchSize,
  MaxRetries,   \* max_retries
  Backoff,      \* base_backoff_sec
  MaxSteps, MaxPages,   \* InvestigationPolicy
  Pages,        \* pages a tool may fetch
  MaxCrashes    \* bound: workers and dispatchers that die of themselves

Events == 1..Count

ASSUME InvestigationAssumption ==
  /\ Count \in Nat /\ Importance \in [Events -> {"interesting", "important", "critical"}]
  /\ BatchSize \in Nat \ {0} /\ MaxRetries \in Nat \ {0} /\ Backoff \in Nat \ {0}
  /\ MaxSteps \in Nat \ {0} /\ MaxPages \in Nat /\ Pages \subseteq Nat /\ Pages # {}
  /\ MaxCrashes \in Nat
  /\ IsFiniteSet(Workers) /\ Workers # {} /\ Workers \cap Dispatchers = {}

VARIABLES
  results,  \* event -> its rows
  wait,     \* event -> time until next_retry_after of its latest row, 0 for NULL or past
  worker,   \* workers and dispatchers: pc, events still to be processed, row to insert
  crashes

investigationVars == <<results, wait, worker, crashes>>

Actors == Workers \cup Dispatchers
Statuses == {"success", "failed", "timeout", "budget_exceeded"}
Row == [id : Seq(Nat), status : Statuses, retries : Nat]
Working == [pc : {"idle", "polled", "running", "dead"}, batch : SUBSET Events]
Writing == [pc : {"saving", "failed"}, batch : SUBSET Events, row : Row]
Idle == [pc |-> "idle", batch |-> {}]

(* More than Cardinality(Workers) - 1 attempts cannot overlap the last one. *)
RetryBound == MaxRetries + Cardinality(Workers) - 1

InvestigationTypeOK ==
  /\ results \in [Events -> Seq(Row)]
  /\ \A e \in Events : \A i, j \in DOMAIN results[e] : results[e][i].id = results[e][j].id => i = j
  /\ wait \in [Events -> Nat]
  /\ worker \in [Actors -> Working \cup Writing]
  /\ \A a \in Actors : worker[a].pc \in {"polled", "running", "saving", "failed"} => worker[a].batch # {}
  /\ crashes \in 0..MaxCrashes

InvestigationInit ==
  /\ results = [e \in Events |-> <<>>]
  /\ wait = [e \in Events |-> 0]
  /\ worker = [a \in Actors |-> Idle]
  /\ crashes = 0

-----------------------------------------------------------------------------
(* get_investigation_result_by_event. *)
NoRow == [id |-> <<>>, status |-> "success", retries |-> 0]
Investigated(e) == results[e] # <<>>
Latest(e) == IF Investigated(e) THEN results[e][Len(results[e])] ELSE NoRow

(* A mutant: off by one. *)
ExhaustedLate(e) == Latest(e).retries > MaxRetries

Exhausted(e) == Latest(e).retries >= MaxRetries

(* A mutant: as dispatch_investigation has it. *)
DueOnce(e) == ~Investigated(e)

(* The WHERE of fetch_uninvestigated_events: a row without retry_count is  *)
(* final, also one of a run that failed.                                   *)
Due(e) == Investigated(e) => Latest(e).retries # 0 /\ ~Exhausted(e) /\ wait[e] = 0

(* is_eligible, with min_importance IMPORTANT. *)
Eligible(e) == Importance[e] \in {"important", "critical"}

(* _should_retry: a row without retry_count is retried here. *)
ShouldRetry(e) == Investigated(e) => ~Exhausted(e) /\ wait[e] = 0

(* ORDER BY created_at LIMIT batch_size; eligibility is not asked here. *)
Batch == {e \in Events : Due(e) /\ Cardinality({f \in 1..(e - 1) : Due(f)}) < BatchSize}

Poll(w) ==
  /\ worker[w].pc = "idle"
  /\ Batch # {}
  /\ worker' = [worker EXCEPT ![w] = [pc |-> "polled", batch |-> Batch]]
  /\ UNCHANGED <<results, wait, crashes>>

(* The events of a batch are processed in its order. *)
Earliest(batch) == CHOOSE e \in batch : \A f \in batch : e <= f
Current(a) == Earliest(worker[a].batch)

NextOf(a) ==
  LET left == worker[a].batch \ {Current(a)}
  IN [pc |-> IF left # {} THEN "polled" ELSE "idle", batch |-> left]

(* process_event up to the run; what is not eligible or not to be retried  *)
(* is passed over.                                                         *)
Begin(w) ==
  /\ w \in Workers /\ worker[w].pc = "polled"
  /\ LET e == Current(w)
     IN worker' = [worker EXCEPT ![w] = IF Eligible(e) /\ ShouldRetry(e)
                                        THEN [pc |-> "running", batch |-> @.batch] ELSE NextOf(w)]
  /\ UNCHANGED <<results, wait, crashes>>

(* Engine.execute of the one step of a plan: the result of a tool that     *)
(* raised, or the first of the checks that fails.                          *)
EngineStatus(raised, late, pages, ok) ==
  IF MaxSteps < 1 THEN "budget_exceeded"
  ELSE IF raised THEN "failed"
  ELSE IF late THEN "timeout"
  ELSE IF pages > MaxPages THEN "budget_exceeded"
  ELSE IF ok THEN "success" ELSE "failed"

(* run_for_event returns a result of any status ... *)
Runs(a, success) ==
  /\ worker[a].pc = "running"
  /\ \E raised, late, ok \in BOOLEAN, pages \in Pages :
       worker' = [worker EXCEPT ![a] = [pc |-> "saving", batch |-> @.batch,
                    row |-> [id |-> success, status |-> EngineStatus(raised, late, pages, ok), retries |-> 0]]]
  /\ UNCHANGED <<results, wait, crashes>>

(* _record_failed_investigation, from the row that is the latest by now. *)
FailedRow(e) ==
  LET count == Latest(e).retries + 1
  IN [id |-> Append(Latest(e).id, count), status |-> "failed", retries |-> count]

(* ... or raises (PlannerError among others) or returns nothing. *)
RunFails(w) ==
  /\ w \in Workers /\ worker[w].pc = "running"
  /\ worker' = [worker EXCEPT ![w] = [pc |-> "failed", batch |-> @.batch, row |-> FailedRow(Current(w))]]
  /\ UNCHANGED <<results, wait, crashes>>

(* next_retry_after: none after the last retry. *)
WaitAfter(row) == IF row.retries \in 1..(MaxRetries - 1) THEN Backoff * 2^(row.retries - 1) ELSE 0

(* A mutant: ids are not unique. *)
SaveAnyway(a) ==
  /\ worker[a].pc \in {"saving", "failed"}
  /\ LET e == Current(a)
     IN /\ results' = [results EXCEPT ![e] = Append(@, worker[a].row)]
        /\ wait' = [wait EXCEPT ![e] = WaitAfter(worker[a].row)]
  /\ worker' = [worker EXCEPT ![a] = NextOf(a)]
  /\ UNCHANGED crashes

(* save_investigation_result.  A second row of an id is an IntegrityError, *)
(* which none of the handlers names: it ends the worker or the dispatcher. *)
Save(a) ==
  /\ worker[a].pc \in {"saving", "failed"}
  /\ LET e == Current(a)
         row == worker[a].row
     IN IF \E i \in DOMAIN results[e] : results[e][i].id = row.id
        THEN /\ worker' = [worker EXCEPT ![a] = [Idle EXCEPT !.pc = "dead"]]
             /\ UNCHANGED <<results, wait>>
        ELSE /\ results' = [results EXCEPT ![e] = Append(@, row)]
             /\ wait' = [wait EXCEPT ![e] = WaitAfter(row)]
             /\ worker' = [worker EXCEPT ![a] = NextOf(a)]
  /\ UNCHANGED crashes

-----------------------------------------------------------------------------
(* dispatch_investigation of an event without any row; a run that raises   *)
(* or returns nothing leaves none.                                         *)
Dispatch(d) ==
  /\ worker[d].pc = "idle"
  /\ \E e \in Events : /\ Eligible(e) /\ ~Investigated(e)
                       /\ worker' = [worker EXCEPT ![d] = [pc |-> "running", batch |-> {e}]]
  /\ UNCHANGED <<results, wait, crashes>>

DispatchFails(d) ==
  /\ worker[d].pc = "running"
  /\ worker' = [worker EXCEPT ![d] = Idle]
  /\ UNCHANGED <<results, wait, crashes>>

(* The process of an actor ends, between any two of its steps. *)
Crash(a) ==
  /\ crashes < MaxCrashes /\ worker[a].pc \notin {"idle", "dead"}
  /\ worker' = [worker EXCEPT ![a] = [Idle EXCEPT !.pc = "dead"]]
  /\ crashes' = crashes + 1
  /\ UNCHANGED <<results, wait>>

Restart(a) ==
  /\ worker[a].pc = "dead"
  /\ worker' = [worker EXCEPT ![a] = Idle]
  /\ UNCHANGED <<results, wait, crashes>>

TimePasses ==
  /\ \E e \in Events : wait[e] > 0
  /\ wait' = [e \in Events |-> IF wait[e] > 0 THEN wait[e] - 1 ELSE 0]
  /\ UNCHANGED <<results, worker, crashes>>

WorkerStep(w) == Poll(w) \/ Begin(w) \/ Runs(w, <<>>) \/ RunFails(w) \/ Save(w)
DispatcherStep(d) == Dispatch(d) \/ Runs(d, <<0>>) \/ DispatchFails(d) \/ Save(d)

InvestigationNext ==
  \/ \E w \in Workers : WorkerStep(w)
  \/ \E d \in Dispatchers : DispatcherStep(d)
  \/ \E a \in Actors : Crash(a) \/ Restart(a)
  \/ TimePasses

(* Workers poll and finish what they began, whatever the outcome, a dead   *)
(* one is started again, and time passes.                                  *)
InvestigationFairness ==
  /\ \A w \in Workers : WF_investigationVars(WorkerStep(w)) /\ WF_investigationVars(Restart(w))
  /\ WF_investigationVars(TimePasses)

InvestigationSpec == InvestigationInit /\ [][InvestigationNext]_investigationVars /\ InvestigationFairness

-----------------------------------------------------------------------------
(* PROPERTIES                                                              *)

(* However the attempts of several workers interleave, and whoever writes  *)
(* between a run and its record: as long as no attempt has left a result,  *)
(* retry_count passes max_retries by no more than the other workers that   *)
(* were already running.  (A result has no retry_count, and the worker     *)
(* that fails next begins to count anew.)                                  *)
NoResult(e) == \A i \in DOMAIN results[e] : results[e][i].retries # 0
RetriesBounded ==
  \A e \in Events : NoResult(e) => \A i \in DOMAIN results[e] : results[e][i].retries <= RetryBound

(* Every eligible event is dealt with: it gets a result, or its retries    *)
(* are used up, whatever dies in between.  It needs a batch with room for  *)
(* all events that are not eligible and stay due.                          *)
Settled(e) == \E i \in DOMAIN results[e] : results[e][i].retries \in {0} \cup MaxRetries..RetryBound
EveryEligibleSettles == \A e \in Events : Eligible(e) => <>Settled(e)
=============================================================================
