--------------------------- MODULE TargetLifecycle ---------------------------
(***************************************************************************)
(* One target over time, watched by one daemon: claimed, fetched,          *)
(* transitioned through FetchPolicy, released or lost to a crash, while an *)
(* operator may edit the rules file, switch the rule off in the registry,  *)
(* and run "targets batch-enable", "batch-retag" or "batch-delete".        *)
(* Contention between workers is TargetLease's subject, between workers    *)
(* and the synchronisation of rules that of RuleSync; here claim_targets   *)
(* and sync_rules are one step each.                                       *)
(*                                                                         *)
(* Time is relative: wait and lease count the ticks until next_allowed_at  *)
(* is reached and until lease_until is past, so that behaviours need no    *)
(* time bound.  The run stamps everything with the "now" of its start,     *)
(* age ticks ago.                                                          *)
(***************************************************************************)
EXTENDS FetchPolicy

CONSTANTS
  LeaseTime,    \* lease_duration_sec of claim_targets
  MaxRun,       \* bound on the ticks one run takes (fetches have timeouts)
  NoObject      \* no Target object in memory

ASSUME LifecycleAssumption == LeaseTime \in Nat \ {0} /\ MaxRun \in Nat

VARIABLES
  row,    \* the target's row
  rule,   \* whether the rules file lists the target's rule, and the registry has it enabled
  run,    \* the Target object the daemon works on, the age of the run, and whether
          \* the rule is in the filtered rule cache
  copy,   \* the Target object of batch-enable or -retag between list_targets and save_target
  \* history of the last stored result
  owed,   \* ticks, from the response on, it demands before the next request
  late,   \* age of its run when the response came
  cause,  \* what it was, and what batch-enable or -retag have made of it since
  stale   \* whether it is newer than copy

history == <<owed, late, cause, stale>>
vars == <<row, rule, run, copy, history>>

(* A bound on the counter, beyond the last rung of the ladder: what a      *)
(* larger count would do is the same.                                      *)
FailureCap == MaxFailures + Len(Ladder)

(* uuid4 tokens: a fresh one differs from all that anyone remembers, and   *)
(* at most three are remembered.  0 is NULL.                               *)
Tokens == 1..4
Fresh == Tokens \ ({row.token}
                    \cup (IF run = NoObject THEN {} ELSE {run.token})
                    \cup (IF copy = NoObject THEN {} ELSE {copy.token}))

RowType == [status : Status \cup {"absent"}, failures : 0..FailureCap, wait : Nat, lease : Nat, token : {0} \cup Tokens]
RunType == [status : Status, failures : 0..FailureCap, token : Tokens, age : 0..MaxRun,
            watched : BOOLEAN]

TypeOK ==
  /\ row \in RowType
  /\ rule \in [listed : BOOLEAN, enabled : BOOLEAN]
  /\ run \in RunType \cup {NoObject}
  /\ copy \in RowType \cup {NoObject}
  /\ owed \in Nat /\ late \in Nat
  /\ cause \in {"none", "failure", "enabled", "overwritten"}
  /\ stale \in BOOLEAN

(* The row that sync_rules inserts, and what is left after delete_target. *)
NewRow == [status |-> "normal", failures |-> 0, wait |-> 0, lease |-> 0, token |-> 0]
Deleted == [NewRow EXCEPT !.status = "absent"]

Init ==
  /\ row = Deleted
  /\ rule = [listed |-> TRUE, enabled |-> TRUE]
  /\ run = NoObject
  /\ copy = NoObject
  /\ owed = 0 /\ late = 0 /\ cause = "none" /\ stale = FALSE

-----------------------------------------------------------------------------
(* sync_rules at the start of run_once: a rule of the file without a row   *)
(* gets one.  (What it does to a row that exists is left to RuleSync.)     *)
Insert ==
  /\ run = NoObject
  /\ rule.listed /\ row.status = "absent"
  /\ row' = NewRow
  /\ UNCHANGED <<rule, run, copy, history>>

(* The rule cache of the run: rules of the file, without those that the    *)
(* tag filter drops or the registry has disabled; no entry is enabled.     *)
Watched == rule.listed /\ rule.enabled

(* A mutant: a probe whose worker died is not selected again. *)
SchedulableNoProbe == row.status \in {"normal", "cooldown"} /\ row.wait = 0 /\ row.lease = 0

(* claim_targets at the start of run_once. *)
Schedulable ==
  /\ row.status \in {"normal", "recovering", "cooldown"}
  /\ row.wait = 0
  /\ row.lease = 0

Claim ==
  /\ run = NoObject
  /\ Schedulable
  /\ LET claimed == IF row.status = "cooldown" THEN "recovering" ELSE row.status
     IN \E k \in Fresh :
          /\ \A j \in Fresh : k <= j
          /\ row' = [row EXCEPT !.status = claimed, !.lease = LeaseTime + 1, !.token = k]
          /\ run' = [status |-> claimed, failures |-> row.failures, token |-> k, age |-> 0,
                     watched |-> Watched]
  /\ UNCHANGED <<rule, copy, history>>

(* A mutant: a time in the past is taken as it comes. *)
FromNowSigned(delay) == delay - run.age

(* Counted from the start of the run; time that has passed meanwhile is gone. *)
FromNow(delay) == AtLeast(0, delay - run.age)

(* The least that README's table of HTTP semantics and the policy's own    *)
(* comments ask for after a response.                                      *)
LeastBackoff == AtLeast(1, BaseBackoff - BaseBackoff \div JitterDivisor)
Demanded(response) == IF response = "forbidden" THEN Ladder[1] ELSE LeastBackoff

(* A stored result: its demand counts from the response, not from the      *)
(* start of the run, and copies in memory are older than it.               *)
Remember(response) ==
  /\ IF response \in Successes
     THEN owed' = 0 /\ late' = 0 /\ cause' = "none"
     ELSE owed' = Demanded(response) /\ late' = run.age /\ cause' = "failure"
  /\ stale' = (copy # NoObject)

(* finalize_execution under a matching token. *)
Finalize(response) ==
  /\ run # NoObject
  /\ run.watched
  /\ row.token = run.token
  /\ \E t \in Transitions(run.status, run.failures, response) :
       row' = [status |-> t.status, failures |-> AtMost(t.failures, FailureCap),
               wait |-> FromNow(t.delay), lease |-> 0, token |-> 0]
  /\ Remember(response)
  /\ run' = NoObject
  /\ UNCHANGED <<rule, copy>>

(* release_target_lease: status and next_allowed_at stay as claimed. *)
Released == IF row.token = run.token THEN [row EXCEPT !.lease = 0, !.token = 0] ELSE row

(* The claimed target is not in the rule cache: claimed for nothing, and a *)
(* cooldown that is over has become a probe that does not take place.      *)
Filtered ==
  /\ run # NoObject /\ ~run.watched
  /\ row' = Released
  /\ run' = NoObject
  /\ UNCHANGED <<rule, copy, history>>

(* prepare_request answers no because of the host's window, or the rule's  *)
(* own status is "disabled": the computed transition is not stored.        *)
Blocked ==
  /\ run # NoObject /\ run.watched
  /\ row' = Released
  /\ run' = NoObject
  /\ UNCHANGED <<rule, copy, history>>

(* A timeout or connection error: evaluate_response raises, run_once       *)
(* catches the exception and releases the lease.  No failure is counted    *)
(* and no pause stored, although README.md's table wants both.             *)
FetchRaises ==
  /\ run # NoObject /\ run.watched
  /\ Transitions(run.status, run.failures, "noStatus") = {}
  /\ row' = Released
  /\ run' = NoObject
  /\ UNCHANGED <<rule, copy, history>>

(* finalize_execution returns False: the fence or an SQLite error; or the  *)
(* process dies.  The lease, if it is ours, stays until it expires.        *)
Lost ==
  /\ run # NoObject
  /\ run' = NoObject
  /\ UNCHANGED <<row, rule, copy, history>>

(* batch-enable and batch-retag: repo.list_targets(), then for each t a    *)
(* change and repo.save_target(t), which writes every column of the copy   *)
(* back, into a new row if the old one has been deleted meanwhile.         *)
BatchRead ==
  /\ copy = NoObject /\ row.status # "absent"
  /\ copy' \in {[row EXCEPT !.status = "normal"], row}
  /\ stale' = FALSE
  /\ UNCHANGED <<row, rule, run, owed, late, cause>>

BatchSave ==
  /\ copy # NoObject
  /\ row' = copy
  /\ copy' = NoObject
  /\ cause' = IF stale THEN "overwritten"
              ELSE IF cause = "failure" /\ copy.status = "normal" THEN "enabled"
              ELSE cause
  /\ stale' = FALSE
  /\ UNCHANGED <<rule, run, owed, late>>

(* batch-delete: delete_target, whoever holds a lease. *)
BatchDelete ==
  /\ row.status # "absent"
  /\ row' = Deleted
  /\ owed' = 0 /\ late' = 0 /\ cause' = "none"
  /\ UNCHANGED <<rule, run, copy, stale>>

(* The operator edits the file, or enables, disables or removes the entry  *)
(* of the registry.                                                        *)
EditFile ==
  /\ rule' = [rule EXCEPT !.listed = ~@]
  /\ UNCHANGED <<row, run, copy, history>>
Register ==
  /\ rule' = [rule EXCEPT !.enabled = ~@]
  /\ UNCHANGED <<row, run, copy, history>>

Less(n) == AtLeast(0, n - 1)
Aged(r) == [r EXCEPT !.wait = Less(@), !.lease = Less(@)]
Tick ==
  /\ run # NoObject => run.age < MaxRun
  /\ row' = Aged(row)
  /\ run' = IF run = NoObject THEN run ELSE [run EXCEPT !.age = @ + 1]
  /\ copy' = IF copy = NoObject THEN copy ELSE Aged(copy)
  /\ owed' = Less(owed)
  /\ UNCHANGED <<rule, late, cause, stale>>

EndRun ==
  \/ \E response \in Responses : Finalize(response)
  \/ Filtered \/ Blocked \/ FetchRaises \/ Lost

Operator == BatchRead \/ BatchSave \/ BatchDelete \/ EditFile \/ Register

Next == Insert \/ Claim \/ EndRun \/ Operator \/ Tick

(* Time passes, run_once is called again and again (cli_handlers.py,       *)
(* handle_daemon), and each run ends: fetches have timeouts.  How a run    *)
(* ends and what the operator does is left open.                           *)
Fairness == WF_vars(Tick) /\ WF_vars(Insert) /\ WF_vars(Claim) /\ WF_vars(EndRun)

Spec == Init /\ [][Next]_vars /\ Fairness

-----------------------------------------------------------------------------
(* PROPERTIES                                                              *)

(* After a stored 403, 404, 429 or 5xx the row keeps the next request away *)
(* for the least backoff (the first rung after a 403) from the response    *)
(* on, less only the time the run had taken until then, whichever path of  *)
(* the status machine stored it, and whatever is claimed, lost, blocked or *)
(* edited since.  batch-enable keeps it too; the exception is a batch      *)
(* command that writes back a row it read before the failure was stored.   *)
FailureDelayed == cause \in {"failure", "enabled"} => row.wait + late >= owed

(* A target that has just failed for the MaxFailures-th time in a row is   *)
(* isolated, never in mere backoff, until it succeeds, is enabled or is    *)
(* overwritten by a batch command with a row read before.                  *)
EscalatedIsIsolated ==
  cause = "failure" /\ row.failures >= MaxFailures => row.status \in Isolated

(* Whatever happens to runs (rolled back, fenced off, crashed, blocked,    *)
(* filtered, raising), the target is claimed again and again, unless it    *)
(* ends in BACKOFF for good or keeps being deleted: no lease or probe      *)
(* state is left that nobody picks up, and who is deleted comes back.      *)
KeepsBeingChecked ==
  \/ []<>(run # NoObject)
  \/ <>[](row.status = "backoff")
  \/ <>[](row.status = "absent" /\ ~rule.listed)
  \/ []<><<BatchDelete \/ EditFile>>_vars

(* models.py calls BACKOFF a temporary backoff; transition_for's reason is *)
(* "Temporary failure".  claim_targets never selects it.                   *)
BackoffIsTemporary == row.status = "backoff" ~> row.status # "backoff"
=============================================================================
