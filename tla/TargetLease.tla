---------------------------- MODULE TargetLease ----------------------------
(***************************************************************************)
(* The lease protocol of the targets table and the workers that use it:    *)
(* Repository.claim_targets, finalize_execution, commit_target_execution   *)
(* and release_target_lease, driven by ScheduledRunner.run_once.  Every    *)
(* worker is a process with its own SQLite connection.                     *)
(*                                                                         *)
(* Granularity.  Python's sqlite3 opens a transaction at the first         *)
(* INSERT/UPDATE and not at a SELECT, so claim_targets is two atomic       *)
(* steps: the SELECT of schedulable rows, and the transaction with all its *)
(* UPDATEs.  finalize_execution selects the token before it updates, but   *)
(* its UPDATE repeats the test "claim_token = ?", so one step at the       *)
(* instant of the UPDATE (or of the SELECT that already fails) has the     *)
(* same outcomes.                                                          *)
(*                                                                         *)
(* A uuid4 claim token is the number of the claim_targets call that made   *)
(* it (tokens are only ever compared together with the target id).  0      *)
(* stands for NULL in claim_token and in next_allowed_at.                  *)
(***************************************************************************)
EXTENDS Integers, FiniteSets

CONSTANTS
  Workers,      \* worker processes
  Targets,      \* rows of the targets table
  None,         \* NULL in lease_owner
  LeaseTime,    \* lease_duration_sec
  Interval,     \* the check interval of a target
  Backoff,      \* the delay of a temporary failure
  Cooldown,     \* the delay of a long isolation
  ClaimLimit,   \* limit of one claim_targets call
  MaxTime,      \* bound on the clock
  MaxClaims     \* bound on claim_targets calls

ASSUME NoneAssumption == None \notin Workers
ASSUME DelayAssumption ==
  /\ LeaseTime \in Nat \ {0}
  /\ Interval \in Nat \ {0}
  /\ Backoff \in Nat \ {0}
  /\ Cooldown \in Nat \ {0}
ASSUME BoundAssumption == ClaimLimit \in Nat /\ MaxTime \in Nat /\ MaxClaims \in Nat

VARIABLES
  now,          \* wall clock
  \* the targets table
  status,       \* status[t]
  nextAllowed,  \* next_allowed_at
  owner,        \* lease_owner
  leaseUntil,   \* lease_until
  token,        \* claim_token
  \* the workers
  pc,           \* where in run_once the worker is
  startedAt,    \* the "now" run_once took at its start and uses throughout
  picked,       \* target ids the SELECT of claim_targets returned
  snapshot,     \* the status the SELECT returned with each of them
  held,         \* held[w][t]: claim_token of the Target object w works on, or 0
  \* bookkeeping
  claims,       \* number of claim_targets calls: the source of fresh tokens
  accepted      \* accepted[t]: token of the last result stored (history)

rowVars == <<status, nextAllowed, owner, leaseUntil, token>>
workerVars == <<pc, startedAt, picked, snapshot, held>>
vars == <<now, rowVars, workerVars, claims, accepted>>

Status == {"normal", "backoff", "cooldown", "recovering"}

NothingHeld == [t \in Targets |-> 0]

TypeOK ==
  /\ now \in Nat
  /\ status \in [Targets -> Status]
  /\ nextAllowed \in [Targets -> Nat]
  /\ owner \in [Targets -> Workers \cup {None}]
  /\ leaseUntil \in [Targets -> Nat]
  /\ token \in [Targets -> Nat]
  /\ pc \in [Workers -> {"idle", "started", "selected", "running"}]
  /\ startedAt \in [Workers -> Nat]
  /\ picked \in [Workers -> SUBSET Targets]
  /\ snapshot \in [Workers -> [Targets -> Status]]
  /\ held \in [Workers -> [Targets -> Nat]]
  /\ claims \in Nat
  /\ accepted \in [Targets -> Nat]

Init ==
  /\ now = 1
  /\ status = [t \in Targets |-> "normal"]
  /\ nextAllowed = [t \in Targets |-> 0]
  /\ owner = [t \in Targets |-> None]
  /\ leaseUntil = [t \in Targets |-> 0]
  /\ token = [t \in Targets |-> 0]
  /\ pc = [w \in Workers |-> "idle"]
  /\ startedAt = [w \in Workers |-> 0]
  /\ picked = [w \in Workers |-> {}]
  /\ snapshot = [w \in Workers |-> [t \in Targets |-> "normal"]]
  /\ held = [w \in Workers |-> NothingHeld]
  /\ claims = 0
  /\ accepted = [t \in Targets |-> 0]

-----------------------------------------------------------------------------
(* run_once begins: it takes "now" once and passes it to every later call. *)
Start(w) ==
  /\ pc[w] = "idle"
  /\ pc' = [pc EXCEPT ![w] = "started"]
  /\ startedAt' = [startedAt EXCEPT ![w] = now]
  /\ UNCHANGED <<now, rowVars, picked, snapshot, held, claims, accepted>>

(* "lease_until IS NULL OR lease_until < now", with the worker's own now. *)
Unleased(w, t) == leaseUntil[t] = 0 \/ leaseUntil[t] < startedAt[w]

(* The WHERE clause of claim_targets' SELECT. *)
Schedulable(w, t) ==
  /\ status[t] \in {"normal", "recovering", "cooldown"}
  /\ nextAllowed[t] <= startedAt[w]
  /\ Unleased(w, t)

(* ORDER BY next_allowed_at LIMIT ClaimLimit: which rows the SELECT yields. *)
FirstSchedulable(w, S) ==
  LET E == {t \in Targets : Schedulable(w, t)}
  IN /\ S \subseteq E
     /\ Cardinality(S) <= ClaimLimit
     /\ S # E => Cardinality(S) = ClaimLimit
     /\ \A t \in S, u \in E \ S : nextAllowed[t] <= nextAllowed[u]

ClaimSelect(w) ==
  /\ pc[w] = "started"
  /\ \E S \in SUBSET Targets :
       /\ FirstSchedulable(w, S)
       /\ picked' = [picked EXCEPT ![w] = S]
  /\ snapshot' = [snapshot EXCEPT ![w] = status]
  /\ pc' = [pc EXCEPT ![w] = "selected"]
  /\ UNCHANGED <<now, rowVars, startedAt, held, claims, accepted>>

(* A cooled-down target is claimed as a recovery probe. *)
ClaimedStatus(s) == IF s = "cooldown" THEN "recovering" ELSE s

(* A mutant: the UPDATEs of claim_targets without the test of lease_until. *)
LeasableAnyway(w) == picked[w]

(* The rows that the UPDATEs of claim_targets change. *)
Leasable(w) == {t \in picked[w] : Unleased(w, t)}

(* A mutant: a token that only says that the row is claimed. *)
FreshTokenConstant == 1

(* uuid4: a token nobody has seen. *)
FreshToken == claims + 1

(* The transaction of claim_targets: each UPDATE is guarded by the lease   *)
(* alone, and each selected row is returned as claimed whatever rowcount.  *)
ClaimUpdate(w) ==
  /\ pc[w] = "selected"
  /\ claims < MaxClaims
  /\ claims' = claims + 1
  /\ LET L == Leasable(w)
     IN /\ status' = [t \in Targets |-> IF t \in L THEN ClaimedStatus(snapshot[w][t]) ELSE status[t]]
        /\ owner' = [t \in Targets |-> IF t \in L THEN w ELSE owner[t]]
        /\ leaseUntil' = [t \in Targets |-> IF t \in L THEN startedAt[w] + LeaseTime ELSE leaseUntil[t]]
        /\ token' = [t \in Targets |-> IF t \in L THEN FreshToken ELSE token[t]]
  /\ held' = [held EXCEPT ![w] = [t \in Targets |-> IF t \in picked[w] THEN FreshToken ELSE 0]]
  /\ snapshot' = [snapshot EXCEPT ![w] = [t \in Targets |-> ClaimedStatus(snapshot[w][t])]]
  /\ pc' = [pc EXCEPT ![w] = "running"]
  /\ UNCHANGED <<now, nextAllowed, startedAt, picked, accepted>>

-----------------------------------------------------------------------------
(* A mutant: the cooldown is subtracted. *)
TransitionsBackwards(s, t0) ==
  {[status |-> "normal", next |-> t0 + Interval], [status |-> "cooldown", next |-> t0 - Cooldown]}

(* What transition_for can return for a Target object with status s, at t0. *)
Transitions(s, t0) ==
  {[status |-> "normal", next |-> t0 + Interval],
   [status |-> "cooldown", next |-> t0 + Cooldown]}
  \cup IF s \in {"cooldown", "recovering"} THEN {}
       ELSE {[status |-> "backoff", next |-> t0 + Backoff]}

(* The worker is done with target t and goes on to the next one. *)
Drop(w, t) == held' = [held EXCEPT ![w][t] = 0]

(* A mutant: the owner column is forgotten. *)
ClearLeaseButOwner(t) ==
  /\ leaseUntil' = [leaseUntil EXCEPT ![t] = 0]
  /\ token' = [token EXCEPT ![t] = 0]
  /\ UNCHANGED owner

(* A mutant: the token column is forgotten. *)
ClearLeaseButToken(t) ==
  /\ owner' = [owner EXCEPT ![t] = None]
  /\ leaseUntil' = [leaseUntil EXCEPT ![t] = 0]
  /\ UNCHANGED token

(* The SET clause of finalize_execution and release_target_lease. *)
ClearLease(t) ==
  /\ owner' = [owner EXCEPT ![t] = None]
  /\ leaseUntil' = [leaseUntil EXCEPT ![t] = 0]
  /\ token' = [token EXCEPT ![t] = 0]

Working(w, t) == pc[w] = "running" /\ held[w][t] # 0

(* A mutant: no fencing. *)
OwnsAlways(w, t) == TRUE

(* "AND claim_token = ?" *)
Owns(w, t) == token[t] = held[w][t]

(* finalize_execution: the token still matches, the result is stored and   *)
(* the lease cleared.                                                      *)
Commit(w, t) ==
  /\ Working(w, t)
  /\ Owns(w, t)
  /\ \E r \in Transitions(snapshot[w][t], startedAt[w]) :
       /\ status' = [status EXCEPT ![t] = r.status]
       /\ nextAllowed' = [nextAllowed EXCEPT ![t] = r.next]
  /\ ClearLease(t)
  /\ accepted' = [accepted EXCEPT ![t] = token[t]]
  /\ Drop(w, t)
  /\ UNCHANGED <<now, pc, startedAt, picked, snapshot, claims>>

(* release_target_lease: the policy blocked the fetch, the adapter raised, *)
(* or a tag or registry filter dropped the target after the claim.         *)
Release(w, t) ==
  /\ Working(w, t)
  /\ Owns(w, t)
  /\ ClearLease(t)
  /\ Drop(w, t)
  /\ UNCHANGED <<now, status, nextAllowed, pc, startedAt, picked, snapshot, claims, accepted>>

(* finalize_execution or release_target_lease returns False: the token no  *)
(* longer matches.  The worker logs and goes on.                           *)
Rejected(w, t) ==
  /\ Working(w, t)
  /\ ~Owns(w, t)
  /\ Drop(w, t)
  /\ UNCHANGED <<now, rowVars, pc, startedAt, picked, snapshot, claims, accepted>>

(* An SQLite error inside finalize_execution rolls everything back and     *)
(* returns False; the lease stays until it expires.                        *)
RolledBack(w, t) ==
  /\ Working(w, t)
  /\ Owns(w, t)
  /\ Drop(w, t)
  /\ UNCHANGED <<now, rowVars, pc, startedAt, picked, snapshot, claims, accepted>>

(* run_once is over: its local variables are gone. *)
Forget(w) ==
  /\ pc' = [pc EXCEPT ![w] = "idle"]
  /\ startedAt' = [startedAt EXCEPT ![w] = 0]
  /\ picked' = [picked EXCEPT ![w] = {}]
  /\ snapshot' = [snapshot EXCEPT ![w] = [t \in Targets |-> "normal"]]
  /\ held' = [held EXCEPT ![w] = NothingHeld]

(* run_once returns. *)
Finish(w) ==
  /\ pc[w] = "running"
  /\ held[w] = NothingHeld
  /\ Forget(w)
  /\ UNCHANGED <<now, rowVars, claims, accepted>>

(* The process dies (or run_once raises, which ends the daemon loop) and   *)
(* is started again; its leases stay in the table.                         *)
Crash(w) ==
  /\ pc[w] # "idle"
  /\ Forget(w)
  /\ UNCHANGED <<now, rowVars, claims, accepted>>

Tick ==
  /\ now < MaxTime
  /\ now' = now + 1
  /\ UNCHANGED <<rowVars, workerVars, claims, accepted>>

TargetStep(w, t) == Commit(w, t) \/ Release(w, t) \/ Rejected(w, t) \/ RolledBack(w, t)

WorkerStep(w) ==
  \/ Start(w) \/ ClaimSelect(w) \/ ClaimUpdate(w) \/ Finish(w) \/ Crash(w)
  \/ \E t \in Targets : TargetStep(w, t)

Next == Tick \/ \E w \in Workers : WorkerStep(w)

Spec == Init /\ [][Next]_vars

-----------------------------------------------------------------------------
(* PROPERTIES                                                              *)

(* An unexpired lease is never handed to another claim, and a lease ends   *)
(* only through the worker it was given to, while that worker still works  *)
(* on the target under that very token: the guards of claim_targets' and   *)
(* release_target_lease's UPDATEs together protect whoever holds a lease.  *)
LeaseProtectedStep(t) ==
  token[t] # 0 /\ token'[t] # token[t] =>
    \/ token'[t] # 0 /\ leaseUntil[t] < now
    \/ /\ token'[t] = 0
       /\ owner[t] \in Workers
       /\ held[owner[t]][t] = token[t]
       /\ held'[owner[t]][t] = 0
LeaseProtected == [][\A t \in Targets : LeaseProtectedStep(t)]_vars

(* The durable state of a target (status, next_allowed_at) changes only in *)
(* a step of a worker whose token is stored in the row: one that commits   *)
(* under it, or one that stores it in this very step.  A worker that lost  *)
(* its lease changes nothing.                                              *)
ResultsFencedStep(t) ==
  status'[t] # status[t] \/ nextAllowed'[t] # nextAllowed[t] =>
    \E w \in Workers :
      \/ held[w][t] = token[t] /\ token[t] # 0 /\ held'[w][t] = 0
      \/ held'[w][t] = token'[t] /\ token'[t] # 0 /\ token'[t] # token[t]
ResultsFenced == [][\A t \in Targets : ResultsFencedStep(t)]_vars

(* The inductive invariant behind these properties.  Tokens never exceed   *)
(* the claims made; a stored token is newer than the last accepted one and *)
(* its lease is complete and names the only worker that can hold it; a     *)
(* worker outside the execution loop holds nothing; its "now" is past.     *)
TokensIssued ==
  \A t \in Targets :
    /\ token[t] <= claims /\ accepted[t] <= claims
    /\ \A w \in Workers : held[w][t] <= claims
TokenNewerThanAccepted == \A t \in Targets : token[t] # 0 => accepted[t] < token[t]
LeaseComplete ==
  \A t \in Targets :
    /\ token[t] = 0 => owner[t] = None /\ leaseUntil[t] = 0
    /\ token[t] # 0 => owner[t] \in Workers /\ leaseUntil[t] # 0
HolderIsOwner ==
  \A w \in Workers, t \in Targets :
    held[w][t] # 0 /\ held[w][t] = token[t] => owner[t] = w
OnlyRunningHolds ==
  \A w \in Workers :
    /\ pc[w] # "running" => held[w] = NothingHeld
    /\ startedAt[w] <= now
LeaseInv ==
  /\ TokensIssued
  /\ TokenNewerThanAccepted
  /\ LeaseComplete
  /\ HolderIsOwner
  /\ OnlyRunningHolds

(* Once a newer claim of a target has had its result stored, no worker     *)
(* with an older claim can ever store one: its token is not in the row.    *)
OvertakenIsFenced ==
  \A w \in Workers, t \in Targets :
    held[w][t] # 0 /\ held[w][t] <= accepted[t] => token[t] # held[w][t]

(* The table keeps the promise of FencedStore: results are accepted under  *)
(* the current claim, each claim once, in the order the claims were made.  *)
Fenced == INSTANCE FencedStore WITH issued <- claims, current <- token
ImplementsFencedStore == Fenced!FencedSpec
=============================================================================
