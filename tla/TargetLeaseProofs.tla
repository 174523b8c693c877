------------------------- MODULE TargetLeaseProofs -------------------------
(***************************************************************************)
(* Proofs about TargetLease for any number of workers, targets and claims  *)
(* and any delays.                                                         *)
(***************************************************************************)
EXTENDS TargetLease, TLAPS

(* What dropping a target from a worker's list does to held. *)
LEMMA DropEffect ==
  ASSUME NEW w \in Workers, NEW t \in Targets, TypeOK, Drop(w, t)
  PROVE  /\ held' \in [Workers -> [Targets -> Nat]]
         /\ held'[w][t] = 0
         /\ \A v \in Workers, u \in Targets : held'[v][u] = 0 \/ held'[v][u] = held[v][u]
         /\ \A u \in Targets : u # t => held'[w][u] = held[w][u]
         /\ \A v \in Workers : v # w => held'[v] = held[v]
BY DEF Drop, TypeOK

(* What the end of a run does to the worker's locals. *)
LEMMA ForgetEffect ==
  ASSUME NEW w \in Workers, TypeOK, Forget(w)
  PROVE  /\ held' \in [Workers -> [Targets -> Nat]]
         /\ held'[w] = NothingHeld
         /\ \A v \in Workers : v # w => held'[v] = held[v] /\ pc'[v] = pc[v] /\ startedAt'[v] = startedAt[v]
         /\ pc'[w] = "idle" /\ startedAt'[w] = 0
         /\ pc' \in [Workers -> {"idle", "started", "selected", "running"}]
         /\ startedAt' \in [Workers -> Nat]
         /\ picked' \in [Workers -> SUBSET Targets]
         /\ snapshot' \in [Workers -> [Targets -> Status]]
BY DEF Forget, TypeOK, NothingHeld, Status

(* A result transition_for can return is a status and a later time. *)
LEMMA TransitionTypes ==
  ASSUME NEW s \in Status, NEW t0 \in Nat, NEW r \in Transitions(s, t0)
  PROVE  r.status \in Status /\ r.next \in Nat
BY DelayAssumption DEF Transitions, Status

(* Every step keeps the types. *)
LEMMA TypeOKStep == TypeOK /\ [Next]_vars => TypeOK'
<1> SUFFICES ASSUME TypeOK, [Next]_vars PROVE TypeOK'
  OBVIOUS
<1> USE DEF rowVars, workerVars
<1>1. ASSUME NEW w \in Workers, Start(w) PROVE TypeOK'
  BY <1>1 DEF TypeOK, Start
<1>2. ASSUME NEW w \in Workers, ClaimSelect(w) PROVE TypeOK'
  BY <1>2 DEF TypeOK, ClaimSelect
<1>3. ASSUME NEW w \in Workers, ClaimUpdate(w) PROVE TypeOK'
  <2>1. \A s \in Status : ClaimedStatus(s) \in Status
    BY DEF ClaimedStatus, Status
  <2>2. /\ status' \in [Targets -> Status]
        /\ snapshot' \in [Workers -> [Targets -> Status]]
    BY <1>3, <2>1 DEF TypeOK, ClaimUpdate, FreshToken
  <2>3. /\ owner' \in [Targets -> Workers \cup {None}]
        /\ token' \in [Targets -> Nat]
        /\ claims' \in Nat
    BY <1>3 DEF TypeOK, ClaimUpdate, FreshToken
  <2>4. leaseUntil' \in [Targets -> Nat]
    BY <1>3, DelayAssumption DEF TypeOK, ClaimUpdate, FreshToken
  <2>5. held' \in [Workers -> [Targets -> Nat]]
    BY <1>3 DEF TypeOK, ClaimUpdate, FreshToken
  <2> QED
    BY <1>3, <2>2, <2>3, <2>4, <2>5 DEF TypeOK, ClaimUpdate, FreshToken
<1>4. ASSUME NEW w \in Workers, NEW t \in Targets, Commit(w, t) PROVE TypeOK'
  <2>1. PICK r \in Transitions(snapshot[w][t], startedAt[w]) :
          /\ status' = [status EXCEPT ![t] = r.status]
          /\ nextAllowed' = [nextAllowed EXCEPT ![t] = r.next]
    BY <1>4 DEF Commit
  <2>2. r.status \in Status /\ r.next \in Nat
    BY TransitionTypes DEF TypeOK
  <2>3. held' \in [Workers -> [Targets -> Nat]]
    BY <1>4, DropEffect DEF Commit
  <2>4. /\ status' \in [Targets -> Status]
        /\ nextAllowed' \in [Targets -> Nat]
    BY <2>1, <2>2 DEF TypeOK
  <2> QED
    BY <1>4, <2>3, <2>4 DEF TypeOK, Commit, ClearLease
<1>5. ASSUME NEW w \in Workers, NEW t \in Targets, Release(w, t) PROVE TypeOK'
  BY <1>5, DropEffect DEF TypeOK, Release, ClearLease
<1>6. ASSUME NEW w \in Workers, NEW t \in Targets, Rejected(w, t) \/ RolledBack(w, t) PROVE TypeOK'
  BY <1>6, DropEffect DEF TypeOK, Rejected, RolledBack
<1>7. ASSUME NEW w \in Workers, Finish(w) \/ Crash(w) PROVE TypeOK'
  BY <1>7, ForgetEffect DEF TypeOK, Finish, Crash
<1>8. CASE Tick
  BY <1>8 DEF TypeOK, Tick
<1>9. CASE UNCHANGED vars
  BY <1>9 DEF TypeOK, vars
<1> QED
  BY <1>1, <1>2, <1>3, <1>4, <1>5, <1>6, <1>7, <1>8, <1>9 DEF Next, WorkerStep, TargetStep

(* Every reachable state is well typed. *)
THEOREM TypeCorrect == Spec => []TypeOK
<1>1. Init => TypeOK
  BY NoneAssumption DEF Init, TypeOK, Status, NothingHeld
<1> QED
  BY <1>1, TypeOKStep, PTL DEF Spec

-----------------------------------------------------------------------------
(* A step that leaves the row of a target and the history alone, and only  *)
(* lets workers drop targets, keeps the invariant.                         *)
LEMMA DroppingKeepsInv ==
  ASSUME TypeOK, LeaseInv,
         UNCHANGED <<owner, leaseUntil, token, claims, accepted, now>>,
         \A w \in Workers, t \in Targets : held'[w][t] = 0 \/ held'[w][t] = held[w][t],
         \A w \in Workers : (pc'[w] # "running" => held'[w] = NothingHeld) /\ startedAt'[w] <= now
  PROVE  LeaseInv'
<1>1. TokensIssued'
  <2>1. claims \in Nat /\ \A w \in Workers, t \in Targets : held[w][t] <= claims
    BY DEF LeaseInv, TokensIssued, TypeOK
  <2>3. \A w \in Workers, t \in Targets : held'[w][t] <= claims
    BY <2>1
  <2> QED
    BY <2>3 DEF LeaseInv, TokensIssued
<1>2. TokenNewerThanAccepted' /\ LeaseComplete'
  BY DEF LeaseInv, TokenNewerThanAccepted, LeaseComplete
<1>3. HolderIsOwner'
  BY DEF LeaseInv, HolderIsOwner, TypeOK
<1>4. OnlyRunningHolds'
  BY DEF OnlyRunningHolds, NothingHeld
<1> QED
  BY <1>1, <1>2, <1>3, <1>4 DEF LeaseInv

(* Clearing the lease of t, whether or not its token becomes the accepted  *)
(* one, keeps the invariant.                                               *)
LEMMA ClearingKeepsInv ==
  ASSUME TypeOK, LeaseInv, NEW w \in Workers, NEW t \in Targets,
         Drop(w, t), ClearLease(t),
         UNCHANGED <<claims, now, pc, startedAt>>,
         accepted' = accepted \/ accepted' = [accepted EXCEPT ![t] = token[t]]
  PROVE  LeaseInv'
<1>0. /\ \A u \in Targets : u # t => token'[u] = token[u] /\ owner'[u] = owner[u] /\ leaseUntil'[u] = leaseUntil[u]
      /\ token'[t] = 0 /\ owner'[t] = None /\ leaseUntil'[t] = 0
      /\ \A u \in Targets : u # t => accepted'[u] = accepted[u]
      /\ accepted'[t] \in {accepted[t], token[t]}
  BY DEF ClearLease, TypeOK
<1>a. \A v \in Workers, u \in Targets : held'[v][u] = 0 \/ held'[v][u] = held[v][u]
  BY DropEffect
<1>1. TokensIssued'
  <2>1. claims \in Nat /\ \A v \in Workers, u \in Targets : held[v][u] <= claims
    BY DEF LeaseInv, TokensIssued, TypeOK
  <2>2. \A v \in Workers, u \in Targets : held'[v][u] <= claims
    BY <1>a, <2>1
  <2>3. \A u \in Targets : token'[u] <= claims /\ accepted'[u] <= claims
    BY <1>0, <2>1 DEF LeaseInv, TokensIssued
  <2> QED
    BY <2>2, <2>3 DEF TokensIssued
<1>2. TokenNewerThanAccepted' /\ LeaseComplete'
  BY <1>0 DEF LeaseInv, TokenNewerThanAccepted, LeaseComplete, TypeOK
<1>3. HolderIsOwner'
  BY <1>0, <1>a DEF LeaseInv, HolderIsOwner
<1>4. OnlyRunningHolds'
  <2> SUFFICES ASSUME NEW v \in Workers
               PROVE  (pc'[v] # "running" => held'[v] = NothingHeld) /\ startedAt'[v] <= now'
    BY DEF OnlyRunningHolds, NothingHeld
  <2>1. startedAt'[v] <= now'
    BY DEF LeaseInv, OnlyRunningHolds
  <2>2. pc[v] # "running" => held[v] = NothingHeld
    BY DEF LeaseInv, OnlyRunningHolds
  <2>3. held'[v] \in [Targets -> Nat] /\ held[v] \in [Targets -> Nat]
    BY DropEffect DEF TypeOK
  <2>4. held[v] = NothingHeld => \A u \in Targets : held'[v][u] = 0
    BY DropEffect DEF NothingHeld
  <2> QED
    BY <2>1, <2>2, <2>3, <2>4 DEF NothingHeld
<1> QED
  BY <1>1, <1>2, <1>3, <1>4 DEF LeaseInv

(* The transaction of claim_targets keeps the invariant: its token is new. *)
LEMMA ClaimKeepsInv ==
  ASSUME TypeOK, LeaseInv, NEW w \in Workers, ClaimUpdate(w)
  PROVE  LeaseInv'
<1>0. /\ claims' = claims + 1 /\ now' = now /\ accepted' = accepted /\ startedAt' = startedAt
      /\ \A t \in Targets :
           \/ t \in Leasable(w) /\ token'[t] = claims + 1 /\ owner'[t] = w /\ leaseUntil'[t] = startedAt[w] + LeaseTime
           \/ t \notin Leasable(w) /\ token'[t] = token[t] /\ owner'[t] = owner[t] /\ leaseUntil'[t] = leaseUntil[t]
      /\ \A t \in Targets : held'[w][t] \in {0, claims + 1}
      /\ \A v \in Workers : v # w => held'[v] = held[v] /\ pc'[v] = pc[v]
      /\ pc'[w] = "running"
  BY DEF ClaimUpdate, FreshToken, TypeOK
<1>1. TokensIssued'
  <2>0. claims \in Nat /\ \A v \in Workers, t \in Targets : held[v][t] \in Nat /\ held[v][t] <= claims
    BY DEF LeaseInv, TokensIssued, TypeOK
  <2>1. ASSUME NEW v \in Workers, NEW t \in Targets PROVE held'[v][t] <= claims + 1
    <3>1. CASE v = w
      BY <1>0, <2>0, <3>1
    <3>2. CASE v # w
      BY <1>0, <2>0, <3>2
    <3> QED
      BY <3>1, <3>2
  <2>2. ASSUME NEW t \in Targets PROVE token'[t] <= claims + 1 /\ accepted'[t] <= claims + 1
    <3>1. token[t] \in Nat /\ token[t] <= claims /\ accepted[t] \in Nat /\ accepted[t] <= claims
      BY DEF LeaseInv, TokensIssued, TypeOK
    <3>2. token'[t] = claims + 1 \/ token'[t] = token[t]
      BY <1>0
    <3> QED
      BY <1>0, <2>0, <3>1, <3>2
  <2> QED
    BY <1>0, <2>1, <2>2 DEF TokensIssued
<1>2. TokenNewerThanAccepted'
  BY <1>0 DEF LeaseInv, TokensIssued, TokenNewerThanAccepted, TypeOK
<1>3. LeaseComplete'
  BY <1>0, DelayAssumption DEF LeaseInv, LeaseComplete, TypeOK
<1>4. HolderIsOwner'
  <2> SUFFICES ASSUME NEW v \in Workers, NEW t \in Targets, held'[v][t] # 0, held'[v][t] = token'[t]
               PROVE  owner'[t] = v
    BY DEF HolderIsOwner
  <2>1. CASE v = w
    BY <1>0, <2>1 DEF LeaseInv, TokensIssued, TypeOK
  <2>2. CASE v # w
    BY <1>0, <2>2 DEF LeaseInv, TokensIssued, HolderIsOwner, TypeOK
  <2> QED
    BY <2>1, <2>2
<1>5. OnlyRunningHolds'
  BY <1>0 DEF LeaseInv, OnlyRunningHolds, NothingHeld
<1> QED
  BY <1>1, <1>2, <1>3, <1>4, <1>5 DEF LeaseInv

(* Every step keeps the inductive invariant: one case per action. *)
LEMMA LeaseInvStep == TypeOK /\ LeaseInv /\ [Next]_vars => LeaseInv'
<1> SUFFICES ASSUME TypeOK, LeaseInv, [Next]_vars PROVE LeaseInv'
  OBVIOUS
<1> USE DEF rowVars, workerVars
<1>1. ASSUME NEW w \in Workers, Start(w) PROVE LeaseInv'
  <2>1. \A v \in Workers : startedAt'[v] <= now
    BY <1>1 DEF Start, TypeOK, LeaseInv, OnlyRunningHolds
  <2>2. \A v \in Workers : pc'[v] # "running" => held'[v] = NothingHeld
    BY <1>1 DEF Start, TypeOK, LeaseInv, OnlyRunningHolds
  <2> QED
    BY <1>1, <2>1, <2>2, DroppingKeepsInv DEF Start
<1>2. ASSUME NEW w \in Workers, ClaimSelect(w) PROVE LeaseInv'
  <2>1. \A v \in Workers : (pc'[v] # "running" => held'[v] = NothingHeld) /\ startedAt'[v] <= now
    BY <1>2 DEF ClaimSelect, TypeOK, LeaseInv, OnlyRunningHolds
  <2> QED
    BY <1>2, <2>1, DroppingKeepsInv DEF ClaimSelect
<1>3. ASSUME NEW w \in Workers, ClaimUpdate(w) PROVE LeaseInv'
  BY <1>3, ClaimKeepsInv
<1>4. ASSUME NEW w \in Workers, NEW t \in Targets, Commit(w, t) PROVE LeaseInv'
  BY <1>4, ClearingKeepsInv DEF Commit
<1>5. ASSUME NEW w \in Workers, NEW t \in Targets, Release(w, t) PROVE LeaseInv'
  BY <1>5, ClearingKeepsInv DEF Release
<1>6. ASSUME NEW w \in Workers, NEW t \in Targets, Rejected(w, t) \/ RolledBack(w, t) PROVE LeaseInv'
  <2>0. /\ Drop(w, t) /\ pc[w] = "running" /\ pc' = pc /\ startedAt' = startedAt
        /\ UNCHANGED <<owner, leaseUntil, token, claims, accepted, now>>
    BY <1>6 DEF Rejected, RolledBack, Working
  <2>1. \A v \in Workers, u \in Targets : held'[v][u] = 0 \/ held'[v][u] = held[v][u]
    BY <2>0, DropEffect
  <2>2. \A v \in Workers : v # w => held'[v] = held[v]
    BY <2>0 DEF Drop, TypeOK
  <2>3. ASSUME NEW v \in Workers
        PROVE  (pc'[v] # "running" => held'[v] = NothingHeld) /\ startedAt'[v] <= now
    <3>1. (pc[v] # "running" => held[v] = NothingHeld) /\ startedAt[v] <= now
      BY DEF LeaseInv, OnlyRunningHolds
    <3> QED
      BY <2>0, <2>2, <3>1
  <2> QED
    BY <2>0, <2>1, <2>3, DroppingKeepsInv
<1>7. ASSUME NEW w \in Workers, Finish(w) \/ Crash(w) PROVE LeaseInv'
  <2>0. Forget(w) /\ UNCHANGED <<owner, leaseUntil, token, claims, accepted, now>>
    BY <1>7 DEF Finish, Crash
  <2>1. \A v \in Workers, u \in Targets : held'[v][u] = 0 \/ held'[v][u] = held[v][u]
    BY <2>0, ForgetEffect DEF NothingHeld
  <2>2. ASSUME NEW v \in Workers
        PROVE  (pc'[v] # "running" => held'[v] = NothingHeld) /\ startedAt'[v] <= now
    <3>1. (pc[v] # "running" => held[v] = NothingHeld) /\ startedAt[v] <= now /\ now \in Nat
      BY DEF LeaseInv, OnlyRunningHolds, TypeOK
    <3>2. CASE v = w
      BY <2>0, <3>1, <3>2, ForgetEffect
    <3>3. CASE v # w
      BY <2>0, <3>1, <3>3, ForgetEffect
    <3> QED
      BY <3>2, <3>3
  <2> QED
    BY <2>0, <2>1, <2>2, DroppingKeepsInv
<1>8. CASE Tick
  BY <1>8 DEF Tick, TypeOK, LeaseInv, TokensIssued, TokenNewerThanAccepted, LeaseComplete,
              HolderIsOwner, OnlyRunningHolds, NothingHeld
<1>9. CASE UNCHANGED vars
  BY <1>9 DEF vars, LeaseInv, TokensIssued, TokenNewerThanAccepted, LeaseComplete,
              HolderIsOwner, OnlyRunningHolds, NothingHeld
<1> QED
  BY <1>1, <1>2, <1>3, <1>4, <1>5, <1>6, <1>7, <1>8, <1>9 DEF Next, WorkerStep, TargetStep

(* The inductive invariant of the lease protocol holds in every state. *)
THEOREM LeaseInvariant == Spec => []LeaseInv
<1>1. Init => LeaseInv
  <2> SUFFICES ASSUME Init PROVE LeaseInv
    OBVIOUS
  <2>1. TokensIssued /\ TokenNewerThanAccepted /\ LeaseComplete
    BY DEF Init, TokensIssued, TokenNewerThanAccepted, LeaseComplete, NothingHeld
  <2>2. HolderIsOwner /\ OnlyRunningHolds
    BY DEF Init, HolderIsOwner, OnlyRunningHolds, NothingHeld
  <2> QED
    BY <2>1, <2>2 DEF LeaseInv
<1> QED
  BY <1>1, LeaseInvStep, TypeCorrect, PTL DEF Spec

(* A worker whose claim was overtaken by an accepted newer one is fenced   *)
(* off: finalize_execution and release_target_lease refuse it.             *)
THEOREM OvertakenWorkersAreFenced == Spec => []OvertakenIsFenced
<1>1. TypeOK /\ LeaseInv => OvertakenIsFenced
  BY DEF TypeOK, LeaseInv, TokenNewerThanAccepted, OvertakenIsFenced
<1> QED
  BY <1>1, TypeCorrect, LeaseInvariant, PTL

-----------------------------------------------------------------------------
(* A worker whose lease is still in the row is the one the row names. *)
LEMMA HolderFacts ==
  ASSUME TypeOK, LeaseInv, NEW w \in Workers, NEW t \in Targets,
         Working(w, t), token[t] = held[w][t]
  PROVE  owner[t] = w /\ token[t] # 0
BY DEF LeaseInv, HolderIsOwner, Working

(* What clearing the lease of t does to the rows. *)
LEMMA ClearEffect ==
  ASSUME TypeOK, NEW t \in Targets, ClearLease(t)
  PROVE  token'[t] = 0 /\ \A u \in Targets : u # t => token'[u] = token[u]
BY DEF ClearLease, TypeOK

(* Leases are never stolen before they expire and end only through their   *)
(* holder.                                                                 *)
THEOREM LeasesAreProtected == Spec => LeaseProtected
<1>1. ASSUME TypeOK, LeaseInv, [Next]_vars, NEW t \in Targets PROVE LeaseProtectedStep(t)
  <2> USE <1>1 DEF rowVars, workerVars
  <2>1. ASSUME NEW w \in Workers, ClaimUpdate(w) PROVE LeaseProtectedStep(t)
    <3>1. startedAt[w] <= now /\ now \in Nat /\ startedAt[w] \in Nat /\ leaseUntil[t] \in Nat /\ claims + 1 # 0
      BY DEF LeaseInv, OnlyRunningHolds, TypeOK
    <3>2. CASE t \in Leasable(w)
      <4>1. token'[t] = claims + 1
        BY <2>1, <3>2 DEF ClaimUpdate, FreshToken
      <4>2. leaseUntil[t] = 0 \/ leaseUntil[t] < startedAt[w]
        BY <3>2 DEF Leasable, Unleased
      <4>3. token[t] # 0 => leaseUntil[t] # 0
        BY DEF LeaseInv, LeaseComplete
      <4> QED
        BY <3>1, <4>1, <4>2, <4>3 DEF LeaseProtectedStep
    <3>3. CASE t \notin Leasable(w)
      BY <2>1, <3>3 DEF ClaimUpdate, FreshToken, LeaseProtectedStep
    <3> QED
      BY <3>2, <3>3
  <2>2. ASSUME NEW w \in Workers, NEW u \in Targets, Commit(w, u) \/ Release(w, u)
        PROVE  LeaseProtectedStep(t)
    <3>1. ClearLease(u) /\ Drop(w, u) /\ Working(w, u) /\ token[u] = held[w][u]
      BY <2>2 DEF Commit, Release, Owns
    <3>2. owner[u] = w /\ token[u] # 0 /\ held'[w][u] = 0
      BY <3>1, HolderFacts, DropEffect
    <3>3. token'[u] = 0 /\ \A x \in Targets : x # u => token'[x] = token[x]
      BY <3>1, ClearEffect
    <3> QED
      BY <3>1, <3>2, <3>3 DEF LeaseProtectedStep
  <2>3. ASSUME token' = token PROVE LeaseProtectedStep(t)
    BY <2>3 DEF LeaseProtectedStep
  <2> QED
    BY <2>1, <2>2, <2>3 DEF Next, WorkerStep, TargetStep, Start, ClaimSelect, Rejected, RolledBack, Finish, Crash, Tick, vars
<1>2. TypeOK /\ LeaseInv /\ [Next]_vars => [\A t \in Targets : LeaseProtectedStep(t)]_vars
  BY <1>1
<1> QED
  BY <1>2, TypeCorrect, LeaseInvariant, PTL DEF Spec, LeaseProtected

(* The durable state of a target is written only under its stored token. *)
THEOREM ResultsAreFenced == Spec => ResultsFenced
<1>1. ASSUME TypeOK, LeaseInv, [Next]_vars, NEW t \in Targets PROVE ResultsFencedStep(t)
  <2> USE <1>1 DEF rowVars, workerVars
  <2>1. ASSUME NEW w \in Workers, ClaimUpdate(w) PROVE ResultsFencedStep(t)
    <3>1. CASE t \in Leasable(w)
      <4>1. token'[t] = claims + 1 /\ held'[w][t] = claims + 1
        BY <2>1, <3>1 DEF ClaimUpdate, FreshToken, Leasable, TypeOK
      <4>2. claims + 1 # 0 /\ claims + 1 # token[t]
        BY DEF LeaseInv, TokensIssued, TypeOK
      <4> QED
        BY <4>1, <4>2 DEF ResultsFencedStep
    <3>2. CASE t \notin Leasable(w)
      BY <2>1, <3>2 DEF ClaimUpdate, FreshToken, ResultsFencedStep, TypeOK
    <3> QED
      BY <3>1, <3>2
  <2>2. ASSUME NEW w \in Workers, NEW u \in Targets, Commit(w, u)
        PROVE  ResultsFencedStep(t)
    <3>1. held[w][u] = token[u] /\ token[u] # 0 /\ held'[w][u] = 0
      BY <2>2, HolderFacts, DropEffect DEF Commit, Owns
    <3>2. t # u => status'[t] = status[t] /\ nextAllowed'[t] = nextAllowed[t]
      BY <2>2 DEF Commit, TypeOK
    <3> QED
      BY <3>1, <3>2 DEF ResultsFencedStep
  <2>3. ASSUME status' = status, nextAllowed' = nextAllowed PROVE ResultsFencedStep(t)
    BY <2>3 DEF ResultsFencedStep
  <2> QED
    BY <2>1, <2>2, <2>3 DEF Next, WorkerStep, TargetStep, Start, ClaimSelect, Release, Rejected, RolledBack, Finish, Crash, Tick, vars
<1>2. TypeOK /\ LeaseInv /\ [Next]_vars => [\A t \in Targets : ResultsFencedStep(t)]_vars
  BY <1>1
<1> QED
  BY <1>2, TypeCorrect, LeaseInvariant, PTL DEF Spec, ResultsFenced

-----------------------------------------------------------------------------
(* The lease protocol implements the fenced store: claim_targets grants,   *)
(* finalize_execution accepts, release_target_lease withdraws, and no      *)
(* other step is visible.                                                  *)
THEOREM LeaseImplementsFencedStore == Spec => ImplementsFencedStore
<1>1. Init => Fenced!FencedInit
  BY DEF Init, Fenced!FencedInit
<1>2. ASSUME TypeOK, LeaseInv, [Next]_vars PROVE [Fenced!FencedNext]_(Fenced!fencedVars)
  <2> USE <1>2 DEF rowVars, workerVars
  <2>1. ASSUME NEW w \in Workers, ClaimUpdate(w) PROVE Fenced!FencedNext
    <3>1. Leasable(w) \in SUBSET Targets
      BY DEF Leasable, TypeOK
    <3>2. Fenced!Grant(Leasable(w))
      BY <2>1 DEF ClaimUpdate, FreshToken, Fenced!Grant
    <3> QED
      BY <3>1, <3>2 DEF Fenced!FencedNext
  <2>2. ASSUME NEW w \in Workers, NEW t \in Targets, Commit(w, t) PROVE Fenced!FencedNext
    <3>1. token[t] # 0
      BY <2>2, HolderFacts DEF Commit, Owns
    <3>2. Fenced!Accept(t)
      BY <2>2, <3>1 DEF Commit, ClearLease, Fenced!Accept
    <3> QED
      BY <3>2 DEF Fenced!FencedNext
  <2>3. ASSUME NEW w \in Workers, NEW t \in Targets, Release(w, t) PROVE Fenced!FencedNext
    <3>1. token[t] # 0
      BY <2>3, HolderFacts DEF Release, Owns
    <3>2. Fenced!Withdraw(t)
      BY <2>3, <3>1 DEF Release, ClearLease, Fenced!Withdraw
    <3> QED
      BY <3>2 DEF Fenced!FencedNext
  <2>4. ASSUME UNCHANGED <<claims, token, accepted>> PROVE UNCHANGED Fenced!fencedVars
    BY <2>4 DEF Fenced!fencedVars
  <2> QED
    BY <2>1, <2>2, <2>3, <2>4
       DEF Next, WorkerStep, TargetStep, Start, ClaimSelect, Rejected, RolledBack, Finish, Crash, Tick, vars
<1> QED
  BY <1>1, <1>2, TypeCorrect, LeaseInvariant, PTL DEF Spec, ImplementsFencedStore, Fenced!FencedSpec
=============================================================================
