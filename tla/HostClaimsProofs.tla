--------------------------- MODULE HostClaimsProofs ---------------------------
(***************************************************************************)
(* Proofs about HostClaims for any number of workers and hosts, and any    *)
(* lease, delays and bounds.                                               *)
(***************************************************************************)
EXTENDS HostClaims, TLAPS

(* Runs began in the past, and so did the windows of claimed hosts end.    *)
RunsBeganInThePast == \A w \in Workers : startedAt[w] <= now
ClaimedIsOpen == \A h \in Hosts : claim[h] # Free => next[h] <= now

(* A claim that its holder can renew lies outside the window, also for the *)
(* holder's own, older "now".                                              *)
RenewableIsOpen ==
  \A w \in Workers, h \in Hosts :
    pc[w] # "idle" /\ Holds(w, h) => next[h] <= startedAt[w]

IInv == TypeOK /\ RunsBeganInThePast /\ ClaimedIsOpen /\ RenewableIsOpen

-----------------------------------------------------------------------------
(* What a granted claim does to the table.                                 *)
LEMMA ClaimEffect ==
  ASSUME TypeOK, NEW w \in Workers, NEW h \in Hosts, Claim(w, h)
  PROVE  /\ claim' \in [Hosts -> Workers \cup {Free}]
         /\ until' \in [Hosts -> Nat]
         /\ active' \in [Workers -> SUBSET Hosts]
         /\ \A k \in Hosts : claim'[k] = Free <=> until'[k] = 0
         /\ claim'[h] = w
         /\ \A k \in Hosts : k # h => claim'[k] = claim[k]
         /\ \A v \in Workers, k \in Hosts : v # w \/ k # h => (k \in active'[v] <=> k \in active[v])
<1>1. startedAt[w] + Lease \in Nat \ {0}
  BY HostAssumption DEF TypeOK
<1>2. active' \in [Workers -> SUBSET Hosts]
  BY DEF TypeOK, Claim
<1>3. /\ claim' \in [Hosts -> Workers \cup {Free}] /\ until' \in [Hosts -> Nat]
      /\ claim'[h] = w /\ until'[h] = startedAt[w] + Lease
      /\ \A k \in Hosts : k # h => claim'[k] = claim[k] /\ until'[k] = until[k]
  BY <1>1 DEF TypeOK, Claim
<1>4. \A k \in Hosts : claim'[k] = Free <=> until'[k] = 0
  BY <1>1, <1>3, HostAssumption DEF TypeOK
<1>5. \A v \in Workers, k \in Hosts : v # w \/ k # h => (k \in active'[v] <=> k \in active[v])
  BY DEF TypeOK, Claim
<1> QED BY <1>2, <1>3, <1>4, <1>5

(* What clearing rows does to the table.                                   *)
LEMMA ClearEffect ==
  ASSUME TypeOK, NEW S, ClearClaims(S)
  PROVE  /\ claim' \in [Hosts -> Workers \cup {Free}]
         /\ until' \in [Hosts -> Nat]
         /\ \A h \in Hosts : claim'[h] = Free <=> until'[h] = 0
         /\ \A h \in Hosts : claim'[h] = IF h \in S THEN Free ELSE claim[h]
BY DEF TypeOK, ClearClaims

LEMMA ReleaseEffect ==
  ASSUME TypeOK, NEW w \in Workers, NEW h \in Hosts, Release(w, h)
  PROVE  /\ claim' \in [Hosts -> Workers \cup {Free}]
         /\ until' \in [Hosts -> Nat]
         /\ active' \in [Workers -> SUBSET Hosts]
         /\ \A k \in Hosts : claim'[k] = Free <=> until'[k] = 0
         /\ \A k \in Hosts : claim'[k] = IF k = h /\ Holds(w, h) THEN Free ELSE claim[k]
         /\ \A v \in Workers, k \in Hosts : k \in active'[v] <=> k \in active[v] /\ (v # w \/ k # h)
<1>1. active' \in [Workers -> SUBSET Hosts]
  BY DEF TypeOK, Release
<1>2. \A v \in Workers, k \in Hosts : k \in active'[v] <=> k \in active[v] /\ (v # w \/ k # h)
  BY DEF TypeOK, Release
<1>3. \A k \in Hosts : k \in {h} \cap {j \in Hosts : Holds(w, j)} <=> k = h /\ Holds(w, h)
  OBVIOUS
<1> QED BY <1>1, <1>2, <1>3, ClearEffect DEF Release

LEMMA NoJobIsJob == NoJob \in Jobs
BY HostAssumption DEF NoJob, Jobs

LEMMA ProceedTypes ==
  ASSUME TypeOK, NEW w \in Workers, Proceed(w)
  PROVE  /\ pc' \in [Workers -> {"idle", "started", "running", "api", "sending", "answered"}]
         /\ job' \in [Workers -> Jobs]
         /\ \A v \in Workers : pc'[v] # "idle" => v = w \/ pc[v] # "idle"
         /\ pc'[w] # "sending"
         /\ \A v \in Workers : v # w => pc'[v] = pc[v]
<1>1. CASE job[w].kind = "github"
  BY <1>1 DEF TypeOK, Proceed, Goto
<1>2. CASE job[w].kind # "github"
  BY <1>2, NoJobIsJob DEF TypeOK, Proceed, Goto
<1> QED BY <1>1, <1>2

LEMMA SendTypes ==
  ASSUME TypeOK, NEW w \in Workers, Send(w), sent[w] < Attempts
  PROVE  /\ sentAt' \in [Workers -> Nat]
         /\ sent' \in [Workers -> 0..Attempts]
         /\ sent'[w] > 0
         /\ \A v \in Workers : v # w => sent'[v] = sent[v]
BY HostAssumption DEF TypeOK, Send

LEMMA NoRequestTypes ==
  ASSUME TypeOK, NEW w \in Workers, NoRequest(w)
  PROVE  /\ sentAt' \in [Workers -> Nat]
         /\ sent' \in [Workers -> 0..Attempts]
         /\ ~(sent'[w] > 0)
         /\ \A v \in Workers : v # w => sent'[v] = sent[v]
BY HostAssumption DEF TypeOK, NoRequest

(* A worker without a fetch has sent nothing, so it may send.              *)
LEMMA NothingSent ==
  ASSUME TypeOK, NEW w \in Workers, pc[w] # "sending"
  PROVE  sent[w] = 0 /\ sent[w] < Attempts
BY HostAssumption DEF TypeOK

(* Every reachable state is well typed: in particular a row has a claim    *)
(* token exactly when it has a claim_until.                                *)
THEOREM TypeCorrect == Spec => []TypeOK
<1>1. Init => TypeOK
  BY HostAssumption, NoJobIsJob DEF Init, TypeOK
<1>2. TypeOK /\ [Next]_vars => TypeOK'
  <2> SUFFICES ASSUME TypeOK, [Next]_vars PROVE TypeOK'
    OBVIOUS
  <2> USE DEF tableVars, workerVars, requestVars
  <2>1. ASSUME NEW w \in Workers, Start(w) PROVE TypeOK'
    BY <2>1 DEF TypeOK, Start, Goto
  <2>2. ASSUME NEW w \in Workers, Reap(w) PROVE TypeOK'
    BY <2>2, ClearEffect DEF TypeOK, Reap, Goto
  <2>3. ASSUME NEW w \in Workers, Prepare(w) PROVE TypeOK'
    <3>1. PICK j \in Jobs :
            /\ Claim(w, j.host)
            /\ job' = [job EXCEPT ![w] = j]
            /\ IF j.kind = "web"
               THEN Goto(w, "sending") /\ Send(w)
               ELSE Goto(w, "api") /\ UNCHANGED requestVars
      BY <2>3 DEF Prepare
    <3>2. j.host \in Hosts
      BY DEF Jobs
    <3>3. /\ pc' \in [Workers -> {"idle", "started", "running", "api", "sending", "answered"}]
          /\ job' \in [Workers -> Jobs]
      BY <3>1 DEF TypeOK, Goto
    <3>5. /\ sentAt' \in [Workers -> Nat] /\ sent' \in [Workers -> 0..Attempts]
          /\ \A v \in Workers : sent'[v] > 0 <=> pc'[v] = "sending"
      <4>1. pc[w] = "running"
        BY <2>3 DEF Prepare
      <4>2. CASE j.kind = "web"
        BY <3>1, <4>1, <4>2, NothingSent, SendTypes DEF TypeOK, Goto
      <4>3. CASE j.kind # "web"
        BY <3>1, <4>1, <4>3 DEF TypeOK, Goto
      <4> QED BY <4>2, <4>3
    <3>4. now' \in Nat /\ startedAt' \in [Workers -> Nat] /\ next' \in [Hosts -> Nat]
      BY <2>3, <3>1 DEF TypeOK, Prepare, Claim
    <3> QED BY <3>1, <3>2, <3>3, <3>4, <3>5, ClaimEffect DEF TypeOK
  <2>4. ASSUME NEW w \in Workers, PrepareApi(w) PROVE TypeOK'
    <3>1. Claim(w, ApiHost) /\ ApiHost \in Hosts
      BY <2>4, HostAssumption DEF PrepareApi
    <3>2. next' \in [Hosts -> Nat]
      BY <3>1 DEF TypeOK, Claim
    <3>3. /\ sentAt' \in [Workers -> Nat] /\ sent' \in [Workers -> 0..Attempts]
          /\ \A v \in Workers : sent'[v] > 0 <=> pc'[v] = "sending"
      BY <2>4, NothingSent, SendTypes DEF TypeOK, PrepareApi, Goto
    <3> QED BY <2>4, <3>1, <3>2, <3>3, ClaimEffect DEF TypeOK, PrepareApi, Goto
  <2>5. ASSUME NEW w \in Workers, Answer(w) PROVE TypeOK'
    <3>1. /\ claim' \in [Hosts -> Workers \cup {Free}] /\ until' \in [Hosts -> Nat]
          /\ active' \in [Workers -> SUBSET Hosts]
          /\ \A h \in Hosts : claim'[h] = Free <=> until'[h] = 0
      <4>1. CASE job[w].kind = "web"
        <5>1. Release(w, job[w].host) /\ job[w].host \in Hosts
          BY <2>5, <4>1 DEF Answer, TypeOK, Jobs
        <5> QED BY <5>1, ReleaseEffect
      <4>2. CASE job[w].kind # "web"
        BY <2>5, <4>2 DEF Answer, TypeOK
      <4> QED BY <4>1, <4>2
    <3>2. /\ sentAt' \in [Workers -> Nat] /\ sent' \in [Workers -> 0..Attempts]
          /\ \A v \in Workers : sent'[v] > 0 <=> pc'[v] = "sending"
      BY <2>5, NoRequestTypes DEF TypeOK, Answer, Goto
    <3> QED BY <2>5, <3>1, <3>2 DEF TypeOK, Answer, Goto
  <2>6. ASSUME NEW w \in Workers, Limited(w) PROVE TypeOK'
    <3>1. next' \in [Hosts -> Nat]
      <4>1. PICK d \in Delays : next' = [next EXCEPT ![job[w].host] = startedAt[w] + d]
        BY <2>6 DEF Limited
      <4>2. startedAt[w] + d \in Nat
        BY HostAssumption DEF TypeOK
      <4> QED BY <4>1, <4>2 DEF TypeOK
    <3>2. active' \in [Workers -> SUBSET Hosts]
      BY <2>6 DEF TypeOK, Limited
    <3>3. /\ claim' \in [Hosts -> Workers \cup {Free}] /\ until' \in [Hosts -> Nat]
          /\ \A h \in Hosts : claim'[h] = Free <=> until'[h] = 0
      BY <2>6, ClearEffect DEF Limited
    <3>4. \A v \in Workers : sent'[v] > 0 <=> pc'[v] = "sending"
      BY <2>6, ProceedTypes DEF TypeOK, Limited
    <3> QED BY <2>6, <3>1, <3>2, <3>3, <3>4, ProceedTypes DEF TypeOK, Limited
  <2>7. ASSUME NEW w \in Workers, Accepted(w) PROVE TypeOK'
    <3>1. job[w].host \in Hosts
      BY DEF TypeOK, Jobs
    <3>2. \A v \in Workers : sent'[v] > 0 <=> pc'[v] = "sending"
      BY <2>7, ProceedTypes DEF TypeOK, Accepted
    <3> QED BY <2>7, <3>1, <3>2, ReleaseEffect, ProceedTypes DEF TypeOK, Accepted
  <2>8. ASSUME NEW w \in Workers, Failed(w) PROVE TypeOK'
    BY <2>8, ProceedTypes DEF TypeOK, Failed
  <2>9. ASSUME NEW w \in Workers, Close(w) PROVE TypeOK'
    BY <2>9, HostAssumption, NoJobIsJob, ReleaseEffect DEF TypeOK, Close, Goto
  <2>10. ASSUME NEW w \in Workers, Finish(w) \/ Crash(w) PROVE TypeOK'
    <3>1. CASE Finish(w)
      BY <3>1 DEF TypeOK, Finish, Goto
    <3>2. CASE Crash(w)
      BY <3>2, NoJobIsJob, NoRequestTypes DEF TypeOK, Crash, Goto
    <3> QED BY <2>10, <3>1, <3>2
  <2>13. ASSUME NEW w \in Workers, SendAgain(w) PROVE TypeOK'
    BY <2>13, SendTypes DEF TypeOK, SendAgain
  <2>11. CASE Tick
    BY <2>11 DEF TypeOK, Tick
  <2>12. CASE UNCHANGED vars
    BY <2>12 DEF TypeOK, vars
  <2> QED
    BY <2>1, <2>2, <2>3, <2>4, <2>5, <2>6, <2>7, <2>8, <2>9, <2>10, <2>11, <2>12, <2>13
    DEF Next, WorkerStep, Evaluate
<1> QED BY <1>1, <1>2, PTL DEF Spec

-----------------------------------------------------------------------------
(* A step of w that claims h, which it may, keeps the rest of IInv. *)
LEMMA ClaimKeepsOpen ==
  ASSUME IInv, NEW w \in Workers, NEW h \in Hosts, Claim(w, h), pc[w] # "idle",
         UNCHANGED <<now, startedAt>>,
         \A v \in Workers : v # w => pc'[v] = pc[v]
  PROVE  RunsBeganInThePast' /\ ClaimedIsOpen' /\ RenewableIsOpen'
<1>1. next' = next /\ next[h] <= startedAt[w] /\ startedAt[w] <= now /\ next[h] <= now
  BY DEF IInv, Claim, Allowed, Acquirable, RenewableIsOpen, RunsBeganInThePast, TypeOK
<1>2. RunsBeganInThePast'
  BY DEF IInv, RunsBeganInThePast
<1>3. ClaimedIsOpen'
  BY <1>1, ClaimEffect DEF IInv, ClaimedIsOpen
<1>4. RenewableIsOpen'
  <2> SUFFICES ASSUME NEW v \in Workers, NEW k \in Hosts, pc'[v] # "idle", Holds(v, k)'
               PROVE  next'[k] <= startedAt'[v]
    BY DEF RenewableIsOpen
  <2>1. CASE k = h
    <3>1. v = w
      BY <2>1, ClaimEffect DEF IInv, Holds
    <3> QED BY <1>1, <2>1, <3>1
  <2>2. CASE k # h
    <3>1. Holds(v, k) /\ pc[v] # "idle"
      BY <2>2, ClaimEffect DEF IInv, Holds
    <3> QED BY <1>1, <3>1 DEF IInv, RenewableIsOpen
  <2> QED BY <2>1, <2>2
<1> QED BY <1>2, <1>3, <1>4

(* A step that only takes claims away or forgets them, and closes windows  *)
(* of unclaimed hosts only, keeps the rest of IInv.                        *)
LEMMA FewerClaimsKeepOpen ==
  ASSUME IInv, now' \in Nat, now <= now', TypeOK',
         \A h \in Hosts : claim'[h] \in {claim[h], Free},
         \A h \in Hosts : claim'[h] # Free => next'[h] = next[h],
         \A v \in Workers, h \in Hosts : h \in active'[v] => h \in active[v],
         \A v \in Workers : pc'[v] # "idle" =>
           (startedAt'[v] = startedAt[v] /\ pc[v] # "idle") \/ startedAt'[v] = now',
         \A v \in Workers : startedAt'[v] \in {0, startedAt[v], now'}
  PROVE  RunsBeganInThePast' /\ ClaimedIsOpen' /\ RenewableIsOpen'
<1>1. RunsBeganInThePast'
  BY DEF IInv, RunsBeganInThePast, TypeOK
<1>2. ClaimedIsOpen'
  <2> SUFFICES ASSUME NEW h \in Hosts, claim'[h] # Free PROVE next'[h] <= now'
    BY DEF ClaimedIsOpen
  <2>1. next'[h] = next[h] /\ next[h] <= now
    BY DEF IInv, ClaimedIsOpen
  <2> QED BY <2>1 DEF IInv, TypeOK
<1>3. RenewableIsOpen'
  <2> SUFFICES ASSUME NEW v \in Workers, NEW h \in Hosts, pc'[v] # "idle", Holds(v, h)'
               PROVE  next'[h] <= startedAt'[v]
    BY DEF RenewableIsOpen
  <2>1. claim'[h] # Free /\ Holds(v, h)
    BY HostAssumption DEF Holds
  <2>2. CASE startedAt'[v] = startedAt[v] /\ pc[v] # "idle"
    BY <2>1, <2>2 DEF IInv, RenewableIsOpen
  <2>3. CASE startedAt'[v] = now'
    BY <1>2, <2>1, <2>3 DEF ClaimedIsOpen
  <2> QED BY <2>2, <2>3
<1> QED BY <1>1, <1>2, <1>3

LEMMA IInvStep == IInv /\ TypeOK' /\ [Next]_vars => IInv'
<1> SUFFICES ASSUME IInv, TypeOK', [Next]_vars
             PROVE  RunsBeganInThePast' /\ ClaimedIsOpen' /\ RenewableIsOpen'
  BY DEF IInv
<1> USE DEF tableVars, workerVars
<1>0. TypeOK /\ now \in Nat
  BY DEF IInv, TypeOK
<1>1. ASSUME NEW w \in Workers, Start(w) \/ Finish(w) \/ Crash(w)
      PROVE  RunsBeganInThePast' /\ ClaimedIsOpen' /\ RenewableIsOpen'
  <2>1. /\ now' = now /\ claim' = claim /\ next' = next
        /\ \A v \in Workers : v # w => pc'[v] = pc[v] /\ startedAt'[v] = startedAt[v]
        /\ (pc'[w] = "idle" /\ startedAt'[w] = 0) \/ startedAt'[w] = now'
        /\ \A v \in Workers, h \in Hosts : h \in active'[v] => h \in active[v]
    BY <1>0, <1>1 DEF TypeOK, Start, Finish, Crash, Goto
  <2> QED BY <1>0, <2>1, FewerClaimsKeepOpen
<1>2. ASSUME NEW w \in Workers, Reap(w)
      PROVE  RunsBeganInThePast' /\ ClaimedIsOpen' /\ RenewableIsOpen'
  <2>1. \A h \in Hosts : claim'[h] \in {claim[h], Free}
    BY <1>0, <1>2, ClearEffect DEF Reap
  <2>2. \A v \in Workers : pc'[v] # "idle" => pc[v] # "idle"
    BY <1>0, <1>2 DEF TypeOK, Reap, Goto
  <2> QED BY <1>0, <1>2, <2>1, <2>2, FewerClaimsKeepOpen DEF Reap
<1>3. ASSUME NEW w \in Workers, Prepare(w)
      PROVE  RunsBeganInThePast' /\ ClaimedIsOpen' /\ RenewableIsOpen'
  <2>1. PICK j \in Jobs : Claim(w, j.host)
    BY <1>3 DEF Prepare
  <2>2. j.host \in Hosts
    BY DEF Jobs
  <2>3. pc[w] # "idle" /\ \A v \in Workers : v # w => pc'[v] = pc[v]
    BY <1>0, <1>3 DEF TypeOK, Prepare, Goto
  <2> QED BY <1>3, <2>1, <2>2, <2>3, ClaimKeepsOpen DEF Prepare
<1>4. ASSUME NEW w \in Workers, PrepareApi(w)
      PROVE  RunsBeganInThePast' /\ ClaimedIsOpen' /\ RenewableIsOpen'
  <2>1. pc[w] # "idle" /\ \A v \in Workers : v # w => pc'[v] = pc[v]
    BY <1>0, <1>4 DEF TypeOK, PrepareApi, Goto
  <2> QED BY <1>4, <2>1, HostAssumption, ClaimKeepsOpen DEF PrepareApi
<1>5. ASSUME NEW w \in Workers, Answer(w)
      PROVE  RunsBeganInThePast' /\ ClaimedIsOpen' /\ RenewableIsOpen'
  <2>1. /\ \A h \in Hosts : claim'[h] \in {claim[h], Free}
        /\ \A v \in Workers, h \in Hosts : h \in active'[v] => h \in active[v]
    <3>1. CASE job[w].kind = "web"
      <4>1. Release(w, job[w].host) /\ job[w].host \in Hosts
        BY <1>0, <1>5, <3>1 DEF Answer, TypeOK, Jobs
      <4> QED BY <1>0, <4>1, ReleaseEffect
    <3>2. CASE job[w].kind # "web"
      BY <1>5, <3>2 DEF Answer
    <3> QED BY <3>1, <3>2
  <2>2. \A v \in Workers : pc'[v] # "idle" => pc[v] # "idle"
    BY <1>0, <1>5 DEF TypeOK, Answer, Goto
  <2> QED BY <1>0, <1>5, <2>1, <2>2, FewerClaimsKeepOpen DEF Answer
<1>6. ASSUME NEW w \in Workers, Limited(w)
      PROVE  RunsBeganInThePast' /\ ClaimedIsOpen' /\ RenewableIsOpen'
  <2>1. \A h \in Hosts : claim'[h] = IF h = job[w].host THEN Free ELSE claim[h]
    BY <1>0, <1>6, ClearEffect DEF Limited, Revoked
  <2>2. \A h \in Hosts : h # job[w].host => next'[h] = next[h]
    BY <1>0, <1>6 DEF TypeOK, Limited
  <2>3. \A v \in Workers, h \in Hosts : h \in active'[v] => h \in active[v]
    BY <1>0, <1>6 DEF TypeOK, Limited
  <2>4. \A v \in Workers : pc'[v] # "idle" => pc[v] # "idle"
    BY <1>0, <1>6, ProceedTypes DEF Limited
  <2> QED BY <1>0, <1>6, <2>1, <2>2, <2>3, <2>4, FewerClaimsKeepOpen DEF Limited
<1>7. ASSUME NEW w \in Workers, Accepted(w)
      PROVE  RunsBeganInThePast' /\ ClaimedIsOpen' /\ RenewableIsOpen'
  <2>1. job[w].host \in Hosts
    BY <1>0 DEF TypeOK, Jobs
  <2>2. \A v \in Workers : pc'[v] # "idle" => pc[v] # "idle"
    BY <1>0, <1>7, ProceedTypes DEF Accepted
  <2>3. /\ \A h \in Hosts : claim'[h] \in {claim[h], Free}
        /\ \A v \in Workers, h \in Hosts : h \in active'[v] => h \in active[v]
    BY <1>0, <1>7, <2>1, ReleaseEffect DEF Accepted
  <2> QED BY <1>0, <1>7, <2>2, <2>3, FewerClaimsKeepOpen DEF Accepted
<1>8. ASSUME NEW w \in Workers, Failed(w)
      PROVE  RunsBeganInThePast' /\ ClaimedIsOpen' /\ RenewableIsOpen'
  <2>1. \A v \in Workers : pc'[v] # "idle" => pc[v] # "idle"
    BY <1>0, <1>8, ProceedTypes DEF Failed
  <2> QED BY <1>0, <1>8, <2>1, FewerClaimsKeepOpen DEF Failed
<1>9. ASSUME NEW w \in Workers, Close(w)
      PROVE  RunsBeganInThePast' /\ ClaimedIsOpen' /\ RenewableIsOpen'
  <2>1. \A v \in Workers : pc'[v] # "idle" => pc[v] # "idle"
    BY <1>0, <1>9 DEF TypeOK, Close, Goto
  <2>2. /\ \A h \in Hosts : claim'[h] \in {claim[h], Free}
        /\ \A v \in Workers, h \in Hosts : h \in active'[v] => h \in active[v]
    BY <1>0, <1>9, HostAssumption, ReleaseEffect DEF Close
  <2> QED BY <1>0, <1>9, <2>1, <2>2, FewerClaimsKeepOpen DEF Close
<1>11. ASSUME NEW w \in Workers, SendAgain(w)
      PROVE  RunsBeganInThePast' /\ ClaimedIsOpen' /\ RenewableIsOpen'
  BY <1>0, <1>11, FewerClaimsKeepOpen DEF SendAgain
<1>10. CASE Tick \/ UNCHANGED vars
  <2>1. now' \in Nat /\ now <= now' /\ UNCHANGED <<claim, next, pc, startedAt, active>>
    BY <1>0, <1>10 DEF Tick, vars
  <2> QED BY <2>1, FewerClaimsKeepOpen
<1> QED
  BY <1>1, <1>2, <1>3, <1>4, <1>5, <1>6, <1>7, <1>8, <1>9, <1>10, <1>11
  DEF Next, WorkerStep, Evaluate

(* Every reachable state satisfies the inductive invariant: whoever holds  *)
(* a claim it could renew holds it outside the host's window.              *)
THEOREM ClaimInvariant == Spec => []IInv
<1>1. Init => IInv
  <2>1. Init => TypeOK
    BY HostAssumption, NoJobIsJob DEF Init, TypeOK
  <2> QED BY <2>1 DEF Init, IInv, RunsBeganInThePast, ClaimedIsOpen, RenewableIsOpen, Holds
<1> QED BY <1>1, IInvStep, TypeCorrect, PTL DEF Spec

(* API requests are made by the GitHub adapter only.                       *)
ApiIsGithub == \A w \in Workers : pc[w] = "api" => job[w].kind = "github"

LEMMA ApiRequestsAreGithub == Spec => []ApiIsGithub
<1>1. Init => ApiIsGithub
  BY DEF Init, ApiIsGithub
<1>2. TypeOK /\ ApiIsGithub /\ [Next]_vars => ApiIsGithub'
  <2> SUFFICES ASSUME TypeOK, ApiIsGithub, [Next]_vars PROVE ApiIsGithub'
    OBVIOUS
  <2>1. \A w \in Workers : Proceed(w) => ApiIsGithub'
    BY NoJobIsJob DEF TypeOK, ApiIsGithub, Proceed, Goto
  <2>2. \A w \in Workers, place \in {"idle", "started", "running", "sending", "answered"} :
           Goto(w, place) /\ (job' = job \/ \E j : job' = [job EXCEPT ![w] = j]) => ApiIsGithub'
    BY DEF TypeOK, ApiIsGithub, Goto
  <2>3. ASSUME NEW w \in Workers, Prepare(w) PROVE ApiIsGithub'
    <3>1. PICK j \in Jobs :
            /\ job' = [job EXCEPT ![w] = j]
            /\ IF j.kind = "web" THEN Goto(w, "sending") ELSE Goto(w, "api")
      BY <2>3 DEF Prepare
    <3>2. j.kind \in {"web", "github"}
      BY DEF Jobs
    <3> QED BY <3>1, <3>2 DEF TypeOK, ApiIsGithub, Goto
  <2>4. ASSUME NEW w \in Workers, Start(w) \/ Reap(w) \/ PrepareApi(w) \/ Answer(w)
        PROVE ApiIsGithub'
    BY <2>2, <2>4 DEF Start, Reap, PrepareApi, Answer
  <2>5. ASSUME NEW w \in Workers, Close(w) \/ Finish(w) \/ Crash(w) PROVE ApiIsGithub'
    BY <2>2, <2>5 DEF Close, Finish, Crash
  <2>6. ASSUME NEW w \in Workers, Evaluate(w) PROVE ApiIsGithub'
    BY <2>1, <2>6 DEF Evaluate, Limited, Accepted, Failed
  <2>7. ASSUME NEW w \in Workers, SendAgain(w) PROVE ApiIsGithub'
    BY <2>7 DEF SendAgain, ApiIsGithub
  <2>8. CASE Tick \/ UNCHANGED vars
    BY <2>8 DEF Tick, vars, workerVars, ApiIsGithub
  <2> QED BY <2>3, <2>4, <2>5, <2>6, <2>7, <2>8 DEF Next, WorkerStep
<1> QED BY <1>1, <1>2, TypeCorrect, PTL DEF Spec

(* No request is sent inside the recorded window of its host, by a renewed *)
(* claim or not, as the first request of a fetch or as its repetition; the *)
(* exception is a repetition after the claim it was sent under was lost.   *)
THEOREM WindowsAreRespected == Spec => WindowRespected
<1> DEFINE Respects(w) ==
      next[RequestHost(w)'] <= startedAt[w] \/ (sent[w] > 0 /\ ~Holds(w, RequestHost(w)'))
<1>1. ASSUME IInv, ApiIsGithub, [Next]_vars, NEW w \in Workers, sent'[w] > sent[w]
      PROVE  Respects(w)
  <2>0. TypeOK
    BY <1>1 DEF IInv
  <2>1. \A h \in Hosts : pc[w] # "idle" /\ Allowed(w, h) => next[h] <= startedAt[w]
    BY <1>1 DEF IInv, Allowed, Acquirable, RenewableIsOpen
  <2>2. Prepare(w) \/ PrepareApi(w) \/ SendAgain(w)
    <3>1. UNCHANGED requestVars => sent'[w] = sent[w]
      BY DEF requestVars
    <3>2. sent[w] \in Nat
      BY <2>0, HostAssumption DEF TypeOK
    <3>3. \A v \in Workers : NoRequest(v) => sent'[w] \in {0, sent[w]}
      BY <2>0 DEF TypeOK, NoRequest
    <3>4. \A v \in Workers : v # w /\ Send(v) => sent'[w] = sent[w]
      BY <2>0 DEF TypeOK, Send
    <3>5. \A v \in Workers : v # w => ~Prepare(v) /\ ~PrepareApi(v) /\ ~SendAgain(v)
      BY <1>1, <3>1, <3>2, <3>4 DEF Prepare, PrepareApi, SendAgain
    <3>6. ~Tick /\ ~UNCHANGED vars
      BY <1>1, <3>1, <3>2 DEF Tick, vars, workerVars
    <3>7. \A v \in Workers : ~Start(v) /\ ~Reap(v) /\ ~Finish(v) /\ ~Close(v) /\ ~Evaluate(v)
      BY <1>1, <3>1, <3>2 DEF Start, Reap, Finish, Close, Evaluate, Limited, Accepted, Failed
    <3>8. \A v \in Workers : ~Crash(v) /\ ~Answer(v)
      BY <1>1, <3>2, <3>3 DEF Crash, Answer
    <3> QED BY <1>1, <3>5, <3>6, <3>7, <3>8 DEF Next, WorkerStep
  <2>3. CASE PrepareApi(w)
    <3>1. pc[w] = "api" /\ Claim(w, ApiHost) /\ job' = job
      BY <2>3 DEF PrepareApi
    <3>2. RequestHost(w)' = ApiHost
      BY <1>1, <3>1 DEF ApiIsGithub, RequestHost
    <3> QED BY <2>1, <3>1, <3>2, HostAssumption DEF Claim
  <2>4. CASE Prepare(w)
    <3>1. PICK j \in Jobs :
            /\ Claim(w, j.host)
            /\ job' = [job EXCEPT ![w] = j]
            /\ IF j.kind = "web"
               THEN Goto(w, "sending") /\ Send(w)
               ELSE Goto(w, "api") /\ UNCHANGED requestVars
      BY <2>4 DEF Prepare
    <3>2. j.kind = "web"
      BY <1>1, <2>0, <3>1, HostAssumption DEF requestVars, TypeOK
    <3>3. RequestHost(w)' = j.host /\ j.host \in Hosts
      BY <2>0, <3>1, <3>2 DEF Jobs, TypeOK, RequestHost
    <3>4. pc[w] = "running"
      BY <2>4 DEF Prepare
    <3> QED BY <2>1, <3>1, <3>3, <3>4 DEF Claim
  <2>5. CASE SendAgain(w)
    <3>1. pc[w] = "sending" /\ job' = job /\ sent[w] > 0
      BY <2>0, <2>5 DEF SendAgain, TypeOK
    <3>2. RequestHost(w)' = RequestHost(w) /\ RequestHost(w) \in Hosts
      BY <2>0, <3>1, HostAssumption DEF RequestHost, TypeOK, Jobs
    <3> QED BY <1>1, <3>1, <3>2 DEF IInv, RenewableIsOpen
  <2> QED BY <2>2, <2>3, <2>4, <2>5
<1>2. IInv /\ ApiIsGithub /\ [Next]_vars =>
        [\A w \in Workers : sent'[w] > sent[w] => Respects(w)]_vars
  BY <1>1
<1> QED BY <1>2, ClaimInvariant, ApiRequestsAreGithub, PTL DEF Spec, WindowRespected

(* A live claim ends only through its holder or a rate-limit answer of     *)
(* that host.                                                              *)
THEOREM ClaimsAreKept == Spec => ClaimKept
<1> DEFINE Kept(h) ==
      \/ until[h] <= now
      \/ h \in active[claim[h]] /\ h \notin active'[claim[h]]
      \/ \E w \in Workers : pc[w] = "answered" /\ job[w].host = h /\ claim'[h] = Free
                              /\ \E d \in Delays : next'[h] = startedAt[w] + d
<1>1. ASSUME IInv, [Next]_vars, NEW h \in Hosts, claim[h] # Free, claim'[h] # claim[h]
      PROVE  Kept(h)
  <2>0. TypeOK /\ RunsBeganInThePast /\ claim[h] \in Workers
    BY <1>1 DEF IInv, TypeOK
  <2>1. ASSUME NEW w \in Workers, NEW k \in Hosts, Claim(w, k) PROVE Kept(h)
    <3>1. k = h
      BY <1>1, <2>0, <2>1, ClaimEffect
    <3>2. ~Holds(w, h)
      BY <1>1, <2>0, <2>1, <3>1, ClaimEffect DEF Holds
    <3>3. until[h] <= startedAt[w] /\ startedAt[w] <= now
      BY <1>1, <2>0, <2>1, <3>1, <3>2 DEF Claim, Allowed, Acquirable, RunsBeganInThePast
    <3> QED BY <2>0, <3>3 DEF TypeOK
  <2>2. ASSUME NEW w \in Workers, NEW k \in Hosts, Release(w, k) PROVE Kept(h)
    <3>1. k = h /\ Holds(w, h)
      BY <1>1, <2>0, <2>2, ReleaseEffect
    <3>2. h \notin active'[w]
      BY <2>0, <2>2, <3>1, ReleaseEffect
    <3> QED BY <3>1, <3>2 DEF Holds
  <2>3. ASSUME NEW w \in Workers, Reap(w) PROVE Kept(h)
    <3>1. until[h] <= startedAt[w] /\ startedAt[w] <= now
      BY <1>1, <2>0, <2>3, ClearEffect DEF Reap, RunsBeganInThePast
    <3> QED BY <2>0, <3>1 DEF TypeOK
  <2>4. ASSUME NEW w \in Workers, Limited(w) PROVE Kept(h)
    <3>1. job[w].host = h /\ claim'[h] = Free
      BY <1>1, <2>0, <2>4, ClearEffect DEF Limited, Revoked
    <3>2. \E d \in Delays : next'[h] = startedAt[w] + d
      BY <2>0, <2>4, <3>1 DEF Limited, TypeOK
    <3> QED BY <2>4, <3>1, <3>2 DEF Limited
  <2>5. ASSUME NEW w \in Workers, Prepare(w) PROVE Kept(h)
    <3>1. PICK j \in Jobs : Claim(w, j.host)
      BY <2>5 DEF Prepare
    <3> QED BY <2>1, <3>1 DEF Jobs
  <2>6. ASSUME NEW w \in Workers, Answer(w) PROVE Kept(h)
    <3>1. Release(w, job[w].host)
      BY <1>1, <2>6 DEF Answer
    <3> QED BY <2>0, <2>2, <3>1 DEF TypeOK, Jobs
  <2>7. ASSUME NEW w \in Workers, Accepted(w) PROVE Kept(h)
    BY <2>0, <2>2, <2>7 DEF Accepted, TypeOK, Jobs
  <2>8. ASSUME NEW w \in Workers, PrepareApi(w) \/ Close(w) PROVE Kept(h)
    BY <2>1, <2>2, <2>8, HostAssumption DEF PrepareApi, Close
  <2>9. ASSUME NEW w \in Workers, Start(w) \/ Finish(w) \/ Crash(w) \/ SendAgain(w) \/ Failed(w)
        PROVE Kept(h)
    BY <1>1, <2>9 DEF Start, Finish, Crash, SendAgain, Failed, tableVars
  <2>10. CASE Tick \/ UNCHANGED vars
    BY <1>1, <2>10 DEF Tick, vars, tableVars
  <2> QED
    BY <1>1, <2>3, <2>4, <2>5, <2>6, <2>7, <2>8, <2>9, <2>10 DEF Next, WorkerStep, Evaluate
<1>2. IInv /\ [Next]_vars =>
        [\A h \in Hosts : claim[h] # Free /\ claim'[h] # claim[h] => Kept(h)]_vars
  BY <1>1
<1> QED BY <1>2, ClaimInvariant, PTL DEF Spec, ClaimKept
=============================================================================
