---------------------- MODULE NotificationDispatchProofs ----------------------
(***************************************************************************)
(* Proofs about NotificationDispatch for any number of dispatchers and     *)
(* notifications, any keys and similarities, and any bounds.               *)
(***************************************************************************)
EXTENDS FencedDispatch, FiniteSetTheorems, TLAPS

(* A dispatch token or an answer in hand belongs to a row that this very   *)
(* batch selected.                                                         *)
HoldsInBatch ==
  \A d \in Dispatchers, n \in Notifications :
    /\ held[d][n] # 0 => pc[d] = "sending" /\ n \in picked[d]
    /\ result[d][n] # "none" => held[d][n] # 0
    /\ n \in picked[d] => pc[d] # "idle"

(* As long as its token is in the row, a holder's lease is LeaseTime from  *)
(* its own "now".                                                          *)
LeaseExact ==
  \A d \in Dispatchers, n \in Notifications :
    held[d][n] # 0 /\ token[n] = held[d][n] => lease[n] = LeaseTime - age[d]

(* Two dispatchers never hold the same dispatch token. *)
TokensDiffer ==
  \A n \in Notifications, d \in Dispatchers :
    held[d][n] # 0 => \A e \in Dispatchers \ {d} : held[e][n] # held[d][n]

(* A payload in hand was read before the last attempt, and while there was *)
(* a retry left, or one more that an operator gave.                        *)
PayloadsAreOld ==
  /\ \A n \in Notifications :
       /\ retries[n] <= MaxRetries + requeues
       /\ status[n] \notin Closed => retries[n] < MaxRetries + requeues
  /\ \A d \in Dispatchers, n \in Notifications :
       /\ n \in picked[d] =>
            /\ attempts[n] < MaxRetries => seen[d][n] <= attempts[n]
            /\ seen[d][n] < MaxRetries + requeues
       /\ result[d][n] # "none" /\ attempts[n] < MaxRetries => seen[d][n] < attempts[n]

(* What silences a message was sent: a running cooldown stands for an      *)
(* accepted message of the key, a remembered text for an attempt.          *)
SilencersAreTrue ==
  \A d \in Dispatchers :
    /\ \A k \in Keys : since[d][k] < Cooldown => \E m \in accepted : Key[m] = k
    /\ \A m \in history[d] : attempts[m] > 0
    /\ \A n \in Notifications : result[d][n] = "success" => n \in accepted

IInv ==
  /\ TypeOK
  /\ HoldsInBatch
  /\ LeaseExact /\ TokensDiffer
  /\ PayloadsAreOld /\ NoEarlyFailure
  /\ SilencersAreTrue /\ SilencedForAnother

-----------------------------------------------------------------------------
(* A fresh token exists: fewer tokens are remembered than there are.       *)
LEMMA FreshIsFresh ==
  ASSUME TypeOK, NEW n \in Notifications
  PROVE  /\ Fresh(n) \in Tokens /\ Fresh(n) # 0 /\ Fresh(n) # token[n]
         /\ \A d \in Dispatchers : Fresh(n) # held[d][n]
<1> DEFINE f == [d \in Dispatchers |-> held[d][n]]
           R == {held[d][n] : d \in Dispatchers}
           used == R \cup {token[n]}
<1>1. f \in Surjection(Dispatchers, R)
  BY DEF Surjection
<1>2. IsFiniteSet(R) /\ Cardinality(R) <= Cardinality(Dispatchers)
  BY <1>1, FiniteAssumption, FS_Surjection
<1>3. Cardinality(Dispatchers) \in Nat /\ Cardinality(R) \in Nat
  BY <1>2, FiniteAssumption, FS_CardinalityType
<1>4. IsFiniteSet(used) /\ Cardinality(used) <= Cardinality(R) + 1
  <2> HIDE DEF R
  <2> QED BY <1>2, <1>3, FS_AddElement
<1>5. Cardinality(Tokens) = Cardinality(Dispatchers) + 2
  BY <1>3, FS_Interval DEF Tokens
<1>6. ~(Tokens \subseteq used)
  BY <1>2, <1>3, <1>4, <1>5, FS_Subset, FS_CardinalityType
<1>7. \E k \in Tokens : k # token[n] /\ \A d \in Dispatchers : k # held[d][n]
  BY <1>6
<1>8. 0 \notin Tokens
  BY <1>3 DEF Tokens
<1> QED BY <1>7, <1>8 DEF Fresh

LEMMA OutlivedIsCounted == Cardinality(Outlived) \in Nat
BY FiniteAssumption, FS_Subset, FS_CardinalityType DEF Outlived

-----------------------------------------------------------------------------
(* Forms of preservation: what a step has to say of its effect for a part  *)
(* of the invariant to survive it.                                         *)

(* Tokens are only dropped, and rows only released. *)
LEMMA DroppingKeepsLeases ==
  ASSUME IInv,
         \A d \in Dispatchers, n \in Notifications :
           held'[d][n] # 0 => held'[d][n] = held[d][n] /\ age'[d] = age[d],
         \A n \in Notifications : token'[n] = 0 \/ (token'[n] = token[n] /\ lease'[n] = lease[n])
  PROVE  LeaseExact' /\ TokensDiffer'
<1>1. LeaseExact'
  BY DEF IInv, LeaseExact
<1>2. TokensDiffer'
  BY DEF IInv, TokensDiffer
<1> QED BY <1>1, <1>2

(* Attempts only grow, results are recorded with a truthful count, and     *)
(* payloads are read as they are.                                          *)
LEMMA CountsKept ==
  ASSUME IInv, TypeOK', requeues <= requeues',
         \A n \in Notifications : attempts[n] <= attempts'[n],
         \A n \in Notifications :
           \/ status'[n] = status[n] /\ retries'[n] = retries[n]
           \/ /\ attempts'[n] < MaxRetries => retries'[n] <= attempts'[n]
              /\ retries'[n] <= MaxRetries + requeues'
              /\ status'[n] \notin Closed => retries'[n] < MaxRetries + requeues'
              /\ status'[n] = "failed" => attempts'[n] = MaxRetries,
         \A d \in Dispatchers, n \in Notifications :
           /\ n \in picked'[d] =>
                \/ n \in picked[d] /\ seen'[d][n] = seen[d][n]
                \/ /\ attempts'[n] < MaxRetries => seen'[d][n] <= attempts'[n]
                   /\ seen'[d][n] < MaxRetries + requeues'
           /\ result'[d][n] # "none" =>
                \/ result[d][n] # "none" /\ seen'[d][n] = seen[d][n]
                \/ attempts'[n] < MaxRetries => seen'[d][n] < attempts'[n]
  PROVE  PayloadsAreOld' /\ NoEarlyFailure'
<1>1. /\ \A n \in Notifications : attempts[n] \in 0..MaxRetries /\ attempts'[n] \in 0..MaxRetries
      /\ \A n \in Notifications : retries[n] \in Nat /\ retries'[n] \in Nat
      /\ \A d \in Dispatchers, n \in Notifications : seen[d][n] \in Nat /\ seen'[d][n] \in Nat
      /\ MaxRetries \in Nat /\ requeues \in Nat /\ requeues' \in Nat
  BY DispatchAssumption DEF IInv, TypeOK, MaxAttempts
<1>2. PayloadsAreOld'
  <2>1. ASSUME NEW n \in Notifications
        PROVE  /\ retries'[n] <= MaxRetries + requeues'
               /\ status'[n] \notin Closed => retries'[n] < MaxRetries + requeues'
    <3>1. /\ retries[n] <= MaxRetries + requeues
          /\ status[n] \notin Closed => retries[n] < MaxRetries + requeues
      BY DEF IInv, PayloadsAreOld
    <3> QED BY <1>1, <3>1
  <2>2. ASSUME NEW d \in Dispatchers, NEW n \in Notifications, n \in picked'[d]
        PROVE  /\ attempts'[n] < MaxRetries => seen'[d][n] <= attempts'[n]
               /\ seen'[d][n] < MaxRetries + requeues'
    <3>1. n \in picked[d] => /\ attempts[n] < MaxRetries => seen[d][n] <= attempts[n]
                             /\ seen[d][n] < MaxRetries + requeues
      BY DEF IInv, PayloadsAreOld
    <3>2. attempts[n] <= attempts'[n]
      OBVIOUS
    <3> QED BY <1>1, <2>2, <3>1, <3>2
  <2>3. ASSUME NEW d \in Dispatchers, NEW n \in Notifications,
               result'[d][n] # "none", attempts'[n] < MaxRetries
        PROVE  seen'[d][n] < attempts'[n]
    <3>1. result[d][n] # "none" /\ attempts[n] < MaxRetries => seen[d][n] < attempts[n]
      BY DEF IInv, PayloadsAreOld
    <3>2. attempts[n] <= attempts'[n]
      OBVIOUS
    <3> QED BY <1>1, <2>3, <3>1, <3>2
  <2> QED BY <2>1, <2>2, <2>3 DEF PayloadsAreOld
<1>3. NoEarlyFailure'
  BY <1>1 DEF IInv, NoEarlyFailure
<1> QED BY <1>2, <1>3

(* What silences is backed by an attempt when it begins to silence, and a  *)
(* row becomes "delivered" for a reason.                                   *)
LEMMA TruthKept ==
  ASSUME IInv, TypeOK', accepted \subseteq accepted',
         \A n \in Notifications : attempts[n] <= attempts'[n],
         \A d \in Dispatchers :
           /\ \A k \in Keys : since'[d][k] < Cooldown =>
                since[d][k] < Cooldown \/ \E m \in accepted' : Key[m] = k
           /\ \A m \in history'[d] : m \in history[d] \/ attempts'[m] > 0
           /\ \A n \in Notifications : result'[d][n] = "success" => result[d][n] = "success" \/ n \in accepted',
         \A n \in Notifications : status'[n] = "delivered" =>
           \/ status[n] = "delivered" \/ n \in accepted'
           \/ \E m \in Notifications \ {n} :
                Key[m] = Key[n] /\ (m \in accepted' \/ (<<m, n>> \in Similar /\ attempts'[m] > 0))
  PROVE  SilencersAreTrue' /\ SilencedForAnother'
<1>1. \A n \in Notifications : attempts[n] \in Nat /\ attempts'[n] \in Nat /\ (attempts[n] > 0 => attempts'[n] > 0)
  BY DispatchAssumption DEF IInv, TypeOK
<1>2. \A d \in Dispatchers : history[d] \subseteq Notifications /\ history'[d] \subseteq Notifications
  BY DEF IInv, TypeOK
<1>3. SilencersAreTrue'
  BY <1>1, <1>2 DEF IInv, SilencersAreTrue
<1>4. SilencedForAnother'
  BY <1>1 DEF IInv, SilencedForAnother
<1> QED BY <1>3, <1>4

-----------------------------------------------------------------------------
(* The effects of the operators that actions share.                        *)
LEMMA FinalizeEffect ==
  ASSUME TypeOK, NEW d \in Dispatchers, NEW n \in Notifications,
         NEW s \in Open \cup Closed, NEW r \in 0..MaxAttempts, Finalize(d, n, s, r)
  PROVE  /\ status' \in [Notifications -> {"absent"} \cup Open \cup Closed]
         /\ retries' \in [Notifications -> 0..MaxAttempts]
         /\ token' \in [Notifications -> {0} \cup Tokens]
         /\ lease' \in [Notifications -> Int]
         /\ picked' \in [Dispatchers -> SUBSET Notifications]
         /\ seen' \in [Dispatchers -> [Notifications -> 0..MaxAttempts]]
         /\ held' \in [Dispatchers -> [Notifications -> {0} \cup Tokens]]
         /\ result' \in [Dispatchers -> [Notifications -> {"none", "success", "failure"}]]
         /\ \A e \in Dispatchers, m \in Notifications :
              /\ held'[e][m] = IF e = d /\ m = n THEN 0 ELSE held[e][m]
              /\ result'[e][m] = IF e = d /\ m = n THEN "none" ELSE result[e][m]
              /\ m \in picked'[e] <=> m \in picked[e] /\ ~(e = d /\ m = n)
              /\ ~(e = d /\ m = n) => seen'[e][m] = seen[e][m]
         /\ \A m \in Notifications :
              \/ /\ status'[m] = status[m] /\ retries'[m] = retries[m]
                 /\ token'[m] = token[m] /\ lease'[m] = lease[m]
              \/ /\ m = n /\ token[n] = held[d][n]
                 /\ status'[n] = s /\ retries'[n] = r /\ token'[n] = 0
<1>1. /\ held' \in [Dispatchers -> [Notifications -> {0} \cup Tokens]]
      /\ result' \in [Dispatchers -> [Notifications -> {"none", "success", "failure"}]]
      /\ picked' \in [Dispatchers -> SUBSET Notifications]
      /\ seen' \in [Dispatchers -> [Notifications -> 0..MaxAttempts]]
      /\ \A e \in Dispatchers, m \in Notifications :
           /\ held'[e][m] = IF e = d /\ m = n THEN 0 ELSE held[e][m]
           /\ result'[e][m] = IF e = d /\ m = n THEN "none" ELSE result[e][m]
           /\ m \in picked'[e] <=> m \in picked[e] /\ ~(e = d /\ m = n)
           /\ ~(e = d /\ m = n) => seen'[e][m] = seen[e][m]
  <2>1. /\ held' \in [Dispatchers -> [Notifications -> {0} \cup Tokens]]
        /\ \A e \in Dispatchers, m \in Notifications :
             held'[e][m] = IF e = d /\ m = n THEN 0 ELSE held[e][m]
    BY DEF TypeOK, Finalize, Done
  <2>2. /\ result' \in [Dispatchers -> [Notifications -> {"none", "success", "failure"}]]
        /\ \A e \in Dispatchers, m \in Notifications :
             result'[e][m] = IF e = d /\ m = n THEN "none" ELSE result[e][m]
    BY DEF TypeOK, Finalize, Done
  <2>3. /\ picked' \in [Dispatchers -> SUBSET Notifications]
        /\ \A e \in Dispatchers, m \in Notifications :
             m \in picked'[e] <=> m \in picked[e] /\ ~(e = d /\ m = n)
    BY DEF TypeOK, Finalize, Done
  <2>4. /\ seen' \in [Dispatchers -> [Notifications -> 0..MaxAttempts]]
        /\ \A e \in Dispatchers, m \in Notifications :
             ~(e = d /\ m = n) => seen'[e][m] = seen[e][m]
    <3>1. 0 \in 0..MaxAttempts
      BY DispatchAssumption DEF MaxAttempts
    <3> QED BY <3>1 DEF TypeOK, Finalize, Done
  <2> QED BY <2>1, <2>2, <2>3, <2>4
<1>2. CASE Owns(d, n)
  <2>1. /\ status' = [status EXCEPT ![n] = s] /\ retries' = [retries EXCEPT ![n] = r]
        /\ token' = [token EXCEPT ![n] = 0] /\ lease' = [lease EXCEPT ![n] = 0]
        /\ token[n] = held[d][n]
    BY <1>2 DEF Finalize, Owns, Unlease
  <2>2. /\ status' \in [Notifications -> {"absent"} \cup Open \cup Closed]
        /\ retries' \in [Notifications -> 0..MaxAttempts]
        /\ token' \in [Notifications -> {0} \cup Tokens]
        /\ lease' \in [Notifications -> Int]
    BY <2>1 DEF TypeOK
  <2>3. \A m \in Notifications :
          \/ m # n /\ status'[m] = status[m] /\ retries'[m] = retries[m]
                   /\ token'[m] = token[m] /\ lease'[m] = lease[m]
          \/ m = n /\ status'[n] = s /\ retries'[n] = r /\ token'[n] = 0
    BY <2>1 DEF TypeOK
  <2> QED BY <1>1, <2>1, <2>2, <2>3
<1>3. CASE ~Owns(d, n)
  BY <1>1, <1>3 DEF TypeOK, Finalize, tableVars
<1> QED BY <1>2, <1>3

LEMMA IdleEffect ==
  ASSUME TypeOK, NEW d \in Dispatchers, Idle(d)
  PROVE  /\ pc' \in [Dispatchers -> {"idle", "selected", "sending"}]
         /\ age' \in [Dispatchers -> 0..MaxAge]
         /\ picked' \in [Dispatchers -> SUBSET Notifications]
         /\ seen' \in [Dispatchers -> [Notifications -> 0..MaxAttempts]]
         /\ held' \in [Dispatchers -> [Notifications -> {0} \cup Tokens]]
         /\ result' \in [Dispatchers -> [Notifications -> {"none", "success", "failure"}]]
         /\ picked'[d] = {}
         /\ \A n \in Notifications : held'[d][n] = 0 /\ result'[d][n] = "none"
         /\ \A e \in Dispatchers \ {d} :
              /\ pc'[e] = pc[e] /\ age'[e] = age[e] /\ picked'[e] = picked[e]
              /\ seen'[e] = seen[e] /\ held'[e] = held[e] /\ result'[e] = result[e]
BY DispatchAssumption DEF TypeOK, Idle, Nothing, NoResult, MaxAttempts

LEMMA RememberEffect ==
  ASSUME TypeOK, NEW d \in Dispatchers, NEW n \in Notifications, Remember(d, n)
  PROVE  /\ history' \in [Dispatchers -> SUBSET Notifications]
         /\ \A e \in Dispatchers \ Guarded : history'[e] = history[e]
         /\ \A e \in Dispatchers : history'[e] \subseteq history[e] \cup {n}
BY DEF TypeOK, Remember

LEMMA AttemptedEffect ==
  ASSUME TypeOK, NEW n \in Notifications, Attempted(n)
  PROVE  /\ attempts' \in [Notifications -> 0..MaxRetries]
         /\ \A m \in Notifications : attempts[m] <= attempts'[m]
         /\ attempts'[n] < MaxRetries => attempts[n] < attempts'[n] /\ attempts[n] < MaxRetries
         /\ attempts'[n] > 0
BY DispatchAssumption DEF TypeOK, Attempted

LEMMA RecordEffect ==
  ASSUME TypeOK, NEW d \in Dispatchers, NEW n \in Notifications, Record(d, n)
  PROVE  /\ since' \in [Dispatchers -> [Keys -> 0..Cooldown]]
         /\ history' \in [Dispatchers -> SUBSET Notifications]
         /\ \A e \in Dispatchers \ Guarded : since'[e] = since[e] /\ history'[e] = history[e]
         /\ \A e \in Dispatchers, k \in Keys : since'[e][k] = since[e][k] \/ k = Key[n]
         /\ \A e \in Dispatchers : history'[e] \subseteq history[e] \cup {n}
<1>1. CASE d \in Guarded
  <2>1. since' = [since EXCEPT ![d][Key[n]] = 0] /\ Remember(d, n)
    BY <1>1 DEF Record
  <2>2. Key[n] \in Keys /\ 0 \in 0..Cooldown
    BY DispatchAssumption DEF Keys
  <2>3. since' \in [Dispatchers -> [Keys -> 0..Cooldown]]
    BY <2>1, <2>2 DEF TypeOK
  <2>4. \A e \in Dispatchers \ {d} : since'[e] = since[e]
    BY <2>1 DEF TypeOK
  <2>5. \A k \in Keys : since'[d][k] = since[d][k] \/ k = Key[n]
    BY <2>1 DEF TypeOK
  <2> QED BY <1>1, <2>1, <2>3, <2>4, <2>5, RememberEffect
<1>2. CASE d \notin Guarded
  BY <1>2 DEF Record, silencerVars, TypeOK
<1> QED BY <1>1, <1>2

-----------------------------------------------------------------------------
(* The actions. *)
LEMMA CreateKeepsInv ==
  ASSUME IInv, NEW n \in Notifications, Create(n) PROVE IInv'
<1> USE DEF dispatcherVars, silencerVars, operatorVars, historyVars
<1>1. TypeOK'
  BY DEF IInv, TypeOK, Create, Open
<1>2. HoldsInBatch'
  BY DEF IInv, HoldsInBatch, Create
<1>3. LeaseExact' /\ TokensDiffer'
  BY DroppingKeepsLeases DEF Create
<1>4. \A m \in Notifications : attempts[m] <= attempts'[m]
  BY DispatchAssumption DEF IInv, TypeOK, Create
<1>5. \A m \in Notifications : status'[m] = status[m] \/ (m = n /\ status'[m] = "pending")
  <2>1. status' = [status EXCEPT ![n] = "pending"]
    BY DEF Create
  <2> QED BY <2>1 DEF IInv, TypeOK
<1>6. /\ retries'[n] < MaxRetries + requeues'
      /\ attempts'[n] < MaxRetries => retries'[n] <= attempts'[n]
  BY DEF IInv, PayloadsAreOld, NoEarlyFailure, Create, Closed
<1>7. PayloadsAreOld' /\ NoEarlyFailure'
  <2>1. requeues \in Nat /\ requeues' = requeues /\ MaxRetries \in Nat /\ retries'[n] \in Nat
    BY <1>1, DispatchAssumption DEF IInv, TypeOK, Create
  <2>2. requeues <= requeues' /\ retries'[n] <= MaxRetries + requeues'
    BY <1>6, <2>1
  <2>3. \A m \in Notifications :
          \/ status'[m] = status[m] /\ retries'[m] = retries[m]
          \/ /\ attempts'[m] < MaxRetries => retries'[m] <= attempts'[m]
             /\ retries'[m] <= MaxRetries + requeues' /\ retries'[m] < MaxRetries + requeues'
             /\ status'[m] # "failed"
    BY <1>5, <1>6, <2>2 DEF Create
  <2> QED BY <1>1, <1>4, <2>2, <2>3, CountsKept DEF Create
<1>8. SilencersAreTrue' /\ SilencedForAnother'
  BY <1>1, <1>4, <1>5, TruthKept DEF Create
<1> QED BY <1>1, <1>2, <1>3, <1>7, <1>8 DEF IInv

LEMMA SelectKeepsInv ==
  ASSUME IInv, NEW d \in Dispatchers, Select(d) PROVE IInv'
<1> USE DEF tableVars, silencerVars, operatorVars, historyVars
<1>1. PICK S \in SUBSET {n \in Notifications : status[n] \in Open /\ Unleased(n, 0)} :
        /\ picked' = [picked EXCEPT ![d] = S]
        /\ seen' = [seen EXCEPT ![d] = [n \in Notifications |-> IF n \in S THEN retries[n] ELSE 0]]
  BY DEF Select
<1>2. TypeOK'
  <2>1. picked' \in [Dispatchers -> SUBSET Notifications]
    BY <1>1 DEF IInv, TypeOK
  <2>2. seen' \in [Dispatchers -> [Notifications -> 0..MaxAttempts]]
    <3>1. [n \in Notifications |-> IF n \in S THEN retries[n] ELSE 0] \in [Notifications -> 0..MaxAttempts]
      BY DispatchAssumption DEF IInv, TypeOK, MaxAttempts
    <3> QED BY <1>1, <3>1 DEF IInv, TypeOK
  <2>3. pc' \in [Dispatchers -> {"idle", "selected", "sending"}]
    BY DEF IInv, TypeOK, Select
  <2> QED BY <2>1, <2>2, <2>3 DEF IInv, TypeOK, Select
<1>3. /\ pc[d] = "idle" /\ pc'[d] = "selected" /\ picked'[d] = S
      /\ \A n \in S : seen'[d][n] = retries[n]
      /\ \A e \in Dispatchers \ {d} : pc'[e] = pc[e] /\ picked'[e] = picked[e] /\ seen'[e] = seen[e]
  BY <1>1 DEF IInv, TypeOK, Select
<1>4. \A n \in Notifications : held[d][n] = 0 /\ result[d][n] = "none"
  BY <1>3 DEF IInv, HoldsInBatch
<1>5. HoldsInBatch'
  <2> SUFFICES ASSUME NEW e \in Dispatchers, NEW n \in Notifications
               PROVE  /\ held'[e][n] # 0 => pc'[e] = "sending" /\ n \in picked'[e]
                      /\ result'[e][n] # "none" => held'[e][n] # 0
                      /\ n \in picked'[e] => pc'[e] # "idle"
    BY DEF HoldsInBatch
  <2>1. held' = held /\ result' = result
    BY DEF Select
  <2>2. CASE e = d
    BY <1>3, <1>4, <2>1, <2>2
  <2>3. CASE e # d
    BY <1>3, <2>1, <2>3 DEF IInv, HoldsInBatch
  <2> QED BY <2>2, <2>3
<1>6. LeaseExact' /\ TokensDiffer'
  BY DroppingKeepsLeases DEF Select
<1>7. \A n \in S : /\ attempts[n] < MaxRetries => retries[n] <= attempts[n]
                   /\ retries[n] < MaxRetries + requeues
  BY DEF IInv, PayloadsAreOld, NoEarlyFailure, Open, Closed
<1>8. requeues <= requeues' /\ \A n \in Notifications : attempts[n] <= attempts'[n]
  BY DispatchAssumption DEF IInv, TypeOK, Select
<1>9. PayloadsAreOld' /\ NoEarlyFailure'
  <2>1. UNCHANGED <<status, retries, attempts, requeues, result>>
    BY DEF Select
  <2>2. ASSUME NEW e \in Dispatchers, NEW n \in Notifications
        PROVE  /\ n \in picked'[e] =>
                    \/ n \in picked[e] /\ seen'[e][n] = seen[e][n]
                    \/ /\ attempts'[n] < MaxRetries => seen'[e][n] <= attempts'[n]
                       /\ seen'[e][n] < MaxRetries + requeues'
               /\ result'[e][n] # "none" => result[e][n] # "none" /\ seen'[e][n] = seen[e][n]
    <3>1. CASE e = d
      BY <1>3, <1>4, <1>7, <2>1, <3>1
    <3>2. CASE e # d
      BY <1>3, <2>1, <3>2
    <3> QED BY <3>1, <3>2
  <2> QED BY <1>2, <1>8, <2>1, <2>2, CountsKept
<1>10. SilencersAreTrue' /\ SilencedForAnother'
  BY <1>2, <1>8, TruthKept DEF Select
<1> QED BY <1>2, <1>5, <1>6, <1>9, <1>10 DEF IInv

LEMMA ClaimKeepsInv ==
  ASSUME IInv, NEW d \in Dispatchers, Claim(d) PROVE IInv'
<1> USE DEF silencerVars, operatorVars, historyVars
<1> DEFINE C == {n \in picked[d] : Unleased(n, age[d])}
<1>0. TypeOK
  BY DEF IInv
<1>1. /\ token' = [n \in Notifications |-> IF n \in C THEN Fresh(n) ELSE token[n]]
      /\ held' = [held EXCEPT ![d] = [n \in Notifications |-> IF n \in C THEN Fresh(n) ELSE 0]]
      /\ lease' = [n \in Notifications |-> IF n \in C THEN LeaseTime - age[d] ELSE lease[n]]
      /\ picked' = [picked EXCEPT ![d] = C]
      /\ seen' = [seen EXCEPT ![d] = [n \in Notifications |-> IF n \in C THEN @[n] ELSE 0]]
      /\ pc' = [pc EXCEPT ![d] = "sending"]
      /\ pc[d] = "selected"
      /\ UNCHANGED <<status, retries, age, result, silencerVars, operatorVars, historyVars, faults>>
  BY DEF Claim
<1>2. \A n \in Notifications :
        /\ Fresh(n) \in Tokens /\ Fresh(n) # 0 /\ Fresh(n) # token[n]
        /\ \A e \in Dispatchers : Fresh(n) # held[e][n]
  BY <1>0, FreshIsFresh
<1>3. C \subseteq picked[d] /\ C \subseteq Notifications
  BY <1>0 DEF TypeOK
<1> HIDE DEF C
<1>4. /\ \A n \in Notifications : held'[d][n] = IF n \in C THEN Fresh(n) ELSE 0
      /\ \A e \in Dispatchers \ {d} : held'[e] = held[e] /\ pc'[e] = pc[e]
      /\ pc'[d] = "sending"
  BY <1>0, <1>1 DEF TypeOK
<1>5. /\ picked'[d] = C /\ \A n \in C : seen'[d][n] = seen[d][n]
      /\ \A e \in Dispatchers \ {d} : picked'[e] = picked[e] /\ seen'[e] = seen[e]
  BY <1>0, <1>1, <1>3 DEF TypeOK
<1>6. TypeOK'
  <2>1. token' \in [Notifications -> {0} \cup Tokens]
    BY <1>0, <1>1, <1>2 DEF TypeOK
  <2>2. held' \in [Dispatchers -> [Notifications -> {0} \cup Tokens]]
    BY <1>0, <1>1, <1>2 DEF TypeOK
  <2>3. lease' \in [Notifications -> Int]
    BY <1>0, <1>1, DispatchAssumption DEF TypeOK
  <2>4. picked' \in [Dispatchers -> SUBSET Notifications]
    BY <1>0, <1>1, <1>3 DEF TypeOK
  <2>5. seen' \in [Dispatchers -> [Notifications -> 0..MaxAttempts]]
    <3>1. [n \in Notifications |-> IF n \in C THEN seen[d][n] ELSE 0] \in [Notifications -> 0..MaxAttempts]
      BY <1>0, DispatchAssumption DEF TypeOK, MaxAttempts
    <3> QED BY <1>0, <1>1, <3>1 DEF TypeOK
  <2> QED BY <1>0, <1>1, <2>1, <2>2, <2>3, <2>4, <2>5 DEF TypeOK
<1>7. HoldsInBatch'
  <2> SUFFICES ASSUME NEW e \in Dispatchers, NEW n \in Notifications
               PROVE  /\ held'[e][n] # 0 => pc'[e] = "sending" /\ n \in picked'[e]
                      /\ result'[e][n] # "none" => held'[e][n] # 0
                      /\ n \in picked'[e] => pc'[e] # "idle"
    BY DEF HoldsInBatch
  <2>1. CASE e = d
    <3>1. result[d][n] = "none"
      BY <1>1 DEF IInv, HoldsInBatch
    <3> QED BY <1>1, <1>4, <1>5, <2>1, <3>1
  <2>2. CASE e # d
    BY <1>1, <1>4, <1>5, <2>2 DEF IInv, HoldsInBatch
  <2> QED BY <2>1, <2>2
<1>8. LeaseExact'
  <2> SUFFICES ASSUME NEW e \in Dispatchers, NEW n \in Notifications,
                      held'[e][n] # 0, token'[n] = held'[e][n]
               PROVE  lease'[n] = LeaseTime - age'[e]
    BY DEF LeaseExact
  <2>1. CASE e = d
    BY <1>1, <1>4, <2>1
  <2>2. CASE e # d /\ n \in C
    BY <1>1, <1>2, <1>4, <2>2
  <2>3. CASE e # d /\ n \notin C
    BY <1>1, <1>4, <2>3 DEF IInv, LeaseExact
  <2> QED BY <2>1, <2>2, <2>3
<1>9. TokensDiffer'
  <2> SUFFICES ASSUME NEW n \in Notifications, NEW e \in Dispatchers, held'[e][n] # 0,
                      NEW x \in Dispatchers \ {e}
               PROVE  held'[x][n] # held'[e][n]
    BY DEF TokensDiffer
  <2>1. CASE e = d
    BY <1>2, <1>4, <2>1
  <2>2. CASE e # d
    BY <1>2, <1>4, <2>2 DEF IInv, TokensDiffer
  <2> QED BY <2>1, <2>2
<1>10. requeues <= requeues' /\ \A n \in Notifications : attempts[n] <= attempts'[n]
  BY <1>0, <1>1, DispatchAssumption DEF TypeOK
<1>11. PayloadsAreOld' /\ NoEarlyFailure'
  <2>1. \A e \in Dispatchers, n \in Notifications :
          n \in picked'[e] => n \in picked[e] /\ seen'[e][n] = seen[e][n]
    BY <1>3, <1>5
  <2>2. \A e \in Dispatchers, n \in Notifications :
          result'[e][n] # "none" => result[e][n] # "none" /\ seen'[e][n] = seen[e][n]
    BY <1>1, <1>5 DEF IInv, HoldsInBatch
  <2> QED BY <1>1, <1>6, <1>10, <2>1, <2>2, CountsKept
<1>12. SilencersAreTrue' /\ SilencedForAnother'
  BY <1>1, <1>6, <1>10, TruthKept
<1> QED BY <1>6, <1>7, <1>8, <1>9, <1>11, <1>12 DEF IInv

LEMMA SendKeepsInv ==
  ASSUME IInv, NEW d \in Dispatchers, NEW n \in Notifications, Send(d, n) PROVE IInv'
<1> USE DEF tableVars, operatorVars
<1>0. TypeOK
  BY DEF IInv
<1>1. PICK answer \in {"success", "failure"} :
        /\ result' = [result EXCEPT ![d][n] = answer]
        /\ accepted' = IF answer = "success" THEN accepted \cup {n} ELSE accepted
  BY DEF Send, Answers
<1>2. /\ held[d][n] # 0 /\ pc[d] = "sending" /\ n \in picked[d]
      /\ Remember(d, n) /\ Attempted(n)
      /\ UNCHANGED <<status, retries, token, lease, pc, age, picked, seen, held, since, listed, requeues, faults>>
  BY DEF Send, Current, IInv, HoldsInBatch
<1>3. /\ result' \in [Dispatchers -> [Notifications -> {"none", "success", "failure"}]]
      /\ \A e \in Dispatchers, m \in Notifications :
           result'[e][m] = IF e = d /\ m = n THEN answer ELSE result[e][m]
  BY <1>0, <1>1 DEF TypeOK
<1>4. /\ \A m \in Notifications : attempts[m] <= attempts'[m]
      /\ attempts'[n] > 0 /\ (attempts'[n] < MaxRetries => seen[d][n] < attempts'[n])
      /\ requeues <= requeues'
  <2>1. attempts[n] < MaxRetries => seen[d][n] <= attempts[n]
    BY <1>2 DEF IInv, PayloadsAreOld
  <2>2. seen[d][n] \in Nat /\ attempts[n] \in Nat /\ requeues \in Nat /\ requeues' = requeues
    BY <1>0, <1>2, DispatchAssumption DEF TypeOK, MaxAttempts
  <2>3. /\ attempts' \in [Notifications -> 0..MaxRetries]
        /\ \A m \in Notifications : attempts[m] <= attempts'[m]
        /\ attempts'[n] > 0
        /\ attempts'[n] < MaxRetries => attempts[n] < attempts'[n] /\ attempts[n] < MaxRetries
    BY <1>0, <1>2, AttemptedEffect
  <2>4. attempts'[n] \in Nat
    BY <2>3, DispatchAssumption
  <2> QED BY <2>1, <2>2, <2>3, <2>4
<1>5. TypeOK'
  <2>1. accepted' \subseteq Notifications
    BY <1>0, <1>1 DEF TypeOK
  <2>2. \A e \in Dispatchers \ Guarded : since'[e] = Never /\ history'[e] = {}
    BY <1>0, <1>2, RememberEffect DEF TypeOK
  <2> QED BY <1>0, <1>2, <1>3, <2>1, <2>2, RememberEffect, AttemptedEffect DEF TypeOK
<1>6. HoldsInBatch'
  BY <1>2, <1>3 DEF IInv, HoldsInBatch
<1>7. LeaseExact' /\ TokensDiffer'
  BY <1>2, DroppingKeepsLeases
<1>8. PayloadsAreOld' /\ NoEarlyFailure'
  BY <1>2, <1>3, <1>4, <1>5, CountsKept
<1>9. SilencersAreTrue' /\ SilencedForAnother'
  <2>1. \A e \in Dispatchers : \A m \in history'[e] : m \in history[e] \/ attempts'[m] > 0
    BY <1>0, <1>2, <1>4, RememberEffect
  <2>2. accepted \subseteq accepted' /\ (answer = "success" => n \in accepted')
    BY <1>1
  <2> QED BY <1>2, <1>3, <1>4, <1>5, <2>1, <2>2, TruthKept
<1> QED BY <1>5, <1>6, <1>7, <1>8, <1>9 DEF IInv

(* Why a row may say "delivered". *)
Reason(n) ==
  \/ n \in accepted
  \/ \E m \in Notifications \ {n} : Key[m] = Key[n] /\ (m \in accepted \/ (<<m, n>> \in Similar /\ attempts[m] > 0))

(* A result is recorded with what it says being so. *)
LEMMA FinalizeKeepsInv ==
  ASSUME IInv, NEW d \in Dispatchers, NEW n \in Notifications, Current(d, n),
         NEW s \in Open \cup Closed, NEW r \in 0..MaxAttempts, Finalize(d, n, s, r),
         UNCHANGED <<pc, age, operatorVars, historyVars, faults>>,
         attempts[n] < MaxRetries => r <= attempts[n], r < MaxRetries + requeues \/ s \in Closed,
         r <= MaxRetries + requeues, s = "failed" => attempts[n] = MaxRetries,
         s = "delivered" => Reason(n),
         since' \in [Dispatchers -> [Keys -> 0..Cooldown]],
         history' \in [Dispatchers -> SUBSET Notifications],
         \A e \in Dispatchers \ Guarded : since'[e] = since[e] /\ history'[e] = history[e],
         \A e \in Dispatchers :
           /\ \A k \in Keys : since'[e][k] < Cooldown => since[e][k] < Cooldown \/ \E m \in accepted : Key[m] = k
           /\ \A m \in history'[e] : m \in history[e] \/ attempts[m] > 0
  PROVE  IInv'
<1> USE DEF operatorVars, historyVars
<1>0. TypeOK
  BY DEF IInv
<1>1. /\ \A e \in Dispatchers, m \in Notifications :
              /\ held'[e][m] = IF e = d /\ m = n THEN 0 ELSE held[e][m]
              /\ result'[e][m] = IF e = d /\ m = n THEN "none" ELSE result[e][m]
              /\ m \in picked'[e] <=> m \in picked[e] /\ ~(e = d /\ m = n)
              /\ ~(e = d /\ m = n) => seen'[e][m] = seen[e][m]
      /\ \A m \in Notifications :
              \/ /\ status'[m] = status[m] /\ retries'[m] = retries[m]
                 /\ token'[m] = token[m] /\ lease'[m] = lease[m]
              \/ /\ m = n /\ token[n] = held[d][n]
                 /\ status'[n] = s /\ retries'[n] = r /\ token'[n] = 0
  BY <1>0, FinalizeEffect
<1>2. TypeOK'
  <2>1. \A e \in Dispatchers \ Guarded : since'[e] = Never /\ history'[e] = {}
    BY <1>0 DEF TypeOK
  <2> QED BY <1>0, <2>1, FinalizeEffect DEF TypeOK
<1>3. HoldsInBatch'
  BY <1>1 DEF IInv, HoldsInBatch
<1>4. LeaseExact' /\ TokensDiffer'
  BY <1>1, DroppingKeepsLeases
<1>5. requeues <= requeues' /\ \A m \in Notifications : attempts[m] <= attempts'[m]
  BY <1>0, DispatchAssumption DEF TypeOK
<1>6. PayloadsAreOld' /\ NoEarlyFailure'
  <2>1. \A m \in Notifications :
          \/ status'[m] = status[m] /\ retries'[m] = retries[m]
          \/ /\ attempts'[m] < MaxRetries => retries'[m] <= attempts'[m]
             /\ retries'[m] <= MaxRetries + requeues'
             /\ status'[m] \notin Closed => retries'[m] < MaxRetries + requeues'
             /\ status'[m] = "failed" => attempts'[m] = MaxRetries
    BY <1>1
  <2>2. \A e \in Dispatchers, m \in Notifications :
          /\ m \in picked'[e] => m \in picked[e] /\ seen'[e][m] = seen[e][m]
          /\ result'[e][m] # "none" => result[e][m] # "none" /\ seen'[e][m] = seen[e][m]
    BY <1>1
  <2> QED BY <1>2, <1>5, <2>1, <2>2, CountsKept
<1>7. SilencersAreTrue' /\ SilencedForAnother'
  BY <1>1, <1>2, <1>5, TruthKept DEF Reason
<1> QED BY <1>2, <1>3, <1>4, <1>6, <1>7 DEF IInv

LEMMA SuppressKeepsInv ==
  ASSUME IInv, NEW d \in Dispatchers, NEW n \in Notifications, Suppress(d, n) PROVE IInv'
<1> USE DEF silencerVars, operatorVars, historyVars
<1>0. TypeOK /\ MaxRetries \in Nat \ {0} /\ MaxRequeues \in Nat
  BY DispatchAssumption DEF IInv
<1>1. /\ Current(d, n) /\ Silenced(d, n) /\ Finalize(d, n, "delivered", 0)
      /\ UNCHANGED <<pc, age, silencerVars, operatorVars, historyVars, faults>>
  BY DEF Suppress
<1>2. Reason(n)
  <2>1. CASE SilencedByCooldown(d, n)
    <3>1. \E m \in accepted : Key[m] = Key[n]
      BY <2>1 DEF IInv, SilencersAreTrue, SilencedByCooldown, Keys
    <3> QED BY <1>0, <3>1 DEF Reason, TypeOK
  <2>2. CASE SilencedBySimilarity(d, n)
    <3>1. PICK m \in history[d] : Key[m] = Key[n] /\ <<m, n>> \in Similar
      BY <2>2 DEF SilencedBySimilarity
    <3>2. m \in Notifications /\ attempts[m] > 0 /\ m # n
      BY <1>0, <3>1, DispatchAssumption DEF IInv, SilencersAreTrue, TypeOK
    <3> QED BY <3>1, <3>2 DEF Reason
  <2> QED BY <1>1, <2>1, <2>2 DEF Silenced
<1>3. 0 \in 0..MaxAttempts /\ 0 <= attempts[n] /\ 0 <= MaxRetries + requeues
  BY <1>0 DEF TypeOK, MaxAttempts
<1>4. "delivered" \in Closed
  BY DEF Open, Closed
<1>5. since' \in [Dispatchers -> [Keys -> 0..Cooldown]] /\ history' \in [Dispatchers -> SUBSET Notifications]
  BY <1>0, <1>1 DEF TypeOK
<1> QED BY <1>1, <1>2, <1>3, <1>4, <1>5, FinalizeKeepsInv

LEMMA DeliverKeepsInv ==
  ASSUME IInv, NEW d \in Dispatchers, NEW n \in Notifications, Deliver(d, n) PROVE IInv'
<1> USE DEF silencerVars, operatorVars, historyVars
<1>0. TypeOK
  BY DEF IInv
<1>1. /\ Current(d, n) /\ result[d][n] = "success" /\ Record(d, n)
      /\ Finalize(d, n, "delivered", seen[d][n])
      /\ UNCHANGED <<pc, age, operatorVars, historyVars, faults>>
  BY DEF Deliver
<1>2. n \in accepted
  BY <1>1 DEF IInv, SilencersAreTrue
<1>3. /\ n \in picked[d]
      /\ attempts[n] < MaxRetries => seen[d][n] < attempts[n]
      /\ seen[d][n] < MaxRetries + requeues
  BY <1>1 DEF IInv, PayloadsAreOld, HoldsInBatch
<1>4. /\ attempts[n] \in 0..MaxRetries /\ seen[d][n] \in 0..MaxAttempts /\ seen[d][n] \in Nat
      /\ MaxRetries \in Nat \ {0} /\ Cooldown \in Nat /\ requeues \in Nat
  BY <1>0, DispatchAssumption DEF TypeOK, MaxAttempts
<1>5. /\ attempts[n] > 0 /\ (attempts[n] < MaxRetries => seen[d][n] <= attempts[n])
      /\ seen[d][n] <= MaxRetries + requeues
  BY <1>3, <1>4
<1>6. /\ since' \in [Dispatchers -> [Keys -> 0..Cooldown]]
      /\ history' \in [Dispatchers -> SUBSET Notifications]
      /\ \A e \in Dispatchers \ Guarded : since'[e] = since[e] /\ history'[e] = history[e]
      /\ \A e \in Dispatchers, k \in Keys : since'[e][k] = since[e][k] \/ k = Key[n]
      /\ \A e \in Dispatchers : history'[e] \subseteq history[e] \cup {n}
  BY <1>0, <1>1, RecordEffect
<1>7. \A e \in Dispatchers :
        /\ \A k \in Keys : since'[e][k] < Cooldown => since[e][k] < Cooldown \/ \E m \in accepted : Key[m] = k
        /\ \A m \in history'[e] : m \in history[e] \/ attempts[m] > 0
  BY <1>2, <1>5, <1>6
<1>8. Reason(n) /\ "delivered" \in Closed
  BY <1>2 DEF Reason, Open, Closed
<1> QED BY <1>1, <1>3, <1>4, <1>5, <1>6, <1>7, <1>8, FinalizeKeepsInv

LEMMA FailKeepsInv ==
  ASSUME IInv, NEW d \in Dispatchers, NEW n \in Notifications, Fail(d, n) PROVE IInv'
<1> USE DEF silencerVars, operatorVars, historyVars
<1> DEFINE r == seen[d][n] + 1
           s == IF Exhausted(r) THEN "failed" ELSE "retry_pending"
<1>0. TypeOK
  BY DEF IInv
<1>1. /\ Current(d, n) /\ result[d][n] = "failure" /\ Finalize(d, n, s, r)
      /\ UNCHANGED <<pc, age, silencerVars, operatorVars, historyVars, faults>>
  BY DEF Fail
<1>2. /\ n \in picked[d]
      /\ attempts[n] < MaxRetries => seen[d][n] < attempts[n]
      /\ seen[d][n] < MaxRetries + requeues
  BY <1>1 DEF IInv, PayloadsAreOld, HoldsInBatch
<1>3. /\ attempts[n] \in 0..MaxRetries /\ seen[d][n] \in Nat
      /\ MaxRetries \in Nat /\ requeues \in Nat /\ requeues <= MaxRequeues /\ MaxRequeues \in Nat
  BY <1>0, DispatchAssumption DEF TypeOK, MaxAttempts
<1>4. /\ r \in 0..MaxAttempts /\ r <= MaxRetries + requeues
      /\ attempts[n] < MaxRetries => r <= attempts[n]
  BY <1>2, <1>3 DEF MaxAttempts
<1>5. /\ s \in Open \cup Closed /\ s # "delivered"
      /\ r < MaxRetries + requeues \/ s \in Closed
      /\ s = "failed" => attempts[n] = MaxRetries
  BY <1>3, <1>4 DEF Exhausted, Open, Closed
<1>6. since' \in [Dispatchers -> [Keys -> 0..Cooldown]] /\ history' \in [Dispatchers -> SUBSET Notifications]
  BY <1>0, <1>1 DEF TypeOK
<1> HIDE DEF r, s
<1> QED BY <1>1, <1>4, <1>5, <1>6, FinalizeKeepsInv

(* Finish, Abort and Crash end a batch; the lease of the one at hand may   *)
(* be given back, and the memory of the silencer may be lost.              *)
LEMMA EndingKeepsInv ==
  ASSUME IInv, NEW d \in Dispatchers, Idle(d), UNCHANGED <<status, retries, listed, requeues, accepted>>,
         token' \in [Notifications -> {0} \cup Tokens], lease' \in [Notifications -> Int],
         \A m \in Notifications : token'[m] = 0 \/ (token'[m] = token[m] /\ lease'[m] = lease[m]),
         attempts' \in [Notifications -> 0..MaxRetries], \A m \in Notifications : attempts[m] <= attempts'[m],
         since' \in [Dispatchers -> [Keys -> 0..Cooldown]],
         history' \in [Dispatchers -> SUBSET Notifications],
         \A e \in Dispatchers \ Guarded : since'[e] = Never /\ history'[e] = {},
         \A e \in Dispatchers :
           /\ \A k \in Keys : since'[e][k] < Cooldown => since[e][k] < Cooldown \/ \E m \in accepted : Key[m] = k
           /\ \A m \in history'[e] : m \in history[e] \/ attempts'[m] > 0,
         faults' \in 0..MaxFaults
  PROVE  IInv'
<1>0. TypeOK
  BY DEF IInv
<1>1. TypeOK'
  BY <1>0, IdleEffect DEF TypeOK
<1>2. /\ picked'[d] = {}
      /\ \A n \in Notifications : held'[d][n] = 0 /\ result'[d][n] = "none"
      /\ \A e \in Dispatchers \ {d} :
           /\ pc'[e] = pc[e] /\ age'[e] = age[e] /\ picked'[e] = picked[e]
           /\ seen'[e] = seen[e] /\ held'[e] = held[e] /\ result'[e] = result[e]
  BY <1>0, IdleEffect
<1>3. HoldsInBatch'
  <2> SUFFICES ASSUME NEW e \in Dispatchers, NEW n \in Notifications
               PROVE  /\ held'[e][n] # 0 => pc'[e] = "sending" /\ n \in picked'[e]
                      /\ result'[e][n] # "none" => held'[e][n] # 0
                      /\ n \in picked'[e] => pc'[e] # "idle"
    BY DEF HoldsInBatch
  <2>1. CASE e = d
    BY <1>2, <2>1
  <2>2. CASE e # d
    BY <1>2, <2>2 DEF IInv, HoldsInBatch
  <2> QED BY <2>1, <2>2
<1>4. LeaseExact' /\ TokensDiffer'
  <2>1. \A e \in Dispatchers, n \in Notifications :
          held'[e][n] # 0 => e # d /\ held'[e][n] = held[e][n] /\ age'[e] = age[e]
    BY <1>2
  <2> QED BY <2>1, DroppingKeepsLeases
<1>5. PayloadsAreOld' /\ NoEarlyFailure'
  <2>1. requeues <= requeues'
    BY <1>0, DispatchAssumption DEF TypeOK
  <2> QED BY <1>1, <1>2, <2>1, CountsKept
<1>6. SilencersAreTrue' /\ SilencedForAnother'
  <2>1. \A e \in Dispatchers, n \in Notifications : result'[e][n] = "success" => result[e][n] = "success"
    BY <1>2
  <2> QED BY <1>1, <2>1, TruthKept
<1> QED BY <1>1, <1>3, <1>4, <1>5, <1>6 DEF IInv

LEMMA FinishKeepsInv ==
  ASSUME IInv, NEW d \in Dispatchers, Finish(d) PROVE IInv'
<1> USE DEF tableVars, silencerVars, operatorVars, historyVars
<1>1. /\ Idle(d)
      /\ UNCHANGED <<status, retries, token, lease, since, history, listed, requeues, attempts, accepted, faults>>
  BY DEF Finish
<1>2. TypeOK /\ \A m \in Notifications : attempts[m] <= attempts'[m]
  BY <1>1, DispatchAssumption DEF IInv, TypeOK
<1> QED BY <1>1, <1>2, EndingKeepsInv DEF TypeOK

LEMMA CrashKeepsInv ==
  ASSUME IInv, NEW d \in Dispatchers, Crash(d) PROVE IInv'
<1> USE DEF tableVars, operatorVars, historyVars
<1>1. /\ Idle(d)
      /\ since' = [since EXCEPT ![d] = Never] /\ history' = [history EXCEPT ![d] = {}]
      /\ faults < MaxFaults /\ faults' = faults + 1
      /\ UNCHANGED <<status, retries, token, lease, listed, requeues, attempts, accepted>>
  BY DEF Crash
<1>2. TypeOK /\ \A m \in Notifications : attempts[m] <= attempts'[m]
  BY <1>1, DispatchAssumption DEF IInv, TypeOK
<1>3. Never \in [Keys -> 0..Cooldown] /\ \A k \in Keys : ~(Never[k] < Cooldown)
  BY DispatchAssumption DEF Never
<1>4. /\ since' \in [Dispatchers -> [Keys -> 0..Cooldown]]
      /\ history' \in [Dispatchers -> SUBSET Notifications]
      /\ \A e \in Dispatchers : since'[e] \in {since[e], Never} /\ history'[e] \in {history[e], {}}
  BY <1>1, <1>2, <1>3 DEF TypeOK
<1>5. \A e \in Dispatchers \ Guarded : since'[e] = Never /\ history'[e] = {}
  BY <1>2, <1>4 DEF TypeOK
<1>6. faults' \in 0..MaxFaults
  BY <1>1, <1>2, DispatchAssumption DEF TypeOK
<1>7. \A e \in Dispatchers :
        /\ \A k \in Keys : since'[e][k] < Cooldown => since[e][k] < Cooldown
        /\ \A m \in history'[e] : m \in history[e]
  BY <1>3, <1>4
<1> QED BY <1>1, <1>2, <1>4, <1>5, <1>6, <1>7, EndingKeepsInv DEF TypeOK

LEMMA InterruptedEffect ==
  ASSUME IInv, NEW d \in Dispatchers, NEW n \in Notifications, Interrupted(d, n), accepted' = accepted
  PROVE  /\ attempts' \in [Notifications -> 0..MaxRetries]
         /\ \A m \in Notifications : attempts[m] <= attempts'[m]
         /\ since' \in [Dispatchers -> [Keys -> 0..Cooldown]]
         /\ history' \in [Dispatchers -> SUBSET Notifications]
         /\ \A e \in Dispatchers \ Guarded : since'[e] = since[e] /\ history'[e] = history[e]
         /\ \A e \in Dispatchers :
              /\ \A k \in Keys : since'[e][k] < Cooldown => since[e][k] < Cooldown \/ \E m \in accepted : Key[m] = k
              /\ \A m \in history'[e] : m \in history[e] \/ attempts'[m] > 0
<1>0. TypeOK
  BY DEF IInv
<1>1. UNCHANGED attempts => attempts' \in [Notifications -> 0..MaxRetries] /\ \A m \in Notifications : attempts[m] <= attempts'[m]
  BY <1>0, DispatchAssumption DEF TypeOK
<1>2. CASE result[d][n] = "none" /\ ~Silenced(d, n)
  <2>1. Remember(d, n) /\ Attempted(n) /\ UNCHANGED since
    BY <1>2 DEF Interrupted
  <2>2. since' \in [Dispatchers -> [Keys -> 0..Cooldown]]
    BY <1>0, <2>1 DEF TypeOK
  <2> QED BY <1>0, <2>1, <2>2, RememberEffect, AttemptedEffect
<1>3. CASE result[d][n] = "success"
  <2>1. Record(d, n) /\ UNCHANGED attempts
    BY <1>3 DEF Interrupted
  <2>2. n \in accepted
    BY <1>3 DEF IInv, SilencersAreTrue
  <2>3. attempts[n] > 0
    <3>1. result[d][n] # "none"
      BY <1>3
    <3>2. attempts[n] < MaxRetries => seen[d][n] < attempts[n]
      BY <3>1 DEF IInv, PayloadsAreOld
    <3>3. attempts[n] \in Nat /\ seen[d][n] \in Nat /\ MaxRetries \in Nat \ {0}
      BY <1>0, DispatchAssumption DEF TypeOK, MaxAttempts
    <3> QED BY <3>2, <3>3
  <2>4. /\ since' \in [Dispatchers -> [Keys -> 0..Cooldown]]
        /\ history' \in [Dispatchers -> SUBSET Notifications]
        /\ \A e \in Dispatchers \ Guarded : since'[e] = since[e] /\ history'[e] = history[e]
        /\ \A e \in Dispatchers, k \in Keys : since'[e][k] = since[e][k] \/ k = Key[n]
        /\ \A e \in Dispatchers : history'[e] \subseteq history[e] \cup {n}
    BY <1>0, <2>1, RecordEffect
  <2> QED BY <1>1, <2>1, <2>2, <2>3, <2>4
<1>4. CASE result[d][n] = "failure" \/ (result[d][n] = "none" /\ Silenced(d, n))
  <2>1. UNCHANGED <<since, history, attempts>>
    BY <1>4 DEF Interrupted, silencerVars
  <2> QED BY <1>0, <1>1, <2>1 DEF TypeOK
<1> QED BY <1>2, <1>3, <1>4 DEF Interrupted

LEMMA AbortKeepsInv ==
  ASSUME IInv, NEW d \in Dispatchers, NEW n \in Notifications, Abort(d, n) PROVE IInv'
<1>0. TypeOK
  BY DEF IInv
<1>1. /\ Idle(d) /\ Interrupted(d, n)
      /\ faults < MaxFaults /\ faults' = faults + 1
      /\ UNCHANGED <<status, retries, listed, requeues, accepted>>
  BY DEF Abort, operatorVars
<1>2. /\ token' \in [Notifications -> {0} \cup Tokens] /\ lease' \in [Notifications -> Int]
      /\ \A m \in Notifications : token'[m] = 0 \/ (token'[m] = token[m] /\ lease'[m] = lease[m])
  <2>1. CASE Unlease(n)
    BY <1>0, <2>1 DEF Unlease, TypeOK
  <2>2. CASE UNCHANGED <<token, lease>>
    BY <1>0, <2>2 DEF TypeOK
  <2> QED BY <2>1, <2>2 DEF Abort
<1>3. faults' \in 0..MaxFaults
  BY <1>0, <1>1, DispatchAssumption DEF TypeOK
<1>4. /\ attempts' \in [Notifications -> 0..MaxRetries]
      /\ \A m \in Notifications : attempts[m] <= attempts'[m]
      /\ since' \in [Dispatchers -> [Keys -> 0..Cooldown]]
      /\ history' \in [Dispatchers -> SUBSET Notifications]
      /\ \A e \in Dispatchers \ Guarded : since'[e] = since[e] /\ history'[e] = history[e]
      /\ \A e \in Dispatchers :
           /\ \A k \in Keys : since'[e][k] < Cooldown => since[e][k] < Cooldown \/ \E m \in accepted : Key[m] = k
           /\ \A m \in history'[e] : m \in history[e] \/ attempts'[m] > 0
  BY <1>1, InterruptedEffect
<1>5. \A e \in Dispatchers \ Guarded : since'[e] = Never /\ history'[e] = {}
  BY <1>0, <1>4 DEF TypeOK
<1> QED BY <1>1, <1>2, <1>3, <1>4, <1>5, EndingKeepsInv

(* notify --retry reads, and a row it fails to put back stays.             *)
LEMMA ListingKeepsInv ==
  ASSUME IInv, listed' \in [Operators -> SUBSET Notifications],
         UNCHANGED <<tableVars, dispatcherVars, silencerVars, requeues, historyVars, faults>>
  PROVE  IInv'
<1>1. UNCHANGED <<status, retries, token, lease, pc, age, picked, seen, held, result,
                  since, history, requeues, attempts, accepted, faults>>
  BY DEF tableVars, dispatcherVars, silencerVars, historyVars
<1>2. TypeOK'
  BY <1>1 DEF IInv, TypeOK
<1>3. HoldsInBatch' /\ LeaseExact' /\ TokensDiffer'
  BY <1>1 DEF IInv, HoldsInBatch, LeaseExact, TokensDiffer
<1>4. PayloadsAreOld' /\ NoEarlyFailure'
  BY <1>1 DEF IInv, PayloadsAreOld, NoEarlyFailure
<1>5. SilencersAreTrue' /\ SilencedForAnother'
  BY <1>1 DEF IInv, SilencersAreTrue, SilencedForAnother
<1> QED BY <1>2, <1>3, <1>4, <1>5 DEF IInv

LEMMA RequeueKeepsInv ==
  ASSUME IInv, NEW o \in Operators, NEW n \in Notifications, Requeue(o, n) PROVE IInv'
<1> USE DEF dispatcherVars, silencerVars, historyVars
<1>0. TypeOK
  BY DEF IInv
<1>1. /\ status' = [status EXCEPT ![n] = "pending"]
      /\ token' = [token EXCEPT ![n] = 0] /\ lease' = [lease EXCEPT ![n] = 0]
      /\ listed' = [listed EXCEPT ![o] = @ \ {n}]
      /\ requeues < MaxRequeues /\ requeues' = requeues + 1
      /\ UNCHANGED <<retries, dispatcherVars, silencerVars, historyVars, faults>>
  BY DEF Requeue, Unlease
<1>2. requeues \in Nat /\ requeues' \in 0..MaxRequeues /\ requeues < requeues' /\ MaxRetries \in Nat
  BY <1>0, <1>1, DispatchAssumption DEF TypeOK
<1>3. TypeOK'
  <2>1. status' \in [Notifications -> {"absent"} \cup Open \cup Closed]
    BY <1>0, <1>1 DEF TypeOK, Open
  <2>2. token' \in [Notifications -> {0} \cup Tokens] /\ lease' \in [Notifications -> Int]
    BY <1>0, <1>1 DEF TypeOK
  <2>3. listed' \in [Operators -> SUBSET Notifications]
    BY <1>0, <1>1 DEF TypeOK
  <2> QED BY <1>0, <1>1, <1>2, <2>1, <2>2, <2>3 DEF TypeOK
<1>4. HoldsInBatch'
  BY <1>1 DEF IInv, HoldsInBatch
<1>5. /\ \A m \in Notifications : status'[m] = status[m] \/ (m = n /\ status'[m] = "pending")
      /\ \A m \in Notifications : token'[m] = 0 \/ (token'[m] = token[m] /\ lease'[m] = lease[m])
  BY <1>0, <1>1 DEF TypeOK
<1>6. LeaseExact' /\ TokensDiffer'
  BY <1>1, <1>5, DroppingKeepsLeases
<1>7. requeues <= requeues' /\ \A m \in Notifications : attempts[m] <= attempts'[m]
  BY <1>0, <1>1, <1>2, DispatchAssumption DEF TypeOK
<1>8. PayloadsAreOld' /\ NoEarlyFailure'
  <2>1. /\ retries[n] <= MaxRetries + requeues /\ retries[n] \in Nat
        /\ attempts[n] < MaxRetries => retries[n] <= attempts[n]
    BY <1>0, DispatchAssumption DEF IInv, PayloadsAreOld, NoEarlyFailure, TypeOK, MaxAttempts
  <2>2. /\ retries'[n] <= MaxRetries + requeues' /\ retries'[n] < MaxRetries + requeues'
        /\ attempts'[n] < MaxRetries => retries'[n] <= attempts'[n]
    BY <1>1, <1>2, <2>1
  <2>3. \A m \in Notifications :
          \/ status'[m] = status[m] /\ retries'[m] = retries[m]
          \/ /\ attempts'[m] < MaxRetries => retries'[m] <= attempts'[m]
             /\ retries'[m] <= MaxRetries + requeues' /\ retries'[m] < MaxRetries + requeues'
             /\ status'[m] # "failed"
    BY <1>1, <1>5, <2>2
  <2> QED BY <1>1, <1>3, <1>7, <2>3, CountsKept
<1>9. SilencersAreTrue' /\ SilencedForAnother'
  BY <1>1, <1>3, <1>5, <1>7, TruthKept
<1> QED BY <1>3, <1>4, <1>6, <1>8, <1>9 DEF IInv

LEMMA TickKeepsInv ==
  ASSUME IInv, Tick PROVE IInv'
<1> USE DEF operatorVars, historyVars
<1>0. /\ TypeOK
      /\ LeaseTime \in Nat /\ MaxAge \in Nat /\ Cooldown \in Nat /\ MaxFaults \in Nat /\ MaxRetries \in Nat
  BY DispatchAssumption DEF IInv
<1>1. /\ \A d \in Dispatchers : pc[d] # "idle" => age[d] < MaxAge
      /\ \A n \in Notifications :
           lease'[n] = IF token[n] = 0 \/ lease[n] < -MaxAge THEN lease[n] ELSE lease[n] - 1
      /\ \A d \in Dispatchers : age'[d] = IF pc[d] = "idle" THEN 0 ELSE age[d] + 1
      /\ UNCHANGED <<status, retries, token, pc, picked, seen, held, result, history, listed, requeues, attempts, accepted>>
  BY DEF Tick
<1>2. since' = [d \in Dispatchers |-> [k \in Keys |-> IF since[d][k] < Cooldown THEN since[d][k] + 1 ELSE Cooldown]]
  BY DEF Tick
<1>3. TypeOK'
  <2>1. lease' \in [Notifications -> Int]
    <3>1. \A n \in Notifications :
            (IF token[n] = 0 \/ lease[n] < -MaxAge THEN lease[n] ELSE lease[n] - 1) \in Int
      BY <1>0 DEF TypeOK
    <3> QED BY <3>1 DEF Tick
  <2>2. age' \in [Dispatchers -> 0..MaxAge]
    <3>1. \A d \in Dispatchers : (IF pc[d] = "idle" THEN 0 ELSE age[d] + 1) \in 0..MaxAge
      BY <1>0, <1>1 DEF TypeOK
    <3> QED BY <3>1 DEF Tick
  <2>3. since' \in [Dispatchers -> [Keys -> 0..Cooldown]]
    <3>1. \A d \in Dispatchers, k \in Keys :
            (IF since[d][k] < Cooldown THEN since[d][k] + 1 ELSE Cooldown) \in 0..Cooldown
      BY <1>0 DEF TypeOK
    <3> QED BY <1>2, <3>1
  <2>4. \A d \in Dispatchers \ Guarded : since'[d] = Never /\ history'[d] = {}
    <3> SUFFICES ASSUME NEW d \in Dispatchers \ Guarded PROVE since'[d] = Never /\ history'[d] = {}
      OBVIOUS
    <3>1. since[d] = Never /\ history[d] = {}
      BY <1>0 DEF TypeOK
    <3>2. \A k \in Keys : since[d][k] = Cooldown
      BY <3>1 DEF Never
    <3>3. since'[d] = [k \in Keys |-> IF since[d][k] < Cooldown THEN since[d][k] + 1 ELSE Cooldown]
      BY <1>2
    <3>4. since'[d] = [k \in Keys |-> Cooldown]
      BY <1>0, <3>2, <3>3
    <3> QED BY <1>1, <3>1, <3>4 DEF Never
  <2>5. faults' \in 0..MaxFaults
    BY <1>0, OutlivedIsCounted DEF Tick, TypeOK
  <2> QED BY <1>0, <1>1, <2>1, <2>2, <2>3, <2>4, <2>5 DEF TypeOK
<1>4. HoldsInBatch'
  BY <1>1 DEF IInv, HoldsInBatch
<1>5. \A d \in Dispatchers, n \in Notifications :
        held[d][n] # 0 => age[d] \in Nat /\ age'[d] = age[d] + 1 /\ age[d] < MaxAge /\ pc[d] # "idle"
  BY <1>0, <1>1 DEF IInv, HoldsInBatch, TypeOK
<1>6. LeaseExact'
  <2> SUFFICES ASSUME NEW d \in Dispatchers, NEW n \in Notifications, held[d][n] # 0, token[n] = held[d][n]
               PROVE  lease'[n] = LeaseTime - age'[d]
    BY <1>1 DEF LeaseExact
  <2>1. lease[n] = LeaseTime - age[d]
    BY DEF IInv, LeaseExact
  <2>2. ~(lease[n] < -MaxAge)
    BY <1>0, <1>5, <2>1
  <2> QED BY <1>0, <1>1, <1>5, <2>1, <2>2
<1>7. TokensDiffer'
  BY <1>1 DEF IInv, TokensDiffer
<1>8. requeues <= requeues' /\ \A n \in Notifications : attempts[n] <= attempts'[n]
  BY <1>0, <1>1, DispatchAssumption DEF TypeOK
<1>9. PayloadsAreOld' /\ NoEarlyFailure'
  BY <1>1, <1>3, <1>8, CountsKept
<1>10. SilencersAreTrue' /\ SilencedForAnother'
  <2>1. \A d \in Dispatchers, k \in Keys : since'[d][k] < Cooldown => since[d][k] < Cooldown
    <3>1. \A d \in Dispatchers, k \in Keys :
            since'[d][k] = IF since[d][k] < Cooldown THEN since[d][k] + 1 ELSE Cooldown
      BY <1>2
    <3> QED BY <1>0, <3>1
  <2> QED BY <1>1, <1>3, <1>8, <2>1, TruthKept
<1> QED BY <1>3, <1>4, <1>6, <1>7, <1>9, <1>10 DEF IInv

-----------------------------------------------------------------------------
LEMMA IInvStep == IInv /\ [Next]_vars => IInv'
<1> SUFFICES ASSUME IInv, [Next]_vars PROVE IInv'
  OBVIOUS
<1>1. CASE UNCHANGED vars
  <2>1. UNCHANGED <<status, retries, token, lease, pc, age, picked, seen, held, result,
                    since, history, listed, requeues, attempts, accepted, faults>>
    BY <1>1 DEF vars, tableVars, dispatcherVars, silencerVars, operatorVars, historyVars
  <2>2. TypeOK'
    BY <2>1 DEF IInv, TypeOK
  <2>3. HoldsInBatch' /\ LeaseExact' /\ TokensDiffer'
    BY <2>1 DEF IInv, HoldsInBatch, LeaseExact, TokensDiffer
  <2>4. PayloadsAreOld' /\ NoEarlyFailure'
    BY <2>1 DEF IInv, PayloadsAreOld, NoEarlyFailure
  <2>5. SilencersAreTrue' /\ SilencedForAnother'
    BY <2>1 DEF IInv, SilencersAreTrue, SilencedForAnother
  <2> QED BY <2>2, <2>3, <2>4, <2>5 DEF IInv
<1>2. CASE Tick
  BY <1>2, TickKeepsInv
<1>3. CASE \E n \in Notifications : Create(n)
  BY <1>3, CreateKeepsInv
<1>4. CASE \E d \in Dispatchers : Progress(d)
  <2>1. PICK d \in Dispatchers : Progress(d)
    BY <1>4
  <2>2. CASE Select(d)
    BY <2>2, SelectKeepsInv
  <2>3. CASE Claim(d)
    BY <2>3, ClaimKeepsInv
  <2>4. CASE Finish(d)
    BY <2>4, FinishKeepsInv
  <2>5. CASE \E n \in Notifications : Attempt(d, n)
    BY <2>5, SendKeepsInv, SuppressKeepsInv, DeliverKeepsInv, FailKeepsInv DEF Attempt
  <2> QED BY <2>1, <2>2, <2>3, <2>4, <2>5 DEF Progress
<1>5. CASE \E d \in Dispatchers : Crash(d)
  BY <1>5, CrashKeepsInv
<1>6. CASE \E d \in Dispatchers, n \in Notifications : Abort(d, n)
  BY <1>6, AbortKeepsInv
<1>7. CASE \E o \in Operators : ListFailed(o) \/ \E n \in Notifications : RequeueFails(o, n)
  <2>1. PICK o \in Operators : ListFailed(o) \/ \E n \in Notifications : RequeueFails(o, n)
    BY <1>7
  <2>2. PICK S \in SUBSET Notifications : listed' = [listed EXCEPT ![o] = S]
    BY <2>1 DEF ListFailed, RequeueFails, IInv, TypeOK
  <2>3. listed' \in [Operators -> SUBSET Notifications]
    BY <2>2 DEF IInv, TypeOK
  <2> QED BY <2>1, <2>3, ListingKeepsInv DEF ListFailed, RequeueFails
<1>8. CASE \E o \in Operators, n \in Notifications : Requeue(o, n)
  BY <1>8, RequeueKeepsInv
<1> QED BY <1>1, <1>2, <1>3, <1>4, <1>5, <1>6, <1>7, <1>8 DEF Next

LEMMA IInvInit == Init => IInv
<1> SUFFICES ASSUME Init PROVE IInv
  OBVIOUS
<1>1. /\ status = [n \in Notifications |-> "absent"]
      /\ retries = Nothing /\ token = Nothing /\ lease = Nothing /\ attempts = Nothing
      /\ pc = [d \in Dispatchers |-> "idle"] /\ age = [d \in Dispatchers |-> 0]
      /\ picked = [d \in Dispatchers |-> {}] /\ seen = [d \in Dispatchers |-> Nothing]
      /\ held = [d \in Dispatchers |-> Nothing] /\ result = [d \in Dispatchers |-> NoResult]
      /\ accepted = {} /\ since = [d \in Dispatchers |-> Never]
      /\ history = [d \in Dispatchers |-> {}] /\ faults = 0
      /\ listed = [o \in Operators |-> {}] /\ requeues = 0
  BY DEF Init
<1>2. {MaxRetries, LeaseTime} \subseteq Nat \ {0} /\ {MaxAge, MaxFaults, MaxRequeues, Cooldown} \subseteq Nat
  BY DispatchAssumption
<1>3. Never \in [Keys -> 0..Cooldown] /\ \A k \in Keys : ~(Never[k] < Cooldown)
  BY <1>2 DEF Never
<1>4. TypeOK
  BY <1>1, <1>2, <1>3 DEF TypeOK, Nothing, NoResult, MaxAttempts
<1>5. HoldsInBatch /\ LeaseExact /\ TokensDiffer
  BY <1>1 DEF HoldsInBatch, LeaseExact, TokensDiffer, Nothing, NoResult
<1>6. PayloadsAreOld /\ NoEarlyFailure
  BY <1>1, <1>2 DEF PayloadsAreOld, NoEarlyFailure, Nothing, NoResult
<1>7. SilencersAreTrue /\ SilencedForAnother
  BY <1>1, <1>3 DEF SilencersAreTrue, SilencedForAnother, NoResult
<1> QED BY <1>4, <1>5, <1>6, <1>7 DEF IInv

-----------------------------------------------------------------------------
(* The inductive invariant, whose parts the theorems below draw on. *)
THEOREM DispatchInvariant == Spec => []IInv
<1>1. Init => IInv
  BY IInvInit
<1>2. IInv /\ [Next]_vars => IInv'
  BY IInvStep
<1> QED BY <1>1, <1>2, PTL DEF Spec

(* The rows, batches, silencers and counters keep their types and bounds:  *)
(* retry_count never passes max_retries, and a dispatcher without a        *)
(* silencer never acquires one.                                            *)
THEOREM TypeCorrect == Spec => []TypeOK
<1>1. IInv => TypeOK
  BY DEF IInv
<1> QED BY <1>1, DispatchInvariant, PTL

(* dispatch_one gives a notification up after MaxRetries real attempts and *)
(* no sooner, although it counts from a payload that may be stale.         *)
THEOREM FailuresAreEarned == Spec => []NoEarlyFailure
<1>1. IInv => NoEarlyFailure
  BY DEF IInv
<1> QED BY <1>1, DispatchInvariant, PTL

(* A row that dispatch_one stores as delivered although no channel took    *)
(* its message is one that the silencer kept back, in favour of another    *)
(* message of its key that was accepted or, being similar, was attempted.  *)
(* (That such a row says "delivered" at all contradicts the documents; see *)
(* DeliveredMeansAccepted.)                                                *)
THEOREM SilencingHasAReason == Spec => []SilencedForAnother
<1>1. IInv => SilencedForAnother
  BY DEF IInv
<1> QED BY <1>1, DispatchInvariant, PTL

-----------------------------------------------------------------------------
(* An operator's UPDATE touches one row, and the row leaves its list. *)
LEMMA RequeuePutsBack ==
  ASSUME TypeOK, NEW o \in Operators, NEW m \in Notifications, Requeue(o, m),
         NEW n \in Notifications, ~PutBack(n)
  PROVE  status'[n] = status[n] /\ token'[n] = token[n] /\ held' = held
<1>1. /\ m \in listed[o] /\ listed' = [listed EXCEPT ![o] = @ \ {m}]
      /\ status' = [status EXCEPT ![m] = "pending"] /\ token' = [token EXCEPT ![m] = 0]
      /\ held' = held
  BY DEF Requeue, Unlease, dispatcherVars
<1>2. m \in listed[o] \ listed'[o]
  BY <1>1 DEF TypeOK
<1>3. n # m
  BY <1>2 DEF PutBack
<1> QED BY <1>1, <1>3 DEF TypeOK

(* Only a step of the token's holder, which gives the token up by it, or   *)
(* of an operator changes the status of a row: "AND dispatch_token = ?"    *)
(* fences every other dispatcher off.                                      *)
THEOREM ResultsAreFenced == Spec => ResultsFenced
<1> DEFINE A == \A n \in Notifications :
                  status[n] # "absent" /\ status'[n] # status[n] /\ ~PutBack(n) =>
                    \E d \in Dispatchers : held[d][n] # 0 /\ held[d][n] = token[n] /\ held'[d][n] = 0
<1>1. IInv /\ [Next]_vars => A
  <2> SUFFICES ASSUME IInv, Next, NEW n \in Notifications,
                      status[n] # "absent", status'[n] # status[n], ~PutBack(n)
               PROVE  \E d \in Dispatchers : held[d][n] # 0 /\ held[d][n] = token[n] /\ held'[d][n] = 0
    BY DEF vars, tableVars
  <2>0. TypeOK
    BY DEF IInv
  <2>1. \A m \in Notifications : ~Create(m)
    BY <2>0 DEF Create, TypeOK
  <2>2. \A o \in Operators : ~ListFailed(o) /\ \A m \in Notifications : ~Requeue(o, m) /\ ~RequeueFails(o, m)
    BY <2>0, RequeuePutsBack DEF ListFailed, RequeueFails, tableVars
  <2>3. PICK d \in Dispatchers, m \in Notifications : Suppress(d, m) \/ Deliver(d, m) \/ Fail(d, m)
    BY <2>1, <2>2 DEF Next, Tick, Progress, Attempt, Select, Claim, Send, Finish, Crash, Abort, tableVars
  <2>4. Current(d, m) /\ \E s, r : Finalize(d, m, s, r)
    BY <2>3 DEF Suppress, Deliver, Fail
  <2>5. PICK s, r : Finalize(d, m, s, r)
    BY <2>4
  <2>6. Owns(d, m) /\ status' = [status EXCEPT ![m] = s] /\ Done(d, m)
    BY <2>5 DEF Finalize, tableVars
  <2>7. m = n
    BY <2>0, <2>6 DEF TypeOK
  <2>8. held'[d][n] = 0
    BY <2>0, <2>6, <2>7 DEF Done, TypeOK
  <2> QED BY <2>4, <2>6, <2>7, <2>8 DEF Owns, Current
<1>2. IInv /\ [Next]_vars => [A]_vars
  BY <1>1
<1> QED BY <1>2, DispatchInvariant, PTL DEF Spec, ResultsFenced

(* claim_notifications gives no two dispatchers the same token, and a      *)
(* dispatcher within its lease stays the holder in the row until it ends   *)
(* the claim itself or an operator takes the row, whatever the number of   *)
(* dispatchers and however their SELECTs, UPDATEs, crashes and the clock   *)
(* interleave.                                                             *)
THEOREM LeasesAreExclusive == Spec => LeaseExclusive
<1> DEFINE A == \A n \in Notifications, d \in Dispatchers :
                  held[d][n] # 0 /\ token[n] = held[d][n] =>
                    /\ \A e \in Dispatchers \ {d} : held[e][n] # held[d][n] /\ held'[e][n] # held[d][n]
                    /\ \/ age[d] > LeaseTime
                       \/ token'[n] = token[n]
                       \/ held'[d][n] = 0
                       \/ PutBack(n)
<1>1. IInv /\ [Next]_vars => A
  <2> SUFFICES ASSUME IInv, [Next]_vars, NEW n \in Notifications, NEW d \in Dispatchers,
                      held[d][n] # 0, token[n] = held[d][n]
               PROVE  /\ \A e \in Dispatchers \ {d} : held[e][n] # held[d][n] /\ held'[e][n] # held[d][n]
                      /\ \/ age[d] > LeaseTime
                         \/ token'[n] = token[n]
                         \/ held'[d][n] = 0
                         \/ PutBack(n)
    OBVIOUS
  <2>0. TypeOK
    BY DEF IInv
  <2>1. \A e \in Dispatchers \ {d} : held[e][n] # held[d][n]
    BY DEF IInv, TokensDiffer
  <2>2. CASE UNCHANGED <<token, held>>
    BY <2>1, <2>2
  <2>3. ASSUME NEW x \in Dispatchers, Claim(x)
        PROVE  /\ \A e \in Dispatchers \ {d} : held'[e][n] # held[d][n]
               /\ age[d] > LeaseTime \/ token'[n] = token[n]
    <3> DEFINE C == {m \in picked[x] : Unleased(m, age[x])}
    <3>1. /\ token' = [m \in Notifications |-> IF m \in C THEN Fresh(m) ELSE token[m]]
          /\ held' = [held EXCEPT ![x] = [m \in Notifications |-> IF m \in C THEN Fresh(m) ELSE 0]]
      BY <2>3 DEF Claim
    <3>2. \A e \in Dispatchers \ {d} : held'[e][n] \in {held[e][n], 0, Fresh(n)}
      <4> HIDE DEF C
      <4> QED BY <2>0, <3>1 DEF TypeOK
    <3>3. \A e \in Dispatchers : Fresh(n) # held[e][n]
      BY <2>0, FreshIsFresh
    <3>4. n \in C => age[d] > LeaseTime
      <4> SUFFICES ASSUME n \in C PROVE age[d] > LeaseTime
        OBVIOUS
      <4>1. lease[n] = LeaseTime - age[d]
        BY DEF IInv, LeaseExact
      <4>2. lease[n] < -age[x]
        BY DEF Unleased
      <4> QED BY <2>0, <4>1, <4>2, DispatchAssumption DEF TypeOK
    <3>5. n \notin C => token'[n] = token[n]
      <4> HIDE DEF C
      <4> QED BY <3>1
    <3> QED BY <2>1, <3>2, <3>3, <3>4, <3>5
  <2>4. ASSUME NEW x \in Dispatchers, Idle(x),
               \/ UNCHANGED token
               \/ \E m \in Notifications : held[x][m] # 0 /\ Owns(x, m) /\ token' = [token EXCEPT ![m] = 0]
        PROVE  /\ \A e \in Dispatchers \ {d} : held'[e][n] # held[d][n]
               /\ token'[n] = token[n] \/ held'[d][n] = 0
    <3>1. \A e \in Dispatchers : held'[e][n] = IF e = x THEN 0 ELSE held[e][n]
      BY <2>0, <2>4, IdleEffect
    <3>2. token'[n] = token[n] \/ held[x][n] = token[n]
      BY <2>0, <2>4 DEF Owns, TypeOK
    <3> QED BY <2>1, <3>1, <3>2
  <2>5. ASSUME NEW x \in Dispatchers, NEW m \in Notifications, NEW s, NEW r,
               Current(x, m), Finalize(x, m, s, r)
        PROVE  /\ \A e \in Dispatchers \ {d} : held'[e][n] # held[d][n]
               /\ token'[n] = token[n] \/ held'[d][n] = 0
    <3>1. held' = [held EXCEPT ![x][m] = 0]
      BY <2>5 DEF Finalize, Done
    <3>2. \A e \in Dispatchers : held'[e][n] = IF e = x /\ m = n THEN 0 ELSE held[e][n]
      BY <2>0, <3>1 DEF TypeOK
    <3>3. token'[n] = token[n] \/ (m = n /\ held[x][n] = token[n])
      BY <2>0, <2>5 DEF Finalize, Owns, Unlease, tableVars, TypeOK
    <3> QED BY <2>1, <3>2, <3>3
  <2>6. ASSUME NEW o \in Operators, NEW m \in Notifications, Requeue(o, m)
        PROVE  /\ held' = held
               /\ token'[n] = token[n] \/ PutBack(n)
    BY <2>0, <2>6, RequeuePutsBack DEF Requeue, dispatcherVars
  <2>7. CASE UNCHANGED vars \/ Tick \/ \E m \in Notifications : Create(m)
    BY <2>2, <2>7 DEF vars, Tick, Create, tableVars, dispatcherVars
  <2>8. CASE \E x \in Dispatchers : Progress(x) \/ Crash(x) \/ \E m \in Notifications : Abort(x, m)
    <3>1. PICK x \in Dispatchers : Progress(x) \/ Crash(x) \/ \E m \in Notifications : Abort(x, m)
      BY <2>8
    <3>2. CASE Select(x) \/ \E m \in Notifications : Send(x, m)
      BY <2>2, <3>2 DEF Select, Send, tableVars
    <3>3. CASE Claim(x)
      BY <2>1, <2>3, <3>3
    <3>4. CASE Finish(x) \/ Crash(x)
      BY <2>1, <2>4, <3>4 DEF Finish, Crash, tableVars
    <3>5. CASE \E m \in Notifications : Abort(x, m)
      <4>1. PICK m \in Notifications : Abort(x, m)
        BY <3>5
      <4>2. Idle(x) /\ (UNCHANGED token \/ (held[x][m] # 0 /\ Owns(x, m) /\ token' = [token EXCEPT ![m] = 0]))
        BY <4>1 DEF Abort, Current, Unlease
      <4> QED BY <2>1, <2>4, <4>2
    <3>6. CASE \E m \in Notifications : Suppress(x, m) \/ Deliver(x, m) \/ Fail(x, m)
      <4>1. PICK m \in Notifications : Current(x, m) /\ \E s, r : Finalize(x, m, s, r)
        BY <3>6 DEF Suppress, Deliver, Fail
      <4>2. PICK s, r : Finalize(x, m, s, r)
        BY <4>1
      <4> QED BY <2>1, <2>5, <4>1, <4>2
    <3> QED BY <3>1, <3>2, <3>3, <3>4, <3>5, <3>6 DEF Progress, Attempt
  <2>9. CASE \E o \in Operators :
               ListFailed(o) \/ \E m \in Notifications : Requeue(o, m) \/ RequeueFails(o, m)
    <3>1. PICK o \in Operators : ListFailed(o) \/ \E m \in Notifications : Requeue(o, m) \/ RequeueFails(o, m)
      BY <2>9
    <3>2. CASE ListFailed(o) \/ \E m \in Notifications : RequeueFails(o, m)
      BY <2>2, <3>2 DEF ListFailed, RequeueFails, tableVars, dispatcherVars
    <3>3. CASE \E m \in Notifications : Requeue(o, m)
      BY <2>1, <2>6, <3>3
    <3> QED BY <3>1, <3>2, <3>3
  <2> QED BY <2>7, <2>8, <2>9 DEF Next
<1>2. IInv /\ [Next]_vars => [A]_vars
  BY <1>1
<1> QED BY <1>2, DispatchInvariant, PTL DEF Spec, LeaseExclusive

-----------------------------------------------------------------------------
(* THE FENCED STORE.  A dispatcher whose token is in the row works under   *)
(* the claim that leases the row: equal tokens mean the same claim, though *)
(* tokens of past claims are forgotten and may be drawn again.             *)
Traced ==
  /\ issued \in Nat
  /\ current \in [Notifications -> Nat]
  /\ stored \in [Notifications -> Nat]
  /\ drawn \in [Dispatchers -> [Notifications -> Nat]]
  /\ \A n \in Notifications : token[n] # 0 <=> current[n] # 0
  /\ \A d \in Dispatchers, n \in Notifications :
       held[d][n] # 0 /\ token[n] = held[d][n] => drawn[d][n] = current[n]

(* A recorded step is a step of the dispatch, however it is recorded. *)
LEMMA RecordedStepIsStep == [RecordedNext]_<<vars, recordVars>> => [Next]_vars
BY DEF RecordedNext, RecordedStep, Next, Progress, Attempt

LEMMA RecordedInvariant == RecordedSpec => []IInv
<1>1. Init => IInv
  BY IInvInit
<1>2. IInv /\ [RecordedNext]_<<vars, recordVars>> => IInv'
  BY IInvStep, RecordedStepIsStep
<1> QED BY <1>1, <1>2, PTL DEF RecordedSpec

(* claim_notifications: the rows whose UPDATE counts are granted under one *)
(* number, and no other dispatcher's token equals the fresh one.           *)
LEMMA ClaimIsGrant ==
  ASSUME IInv, Traced, NEW d \in Dispatchers, Claim(d), RecordClaim(d)
  PROVE  Traced' /\ \E S \in SUBSET Notifications : FencedRows!Grant(S)
<1> DEFINE C == {n \in picked[d] : Unleased(n, age[d])}
<1>0. TypeOK /\ C \subseteq Notifications
  BY DEF IInv, TypeOK
<1>1. /\ token' = [n \in Notifications |-> IF n \in C THEN Fresh(n) ELSE token[n]]
      /\ held' = [held EXCEPT ![d] = [n \in Notifications |-> IF n \in C THEN Fresh(n) ELSE 0]]
  BY DEF Claim
<1> HIDE DEF C
<1>2. \A n \in Notifications :
        /\ Fresh(n) # 0 /\ Fresh(n) # token[n]
        /\ \A e \in Dispatchers : Fresh(n) # held[e][n]
  BY <1>0, FreshIsFresh
<1>3. /\ \A n \in Notifications : held'[d][n] = IF n \in C THEN Fresh(n) ELSE 0
      /\ \A e \in Dispatchers \ {d}, n \in Notifications : held'[e][n] = held[e][n]
      /\ \A n \in Notifications : token'[n] = IF n \in C THEN Fresh(n) ELSE token[n]
  BY <1>0, <1>1 DEF TypeOK
<1>4. \A n \in Notifications : held'[d][n] # 0 <=> n \in C
  BY <1>2, <1>3
<1>5. /\ issued' = issued + 1 /\ stored' = stored
      /\ current' = [n \in Notifications |-> IF n \in C THEN issued + 1 ELSE current[n]]
      /\ drawn' = [drawn EXCEPT ![d] = [n \in Notifications |-> IF n \in C THEN issued + 1 ELSE 0]]
  <2> DEFINE number == [n \in Notifications |-> IF held'[d][n] # 0 THEN issued + 1 ELSE 0]
  <2>1. number = [n \in Notifications |-> IF n \in C THEN issued + 1 ELSE 0]
    BY <1>4
  <2>2. \A n \in Notifications : number[n] # 0 <=> n \in C
    <3> HIDE DEF number
    <3> QED BY <2>1 DEF Traced
  <2>3. current' = [n \in Notifications |-> IF n \in C THEN issued + 1 ELSE current[n]]
    <3>1. current' = [n \in Notifications |-> IF number[n] # 0 THEN number[n] ELSE current[n]]
      BY DEF RecordClaim
    <3> HIDE DEF number
    <3> QED BY <2>1, <2>2, <3>1
  <2>4. drawn' = [drawn EXCEPT ![d] = number]
    BY DEF RecordClaim
  <2> QED BY <2>1, <2>3, <2>4 DEF RecordClaim
<1>6. /\ issued' \in Nat /\ stored' \in [Notifications -> Nat]
      /\ current' \in [Notifications -> Nat]
      /\ drawn' \in [Dispatchers -> [Notifications -> Nat]]
  BY <1>5 DEF Traced
<1>7. \A n \in Notifications : token'[n] # 0 <=> current'[n] # 0
  BY <1>2, <1>3, <1>5 DEF Traced
<1>8. ASSUME NEW e \in Dispatchers, NEW n \in Notifications,
             held'[e][n] # 0, token'[n] = held'[e][n]
      PROVE  drawn'[e][n] = current'[n]
  <2>1. CASE e = d
    BY <1>4, <1>5, <1>8, <2>1 DEF Traced
  <2>2. CASE e # d
    <3>1. n \notin C /\ token[n] = held[e][n] /\ held[e][n] # 0
      BY <1>2, <1>3, <1>8, <2>2
    <3>2. drawn'[e][n] = drawn[e][n] /\ current'[n] = current[n]
      BY <1>5, <2>2, <3>1 DEF Traced
    <3> QED BY <3>1, <3>2 DEF Traced
  <2> QED BY <2>1, <2>2
<1>9. FencedRows!Grant(C)
  BY <1>5 DEF FencedRows!Grant
<1> QED BY <1>0, <1>6, <1>7, <1>8, <1>9 DEF Traced

(* finalize_notification_dispatch: a result that reaches the row is one of *)
(* the claim under which the row is leased.                                *)
LEMMA ResultIsAccept ==
  ASSUME TypeOK, Traced, NEW d \in Dispatchers, NEW n \in Notifications, held[d][n] # 0,
         NEW s \in Open \cup Closed, NEW r \in 0..MaxAttempts, Finalize(d, n, s, r), RecordResult(d, n)
  PROVE  Traced' /\ (FencedRows!Accept(n) \/ UNCHANGED FencedRows!fencedVars)
<1>1. \A e \in Dispatchers, m \in Notifications :
        held'[e][m] = IF e = d /\ m = n THEN 0 ELSE held[e][m]
  BY FinalizeEffect
<1>2. /\ issued' = issued /\ drawn' = [drawn EXCEPT ![d][n] = 0]
      /\ drawn' \in [Dispatchers -> [Notifications -> Nat]]
      /\ \A e \in Dispatchers, m \in Notifications :
           ~(e = d /\ m = n) => drawn'[e][m] = drawn[e][m]
  BY DEF RecordResult, Traced
<1>3. CASE Owns(d, n)
  <2>1. token' = [token EXCEPT ![n] = 0] /\ token[n] = held[d][n]
    BY <1>3 DEF Finalize, Owns, Unlease
  <2>2. stored' = [stored EXCEPT ![n] = drawn[d][n]] /\ current' = [current EXCEPT ![n] = 0]
    BY <1>3 DEF RecordResult
  <2>3. drawn[d][n] = current[n] /\ current[n] # 0
    BY <2>1 DEF Traced
  <2>4. FencedRows!Accept(n)
    BY <1>2, <2>2, <2>3 DEF FencedRows!Accept
  <2>5. current' \in [Notifications -> Nat] /\ stored' \in [Notifications -> Nat]
    BY <2>2, <2>3 DEF Traced
  <2>6. /\ token'[n] = 0 /\ current'[n] = 0
        /\ \A m \in Notifications \ {n} : token'[m] = token[m] /\ current'[m] = current[m]
    BY <2>1, <2>2 DEF TypeOK, Traced
  <2>7. Traced'
    <3>1. \A m \in Notifications : token'[m] # 0 <=> current'[m] # 0
      BY <2>6 DEF Traced
    <3>2. ASSUME NEW e \in Dispatchers, NEW m \in Notifications,
                 held'[e][m] # 0, token'[m] = held'[e][m]
          PROVE  drawn'[e][m] = current'[m]
      <4>1. m # n
        BY <2>6, <3>2
      <4>2. held'[e][m] = held[e][m] /\ token'[m] = token[m] /\ current'[m] = current[m]
        BY <1>1, <2>6, <4>1
      <4>3. drawn'[e][m] = drawn[e][m]
        BY <1>2, <4>1
      <4> QED BY <3>2, <4>2, <4>3 DEF Traced
    <3> QED BY <1>2, <2>5, <3>1, <3>2 DEF Traced
  <2> QED BY <2>4, <2>7
<1>4. CASE ~Owns(d, n)
  <2>1. token' = token /\ stored' = stored /\ current' = current
    BY <1>4 DEF Finalize, RecordResult, tableVars
  <2>2. Traced'
    BY <1>1, <1>2, <2>1 DEF Traced
  <2> QED BY <1>2, <2>1, <2>2 DEF FencedRows!fencedVars
<1> QED BY <1>3, <1>4

(* A batch that ends, with or without releasing the row at hand. *)
LEMMA EndIsWithdraw ==
  ASSUME TypeOK, Traced, NEW d \in Dispatchers, NEW released \in SUBSET Notifications,
         Idle(d), RecordEnd(d, released),
         \A n \in released : token[n] # 0 /\ token'[n] = 0,
         \A n \in Notifications \ released : token'[n] = token[n],
         \A n, m \in released : n = m
  PROVE  /\ Traced'
         /\ (\E n \in Notifications : FencedRows!Withdraw(n)) \/ UNCHANGED FencedRows!fencedVars
<1>1. /\ \A n \in Notifications : held'[d][n] = 0
      /\ \A e \in Dispatchers \ {d} : held'[e] = held[e]
  BY IdleEffect
<1>2. /\ issued' = issued /\ stored' = stored /\ drawn' = [drawn EXCEPT ![d] = Nothing]
      /\ current' = [n \in Notifications |-> IF n \in released THEN 0 ELSE current[n]]
  BY DEF RecordEnd
<1>3. /\ drawn' \in [Dispatchers -> [Notifications -> Nat]]
      /\ \A e \in Dispatchers \ {d} : drawn'[e] = drawn[e]
      /\ current' \in [Notifications -> Nat]
  BY <1>2 DEF Traced, Nothing
<1>4. Traced'
  BY <1>1, <1>2, <1>3 DEF Traced
<1>5. CASE released = {}
  <2>1. current' = current
    BY <1>2, <1>5 DEF Traced
  <2> QED BY <1>2, <1>4, <2>1 DEF FencedRows!fencedVars
<1>6. CASE released # {}
  <2>1. PICK n \in released : TRUE
    BY <1>6
  <2>2. current[n] # 0 /\ n \in Notifications
    BY DEF Traced
  <2>3. current' = [current EXCEPT ![n] = 0]
    BY <1>2 DEF Traced
  <2>4. FencedRows!Withdraw(n)
    BY <1>2, <2>2, <2>3 DEF FencedRows!Withdraw
  <2> QED BY <1>4, <2>2, <2>4
<1> QED BY <1>5, <1>6

(* A row put back: its claim, if there is one, ends without a result.      *)
LEMMA RequeueIsWithdraw ==
  ASSUME TypeOK, Traced, NEW o \in Operators, NEW n \in Notifications, Requeue(o, n), RecordRequeue(n)
  PROVE  Traced' /\ (FencedRows!Withdraw(n) \/ UNCHANGED FencedRows!fencedVars)
<1>1. token' = [token EXCEPT ![n] = 0] /\ held' = held
  BY DEF Requeue, Unlease, dispatcherVars
<1>2. /\ current' = [current EXCEPT ![n] = 0]
      /\ issued' = issued /\ drawn' = drawn /\ stored' = stored
  BY DEF RecordRequeue
<1>3. current' \in [Notifications -> Nat]
  BY <1>2 DEF Traced
<1>4. /\ token'[n] = 0 /\ current'[n] = 0
      /\ \A m \in Notifications \ {n} : token'[m] = token[m] /\ current'[m] = current[m]
  BY <1>1, <1>2 DEF TypeOK, Traced
<1>5. Traced'
  BY <1>1, <1>2, <1>3, <1>4 DEF Traced
<1>6. CASE current[n] = 0
  <2>1. current' = current
    BY <1>2, <1>6 DEF Traced
  <2> QED BY <1>2, <1>5, <2>1 DEF FencedRows!fencedVars
<1>7. CASE current[n] # 0
  BY <1>2, <1>5, <1>7 DEF FencedRows!Withdraw
<1> QED BY <1>6, <1>7

(* All other steps leave the leases, and so the abstract store, alone. *)
LEMMA OtherStutters ==
  ASSUME Traced, UNCHANGED <<token, held, recordVars>>
  PROVE  Traced' /\ UNCHANGED FencedRows!fencedVars
BY DEF Traced, recordVars, FencedRows!fencedVars

LEMMA RecordedStepIsFenced ==
  ASSUME IInv, Traced, [RecordedNext]_<<vars, recordVars>>
  PROVE  Traced' /\ [FencedRows!FencedNext]_(FencedRows!fencedVars)
<1> USE DEF tableVars, dispatcherVars
<1>0. TypeOK
  BY DEF IInv
<1>1. ASSUME UNCHANGED <<token, held, recordVars>> PROVE Traced' /\ UNCHANGED FencedRows!fencedVars
  BY <1>1, OtherStutters
<1>2. CASE UNCHANGED <<vars, recordVars>>
  BY <1>1, <1>2 DEF vars
<1>3. CASE (Tick \/ \E n \in Notifications : Create(n)) /\ UNCHANGED recordVars
  BY <1>1, <1>3 DEF Tick, Create
<1>4. ASSUME NEW d \in Dispatchers, Claim(d), RecordClaim(d)
      PROVE  Traced' /\ FencedRows!FencedNext
  BY <1>4, ClaimIsGrant DEF FencedRows!FencedNext
<1>5. ASSUME NEW d \in Dispatchers, Select(d) \/ (\E n \in Notifications : Send(d, n)), UNCHANGED recordVars
      PROVE  Traced' /\ UNCHANGED FencedRows!fencedVars
  BY <1>1, <1>5 DEF Select, Send
<1>6. ASSUME NEW d \in Dispatchers, Finish(d) \/ Crash(d), RecordEnd(d, {})
      PROVE  Traced' /\ [FencedRows!FencedNext]_(FencedRows!fencedVars)
  <2>1. Idle(d) /\ token' = token
    BY <1>6 DEF Finish, Crash
  <2> QED BY <1>0, <1>6, <2>1, EndIsWithdraw DEF FencedRows!FencedNext
<1>7. ASSUME NEW d \in Dispatchers, NEW n \in Notifications,
             Suppress(d, n) \/ Deliver(d, n) \/ Fail(d, n), RecordResult(d, n)
      PROVE  Traced' /\ [FencedRows!FencedNext]_(FencedRows!fencedVars)
  <2>1. held[d][n] # 0
    BY <1>7 DEF Suppress, Deliver, Fail, Current
  <2>2. PICK s \in Open \cup Closed, r \in 0..MaxAttempts : Finalize(d, n, s, r)
    <3>1. /\ MaxRetries \in Nat /\ requeues \in 0..MaxRequeues /\ MaxRequeues \in Nat
          /\ seen[d][n] \in 0..MaxAttempts /\ 0 \in 0..MaxAttempts
      BY <1>0, DispatchAssumption DEF TypeOK, MaxAttempts
    <3>2. seen[d][n] + 1 \in 0..MaxAttempts
      BY <2>1, <3>1 DEF IInv, HoldsInBatch, PayloadsAreOld, MaxAttempts
    <3>3. CASE Suppress(d, n)
      BY <3>1, <3>3 DEF Suppress, Closed
    <3>4. CASE Deliver(d, n)
      BY <3>1, <3>4 DEF Deliver, Closed
    <3>5. CASE Fail(d, n)
      BY <3>2, <3>5 DEF Fail, Open, Closed
    <3> QED BY <1>7, <3>3, <3>4, <3>5
  <2> QED BY <1>0, <1>7, <2>1, <2>2, ResultIsAccept DEF FencedRows!FencedNext
<1>8. ASSUME NEW d \in Dispatchers, NEW n \in Notifications, Abort(d, n),
             RecordEnd(d, {m \in {n} : token'[m] # token[m]})
      PROVE  Traced' /\ [FencedRows!FencedNext]_(FencedRows!fencedVars)
  <2> DEFINE released == {m \in {n} : token'[m] # token[m]}
  <2>1. Idle(d) /\ held[d][n] # 0 /\ (UNCHANGED token \/ (Owns(d, n) /\ token' = [token EXCEPT ![n] = 0]))
    BY <1>8 DEF Abort, Current, Unlease
  <2>2. /\ \A m \in released : token[m] # 0 /\ token'[m] = 0
        /\ \A m \in Notifications \ released : token'[m] = token[m]
    BY <1>0, <2>1 DEF Owns, TypeOK
  <2>3. released \in SUBSET Notifications /\ (\A k, m \in released : k = m) /\ RecordEnd(d, released)
    BY <1>8
  <2> HIDE DEF released
  <2> QED BY <1>0, <2>1, <2>2, <2>3, EndIsWithdraw DEF FencedRows!FencedNext
<1>9. CASE \E d \in Dispatchers : RecordedStep(d)
  <2>1. PICK d \in Dispatchers : RecordedStep(d)
    BY <1>9
  <2> QED BY <2>1, <1>4, <1>5, <1>6, <1>7, <1>8 DEF RecordedStep
<1>10. ASSUME NEW o \in Operators, NEW n \in Notifications, Requeue(o, n), RecordRequeue(n)
       PROVE  Traced' /\ [FencedRows!FencedNext]_(FencedRows!fencedVars)
  BY <1>0, <1>10, RequeueIsWithdraw DEF FencedRows!FencedNext
<1>11. ASSUME NEW o \in Operators, ListFailed(o) \/ (\E n \in Notifications : RequeueFails(o, n)), UNCHANGED recordVars
       PROVE  Traced' /\ UNCHANGED FencedRows!fencedVars
  BY <1>1, <1>11 DEF ListFailed, RequeueFails
<1> QED BY <1>2, <1>3, <1>9, <1>10, <1>11, <1>1 DEF RecordedNext

(* The notifications table keeps the promise of the targets table, for any *)
(* number of dispatchers: claim_notifications grants, a finalize that      *)
(* matches accepts, an aborted batch withdraws the row at hand, and no     *)
(* other step is visible.  So the results recorded for a notification come *)
(* from ever newer claims, one each.                                       *)
THEOREM DispatchIsFenced == RecordedSpec => DispatchImplementsFencedStore
<1>1. Init /\ RecordInit => Traced /\ FencedRows!FencedInit
  BY DEF Init, RecordInit, Traced, Nothing, FencedRows!FencedInit
<1>2. IInv /\ Traced /\ [RecordedNext]_<<vars, recordVars>> =>
        Traced' /\ [FencedRows!FencedNext]_(FencedRows!fencedVars)
  BY RecordedStepIsFenced
<1> QED BY <1>1, <1>2, RecordedInvariant, PTL DEF RecordedSpec, DispatchImplementsFencedStore, FencedRows!FencedSpec

=============================================================================
