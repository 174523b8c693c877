------------------------- MODULE NotificationDispatch -------------------------
(***************************************************************************)
(* Delivery of notifications by several dispatcher processes:              *)
(* Repository.create_notification, claim_notifications,                    *)
(* finalize_notification_dispatch, release_notification_dispatch,          *)
(* NotificationDispatcher.run_once / dispatch_one, the AlertSilencer that  *)
(* a dispatcher may have, the answers of the channel senders, and the      *)
(* command "notify --retry", which puts failed notifications back without  *)
(* looking at anybody's lease.                                             *)
(*                                                                         *)
(* As in TargetLease, claim_notifications is two atomic steps: its SELECT, *)
(* and the transaction that its first UPDATE opens.  The UPDATE re-tests   *)
(* the lease (against the "now" of the call) and its rowcount, but not the *)
(* status, and the Notification handed out carries the SELECT's payload.   *)
(*                                                                         *)
(* Time is relative: lease[n] is dispatch_until minus the current time.    *)
(***************************************************************************)
EXTENDS Integers, FiniteSets

CONSTANTS
  Dispatchers,  \* dispatcher processes
  Guarded,      \* those that have a silencer
  Notifications,
  Key,          \* _get_key: entity, event type and channel of a notification
  Similar,      \* pairs whose texts differ by less than similarity_threshold
  Unconfigured, \* notifications whose sender lacks a URL or recipients
  Cooldown,     \* cooldown_seconds of the first rule that matches, or the default
  MaxRetries,   \* max_retries
  LeaseTime,    \* lease_duration_sec of claim_notifications
  BatchSize,    \* limit of claim_notifications
  Operators,    \* processes that run notify --retry
  MaxRequeues,  \* bound on the rows they put back
  MaxRows,      \* bound on the rows of the table once they do
  MaxAge,       \* bound on the ticks one batch takes (senders have timeouts)
  MaxFaults     \* bound on crashes, aborted batches and batches outliving their lease

ASSUME FiniteAssumption == IsFiniteSet(Dispatchers)
ASSUME DispatchAssumption ==
  /\ {MaxRetries, LeaseTime, BatchSize} \subseteq Nat \ {0}
  /\ {MaxAge, MaxFaults, MaxRequeues, MaxRows} \subseteq Nat
  /\ Guarded \subseteq Dispatchers /\ Unconfigured \subseteq Notifications
  /\ DOMAIN Key = Notifications /\ Cooldown \in Nat \ {0}
  /\ Similar \subseteq Notifications \X Notifications /\ \A n \in Notifications : <<n, n>> \notin Similar

VARIABLES
  \* the notifications table
  status,     \* "absent" before the row exists
  retries,    \* retry_count in the payload
  token,      \* dispatch_token, 0 for NULL
  lease,      \* dispatch_until - now, 0 when NULL
  \* the dispatchers
  pc,
  age,        \* ticks since the "now" of the dispatcher's claim
  picked,     \* ids of the batch at hand
  seen,       \* seen[d][n]: retry_count in the payload d works with
  held,       \* held[d][n]: dispatch_token d works under, 0 for none
  result,     \* result[d][n]: what the sender answered, "none" before
  \* the silencers, in memory
  since,      \* since[d][k]: ticks since record_dispatch for the key, Cooldown if none or more
  history,    \* notifications whose text is in _similarity_history
  \* the operators
  listed,     \* failed rows the command read and has yet to put back
  requeues,   \* rows put back so far
  \* bookkeeping
  attempts,   \* times each was sent, counted up to MaxRetries (history)
  accepted,   \* notifications an external channel has accepted (history)
  faults

tableVars == <<status, retries, token, lease>>
dispatcherVars == <<pc, age, picked, seen, held, result>>
silencerVars == <<since, history>>
operatorVars == <<listed, requeues>>
historyVars == <<attempts, accepted>>
vars == <<tableVars, dispatcherVars, silencerVars, operatorVars, historyVars, faults>>

\* A mutant: the SELECT without retry_pending.
OpenPending == {"pending"}

Open == {"pending", "retry_pending"}
Closed == {"delivered", "failed"}

\* At most one token per dispatcher and one in the row are remembered.
Tokens == 1..(Cardinality(Dispatchers) + 2)
Fresh(n) == CHOOSE k \in Tokens :
              k # token[n] /\ \A d \in Dispatchers : k # held[d][n]

Nothing == [n \in Notifications |-> 0]
NoResult == [n \in Notifications |-> "none"]
MaxAttempts == MaxRetries + MaxRequeues
Keys == {Key[n] : n \in Notifications}
Never == [k \in Keys |-> Cooldown]

TypeOK ==
  /\ status \in [Notifications -> {"absent"} \cup Open \cup Closed]
  /\ retries \in [Notifications -> 0..MaxAttempts]
  /\ token \in [Notifications -> {0} \cup Tokens]
  /\ lease \in [Notifications -> Int]
  /\ pc \in [Dispatchers -> {"idle", "selected", "sending"}]
  /\ age \in [Dispatchers -> 0..MaxAge]
  /\ picked \in [Dispatchers -> SUBSET Notifications]
  /\ seen \in [Dispatchers -> [Notifications -> 0..MaxAttempts]]
  /\ held \in [Dispatchers -> [Notifications -> {0} \cup Tokens]]
  /\ result \in [Dispatchers -> [Notifications -> {"none", "success", "failure"}]]
  /\ listed \in [Operators -> SUBSET Notifications]
  /\ requeues \in 0..MaxRequeues
  /\ attempts \in [Notifications -> 0..MaxRetries]
  /\ accepted \subseteq Notifications
  /\ since \in [Dispatchers -> [Keys -> 0..Cooldown]]
  /\ history \in [Dispatchers -> SUBSET Notifications]
  /\ \A d \in Dispatchers \ Guarded : since[d] = Never /\ history[d] = {}
  /\ faults \in 0..MaxFaults

Init ==
  /\ status = [n \in Notifications |-> "absent"]
  /\ retries = Nothing
  /\ token = Nothing
  /\ lease = Nothing
  /\ pc = [d \in Dispatchers |-> "idle"]
  /\ age = [d \in Dispatchers |-> 0]
  /\ picked = [d \in Dispatchers |-> {}]
  /\ seen = [d \in Dispatchers |-> Nothing]
  /\ held = [d \in Dispatchers |-> Nothing]
  /\ result = [d \in Dispatchers |-> NoResult]
  /\ listed = [o \in Operators |-> {}]
  /\ requeues = 0
  /\ attempts = Nothing
  /\ accepted = {}
  /\ since = [d \in Dispatchers |-> Never]
  /\ history = [d \in Dispatchers |-> {}]
  /\ faults = 0

-----------------------------------------------------------------------------
Rows == {n \in Notifications : status[n] # "absent"}
Retrying == requeues > 0 \/ \E o \in Operators : listed[o] # {}

(* create_notification; a second call for the same event and channel hits  *)
(* UNIQUE(event_id, channel) and returns the existing row unchanged.       *)
Create(n) ==
  /\ status[n] = "absent"
  /\ Retrying => Cardinality(Rows) < MaxRows
  /\ status' = [status EXCEPT ![n] = "pending"]
  /\ UNCHANGED <<retries, token, lease, dispatcherVars, silencerVars, operatorVars, historyVars, faults>>

(* A mutant: "dispatch_until <= now". *)
UnleasedEarly(n, a) == token[n] = 0 \/ lease[n] <= -a

(* "dispatch_until IS NULL OR dispatch_until < now", now being a ticks ago. *)
Unleased(n, a) == token[n] = 0 \/ lease[n] < -a

(* The SELECT of claim_notifications, up to BatchSize rows; rows created   *)
(* in the same instant come in any order.                                  *)
Select(d) ==
  /\ pc[d] = "idle"
  /\ LET E == {n \in Notifications : status[n] \in Open /\ Unleased(n, 0)}
     IN /\ E # {}
        /\ \E S \in SUBSET E :
             /\ Cardinality(S) <= BatchSize
             /\ S # E => Cardinality(S) = BatchSize
             /\ picked' = [picked EXCEPT ![d] = S]
             /\ seen' = [seen EXCEPT ![d] = [n \in Notifications |-> IF n \in S THEN retries[n] ELSE 0]]
  /\ pc' = [pc EXCEPT ![d] = "selected"]
  /\ UNCHANGED <<tableVars, age, held, result, silencerVars, operatorVars, historyVars, faults>>

(* The transaction of claim_notifications: a row that was leased meanwhile *)
(* is skipped.                                                             *)
Claim(d) ==
  /\ pc[d] = "selected"
  /\ LET C == {n \in picked[d] : Unleased(n, age[d])}
     IN /\ token' = [n \in Notifications |-> IF n \in C THEN Fresh(n) ELSE token[n]]
        /\ held' = [held EXCEPT ![d] = [n \in Notifications |-> IF n \in C THEN Fresh(n) ELSE 0]]
        /\ lease' = [n \in Notifications |-> IF n \in C THEN LeaseTime - age[d] ELSE lease[n]]
        /\ picked' = [picked EXCEPT ![d] = C]
        /\ seen' = [seen EXCEPT ![d] = [n \in Notifications |-> IF n \in C THEN @[n] ELSE 0]]
  /\ pc' = [pc EXCEPT ![d] = "sending"]
  /\ UNCHANGED <<status, retries, age, result, silencerVars, operatorVars, historyVars, faults>>

(* dispatch_one takes the claimed notifications one after the other. *)
Current(d, n) ==
  /\ pc[d] = "sending"
  /\ held[d][n] # 0
  /\ \A m \in Notifications \ {n} : result[d][m] = "none"

(* should_silence: the cooldown of the key runs, or the text is similar to *)
(* one of the same key that was let through.                               *)
SilencedByCooldown(d, n) == since[d][Key[n]] < Cooldown
SilencedBySimilarity(d, n) == \E m \in history[d] : Key[m] = Key[n] /\ <<m, n>> \in Similar
Silenced(d, n) == d \in Guarded /\ (SilencedByCooldown(d, n) \/ SilencedBySimilarity(d, n))

(* A text that is let through enters the history before it is sent.        *)
(* (The histories' limit of 20 texts is left out.)                         *)
Remember(d, n) == history' = [history EXCEPT ![d] = IF d \in Guarded THEN @ \cup {n} ELSE @]

(* send of the webhook senders, and of email: a failure without a URL or   *)
(* recipients, else their own retries end in either answer.                *)
Answers(n) == IF n \in Unconfigured THEN {"failure"} ELSE {"success", "failure"}

Attempted(n) == attempts' = [attempts EXCEPT ![n] = IF @ < MaxRetries THEN @ + 1 ELSE @]

(* sender.send: the channel accepts the message or the attempt fails. *)
Send(d, n) ==
  /\ Current(d, n)
  /\ result[d][n] = "none" /\ ~Silenced(d, n)
  /\ Remember(d, n)
  /\ \E answer \in Answers(n) :
       /\ result' = [result EXCEPT ![d][n] = answer]
       /\ accepted' = IF answer = "success" THEN accepted \cup {n} ELSE accepted
  /\ Attempted(n)
  /\ UNCHANGED <<tableVars, pc, age, picked, seen, held, since, operatorVars, faults>>

Done(d, n) ==
  /\ picked' = [picked EXCEPT ![d] = @ \ {n}]
  /\ seen' = [seen EXCEPT ![d][n] = 0]
  /\ held' = [held EXCEPT ![d][n] = 0]
  /\ result' = [result EXCEPT ![d][n] = "none"]

Unlease(n) ==
  /\ token' = [token EXCEPT ![n] = 0]
  /\ lease' = [lease EXCEPT ![n] = 0]

(* A mutant: no fencing. *)
OwnsAlways(d, n) == TRUE

(* "AND dispatch_token = ?" *)
Owns(d, n) == token[n] = held[d][n]

(* finalize_notification_dispatch: no effect unless the token matches. *)
Finalize(d, n, s, r) ==
  /\ IF Owns(d, n)
     THEN /\ status' = [status EXCEPT ![n] = s]
          /\ retries' = [retries EXCEPT ![n] = r]
          /\ Unlease(n)
     ELSE UNCHANGED tableVars
  /\ Done(d, n)

(* Silenced: recorded as delivered with a fresh payload, nothing sent. *)
Suppress(d, n) ==
  /\ Current(d, n)
  /\ result[d][n] = "none" /\ Silenced(d, n)
  /\ Finalize(d, n, "delivered", 0)
  /\ UNCHANGED <<pc, age, silencerVars, operatorVars, historyVars, faults>>

(* record_dispatch *)
Record(d, n) ==
  IF d \in Guarded THEN since' = [since EXCEPT ![d][Key[n]] = 0] /\ Remember(d, n)
  ELSE UNCHANGED silencerVars

Deliver(d, n) ==
  /\ Current(d, n)
  /\ result[d][n] = "success"
  /\ Record(d, n)
  /\ Finalize(d, n, "delivered", seen[d][n])
  /\ UNCHANGED <<pc, age, operatorVars, historyVars, faults>>

(* Mutants: one attempt too many, one too few. *)
ExhaustedLate(r) == r > MaxRetries
ExhaustedEarly(r) == r + 1 >= MaxRetries

Exhausted(r) == r >= MaxRetries

(* A mutant: an attempt starts the cooldown, whatever its answer. *)
FailRecording(d, n) ==
  /\ Current(d, n)
  /\ result[d][n] = "failure"
  /\ Record(d, n)
  /\ LET r == seen[d][n] + 1
     IN Finalize(d, n, IF Exhausted(r) THEN "failed" ELSE "retry_pending", r)
  /\ UNCHANGED <<pc, age, operatorVars, historyVars, faults>>

Fail(d, n) ==
  /\ Current(d, n)
  /\ result[d][n] = "failure"
  /\ LET r == seen[d][n] + 1
     IN Finalize(d, n, IF Exhausted(r) THEN "failed" ELSE "retry_pending", r)
  /\ UNCHANGED <<pc, age, silencerVars, operatorVars, historyVars, faults>>

Idle(d) ==
  /\ pc' = [pc EXCEPT ![d] = "idle"]
  /\ age' = [age EXCEPT ![d] = 0]
  /\ picked' = [picked EXCEPT ![d] = {}]
  /\ seen' = [seen EXCEPT ![d] = Nothing]
  /\ held' = [held EXCEPT ![d] = Nothing]
  /\ result' = [result EXCEPT ![d] = NoResult]

Finish(d) ==
  /\ pc[d] = "sending"
  /\ held[d] = Nothing
  /\ Idle(d)
  /\ UNCHANGED <<tableVars, silencerVars, operatorVars, historyVars, faults>>

(* What an exception that ends dispatch_one leaves behind: an unlisted one *)
(* from a sender (the message was let through), an SQLite error when the   *)
(* success of a recorded dispatch, a failure or a silenced row is stored.  *)
Interrupted(d, n) ==
  \/ /\ result[d][n] = "none" /\ ~Silenced(d, n)
     /\ Remember(d, n) /\ Attempted(n) /\ UNCHANGED since
  \/ result[d][n] = "success" /\ Record(d, n) /\ UNCHANGED attempts
  \/ /\ result[d][n] = "failure" \/ (result[d][n] = "none" /\ Silenced(d, n))
     /\ UNCHANGED <<silencerVars, attempts>>

(* An exception dispatch_one does not handle.  Its finally releases the    *)
(* dispatch at hand, or fails to (an SQLite error there becomes a          *)
(* NameError: the module does not import sqlite3) and leaves the row       *)
(* leased; the exception ends run_once, the rest of the batch still leased.*)
Abort(d, n) ==
  /\ Current(d, n)
  /\ faults < MaxFaults
  /\ faults' = faults + 1
  /\ Interrupted(d, n)
  /\ (Owns(d, n) /\ Unlease(n)) \/ UNCHANGED <<token, lease>>
  /\ Idle(d)
  /\ UNCHANGED <<status, retries, operatorVars, accepted>>

(* The process dies, and its silencer forgets. *)
Crash(d) ==
  /\ pc[d] # "idle"
  /\ faults < MaxFaults
  /\ faults' = faults + 1
  /\ Idle(d)
  /\ since' = [since EXCEPT ![d] = Never]
  /\ history' = [history EXCEPT ![d] = {}]
  /\ UNCHANGED <<tableVars, operatorVars, historyVars>>

(* notify --retry reads failed rows, as many as its limit allows ...       *)
ListFailed(o) ==
  /\ listed[o] = {} /\ requeues < MaxRequeues /\ Cardinality(Rows) <= MaxRows
  /\ \E S \in SUBSET {n \in Notifications : status[n] = "failed"} :
       S # {} /\ listed' = [listed EXCEPT ![o] = S]
  /\ UNCHANGED <<tableVars, dispatcherVars, silencerVars, requeues, historyVars, faults>>

(* ... and puts one after the other back to "pending", whatever its status *)
(* and its lease are by now; the payload, and retry_count in it, stays.    *)
Requeue(o, n) ==
  /\ n \in listed[o]
  /\ requeues < MaxRequeues
  /\ listed' = [listed EXCEPT ![o] = @ \ {n}]
  /\ requeues' = requeues + 1
  /\ status' = [status EXCEPT ![n] = "pending"]
  /\ Unlease(n)
  /\ UNCHANGED <<retries, dispatcherVars, silencerVars, historyVars, faults>>

(* An SQLite error is printed, and the command goes on with the next row.  *)
RequeueFails(o, n) ==
  /\ n \in listed[o]
  /\ listed' = [listed EXCEPT ![o] = @ \ {n}]
  /\ UNCHANGED <<tableVars, dispatcherVars, silencerVars, requeues, historyVars, faults>>

(* Batches that the next tick makes older than their lease. *)
Outlived == {d \in Dispatchers : pc[d] # "idle" /\ age[d] = LeaseTime}

(* An expired lease stops counting when no dispatcher's "now" can be older. *)
Tick ==
  /\ \A d \in Dispatchers : pc[d] # "idle" => age[d] < MaxAge
  /\ faults' = faults + Cardinality(Outlived)
  /\ faults' <= MaxFaults
  /\ lease' = [n \in Notifications |->
                 IF token[n] = 0 \/ lease[n] < -MaxAge THEN lease[n] ELSE lease[n] - 1]
  /\ age' = [d \in Dispatchers |-> IF pc[d] = "idle" THEN 0 ELSE age[d] + 1]
  /\ since' = [d \in Dispatchers |-> [k \in Keys |-> IF since[d][k] < Cooldown THEN since[d][k] + 1 ELSE Cooldown]]
  /\ UNCHANGED <<status, retries, token, pc, picked, seen, held, result, history, operatorVars, historyVars>>

Attempt(d, n) == Send(d, n) \/ Suppress(d, n) \/ Deliver(d, n) \/ Fail(d, n)
Progress(d) == Select(d) \/ Claim(d) \/ Finish(d) \/ \E n \in Notifications : Attempt(d, n)

Next ==
  \/ Tick
  \/ \E n \in Notifications : Create(n)
  \/ \E d \in Dispatchers :
       Progress(d) \/ Crash(d) \/ \E n \in Notifications : Abort(d, n)
  \/ \E o \in Operators :
       ListFailed(o) \/ \E n \in Notifications : Requeue(o, n) \/ RequeueFails(o, n)

(* Every dispatcher's loop (run_forever, or the daemon's) keeps going, and *)
(* time passes.  Nothing obliges a notification to be created, or an       *)
(* operator to retry one.                                                  *)
Fairness == WF_vars(Tick) /\ \A d \in Dispatchers : WF_vars(Progress(d))

Spec == Init /\ [][Next]_vars /\ Fairness

-----------------------------------------------------------------------------
(* PROPERTIES                                                              *)

(* models.py:58-61 says that SUPPRESSED stands for "AlertSilencer decides  *)
(* not to send" and DELIVERED for "external channel returned success";     *)
(* notification_dispatcher.py:34, that silenced notifications are recorded *)
(* as suppressed.  So no row says "delivered" unless a channel accepted    *)
(* its message.                                                            *)
DeliveredMeansAccepted ==
  \A n \in Notifications : status[n] = "delivered" => n \in accepted

(* What the code stores as delivered although no channel accepted it is at *)
(* least silenced for a reason: another message of the same key that a     *)
(* channel accepted, or a similar one of that key that was attempted.  No  *)
(* late or aborted dispatcher, no failed attempt and no operator turns a   *)
(* loss into "delivered", and no message is silenced by its own failures.  *)
SilencedForAnother ==
  \A n \in Notifications : status[n] = "delivered" /\ n \notin accepted =>
    \E m \in Notifications \ {n} :
      /\ Key[m] = Key[n]
      /\ (m \in accepted \/ (<<m, n>> \in Similar /\ attempts[m] > 0))

\* The step puts n back for an operator.
PutBack(n) == \E o \in Operators : n \in listed[o] \ listed'[o]

(* Apart from an operator, only the dispatcher whose token is in the row   *)
(* changes its status, and gives the token up by it: a dispatcher that     *)
(* lost its lease, or had it cleared by notify --retry, leaves the row to  *)
(* the new holder.                                                         *)
ResultsFenced ==
  [][\A n \in Notifications :
       status[n] # "absent" /\ status'[n] # status[n] /\ ~PutBack(n) =>
         \E d \in Dispatchers : held[d][n] # 0 /\ held[d][n] = token[n] /\ held'[d][n] = 0]_vars

(* A lease that is live by its holder's clock is taken over or released by *)
(* nobody else, an operator excepted; and no other dispatcher holds, or    *)
(* gets, the same token.                                                   *)
LeaseExclusive ==
  [][\A n \in Notifications, d \in Dispatchers :
       held[d][n] # 0 /\ token[n] = held[d][n] =>
         /\ \A e \in Dispatchers \ {d} : held[e][n] # held[d][n] /\ held'[e][n] # held[d][n]
         /\ \/ age[d] > LeaseTime
            \/ token'[n] = token[n]
            \/ held'[d][n] = 0
            \/ PutBack(n)]_vars

(* A notification is given up only after MaxRetries real attempts to send  *)
(* it: retry_count, written back from a payload that may be stale, never   *)
(* runs ahead of the attempts made by all dispatchers together.  (Attempts *)
(* beyond MaxRetries, as after notify --retry, are not counted.)           *)
NoEarlyFailure ==
  \A n \in Notifications :
    /\ attempts[n] < MaxRetries => retries[n] <= attempts[n]
    /\ status[n] = "failed" => attempts[n] = MaxRetries

(* Each notification that is created is delivered or failed in the end,    *)
(* and stays so, in spite of crashes, expired leases, releases that fail   *)
(* and dispatchers overtaking each other, as long as only finitely many    *)
(* batches fail or outlive their lease and operators put finitely many     *)
(* rows back.                                                              *)
Settles == \A n \in Notifications : <>[](status[n] \in {"absent"} \cup Closed)
=============================================================================
