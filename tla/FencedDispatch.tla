---------------------------- MODULE FencedDispatch ----------------------------
(***************************************************************************)
(* NotificationDispatch with a record of its claims, to show that the      *)
(* notifications table keeps the same promise as the targets table: the    *)
(* steps are those of NotificationDispatch, and the variables below only   *)
(* remember in which order claims were granted and results were stored,    *)
(* which the dispatch tokens (uuid4) do not tell.                          *)
(***************************************************************************)
EXTENDS NotificationDispatch

VARIABLES
  issued,   \* number of calls of claim_notifications that reached the table
  current,  \* current[n]: number of the claim the row is leased under, 0 for none
  drawn,    \* drawn[d][n]: number of the claim under which d holds n, 0 for none
  stored    \* stored[n]: number of the claim whose result is in the row

recordVars == <<issued, current, drawn, stored>>

RecordInit ==
  /\ issued = 0
  /\ current = Nothing
  /\ drawn = [d \in Dispatchers |-> Nothing]
  /\ stored = Nothing

RecordClaim(d) ==
  LET number == [n \in Notifications |-> IF held'[d][n] # 0 THEN issued + 1 ELSE 0]
  IN /\ issued' = issued + 1
     /\ current' = [n \in Notifications |-> IF number[n] # 0 THEN number[n] ELSE current[n]]
     /\ drawn' = [drawn EXCEPT ![d] = number]
     /\ UNCHANGED stored

(* The row remembers the claim that the dispatcher works under, whatever   *)
(* claim the row is leased under.                                          *)
RecordResult(d, n) ==
  /\ IF Owns(d, n)
     THEN /\ stored' = [stored EXCEPT ![n] = drawn[d][n]]
          /\ current' = [current EXCEPT ![n] = 0]
     ELSE UNCHANGED <<stored, current>>
  /\ drawn' = [drawn EXCEPT ![d][n] = 0]
  /\ UNCHANGED issued

RecordEnd(d, released) ==
  /\ current' = [n \in Notifications |-> IF n \in released THEN 0 ELSE current[n]]
  /\ drawn' = [drawn EXCEPT ![d] = Nothing]
  /\ UNCHANGED <<issued, stored>>

(* notify --retry ends whatever claim leases the row; the dispatcher that  *)
(* works under it does not notice.                                         *)
RecordRequeue(n) ==
  /\ current' = [current EXCEPT ![n] = 0]
  /\ UNCHANGED <<issued, drawn, stored>>

RecordedStep(d) ==
  \/ Claim(d) /\ RecordClaim(d)
  \/ (Finish(d) \/ Crash(d)) /\ RecordEnd(d, {})
  \/ Select(d) /\ UNCHANGED recordVars
  \/ \E n \in Notifications :
       \/ Send(d, n) /\ UNCHANGED recordVars
       \/ (Suppress(d, n) \/ Deliver(d, n) \/ Fail(d, n)) /\ RecordResult(d, n)
       \/ Abort(d, n) /\ RecordEnd(d, {m \in {n} : token'[m] # token[m]})

RecordedNext ==
  \/ (Tick \/ \E n \in Notifications : Create(n)) /\ UNCHANGED recordVars
  \/ \E d \in Dispatchers : RecordedStep(d)
  \/ \E o \in Operators :
       \/ ListFailed(o) /\ UNCHANGED recordVars
       \/ \E n \in Notifications :
            \/ Requeue(o, n) /\ RecordRequeue(n)
            \/ RequeueFails(o, n) /\ UNCHANGED recordVars

RecordedSpec == Init /\ RecordInit /\ [][RecordedNext]_<<vars, recordVars>>

(* The notifications table is a fenced store: the results of dispatches    *)
(* are stored in the order of their claims, each claim once, whatever      *)
(* dispatchers outlive their leases, abort and die, and whatever rows an   *)
(* operator takes from them.                                               *)
FencedRows == INSTANCE FencedStore WITH
  Targets <- Notifications, current <- current, accepted <- stored
DispatchImplementsFencedStore == FencedRows!FencedSpec
=============================================================================
