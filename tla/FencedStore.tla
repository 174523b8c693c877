---------------------------- MODULE FencedStore ----------------------------
(***************************************************************************)
(* What the target table promises to its workers (README.md:249, "every    *)
(* claim carries a unique claim_token; an expired worker cannot modify the *)
(* lease a new worker holds").  Claims are numbered in the order in which  *)
(* they are granted.  A target has at most one current claim; a result is  *)
(* accepted only under the current claim and consumes it.  Therefore the   *)
(* results accepted for a target come from ever newer claims.  The table   *)
(* of notifications keeps the same promise to its dispatchers.             *)
(***************************************************************************)
EXTENDS Naturals

CONSTANT Targets

VARIABLES
  issued,     \* number of claims granted so far
  current,    \* current[t]: number of the claim t is leased under, 0 for none
  accepted    \* accepted[t]: number of the last claim whose result was stored

fencedVars == <<issued, current, accepted>>

FencedInit ==
  /\ issued = 0
  /\ current = [t \in Targets |-> 0]
  /\ accepted = [t \in Targets |-> 0]

\* One claim leases a set of targets, possibly none.
Grant(S) ==
  /\ issued' = issued + 1
  /\ current' = [t \in Targets |-> IF t \in S THEN issued + 1 ELSE current[t]]
  /\ UNCHANGED accepted

\* The claim of t ends without a result.
Withdraw(t) ==
  /\ current[t] # 0
  /\ current' = [current EXCEPT ![t] = 0]
  /\ UNCHANGED <<issued, accepted>>

\* A result for t is stored under its current claim.
Accept(t) ==
  /\ current[t] # 0
  /\ accepted' = [accepted EXCEPT ![t] = current[t]]
  /\ current' = [current EXCEPT ![t] = 0]
  /\ UNCHANGED issued

FencedNext ==
  \/ \E S \in SUBSET Targets : Grant(S)
  \/ \E t \in Targets : Withdraw(t) \/ Accept(t)

FencedSpec == FencedInit /\ [][FencedNext]_fencedVars
=============================================================================
