------------------------------ MODULE RuleSync ------------------------------
(***************************************************************************)
(* The rule synchronisation at the start of every run_once, beside the     *)
(* lease protocol of TargetLease.  With a rules file configured the worker *)
(* walks over the rules, reads each rule's target (Repository.get_target), *)
(* edits url, tags and metadata of the copy and writes the whole row back  *)
(* (Repository.save_target), without looking at the claim token and with   *)
(* no transaction around the two.  When the file has changed the walk      *)
(* happens twice: reload_rules, then sync_rules.                           *)
(***************************************************************************)
EXTENDS TargetLease

CONSTANTS
  Rules,        \* ids in the rules file, here all of targets that exist
  NoCopy        \* no Target object in hand

VARIABLES
  passes,       \* walks over the rules still to begin
  toSync,       \* rules left in the present walk
  copy          \* the Target object between get_target and save_target

syncState == <<passes, toSync, copy>>
syncVars == <<vars, syncState>>

(* A Target object as get_target builds it: all scheduling columns. *)
Row(t) == [id |-> t, status |-> status[t], next |-> nextAllowed[t],
           owner |-> owner[t], until |-> leaseUntil[t], token |-> token[t]]

SyncInit ==
  /\ Init
  /\ passes = [w \in Workers |-> 0]
  /\ toSync = [w \in Workers |-> {}]
  /\ copy = [w \in Workers |-> NoCopy]

(* run_once begins; _check_rules_changed decides between one walk and two. *)
SyncStart(w) ==
  /\ Start(w)
  /\ \E changed \in {0, 1} : passes' = [passes EXCEPT ![w] = changed]
  /\ toSync' = [toSync EXCEPT ![w] = Rules]
  /\ UNCHANGED copy

(* existing = repo.get_target(rule.id) *)
SyncRead(w, t) ==
  /\ pc[w] = "started"
  /\ copy[w] = NoCopy
  /\ t \in toSync[w]
  /\ copy' = [copy EXCEPT ![w] = Row(t)]
  /\ UNCHANGED <<vars, passes, toSync>>

(* repo.save_target(existing): the upsert sets every column from the copy. *)
SyncSave(w) ==
  /\ pc[w] = "started"
  /\ copy[w] # NoCopy
  /\ LET c == copy[w]
     IN /\ status' = [status EXCEPT ![c.id] = c.status]
        /\ nextAllowed' = [nextAllowed EXCEPT ![c.id] = c.next]
        /\ owner' = [owner EXCEPT ![c.id] = c.owner]
        /\ leaseUntil' = [leaseUntil EXCEPT ![c.id] = c.until]
        /\ token' = [token EXCEPT ![c.id] = c.token]
        /\ toSync' = [toSync EXCEPT ![w] = @ \ {c.id}]
  /\ copy' = [copy EXCEPT ![w] = NoCopy]
  /\ UNCHANGED <<now, workerVars, claims, accepted, passes>>

(* reload_rules has returned and sync_rules begins. *)
SyncAgain(w) ==
  /\ pc[w] = "started"
  /\ toSync[w] = {} /\ passes[w] > 0
  /\ passes' = [passes EXCEPT ![w] = @ - 1]
  /\ toSync' = [toSync EXCEPT ![w] = Rules]
  /\ UNCHANGED <<vars, copy>>

(* claim_targets comes after the last walk. *)
SyncDone(w) == toSync[w] = {} /\ passes[w] = 0
SyncClaimSelect(w) ==
  /\ SyncDone(w)
  /\ ClaimSelect(w)
  /\ UNCHANGED syncState

(* A crash (or an exception out of sync_rules) loses the copy in hand. *)
SyncCrash(w) ==
  /\ Crash(w)
  /\ passes' = [passes EXCEPT ![w] = 0]
  /\ toSync' = [toSync EXCEPT ![w] = {}]
  /\ copy' = [copy EXCEPT ![w] = NoCopy]

SyncNext ==
  \/ Tick /\ UNCHANGED syncState
  \/ \E w \in Workers :
       \/ SyncStart(w) \/ SyncSave(w) \/ SyncAgain(w) \/ SyncClaimSelect(w) \/ SyncCrash(w)
       \/ (ClaimUpdate(w) \/ Finish(w)) /\ UNCHANGED syncState
       \/ \E t \in Targets : SyncRead(w, t) \/ (TargetStep(w, t) /\ UNCHANGED syncState)

SyncSpec == SyncInit /\ [][SyncNext]_syncVars

-----------------------------------------------------------------------------
(* PROPERTIES                                                              *)

(* "Every claim carries a unique claim_token; an expired worker cannot     *)
(* modify the lease a new worker holds": while a worker works on a target  *)
(* under a live lease, no step puts an older, expired claim back over it.  *)
(* The fenced operations keep this; the unfenced upsert of save_target is  *)
(* the one writer that could break it, so the run has two workers.         *)
NewLeaseStays ==
  [][\A w \in Workers, t \in Targets :
       held[w][t] # 0 /\ held[w][t] = token[t] /\ now <= leaseUntil[t] =>
         ~(0 < token'[t] /\ token'[t] < token[t] /\ leaseUntil'[t] < now)]_syncVars
=============================================================================
