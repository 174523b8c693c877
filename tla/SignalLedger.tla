----------------------------- MODULE SignalLedger -----------------------------
(***************************************************************************)
(* The ledger of signals, events, links, notifications and investigation   *)
(* results, and the three parties that write it:                           *)
(*   - scheduler runs: _commit_or_release correlates the signals of a      *)
(*     result (process_signal) and finalize_execution stores baseline,     *)
(*     signals, events and links in one transaction fenced by the lease;   *)
(*   - flows without a lease: UnifiedPipeline.process_observation and      *)
(*     PipelineRunner.process_signal, which correlate, commit_plan, look   *)
(*     the event up again, investigate and notify, each against the        *)
(*     database as it is by then;                                          *)
(*   - RetentionManager.enforce, which deletes old events, and with them,  *)
(*     by ON DELETE CASCADE, their links and notifications.                *)
(*                                                                         *)
(* A signal is its fingerprint: the hash covers the kind of the signal, so *)
(* SignalType is a function of it, and UNIQUE(entity_id, signal_type,      *)
(* fingerprint) makes an entity and a fingerprint one row.  A scheduler    *)
(* run names its entity by the target's id and the rows by the number of   *)
(* the entity, two values that are never equal.  One channel.              *)
(***************************************************************************)
EXTENDS Integers, Sequences, FiniteSets

CONSTANTS
  Targets, Workers, Flows,
  Prints,       \* fingerprints of signals
  SignalType,   \* the kind of signal a fingerprint belongs to
  Window,       \* correlation_window_seconds (24 h), suppression_window_seconds (1 h)
  Suppression,
  MaxAge,       \* RetentionPolicy.max_age_days (30 days)
  Results,      \* what a run may report: sequences of fingerprints
  MaxEvents,    \* bounds: events ever created,
  MaxObserved,  \* signals of an observation,
  MaxTime       \* and the clock

Types == {"content_change", "stars_changed", "release_published"}

ASSUME FiniteAssumption == IsFiniteSet(Targets)
ASSUME LedgerAssumption ==
  /\ SignalType \in [Prints -> Types \cup {"commit_pushed"}]
  /\ Targets \cap Int = {}
  /\ Suppression \in Nat /\ Window \in Nat /\ MaxAge \in Nat /\ MaxTime \in Nat
  /\ Suppression <= Window /\ Window < MaxAge
  /\ Results \subseteq Seq(Prints)
  /\ MaxEvents \in Nat /\ MaxObserved \in Nat

VARIABLES
  now,
  entity,       \* entities: number of a target's entity, 0 before it has one
  baseline,     \* targets: the fingerprints the stored baseline was reported by
  signals,      \* signals: rows [entity, print]
  events,       \* events: id -> row
  lastEvent,    \* AUTOINCREMENT of events
  links,        \* event_signals: pairs of event id and signal row
  notifs,       \* notifications: rows [event, created]
  results,      \* investigation_results: the event ids they refer to
  run,          \* scheduler workers
  flow,         \* flows without a lease
  sweep         \* the cut-off of a retention sweep between its two deletes, or -1

rows == <<signals, events, lastEvent, links>>
vars == <<now, entity, baseline, rows, notifs, results, run, flow, sweep>>

Rank == 1..3    \* Importance: INTERESTING, IMPORTANT, CRITICAL
Ids == 1..MaxEvents
Batches(max) == UNION {[1..n -> Prints] : n \in 0..max}

Signal == [entity : 1..Cardinality(Targets), print : Prints]
Event == [entity : 1..Cardinality(Targets), type : Types, rank : Rank, created : Nat]
Plan == [print : Prints, event : 0..MaxEvents, raises : BOOLEAN]

NoRun == [pc |-> "idle", target |-> "none", plan |-> <<>>]
NoFlow == [pc |-> "idle", kind |-> "observation", entity |-> 0, at |-> 0,
           todo |-> <<>>, plan |-> <<>>, event |-> 0, eligible |-> FALSE]

TypeOK ==
  /\ now \in 0..MaxTime
  /\ entity \in [Targets -> 0..Cardinality(Targets)]
  /\ baseline \in [Targets -> SUBSET Prints]
  /\ signals \subseteq Signal
  /\ lastEvent \in 0..MaxEvents
  /\ DOMAIN events \subseteq 1..lastEvent /\ \A e \in DOMAIN events : events[e] \in Event
  /\ links \subseteq Ids \X Signal
  /\ notifs \subseteq [event : Ids, created : Nat]
  /\ results \subseteq Ids
  /\ \A w \in Workers :
       /\ run[w].pc \in {"idle", "planned"}
       /\ run[w].target \in Targets \cup {"none"}
       /\ \A i \in DOMAIN run[w].plan : run[w].plan[i] \in Plan
  /\ \A f \in Flows :
       /\ flow[f].pc \in {"idle", "correlate", "commit", "pick", "investigate", "notify"}
       /\ flow[f].kind \in {"observation", "signal"}
       /\ flow[f].entity \in 0..Cardinality(Targets)
       /\ \A i \in DOMAIN flow[f].plan : flow[f].plan[i] \in Plan
       /\ flow[f].event \in 0..MaxEvents
  /\ sweep \in -1..MaxTime

Init ==
  /\ now = 0
  /\ entity = [t \in Targets |-> 0]
  /\ baseline = [t \in Targets |-> {}]
  /\ signals = {} /\ events = <<>> /\ lastEvent = 0 /\ links = {}
  /\ notifs = {} /\ results = {}
  /\ run = [w \in Workers |-> NoRun]
  /\ flow = [f \in Flows |-> NoFlow]
  /\ sweep = -1

-----------------------------------------------------------------------------
(* EventCorrelator *)

(* _resolve_event_type *)
EventType(p) == IF SignalType[p] \in Types THEN SignalType[p] ELSE "content_change"

(* _evaluate_importance *)
Importance(p) ==
  CASE SignalType[p] = "release_published" -> 3
    [] SignalType[p] = "content_change" -> 2
    [] OTHER -> 1

(* The rows of find_open_event_for_entity: the latest open events of the   *)
(* entity and type created at the cut-off or later.  Events stay open:     *)
(* nothing in the program calls close_event.                               *)
OpenEvents(key, type, cutoff) ==
  LET open == {e \in DOMAIN events :
                 /\ events[e].entity = key /\ events[e].type = type
                 /\ events[e].created >= cutoff}
  IN {e \in open : \A d \in open : events[d].created <= events[e].created}

(* LIMIT 1: which of several latest rows comes first is up to SQLite. *)
Found(S) == IF S = {} THEN {0} ELSE S

(* A mutant: events are looked up whatever their age. *)
PlansAnyAge(key, p) ==
  {[print |-> p, event |-> e, raises |-> e # 0 /\ Importance(p) = 3] :
     e \in Found(OpenEvents(key, EventType(p), 0))}

(* process_signal: a new event, or an open one of the window, whose        *)
(* importance may have to be raised.                                       *)
Plans(key, p) ==
  {[print |-> p, event |-> e,
    raises |-> e # 0 /\ (Importance(p) = 3 \/ (Importance(p) = 2 /\ events[e].rank = 1))] :
     e \in Found(OpenEvents(key, EventType(p), now - Window))}

NewEvent(id, p, at) ==
  [entity |-> id, type |-> EventType(p), rank |-> Importance(p), created |-> at]

-----------------------------------------------------------------------------
(* What finalize_execution and commit_plan write for the plans of the      *)
(* signals of one entity.  A signal that is in the table already is        *)
(* skipped, and so is its link; its new event is created all the same.     *)
Created(plan) == {i \in DOMAIN plan : plan[i].event = 0}

(* A mutant: a skipped link does not use its new event up. *)
LinkedEventPacked(id, plan, i) ==
  IF plan[i].event # 0 THEN plan[i].event
  ELSE lastEvent + Cardinality({j \in Created(plan) : j = i \/
         (j < i /\ [entity |-> id, print |-> plan[j].print] \notin signals)})

(* new_event_idx: the k-th link without an event gets the k-th new event. *)
LinkedEvent(id, plan, i) ==
  IF plan[i].event # 0 THEN plan[i].event
  ELSE lastEvent + Cardinality({j \in Created(plan) : j <= i})

(* The foreign key of event_signals: a link to a deleted event is skipped. *)
Linkable(e) == e \in DOMAIN events \/ e > lastEvent

NewLinks(id, plan) ==
  {<<LinkedEvent(id, plan, i), [entity |-> id, print |-> plan[i].print]>> :
     i \in {j \in DOMAIN plan : /\ [entity |-> id, print |-> plan[j].print] \notin signals
                                /\ Linkable(LinkedEvent(id, plan, j))}}

Persist(id, plan, at) ==
  LET number(i) == lastEvent + Cardinality({j \in Created(plan) : j <= i})
      new == {number(i) : i \in Created(plan)}
      raised(e) == {i \in DOMAIN plan : plan[i].event = e /\ plan[i].raises}
  IN /\ lastEvent + Cardinality(Created(plan)) <= MaxEvents
     /\ signals' = signals \cup {[entity |-> id, print |-> plan[i].print] : i \in DOMAIN plan}
     /\ lastEvent' = lastEvent + Cardinality(Created(plan))
     /\ events' = [e \in DOMAIN events \cup new |->
          IF e \in new
          THEN NewEvent(id, plan[CHOOSE i \in Created(plan) : number(i) = e].print, at)
          ELSE IF raised(e) # {}
               THEN [events[e] EXCEPT !.rank =
                       Importance(plan[CHOOSE i \in raised(e) : \A j \in raised(e) : j <= i].print)]
               ELSE events[e]]
     /\ links' = links \cup NewLinks(id, plan)

-----------------------------------------------------------------------------
(* Scheduler runs *)

PlansOf(key, batch) ==
  {plan \in [DOMAIN batch -> UNION {Plans(key, batch[i]) : i \in DOMAIN batch}] :
     \A i \in DOMAIN batch : plan[i] \in Plans(key, batch[i])}

(* A leased target has a result; _commit_or_release correlates every       *)
(* signal of it with the database as it is before any of them is stored.   *)
(* The key is the id of the target, the entity_id that all adapters give a *)
(* signal.                                                                 *)
Correlate(w) ==
  /\ run[w].pc = "idle"
  /\ \E t \in Targets, batch \in Results : \E plan \in PlansOf(t, batch) :
       run' = [run EXCEPT ![w] = [pc |-> "planned", target |-> t, plan |-> plan]]
  /\ UNCHANGED <<now, entity, baseline, rows, notifs, results, flow, sweep>>

(* A mutant: the entity is not looked up first. *)
EntityAnew(t) == entity[t] + 1 + Cardinality({u \in Targets : entity[u] # 0})

(* get_or_create_entity *)
EntityOf(t) ==
  IF entity[t] # 0 THEN entity[t]
  ELSE 1 + Cardinality({u \in Targets : entity[u] # 0})

NewBaseline(w) == IF run[w].plan = <<>> THEN baseline[run[w].target]
                  ELSE {run[w].plan[i].print : i \in DOMAIN run[w].plan}

Quit(w) == run' = [run EXCEPT ![w] = NoRun]

(* finalize_execution: the entity, the target row, the ledger. *)
Finalize(w) ==
  LET t == run[w].target IN
  /\ run[w].pc = "planned"
  /\ entity' = [entity EXCEPT ![t] = EntityOf(t)]
  /\ baseline' = [baseline EXCEPT ![t] = NewBaseline(w)]
  /\ Persist(EntityOf(t), run[w].plan, now)
  /\ Quit(w)
  /\ UNCHANGED <<now, notifs, results, flow, sweep>>

(* A mutant: the entity is made after the UPDATE of the target, and its    *)
(* commit makes the UPDATE permanent.                                      *)
RollbackTorn(w) ==
  LET t == run[w].target IN
  /\ run[w].pc = "planned"
  /\ entity' = [entity EXCEPT ![t] = EntityOf(t)]
  /\ baseline' = [baseline EXCEPT ![t] = NewBaseline(w)]
  /\ Quit(w)
  /\ UNCHANGED <<now, rows, notifs, results, flow, sweep>>

(* An sqlite3.Error in finalize_execution: the transaction is rolled back, *)
(* only the entity, which get_or_create_entity has committed, may stay.    *)
Rollback(w) ==
  LET t == run[w].target IN
  /\ run[w].pc = "planned"
  /\ entity' \in {entity, [entity EXCEPT ![t] = EntityOf(t)]}
  /\ Quit(w)
  /\ UNCHANGED <<now, baseline, rows, notifs, results, flow, sweep>>

(* The worker dies, or its lease was lost and the fence lets nothing in. *)
Crash(w) ==
  /\ run[w].pc = "planned"
  /\ Quit(w)
  /\ UNCHANGED <<now, entity, baseline, rows, notifs, results, flow, sweep>>

-----------------------------------------------------------------------------
(* Flows without a lease *)

Stop(f) == flow' = [flow EXCEPT ![f] = NoFlow]
Step(f, next) == flow' = [flow EXCEPT ![f] = next]

(* The loop over the signals: on to the next one, or done. *)
Advance(f) ==
  IF Len(flow[f].todo) <= 1 THEN Stop(f)
  ELSE Step(f, [flow[f] EXCEPT !.pc = "correlate", !.todo = Tail(@), !.plan = <<>>])

Suppressed(e, p) == OpenEvents(e, EventType(p), now - Suppression) # {}

(* UnifiedPipeline.process_observation: all signals of the observation     *)
(* are tested against the suppression window before the first is stored;   *)
(* left is what passes of them, which may be any batch of signals that are *)
(* not suppressed.  (It goes through them type by type: the order of       *)
(* another batch.)                                                         *)
Observe(f) ==
  /\ flow[f].pc = "idle"
  /\ \E e \in {entity[t] : t \in Targets} \ {0}, left \in Batches(MaxObserved) :
       /\ left # <<>> /\ \A i \in DOMAIN left : ~Suppressed(e, left[i])
       /\ Step(f, [NoFlow EXCEPT !.pc = "correlate", !.entity = e, !.at = now,
                                 !.todo = left])
  /\ UNCHANGED <<now, entity, baseline, rows, notifs, results, run, sweep>>

(* PipelineRunner.process_signal: one signal, no suppression, no           *)
(* investigation.                                                          *)
Receive(f) ==
  /\ flow[f].pc = "idle"
  /\ \E e \in {entity[t] : t \in Targets} \ {0}, p \in Prints :
       Step(f, [NoFlow EXCEPT !.pc = "correlate", !.kind = "signal", !.entity = e,
                              !.at = now, !.todo = <<p>>])
  /\ UNCHANGED <<now, entity, baseline, rows, notifs, results, run, sweep>>

CorrelateFlow(f) ==
  /\ flow[f].pc = "correlate"
  /\ \E plan \in Plans(flow[f].entity, Head(flow[f].todo)) :
       Step(f, [flow[f] EXCEPT !.pc = "commit", !.plan = <<plan>>])
  /\ UNCHANGED <<now, entity, baseline, rows, notifs, results, run, sweep>>

(* commit_plan *)
CommitPlan(f) ==
  /\ flow[f].pc = "commit"
  /\ Persist(flow[f].entity, flow[f].plan, flow[f].at)
  /\ Step(f, [flow[f] EXCEPT !.pc = "pick"])
  /\ UNCHANGED <<now, entity, baseline, notifs, results, run, sweep>>

(* commit_plan returns False: the pipeline goes on with the next signal,   *)
(* the runner raises.                                                      *)
CommitFails(f) ==
  /\ flow[f].pc = "commit"
  /\ Advance(f)
  /\ UNCHANGED <<now, entity, baseline, rows, notifs, results, run, sweep>>

Eligible(e) == events[e].rank >= 2

(* The event is looked up again: get_event for a merged one (None when it  *)
(* is gone), find_open_event_for_entity without cut-off for a new one.     *)
(* When that finds none the event of the signal before is still there.     *)
Pick(f) ==
  LET plan == flow[f].plan[1] IN
  /\ flow[f].pc = "pick"
  /\ \E e \in IF plan.event # 0 THEN Found({plan.event} \cap DOMAIN events)
              ELSE LET open == OpenEvents(flow[f].entity, EventType(plan.print), 0)
                   IN IF open = {} THEN {flow[f].event} ELSE open :
       IF e = 0 THEN Advance(f)
       ELSE Step(f, [flow[f] EXCEPT
              !.pc = IF flow[f].kind = "observation" THEN "investigate" ELSE "notify",
              !.event = e, !.plan = <<>>,
              !.eligible = IF e \in DOMAIN events THEN Eligible(e) ELSE @])
  /\ UNCHANGED <<now, entity, baseline, rows, notifs, results, run, sweep>>

(* dispatch_investigation: an eligible event without a result gets one,    *)
(* unless the investigation fails.  The row of a deleted event breaks the  *)
(* foreign key, an error that nobody catches.                              *)
Investigate(f) ==
  LET e == flow[f].event
      due == flow[f].eligible /\ e \notin results
  IN /\ flow[f].pc = "investigate"
     /\ \/ due /\ e \in DOMAIN events
           /\ results' = results \cup {e} /\ Step(f, [flow[f] EXCEPT !.pc = "notify"])
        \/ due /\ e \notin DOMAIN events
           /\ Stop(f) /\ UNCHANGED results
        \/ Step(f, [flow[f] EXCEPT !.pc = "notify"]) /\ UNCHANGED results
     /\ UNCHANGED <<now, entity, baseline, rows, notifs, run, sweep>>

(* A mutant: a notification is inserted whether its event exists or not. *)
NotifyAnyway(f) ==
  /\ flow[f].pc = "notify"
  /\ notifs' = notifs \cup {[event |-> flow[f].event, created |-> now]}
  /\ Advance(f)
  /\ UNCHANGED <<now, entity, baseline, rows, results, run, sweep>>

(* create_enriched_notification: UNIQUE(event_id, channel) returns the     *)
(* notification there is, the foreign key none.  With auto_deliver the     *)
(* pipeline returns after the first notification it has.                   *)
Notify(f) ==
  LET e == flow[f].event
      known == {n \in notifs : n.event = e}
  IN /\ flow[f].pc = "notify"
     /\ notifs' = IF known = {} /\ e \in DOMAIN events
                  THEN notifs \cup {[event |-> e, created |-> now]} ELSE notifs
     /\ \/ Advance(f)
        \/ {n \in notifs' : n.event = e} # {} /\ Stop(f)
     /\ UNCHANGED <<now, entity, baseline, rows, results, run, sweep>>

CrashFlow(f) ==
  /\ flow[f].pc # "idle"
  /\ Stop(f)
  /\ UNCHANGED <<now, entity, baseline, rows, notifs, results, run, sweep>>

-----------------------------------------------------------------------------
(* RetentionManager.enforce *)

Without(S) == [e \in DOMAIN events \ S |-> events[e]]
Old(cutoff) == {e \in DOMAIN events : events[e].created < cutoff}

(* A mutant: only the events go. *)
DeleteOnlyEvents(S) ==
  /\ S \cap results = {}
  /\ events' = Without(S)
  /\ UNCHANGED <<links, notifs>>

(* DELETE FROM events: links and notifications go with their event; one    *)
(* investigation result of one of the events makes the statement fail.     *)
Delete(S) ==
  /\ S \cap results = {}
  /\ events' = Without(S)
  /\ links' = {l \in links : l[1] \notin S}
  /\ notifs' = {n \in notifs : n.event \notin S}

(* Without filters each DELETE is a transaction of its own. *)
SweepEvents ==
  /\ sweep = -1 /\ now >= MaxAge
  /\ Delete(Old(now - MaxAge))
  /\ sweep' = now - MaxAge
  /\ UNCHANGED <<now, entity, baseline, signals, lastEvent, results, run, flow>>

SweepNotifications ==
  /\ sweep # -1
  /\ notifs' = {n \in notifs : n.created >= sweep}
  /\ sweep' = -1
  /\ UNCHANGED <<now, entity, baseline, rows, results, run, flow>>

(* With a filter both are one transaction.  The filter, here by type, is   *)
(* one of events; the notifications are filtered by channel only.          *)
SweepSelected ==
  /\ sweep = -1 /\ now >= MaxAge
  /\ \E types \in SUBSET Types \ {{}} :
       LET S == {e \in Old(now - MaxAge) : events[e].type \in types} IN
       /\ S \cap results = {}
       /\ events' = Without(S)
       /\ links' = {l \in links : l[1] \notin S}
       /\ notifs' = {n \in notifs : n.event \notin S /\ n.created >= now - MaxAge}
  /\ UNCHANGED <<now, entity, baseline, signals, lastEvent, results, run, flow, sweep>>

(* The clock.  A commit follows its correlation at once: the time between  *)
(* them is nothing beside the 29 days between Window and MaxAge.           *)
Tick ==
  /\ now < MaxTime
  /\ \A w \in Workers : run[w].pc = "idle"
  /\ \A f \in Flows : flow[f].pc # "commit"
  /\ now' = now + 1
  /\ UNCHANGED <<entity, baseline, rows, notifs, results, run, flow, sweep>>

RunStep(w) == Correlate(w) \/ Finalize(w) \/ Rollback(w) \/ Crash(w)

FlowStep(f) == \/ Observe(f) \/ Receive(f) \/ CorrelateFlow(f) \/ CommitPlan(f)
               \/ CommitFails(f) \/ Pick(f) \/ Investigate(f) \/ Notify(f) \/ CrashFlow(f)

Next ==
  \/ \E w \in Workers : RunStep(w)
  \/ \E f \in Flows : FlowStep(f)
  \/ SweepEvents \/ SweepNotifications \/ SweepSelected
  \/ Tick

Spec == Init /\ [][Next]_vars

-----------------------------------------------------------------------------
(* PROPERTIES *)

(* A linked signal belongs to the entity and the type of its event, and    *)
(* the event is at least as important as the signal: the positions of      *)
(* links, signals and new events in a result stay aligned when some of the *)
(* signals are duplicates (finalize_execution), and a merge raises the     *)
(* importance where it must (process_signal).                              *)
EventFitsItsSignals ==
  \A l \in links : LET s == l[2] IN
    l[1] \in DOMAIN events =>
      /\ events[l[1]].entity = s.entity
      /\ events[l[1]].type = EventType(s.print)
      /\ events[l[1]].rank >= Importance(s.print)

(* The baseline of a target never runs ahead of the ledger: the signals of *)
(* the result that set it are stored, whatever lease was lost, process     *)
(* died or transaction was rolled back on the way (finalize_execution).    *)
BaselineBacked ==
  \A t \in Targets : \A p \in baseline[t] :
    [entity |-> entity[t], print |-> p] \in signals

(* No notification, link or investigation result refers to an event that   *)
(* retention has deleted, also when a flow had the event in its hands.     *)
NoDangling ==
  /\ \A n \in notifs : n.event \in DOMAIN events
  /\ \A l \in links : l[1] \in DOMAIN events
  /\ results \subseteq DOMAIN events

(* A signal enters the ledger together with a link to an event: whichever  *)
(* party stores it, merged or not, and whatever retention deletes between  *)
(* the correlation and the commit.                                         *)
StoredIsLinked ==
  [][\A s \in signals' \ signals : \E e \in DOMAIN events' : <<e, s>> \in links']_vars
=============================================================================
