-------------------------- MODULE SignalLedgerProofs --------------------------
(***************************************************************************)
(* Proofs about SignalLedger for any number of workers, flows, targets and *)
(* events, any results and observations, and any windows in the order that *)
(* LedgerAssumption gives them.                                            *)
(***************************************************************************)
EXTENDS SignalLedger, FiniteSetTheorems, TLAPS

Numbers == 1..Cardinality(Targets)

(* The states of a run and of a flow, whole records. *)
RunType == [pc : {"idle", "planned"}, target : Targets \cup {"none"}, plan : Seq(Plan)]
FlowType ==
  [pc : {"idle", "correlate", "commit", "pick", "investigate", "notify"},
   kind : {"observation", "signal"}, entity : 0..Cardinality(Targets), at : Nat,
   todo : Seq(Prints), plan : Seq(Plan), event : 0..MaxEvents, eligible : BOOLEAN]

WholeTypes ==
  /\ run \in [Workers -> RunType] /\ flow \in [Flows -> FlowType]
  /\ \A e \in DOMAIN events : events[e].type = "content_change" => events[e].rank <= 2

(* What a run or a flow has in its hands: the result of a target, whose    *)
(* signals join no event, or one signal after the other of an entity.      *)
InHand ==
  /\ \A w \in Workers :
       /\ run[w].pc = "planned" => run[w].target \in Targets
       /\ \A i \in DOMAIN run[w].plan : run[w].plan[i].event = 0
  /\ \A f \in Flows :
       /\ flow[f].pc # "idle" => flow[f].entity # 0
       /\ flow[f].pc = "correlate" => flow[f].todo # <<>>
       /\ flow[f].pc \in {"commit", "pick"} => Len(flow[f].plan) = 1

(* The event a signal of an entity joins is there, is the entity's, of the *)
(* signal's type and still in the window, and is important enough or to be *)
(* raised.                                                                 *)
Holds(plan, id) ==
  plan.event # 0 =>
    /\ plan.event \in DOMAIN events
    /\ events[plan.event].entity = id
    /\ events[plan.event].type = EventType(plan.print)
    /\ events[plan.event].created >= now - Window
    /\ IF plan.raises THEN Importance(plan.print) >= 2
       ELSE events[plan.event].rank >= Importance(plan.print)

(* What was correlated is so until it is committed, whatever the others    *)
(* commit and retention deletes meanwhile.                                 *)
PlansHold == \A f \in Flows : flow[f].pc = "commit" => Holds(flow[f].plan[1], flow[f].entity)

BaselineNeedsEntity == \A t \in Targets : entity[t] = 0 => baseline[t] = {}

IInv ==
  /\ TypeOK /\ WholeTypes /\ InHand
  /\ PlansHold /\ NoDangling /\ EventFitsItsSignals
  /\ BaselineNeedsEntity /\ BaselineBacked

-----------------------------------------------------------------------------
(* The kinds of signals. *)
LEMMA KindFacts ==
  \A p : /\ EventType(p) \in Types /\ Importance(p) \in Rank
         /\ EventType(p) = "content_change" => Importance(p) <= 2
         /\ EventType(p) # "content_change" /\ Importance(p) # 3 => Importance(p) = 1
BY DEF EventType, Importance, Types, Rank

(* new_event_idx: each new event of a batch of plans has a number of its   *)
(* own, above all that were given before.                                  *)
Number(plan, i) == lastEvent + Cardinality({j \in Created(plan) : j <= i})

LEMMA Numbering ==
  ASSUME lastEvent \in Nat, NEW plan \in Seq(Plan)
  PROVE  /\ Cardinality(Created(plan)) \in Nat
         /\ \A i \in Created(plan) :
              /\ Number(plan, i) \in Nat
              /\ lastEvent < Number(plan, i) /\ Number(plan, i) <= lastEvent + Cardinality(Created(plan))
              /\ \A k \in Created(plan) : Number(plan, k) = Number(plan, i) => k = i
<1> DEFINE C == Created(plan)
           Upto(i) == {j \in C : j <= i}
<1>1. C \subseteq 1..Len(plan) /\ C \subseteq Nat
  BY DEF Created
<1>2. IsFiniteSet(C) /\ Cardinality(C) \in Nat
  <2>1. IsFiniteSet(1..Len(plan))
    BY FS_Interval
  <2> QED BY <1>1, <2>1, FS_Subset, FS_CardinalityType
<1>3. \A i \in C : /\ IsFiniteSet(Upto(i)) /\ Cardinality(Upto(i)) \in Nat
                   /\ Cardinality(Upto(i)) <= Cardinality(C)
                   /\ Cardinality(Upto(i)) # 0
  <2> SUFFICES ASSUME NEW i \in C
               PROVE  /\ IsFiniteSet(Upto(i)) /\ Cardinality(Upto(i)) \in Nat
                      /\ Cardinality(Upto(i)) <= Cardinality(C)
                      /\ Cardinality(Upto(i)) # 0
    OBVIOUS
  <2>1. Upto(i) \in SUBSET C /\ i \in Upto(i)
    BY <1>1
  <2> HIDE DEF Upto
  <2> QED BY <1>2, <2>1, FS_Subset, FS_CardinalityType, FS_EmptySet
<1>4. ASSUME NEW i \in C, NEW k \in C, i < k PROVE Cardinality(Upto(i)) # Cardinality(Upto(k))
  <2>1. Upto(i) \in SUBSET Upto(k) /\ k \in Upto(k) /\ k \notin Upto(i)
    BY <1>1, <1>4
  <2> HIDE DEF Upto
  <2> QED BY <1>3, <2>1, FS_Subset
<1>5. \A i \in C : Number(plan, i) = lastEvent + Cardinality(Upto(i))
  BY DEF Number
<1>6. \A i, k \in C : Cardinality(Upto(i)) = Cardinality(Upto(k)) => k = i
  <2> SUFFICES ASSUME NEW i \in C, NEW k \in C, i # k
               PROVE  Cardinality(Upto(i)) # Cardinality(Upto(k))
    OBVIOUS
  <2>1. i < k \/ k < i
    BY <1>1
  <2> HIDE DEF C, Upto
  <2> QED BY <1>4, <2>1
<1> HIDE DEF C, Upto
<1>7. \A i \in C :
        /\ Number(plan, i) \in Nat
        /\ lastEvent < Number(plan, i) /\ Number(plan, i) <= lastEvent + Cardinality(C)
        /\ \A k \in C : Number(plan, k) = Number(plan, i) => k = i
  BY <1>2, <1>3, <1>5, <1>6
<1> QED BY <1>2, <1>7 DEF C

(* What finalize_execution and commit_plan do to the ledger, for plans     *)
(* that join nothing, or a single one that holds.                          *)
LEMMA PersistEffect ==
  ASSUME TypeOK, NEW id \in Numbers, NEW plan \in Seq(Plan), NEW at \in Nat, Persist(id, plan, at),
         \A e \in DOMAIN events : events[e].type = "content_change" => events[e].rank <= 2,
         \A i \in DOMAIN plan : plan[i].event # 0 => Len(plan) = 1 /\ Holds(plan[1], id)
  PROVE  /\ signals' = signals \cup {[entity |-> id, print |-> plan[i].print] : i \in DOMAIN plan}
         /\ lastEvent' \in lastEvent..MaxEvents
         /\ DOMAIN events \subseteq DOMAIN events' /\ DOMAIN events' \subseteq 1..lastEvent'
         /\ \A e \in DOMAIN events' :
              /\ events'[e] \in Event
              /\ events'[e].type = "content_change" => events'[e].rank <= 2
         /\ \A e \in DOMAIN events :
              /\ events'[e].entity = events[e].entity /\ events'[e].type = events[e].type
              /\ events'[e].created = events[e].created /\ events'[e].rank >= events[e].rank
         /\ links \subseteq links'
         /\ \A l \in links' \ links :
              /\ l[1] \in DOMAIN events' /\ l \in Ids \X Signal
              /\ events'[l[1]].entity = l[2].entity
              /\ events'[l[1]].type = EventType(l[2].print)
              /\ events'[l[1]].rank >= Importance(l[2].print)
         /\ \A s \in signals' \ signals : \E e \in DOMAIN events' : <<e, s>> \in links'
<1> DEFINE C == Created(plan)
           new == {Number(plan, i) : i \in C}
           raised(e) == {i \in DOMAIN plan : plan[i].event = e /\ plan[i].raises}
           sig(i) == [entity |-> id, print |-> plan[i].print]
<1>0. /\ lastEvent \in Nat /\ MaxEvents \in Nat
      /\ DOMAIN events \subseteq 1..lastEvent /\ \A e \in DOMAIN events : events[e] \in Event
      /\ C = {i \in DOMAIN plan : plan[i].event = 0} /\ C \subseteq DOMAIN plan
      /\ DOMAIN plan = 1..Len(plan) /\ Len(plan) \in Nat /\ \A i \in DOMAIN plan : plan[i] \in Plan
  BY LedgerAssumption DEF TypeOK, Created
<1>1. /\ Cardinality(C) \in Nat
      /\ \A i \in C :
           /\ Number(plan, i) \in Nat
           /\ lastEvent < Number(plan, i) /\ Number(plan, i) <= lastEvent + Cardinality(C)
           /\ \A k \in C : Number(plan, k) = Number(plan, i) => k = i
  BY <1>0, Numbering
<1>2. /\ lastEvent + Cardinality(C) <= MaxEvents /\ lastEvent' = lastEvent + Cardinality(C)
      /\ signals' = signals \cup {sig(i) : i \in DOMAIN plan}
      /\ links' = links \cup NewLinks(id, plan)
      /\ events' = [e \in DOMAIN events \cup new |->
           IF e \in new
           THEN NewEvent(id, plan[CHOOSE i \in C : Number(plan, i) = e].print, at)
           ELSE IF raised(e) # {}
                THEN [events[e] EXCEPT !.rank =
                        Importance(plan[CHOOSE i \in raised(e) : \A j \in raised(e) : j <= i].print)]
                ELSE events[e]]
  BY DEF Persist, Number
<1>3. /\ lastEvent' \in Nat /\ lastEvent <= lastEvent' /\ lastEvent' <= MaxEvents
      /\ \A e \in new : e \in Nat /\ lastEvent < e /\ e <= lastEvent'
  <2>1. lastEvent' = lastEvent + Cardinality(C) /\ lastEvent + Cardinality(C) <= MaxEvents
    BY <1>2
  <2> HIDE DEF C
  <2> QED BY <1>0, <1>1, <2>1
<1>4. /\ DOMAIN events' = DOMAIN events \cup new
      /\ DOMAIN events' \subseteq 1..lastEvent'
      /\ \A e \in DOMAIN events : e \notin new /\ e \in Nat /\ e <= lastEvent
  <2>1. DOMAIN events' = DOMAIN events \cup new
    BY <1>2
  <2> HIDE DEF new
  <2>2. \A e \in DOMAIN events : e \in 1..lastEvent
    BY <1>0
  <2>3. \A e \in DOMAIN events' : e \in 1..lastEvent'
    BY <1>0, <1>3, <2>1, <2>2
  <2> QED BY <1>0, <1>3, <2>1, <2>2, <2>3
<1>5. \A i \in C : events'[Number(plan, i)] = NewEvent(id, plan[i].print, at)
  <2> SUFFICES ASSUME NEW i \in C PROVE events'[Number(plan, i)] = NewEvent(id, plan[i].print, at)
    OBVIOUS
  <2>1. (CHOOSE k \in C : Number(plan, k) = Number(plan, i)) = i
    BY <1>1
  <2>2. Number(plan, i) \in new
    OBVIOUS
  <2> HIDE DEF new, C, raised
  <2> QED BY <1>2, <2>1, <2>2
<1>6. ASSUME NEW e \in DOMAIN events
      PROVE  \/ events'[e] = events[e] /\ raised(e) = {}
             \/ /\ Len(plan) = 1 /\ plan[1].event = e /\ e # 0 /\ plan[1].raises
                /\ events'[e] = [events[e] EXCEPT !.rank = Importance(plan[1].print)]
  <2>1. CASE raised(e) = {}
    <3> HIDE DEF new, C, raised
    <3> QED BY <1>2, <1>4, <2>1
  <2>2. CASE raised(e) # {}
    <3>1. e # 0
      BY <1>0
    <3>2. Len(plan) = 1 /\ raised(e) = {1} /\ plan[1].event = e /\ plan[1].raises
      BY <1>0, <2>2, <3>1
    <3>3. (CHOOSE i \in raised(e) : \A j \in raised(e) : j <= i) = 1
      <4> HIDE DEF raised
      <4> QED BY <3>2
    <3> HIDE DEF new, C, raised
    <3>4. events'[e] = [events[e] EXCEPT !.rank = Importance(plan[1].print)]
      BY <1>2, <1>4, <2>2, <3>3
    <3> QED BY <3>1, <3>2, <3>4
  <2> QED BY <2>1, <2>2
<1>7. ASSUME NEW e \in DOMAIN events
      PROVE  /\ events'[e] \in Event
             /\ events'[e].type = "content_change" => events'[e].rank <= 2
             /\ events'[e].entity = events[e].entity /\ events'[e].type = events[e].type
             /\ events'[e].created = events[e].created /\ events'[e].rank >= events[e].rank
  <2>1. CASE events'[e] = events[e]
    BY <1>0, <2>1 DEF Event, Rank
  <2>2. CASE /\ Len(plan) = 1 /\ plan[1].event = e /\ e # 0 /\ plan[1].raises
             /\ events'[e] = [events[e] EXCEPT !.rank = Importance(plan[1].print)]
    <3>1. Holds(plan[1], id)
      BY <1>0, <2>2
    <3>2. events[e].type = EventType(plan[1].print)
      BY <2>2, <3>1 DEF Holds
    <3>3. /\ Importance(plan[1].print) \in Rank
          /\ events[e].type = "content_change" => Importance(plan[1].print) <= 2
      BY <3>2, KindFacts
    <3>4. events[e] \in Event
      BY <1>0
    <3>5. /\ events'[e] \in Event /\ events'[e].entity = events[e].entity
          /\ events'[e].type = events[e].type /\ events'[e].created = events[e].created
          /\ events'[e].rank = Importance(plan[1].print)
      BY <2>2, <3>3, <3>4 DEF Event
    <3>6. Importance(plan[1].print) >= events[e].rank
      <4>1. Importance(plan[1].print) >= 2
        BY <2>2, <3>1 DEF Holds
      <4>2. events[e].type # "content_change" => Importance(plan[1].print) = 3
        BY <3>2, <3>3, <4>1, KindFacts DEF Rank
      <4>3. events[e].rank \in Rank /\ (events[e].type = "content_change" => events[e].rank <= 2)
        BY <3>4 DEF Event
      <4> QED BY <4>1, <4>2, <4>3, <3>3 DEF Rank
    <3> QED BY <3>3, <3>5, <3>6
  <2> QED BY <1>6, <2>1, <2>2
<1>8. ASSUME NEW e \in new
      PROVE  /\ events'[e] \in Event
             /\ events'[e].type = "content_change" => events'[e].rank <= 2
  <2>1. PICK i \in C : e = Number(plan, i)
    OBVIOUS
  <2>2. events'[e] = NewEvent(id, plan[i].print, at)
    BY <1>5, <2>1
  <2> QED BY <2>2, KindFacts DEF NewEvent, Event, Numbers, Rank
<1>9. ASSUME NEW i \in DOMAIN plan, sig(i) \notin signals
      PROVE  /\ LinkedEvent(id, plan, i) \in DOMAIN events'
             /\ <<LinkedEvent(id, plan, i), sig(i)>> \in NewLinks(id, plan)
             /\ events'[LinkedEvent(id, plan, i)].entity = id
             /\ events'[LinkedEvent(id, plan, i)].type = EventType(plan[i].print)
             /\ events'[LinkedEvent(id, plan, i)].rank >= Importance(plan[i].print)
  <2>1. CASE plan[i].event = 0
    <3>1. LinkedEvent(id, plan, i) = Number(plan, i) /\ i \in C
      BY <2>1 DEF LinkedEvent, Number, Created
    <3>2. events'[Number(plan, i)] = NewEvent(id, plan[i].print, at)
      BY <1>5, <3>1
    <3>3. Number(plan, i) \in new
      BY <3>1
    <3>4. Linkable(Number(plan, i))
      BY <1>1, <3>1 DEF Linkable
    <3>5. Importance(plan[i].print) \in Rank
      BY KindFacts
    <3> HIDE DEF new, C
    <3>6. <<LinkedEvent(id, plan, i), sig(i)>> \in NewLinks(id, plan)
      BY <1>9, <3>1, <3>4 DEF NewLinks
    <3> QED BY <1>4, <3>1, <3>2, <3>3, <3>5, <3>6 DEF NewEvent, Rank
  <2>2. CASE plan[i].event # 0
    <3>1. Len(plan) = 1 /\ i = 1 /\ Holds(plan[1], id)
      BY <1>0, <2>2
    <3>2. /\ LinkedEvent(id, plan, i) = plan[1].event /\ plan[1].event \in DOMAIN events
          /\ events[plan[1].event].entity = id
          /\ events[plan[1].event].type = EventType(plan[1].print)
          /\ plan[1].raises \/ events[plan[1].event].rank >= Importance(plan[1].print)
      BY <2>2, <3>1 DEF Holds, LinkedEvent
    <3>3. <<LinkedEvent(id, plan, i), sig(i)>> \in NewLinks(id, plan)
      BY <1>9, <3>2 DEF NewLinks, Linkable
    <3> DEFINE e == plan[1].event
    <3>4. /\ e \in DOMAIN events' /\ events'[e].entity = id
          /\ events'[e].type = EventType(plan[1].print)
      BY <1>4, <1>7, <3>2
    <3>5. events'[e].rank >= Importance(plan[1].print)
      <4>1. Importance(plan[1].print) \in Rank /\ events[e] \in Event
        BY <1>0, <3>2, KindFacts
      <4>2. CASE events'[e] = events[e] /\ raised(e) = {}
        <5>1. ~plan[1].raises
          BY <1>0, <3>1, <4>2
        <5> QED BY <3>2, <4>2, <5>1
      <4>3. CASE events'[e] = [events[e] EXCEPT !.rank = Importance(plan[1].print)]
        BY <4>1, <4>3 DEF Event, Rank
      <4> QED BY <1>6, <3>2, <4>2, <4>3
    <3> QED BY <3>1, <3>2, <3>3, <3>4, <3>5
  <2> QED BY <2>1, <2>2
<1>10. ASSUME NEW l \in links' \ links
       PROVE  /\ l[1] \in DOMAIN events' /\ l \in Ids \X Signal
              /\ events'[l[1]].entity = l[2].entity
              /\ events'[l[1]].type = EventType(l[2].print)
              /\ events'[l[1]].rank >= Importance(l[2].print)
  <2>1. PICK i \in DOMAIN plan : sig(i) \notin signals /\ l = <<LinkedEvent(id, plan, i), sig(i)>>
    BY <1>2 DEF NewLinks
  <2>2. l[1] = LinkedEvent(id, plan, i) /\ l[2] = sig(i) /\ sig(i) \in Signal
    BY <1>0, <2>1 DEF Signal, Plan, Numbers
  <2>3. l[1] \in DOMAIN events'
    BY <1>9, <2>1, <2>2
  <2>4. l[1] \in Ids
    <3> HIDE DEF new
    <3>1. l[1] \in 1..lastEvent'
      BY <1>4, <2>3
    <3> QED BY <1>0, <1>3, <3>1 DEF Ids
  <2> QED BY <1>9, <2>1, <2>2, <2>3, <2>4
<1>11. ASSUME NEW s \in signals' \ signals PROVE \E e \in DOMAIN events' : <<e, s>> \in links'
  <2>1. PICK i \in DOMAIN plan : s = sig(i)
    BY <1>2
  <2> QED BY <1>2, <1>9, <2>1
<1>12. lastEvent' \in lastEvent..MaxEvents
  BY <1>0, <1>3
<1>13. \A e \in DOMAIN events' : /\ events'[e] \in Event
                                 /\ events'[e].type = "content_change" => events'[e].rank <= 2
  BY <1>4, <1>7, <1>8
<1>14. DOMAIN events \subseteq DOMAIN events' /\ links \subseteq links'
  BY <1>2, <1>4
<1> QED BY <1>2, <1>4, <1>7, <1>10, <1>11, <1>12, <1>13, <1>14


-----------------------------------------------------------------------------
(* TypeOK in two parts: the tables, and what WholeTypes says of the rest. *)
TableTypes ==
  /\ now \in 0..MaxTime
  /\ entity \in [Targets -> 0..Cardinality(Targets)]
  /\ baseline \in [Targets -> SUBSET Prints]
  /\ signals \subseteq Signal
  /\ lastEvent \in 0..MaxEvents
  /\ DOMAIN events \subseteq 1..lastEvent /\ \A e \in DOMAIN events : events[e] \in Event
  /\ links \subseteq Ids \X Signal
  /\ notifs \subseteq [event : Ids, created : Nat]
  /\ results \subseteq Ids
  /\ sweep \in -1..MaxTime

LEMMA TypesFromParts == TableTypes /\ WholeTypes => TypeOK
<1> SUFFICES ASSUME TableTypes, WholeTypes PROVE TypeOK
  OBVIOUS
<1>1. \A w \in Workers :
        /\ run[w].pc \in {"idle", "planned"}
        /\ run[w].target \in Targets \cup {"none"}
        /\ \A i \in DOMAIN run[w].plan : run[w].plan[i] \in Plan
  BY DEF WholeTypes, RunType
<1>2. \A f \in Flows :
        /\ flow[f].pc \in {"idle", "correlate", "commit", "pick", "investigate", "notify"}
        /\ flow[f].kind \in {"observation", "signal"}
        /\ flow[f].entity \in 0..Cardinality(Targets)
        /\ \A i \in DOMAIN flow[f].plan : flow[f].plan[i] \in Plan
        /\ flow[f].event \in 0..MaxEvents
  BY DEF WholeTypes, FlowType
<1> QED BY <1>1, <1>2 DEF TableTypes, TypeOK

LEMMA TypesFromPartsNext == TableTypes' /\ WholeTypes' => TypeOK'
BY TypesFromParts, PTL

LEMMA IInvTypes == IInv => TableTypes /\ Cardinality(Targets) \in Nat
BY FiniteAssumption, FS_CardinalityType DEF IInv, TypeOK, TableTypes

(* get_or_create_entity keeps the entity there is, and there are no more   *)
(* entities than targets.                                                  *)
LEMMA EntityFacts ==
  ASSUME IInv, NEW t \in Targets
  PROVE  /\ EntityOf(t) \in Numbers /\ EntityOf(t) # 0
         /\ entity[t] # 0 => EntityOf(t) = entity[t]
<1> DEFINE U == {u \in Targets : entity[u] # 0}
<1>1. Cardinality(Targets) \in Nat /\ entity[t] \in 0..Cardinality(Targets)
  BY IInvTypes DEF TableTypes
<1>2. IsFiniteSet(U) /\ Cardinality(U) \in Nat /\ Cardinality(U) <= Cardinality(Targets)
      /\ (Cardinality(U) = Cardinality(Targets) => U = Targets)
  <2>1. U \in SUBSET Targets
    OBVIOUS
  <2> HIDE DEF U
  <2> QED BY <2>1, FiniteAssumption, FS_Subset, FS_CardinalityType
<1>3. CASE entity[t] # 0
  BY <1>1, <1>3 DEF EntityOf, Numbers
<1>4. CASE entity[t] = 0
  <2>1. t \notin U
    BY <1>4
  <2>2. EntityOf(t) = 1 + Cardinality(U)
    BY <1>4 DEF EntityOf
  <2> HIDE DEF U
  <2> QED BY <1>1, <1>2, <1>4, <2>1, <2>2 DEF Numbers
<1> QED BY <1>3, <1>4

(* process_signal's plan holds when it is made; a scheduler run, which     *)
(* asks with the id of the target, joins no event.                         *)
LEMMA PlansFacts ==
  ASSUME IInv, NEW key, NEW p \in Prints, NEW q \in Plans(key, p)
  PROVE  /\ q \in Plan /\ Holds(q, key)
         /\ key \in Targets => q.event = 0
<1>0. DOMAIN events \subseteq 1..MaxEvents /\ MaxEvents \in Nat /\ \A e \in DOMAIN events : events[e] \in Event
  BY IInvTypes, LedgerAssumption DEF TableTypes
<1> DEFINE O == OpenEvents(key, EventType(p), now - Window)
           R(e) == e # 0 /\ (Importance(p) = 3 \/ (Importance(p) = 2 /\ events[e].rank = 1))
<1>1. PICK e \in Found(O) : q = [print |-> p, event |-> e, raises |-> R(e)]
  BY DEF Plans
<1>2. \A d \in O : /\ d \in DOMAIN events /\ events[d].entity = key /\ events[d].type = EventType(p)
                   /\ events[d].created >= now - Window
  BY DEF OpenEvents
<1>3. e = 0 \/ e \in O
  BY DEF Found
<1>4. q.print = p /\ q.event = e /\ q.raises = R(e)
  BY <1>1
<1>5. e \in 0..MaxEvents
  <2> HIDE DEF O
  <2> QED BY <1>0, <1>2, <1>3
<1>6. R(e) \in BOOLEAN
  OBVIOUS
<1>7. q \in Plan
  <2> HIDE DEF R
  <2> QED BY <1>1, <1>5, <1>6 DEF Plan
<1>8. Importance(p) \in Rank
  BY KindFacts
<1>9. Holds(q, key)
  <2> SUFFICES ASSUME e # 0 PROVE Holds(q, key)
    BY <1>4 DEF Holds
  <2>1. e \in DOMAIN events /\ events[e].rank \in Rank
    BY <1>0, <1>2, <1>3 DEF Event
  <2>2. IF R(e) THEN Importance(p) >= 2 ELSE events[e].rank >= Importance(p)
    BY <1>8, <2>1 DEF Rank
  <2> HIDE DEF R, O
  <2> QED BY <1>2, <1>3, <1>4, <2>1, <2>2 DEF Holds
<1>10. ASSUME key \in Targets PROVE e = 0
  <2>1. \A d \in DOMAIN events : events[d].entity \in Int
    BY <1>0, IInvTypes DEF Event
  <2>2. O = {}
    BY <1>2, <1>10, <2>1, LedgerAssumption
  <2> QED BY <1>3, <2>2
<1> QED BY <1>4, <1>7, <1>9, <1>10

-----------------------------------------------------------------------------
(* Forms of preservation. *)

(* A flow goes on to a state that fits, and may add a notification or a    *)
(* result for an event that is there.                                      *)
Fits(next) ==
  /\ next.pc # "idle" => next.entity # 0
  /\ next.pc = "correlate" => next.todo # <<>>
  /\ next.pc \in {"commit", "pick"} => Len(next.plan) = 1
  /\ next.pc = "commit" => Holds(next.plan[1], next.entity)

LEMMA FlowMovesKeepInv ==
  ASSUME IInv, NEW f \in Flows, NEW next \in FlowType, Fits(next), Step(f, next),
         UNCHANGED <<now, entity, baseline, rows, run, sweep>>,
         notifs' \subseteq [event : Ids, created : Nat], \A n \in notifs' : n.event \in DOMAIN events,
         results' \subseteq DOMAIN events
  PROVE  IInv'
<1> USE DEF rows
<1>0. TableTypes /\ WholeTypes
  BY IInvTypes DEF IInv
<1>1. /\ flow'[f] = next /\ \A g \in Flows \ {f} : flow'[g] = flow[g]
      /\ flow' \in [Flows -> FlowType]
  BY <1>0 DEF WholeTypes, Step
<1>2. TableTypes'
  <2>1. DOMAIN events \subseteq Ids
    BY <1>0, LedgerAssumption DEF TableTypes, Ids
  <2> QED BY <1>0, <2>1 DEF TableTypes
<1>3. WholeTypes'
  BY <1>0, <1>1 DEF WholeTypes
<1>4. InHand'
  <2>1. \A g \in Flows : /\ flow'[g].pc # "idle" => flow'[g].entity # 0
                         /\ flow'[g].pc = "correlate" => flow'[g].todo # <<>>
                         /\ flow'[g].pc \in {"commit", "pick"} => Len(flow'[g].plan) = 1
    BY <1>1 DEF IInv, InHand, Fits
  <2> QED BY <2>1 DEF IInv, InHand
<1>5. PlansHold'
  <2>1. \A q, x : Holds(q, x) => Holds(q, x)'
    BY DEF Holds
  <2>2. \A g \in Flows : flow'[g].pc = "commit" => Holds(flow'[g].plan[1], flow'[g].entity)
    BY <1>1 DEF IInv, PlansHold, Fits
  <2> QED BY <2>1, <2>2 DEF PlansHold
<1>6. NoDangling' /\ EventFitsItsSignals' /\ BaselineNeedsEntity' /\ BaselineBacked'
  BY DEF IInv, NoDangling, EventFitsItsSignals, BaselineNeedsEntity, BaselineBacked
<1> QED BY <1>2, <1>3, <1>4, <1>5, <1>6, TypesFromPartsNext DEF IInv

(* A worker goes on; an entity may have come into being. *)
LEMMA RunMovesKeepInv ==
  ASSUME IInv, NEW w \in Workers, NEW r \in RunType, run' = [run EXCEPT ![w] = r],
         r.pc = "planned" => r.target \in Targets, \A i \in DOMAIN r.plan : r.plan[i].event = 0,
         NEW t \in Targets, entity' \in {entity, [entity EXCEPT ![t] = EntityOf(t)]},
         UNCHANGED <<now, baseline, rows, notifs, results, flow, sweep>>
  PROVE  IInv'
<1> USE DEF rows
<1>0. TableTypes /\ WholeTypes
  BY IInvTypes DEF IInv
<1>1. /\ run'[w] = r /\ \A v \in Workers \ {w} : run'[v] = run[v]
      /\ run' \in [Workers -> RunType]
  BY <1>0 DEF WholeTypes
<1>2. /\ entity' \in [Targets -> 0..Cardinality(Targets)]
      /\ \A u \in Targets : entity'[u] = entity[u] \/ (entity[u] = 0 /\ entity'[u] # 0)
  BY <1>0, EntityFacts DEF TableTypes, Numbers
<1>3. TableTypes' /\ WholeTypes'
  BY <1>0, <1>1, <1>2 DEF TableTypes, WholeTypes
<1>4. InHand'
  BY <1>1 DEF IInv, InHand
<1>5. PlansHold' /\ NoDangling' /\ EventFitsItsSignals'
  BY DEF IInv, PlansHold, Holds, NoDangling, EventFitsItsSignals
<1>6. BaselineNeedsEntity' /\ BaselineBacked'
  BY <1>2 DEF IInv, BaselineNeedsEntity, BaselineBacked
<1> QED BY <1>3, <1>4, <1>5, <1>6, TypesFromPartsNext DEF IInv

(* A commit: what is in the ledger fits, and what others hold still holds. *)
LEMMA PersistKeeps ==
  ASSUME IInv, NEW id \in Numbers, NEW plan \in Seq(Plan), NEW at \in Nat, Persist(id, plan, at),
         \A i \in DOMAIN plan : plan[i].event # 0 => Len(plan) = 1 /\ Holds(plan[1], id),
         UNCHANGED <<now, notifs, results>>
  PROVE  /\ signals' \subseteq Signal
         /\ lastEvent' \in 0..MaxEvents
         /\ DOMAIN events' \subseteq 1..lastEvent' /\ \A e \in DOMAIN events' : events'[e] \in Event
         /\ links' \subseteq Ids \X Signal
         /\ \A e \in DOMAIN events' : events'[e].type = "content_change" => events'[e].rank <= 2
         /\ signals \subseteq signals' /\ \A i \in DOMAIN plan : [entity |-> id, print |-> plan[i].print] \in signals'
         /\ NoDangling' /\ EventFitsItsSignals'
         /\ \A q, x : Holds(q, x) => Holds(q, x)'
<1>0. TypeOK /\ TableTypes /\ \A e \in DOMAIN events : events[e].type = "content_change" => events[e].rank <= 2
  BY IInvTypes DEF IInv, WholeTypes
<1>1. /\ signals' = signals \cup {[entity |-> id, print |-> plan[i].print] : i \in DOMAIN plan}
      /\ lastEvent' \in lastEvent..MaxEvents
      /\ DOMAIN events \subseteq DOMAIN events' /\ DOMAIN events' \subseteq 1..lastEvent'
      /\ \A e \in DOMAIN events' :
           /\ events'[e] \in Event
           /\ events'[e].type = "content_change" => events'[e].rank <= 2
      /\ \A e \in DOMAIN events :
           /\ events'[e].entity = events[e].entity /\ events'[e].type = events[e].type
           /\ events'[e].created = events[e].created /\ events'[e].rank >= events[e].rank
      /\ links \subseteq links'
      /\ \A l \in links' \ links :
           /\ l[1] \in DOMAIN events' /\ l \in Ids \X Signal
           /\ events'[l[1]].entity = l[2].entity
           /\ events'[l[1]].type = EventType(l[2].print)
           /\ events'[l[1]].rank >= Importance(l[2].print)
  BY <1>0, PersistEffect
<1>2. \A e \in DOMAIN events : events[e].rank \in Rank /\ events'[e].rank \in Rank
  BY <1>0, <1>1 DEF TableTypes, Event
<1>3. signals' \subseteq Signal
  <2>1. \A i \in DOMAIN plan : plan[i].print \in Prints
    <3>1. \A i \in DOMAIN plan : plan[i] \in Plan
      OBVIOUS
    <3> QED BY <3>1 DEF Plan
  <2> QED BY <1>0, <1>1, <2>1 DEF TableTypes, Signal, Numbers
<1>4. lastEvent' \in 0..MaxEvents
  BY <1>0, <1>1 DEF TableTypes
<1>5. links' \subseteq Ids \X Signal
  BY <1>0, <1>1 DEF TableTypes
<1>6. NoDangling'
  BY <1>1 DEF IInv, NoDangling
<1>7. EventFitsItsSignals'
  <2> SUFFICES ASSUME NEW l \in links', l[1] \in DOMAIN events'
               PROVE  /\ events'[l[1]].entity = l[2].entity
                      /\ events'[l[1]].type = EventType(l[2].print)
                      /\ events'[l[1]].rank >= Importance(l[2].print)
    BY DEF EventFitsItsSignals
  <2>1. CASE l \notin links
    BY <1>1, <2>1
  <2>2. CASE l \in links
    <3>1. /\ l[1] \in DOMAIN events /\ events[l[1]].entity = l[2].entity
          /\ events[l[1]].type = EventType(l[2].print)
          /\ events[l[1]].rank >= Importance(l[2].print)
      BY <2>2 DEF IInv, NoDangling, EventFitsItsSignals
    <3>2. Importance(l[2].print) \in Rank
      BY KindFacts
    <3> QED BY <1>1, <1>2, <3>1, <3>2 DEF Rank
  <2> QED BY <2>1, <2>2
<1>8. ASSUME NEW q, NEW x, Holds(q, x) PROVE Holds(q, x)'
  <2> SUFFICES ASSUME q.event # 0 PROVE Holds(q, x)'
    BY DEF Holds
  <2>1. q.event \in DOMAIN events /\ Importance(q.print) \in Rank
    BY <1>8, KindFacts DEF Holds
  <2>2. IF q.raises THEN Importance(q.print) >= 2 ELSE events'[q.event].rank >= Importance(q.print)
    BY <1>1, <1>2, <1>8, <2>1 DEF Holds, Rank
  <2> QED BY <1>1, <1>8, <2>1, <2>2 DEF Holds
<1> QED BY <1>1, <1>3, <1>4, <1>5, <1>6, <1>7, <1>8


(* Retention: rows go, and with an event all that refers to it; the events *)
(* in anyone's plan are too young for it.                                  *)
LEMMA DeletingKeepsInv ==
  ASSUME IInv, NEW S, S \cap results = {}, \A e \in S : events[e].created < now - MaxAge,
         DOMAIN events' = DOMAIN events \ S, \A e \in DOMAIN events' : events'[e] = events[e],
         links' \subseteq links, \A l \in links' : l[1] \notin S,
         notifs' \subseteq notifs, \A n \in notifs' : n.event \notin S,
         sweep' \in -1..MaxTime,
         UNCHANGED <<now, entity, baseline, signals, lastEvent, results, run, flow>>
  PROVE  IInv'
<1>0. TableTypes /\ WholeTypes /\ now \in Nat /\ Window \in Nat /\ MaxAge \in Nat /\ Window < MaxAge
  BY IInvTypes, LedgerAssumption DEF IInv, TableTypes
<1>1. TableTypes' /\ WholeTypes'
  BY <1>0 DEF TableTypes, WholeTypes
<1>2. InHand'
  BY DEF IInv, InHand
<1>3. PlansHold'
  <2> SUFFICES ASSUME NEW f \in Flows, flow[f].pc = "commit", flow[f].plan[1].event # 0
               PROVE  Holds(flow[f].plan[1], flow[f].entity)'
    BY DEF PlansHold, Holds
  <2>1. Holds(flow[f].plan[1], flow[f].entity)
    BY DEF IInv, PlansHold
  <2> DEFINE e == flow[f].plan[1].event
  <2>2. e \in DOMAIN events /\ events[e].created >= now - Window /\ events[e].created \in Nat
    BY <1>0, <2>1 DEF Holds, TableTypes, Event
  <2>3. e \notin S
    BY <1>0, <2>2
  <2> QED BY <2>1, <2>2, <2>3 DEF Holds
<1>4. NoDangling'
  BY DEF IInv, NoDangling
<1>5. EventFitsItsSignals'
  BY DEF IInv, EventFitsItsSignals
<1>6. BaselineNeedsEntity' /\ BaselineBacked'
  BY DEF IInv, BaselineNeedsEntity, BaselineBacked
<1> QED BY <1>1, <1>2, <1>3, <1>4, <1>5, <1>6, TypesFromPartsNext DEF IInv

-----------------------------------------------------------------------------
(* The actions of the scheduler runs. *)
LEMMA CorrelateKeepsInv ==
  ASSUME IInv, NEW w \in Workers, Correlate(w) PROVE IInv'
<1>1. PICK t \in Targets, batch \in Results : \E plan \in PlansOf(t, batch) :
        run' = [run EXCEPT ![w] = [pc |-> "planned", target |-> t, plan |-> plan]]
  BY DEF Correlate
<1>2. PICK plan \in PlansOf(t, batch) :
        run' = [run EXCEPT ![w] = [pc |-> "planned", target |-> t, plan |-> plan]]
  BY <1>1
<1>3. PICK n \in Nat : batch \in [1..n -> Prints]
  BY LedgerAssumption
<1>4. \A i \in 1..n : plan[i] \in Plan /\ plan[i].event = 0
  <2> SUFFICES ASSUME NEW i \in 1..n PROVE plan[i] \in Plan /\ plan[i].event = 0
    OBVIOUS
  <2>1. batch[i] \in Prints /\ plan[i] \in Plans(t, batch[i])
    BY <1>2, <1>3 DEF PlansOf
  <2> QED BY <2>1, PlansFacts
<1>5. plan \in [1..n -> Plan]
  <2>1. plan \in [1..n -> UNION {Plans(t, batch[i]) : i \in DOMAIN batch}]
    BY <1>2, <1>3 DEF PlansOf
  <2> QED BY <1>4, <2>1
<1> DEFINE r == [pc |-> "planned", target |-> t, plan |-> plan]
<1>6. plan \in Seq(Plan) /\ DOMAIN plan = 1..n
  BY <1>3, <1>5
<1>7. r \in RunType /\ r.pc = "planned" /\ r.target \in Targets /\ \A i \in DOMAIN r.plan : r.plan[i].event = 0
  BY <1>4, <1>6 DEF RunType
<1>8. run' = [run EXCEPT ![w] = r]
  BY <1>2
<1> HIDE DEF r
<1> QED BY <1>7, <1>8, RunMovesKeepInv DEF Correlate

LEMMA NoRunIsRun == NoRun \in RunType /\ NoRun.pc = "idle" /\ DOMAIN NoRun.plan = {}
BY DEF NoRun, RunType

LEMMA FinalizeKeepsInv ==
  ASSUME IInv, NEW w \in Workers, Finalize(w) PROVE IInv'
<1> DEFINE t == run[w].target
           plan == run[w].plan
           id == EntityOf(t)
<1>0. TableTypes /\ WholeTypes /\ now \in Nat
  BY IInvTypes, LedgerAssumption DEF IInv, TableTypes
<1>1. t \in Targets /\ plan \in Seq(Plan) /\ \A i \in DOMAIN plan : plan[i].event = 0
  BY <1>0 DEF Finalize, IInv, InHand, WholeTypes, RunType
<1>2. id \in Numbers /\ id # 0 /\ (entity[t] # 0 => id = entity[t])
  BY <1>1, EntityFacts
<1>3. /\ entity' = [entity EXCEPT ![t] = id]
      /\ baseline' = [baseline EXCEPT ![t] = NewBaseline(w)]
      /\ Persist(id, plan, now)
      /\ run' = [run EXCEPT ![w] = NoRun]
      /\ UNCHANGED <<now, notifs, results, flow, sweep>>
  BY DEF Finalize, Quit
<1>4. /\ NewBaseline(w) \subseteq Prints
      /\ (NewBaseline(w) = baseline[t] \/ NewBaseline(w) = {plan[i].print : i \in DOMAIN plan})
  <2>1. \A i \in DOMAIN plan : plan[i] \in Plan
    BY <1>1
  <2>2. \A i \in DOMAIN plan : plan[i].print \in Prints
    BY <2>1 DEF Plan
  <2> QED BY <1>0, <1>1, <2>2 DEF NewBaseline, TableTypes
<1> HIDE DEF id, plan
<1>5. /\ signals' \subseteq Signal
      /\ lastEvent' \in 0..MaxEvents
      /\ DOMAIN events' \subseteq 1..lastEvent' /\ \A e \in DOMAIN events' : events'[e] \in Event
      /\ links' \subseteq Ids \X Signal
      /\ \A e \in DOMAIN events' : events'[e].type = "content_change" => events'[e].rank <= 2
      /\ signals \subseteq signals' /\ \A i \in DOMAIN plan : [entity |-> id, print |-> plan[i].print] \in signals'
      /\ NoDangling' /\ EventFitsItsSignals'
      /\ \A q, x : Holds(q, x) => Holds(q, x)'
  BY <1>0, <1>1, <1>2, <1>3, PersistKeeps
<1>6. /\ entity' \in [Targets -> 0..Cardinality(Targets)] /\ baseline' \in [Targets -> SUBSET Prints]
      /\ entity'[t] = id /\ baseline'[t] = NewBaseline(w)
      /\ \A u \in Targets \ {t} : entity'[u] = entity[u] /\ baseline'[u] = baseline[u]
  BY <1>0, <1>1, <1>2, <1>3, <1>4 DEF TableTypes, Numbers
<1>7. TableTypes'
  BY <1>0, <1>3, <1>5, <1>6 DEF TableTypes
<1>8. WholeTypes'
  BY <1>0, <1>3, <1>5, NoRunIsRun DEF WholeTypes
<1>9. InHand'
  <2>1. \A v \in Workers : run'[v] = NoRun \/ run'[v] = run[v]
    BY <1>0, <1>3 DEF WholeTypes
  <2> QED BY <1>3, <2>1, NoRunIsRun DEF IInv, InHand
<1>10. PlansHold'
  BY <1>3, <1>5 DEF IInv, PlansHold
<1>11. BaselineNeedsEntity'
  BY <1>2, <1>6 DEF IInv, BaselineNeedsEntity
<1>12. BaselineBacked'
  <2> SUFFICES ASSUME NEW u \in Targets, NEW p \in baseline'[u]
               PROVE  [entity |-> entity'[u], print |-> p] \in signals'
    BY DEF BaselineBacked
  <2>1. CASE u # t
    BY <1>5, <1>6, <2>1 DEF IInv, BaselineBacked
  <2>2. CASE u = t /\ NewBaseline(w) = {plan[i].print : i \in DOMAIN plan}
    BY <1>5, <1>6, <2>2
  <2>3. CASE u = t /\ NewBaseline(w) = baseline[t]
    <3>1. p \in baseline[t] /\ entity[t] # 0
      BY <1>1, <1>6, <2>3 DEF IInv, BaselineNeedsEntity
    <3> QED BY <1>1, <1>2, <1>5, <1>6, <2>3, <3>1 DEF IInv, BaselineBacked
  <2> QED BY <1>4, <2>1, <2>2, <2>3
<1> QED BY <1>5, <1>7, <1>8, <1>9, <1>10, <1>11, <1>12, TypesFromPartsNext DEF IInv

LEMMA RollbackKeepsInv ==
  ASSUME IInv, NEW w \in Workers, Rollback(w) \/ Crash(w) PROVE IInv'
<1>1. run[w].target \in Targets
  BY DEF Rollback, Crash, IInv, InHand
<1> QED BY <1>1, NoRunIsRun, RunMovesKeepInv DEF Rollback, Crash, Quit

-----------------------------------------------------------------------------
(* The actions of the flows. *)
LEMMA NoFlowIsFlow == NoFlow \in FlowType /\ Fits(NoFlow)
<1>1. Cardinality(Targets) \in Nat /\ MaxEvents \in Nat
  BY FiniteAssumption, FS_CardinalityType, LedgerAssumption
<1> QED BY <1>1 DEF NoFlow, FlowType, Fits

(* After a signal: the next one, or none. *)
LEMMA AdvanceFits ==
  ASSUME IInv, NEW f \in Flows, flow[f].pc # "idle", Advance(f)
  PROVE  \E next \in FlowType : Step(f, next) /\ Fits(next)
<1>1. flow[f] \in FlowType /\ flow[f].entity # 0
  BY DEF IInv, WholeTypes, InHand
<1>2. CASE Len(flow[f].todo) <= 1
  BY <1>2, NoFlowIsFlow DEF Advance, Stop, Step
<1>3. CASE ~(Len(flow[f].todo) <= 1)
  <2> DEFINE next == [flow[f] EXCEPT !.pc = "correlate", !.todo = Tail(@), !.plan = <<>>]
  <2>1. flow[f].todo \in Seq(Prints)
    BY <1>1 DEF FlowType
  <2>2. Tail(flow[f].todo) \in Seq(Prints) /\ Tail(flow[f].todo) # <<>>
    BY <1>3, <2>1
  <2>3. next \in FlowType
    <3>1. \A s \in Seq(Prints), p \in Seq(Plan) :
            [flow[f] EXCEPT !.pc = "correlate", !.todo = s, !.plan = p] \in FlowType
      BY <1>1 DEF FlowType
    <3>2. <<>> \in Seq(Plan)
      OBVIOUS
    <3> QED BY <2>2, <3>1, <3>2
  <2>4. next.pc = "correlate" /\ next.todo = Tail(flow[f].todo) /\ next.entity = flow[f].entity
    BY <1>1 DEF FlowType
  <2>5. Step(f, next)
    BY <1>3 DEF Advance
  <2> HIDE DEF next
  <2> QED BY <1>1, <2>2, <2>3, <2>4, <2>5 DEF Fits
<1> QED BY <1>2, <1>3

(* A step of a flow that writes nothing. *)
LEMMA ReadingKeepsInv ==
  ASSUME IInv, NEW f \in Flows, NEW next \in FlowType, Fits(next), Step(f, next),
         UNCHANGED <<now, entity, baseline, rows, notifs, results, run, sweep>>
  PROVE  IInv'
<1>1. notifs \subseteq [event : Ids, created : Nat] /\ (\A n \in notifs : n.event \in DOMAIN events)
      /\ results \subseteq DOMAIN events
  BY DEF IInv, TypeOK, NoDangling
<1> QED BY <1>1, FlowMovesKeepInv

LEMMA BeginKeepsInv ==
  ASSUME IInv, NEW f \in Flows, Observe(f) \/ Receive(f) PROVE IInv'
<1>0. TableTypes /\ now \in Nat /\ MaxEvents \in Nat
  BY IInvTypes, LedgerAssumption DEF TableTypes
<1>1. PICK e \in {entity[t] : t \in Targets} \ {0}, kind \in {"observation", "signal"}, todo \in Seq(Prints) \ {<<>>} :
        Step(f, [NoFlow EXCEPT !.pc = "correlate", !.kind = kind, !.entity = e, !.at = now, !.todo = todo])
  <2>1. CASE Observe(f)
    <3>1. PICK e \in {entity[t] : t \in Targets} \ {0}, left \in Batches(MaxObserved) :
            left # <<>> /\ Step(f, [NoFlow EXCEPT !.pc = "correlate", !.entity = e, !.at = now, !.todo = left])
      BY <2>1 DEF Observe
    <3>2. left \in Seq(Prints)
      BY LedgerAssumption DEF Batches
    <3>3. [NoFlow EXCEPT !.pc = "correlate", !.entity = e, !.at = now, !.todo = left]
           = [NoFlow EXCEPT !.pc = "correlate", !.kind = "observation", !.entity = e, !.at = now, !.todo = left]
      <4>1. \A x \in FlowType : x.kind = "observation" =>
              [x EXCEPT !.pc = "correlate", !.entity = e, !.at = now, !.todo = left]
              = [x EXCEPT !.pc = "correlate", !.kind = "observation", !.entity = e, !.at = now, !.todo = left]
        BY DEF FlowType
      <4>2. NoFlow \in FlowType /\ NoFlow.kind = "observation"
        BY NoFlowIsFlow DEF NoFlow
      <4> QED BY <4>1, <4>2
    <3> QED BY <3>1, <3>2, <3>3
  <2>2. CASE Receive(f)
    <3>1. PICK e \in {entity[t] : t \in Targets} \ {0}, p \in Prints :
            Step(f, [NoFlow EXCEPT !.pc = "correlate", !.kind = "signal", !.entity = e, !.at = now, !.todo = <<p>>])
      BY <2>2 DEF Receive
    <3>2. <<p>> \in Seq(Prints) /\ <<p>> # <<>>
      OBVIOUS
    <3> QED BY <3>1, <3>2
  <2> QED BY <2>1, <2>2
<1> DEFINE next == [NoFlow EXCEPT !.pc = "correlate", !.kind = kind, !.entity = e, !.at = now, !.todo = todo]
<1>2. e \in 0..Cardinality(Targets) /\ e # 0
  BY <1>0 DEF TableTypes
<1>3. next \in FlowType /\ Fits(next)
  <2>1. \A x \in FlowType :
          LET n == [x EXCEPT !.pc = "correlate", !.kind = kind, !.entity = e, !.at = now, !.todo = todo]
          IN n \in FlowType /\ n.pc = "correlate" /\ n.entity = e /\ n.todo = todo
    BY <1>0, <1>2 DEF FlowType
  <2>2. next \in FlowType /\ next.pc = "correlate" /\ next.entity = e /\ next.todo = todo
    BY <2>1, NoFlowIsFlow
  <2> HIDE DEF next
  <2> QED BY <1>2, <2>2 DEF Fits
<1>4. Step(f, next)
  BY <1>1
<1> HIDE DEF next
<1> QED BY <1>3, <1>4, ReadingKeepsInv DEF Observe, Receive

LEMMA CorrelateFlowKeepsInv ==
  ASSUME IInv, NEW f \in Flows, CorrelateFlow(f) PROVE IInv'
<1>1. flow[f] \in FlowType /\ flow[f].entity # 0 /\ flow[f].todo # <<>> /\ flow[f].todo \in Seq(Prints)
  BY DEF CorrelateFlow, IInv, WholeTypes, InHand, FlowType
<1>2. PICK plan \in Plans(flow[f].entity, Head(flow[f].todo)) :
        Step(f, [flow[f] EXCEPT !.pc = "commit", !.plan = <<plan>>])
  BY DEF CorrelateFlow
<1>3. Head(flow[f].todo) \in Prints
  BY <1>1
<1>4. plan \in Plan /\ Holds(plan, flow[f].entity)
  BY <1>3, PlansFacts
<1> DEFINE next == [flow[f] EXCEPT !.pc = "commit", !.plan = <<plan>>]
<1>5. next \in FlowType /\ next.pc = "commit" /\ next.plan = <<plan>> /\ next.entity = flow[f].entity
  <2>1. \A p \in Seq(Plan) :
          LET n == [flow[f] EXCEPT !.pc = "commit", !.plan = p]
          IN n \in FlowType /\ n.pc = "commit" /\ n.plan = p /\ n.entity = flow[f].entity
    BY <1>1 DEF FlowType
  <2>2. <<plan>> \in Seq(Plan)
    BY <1>4
  <2> QED BY <2>1, <2>2
<1>6. Step(f, next)
  BY <1>2
<1> HIDE DEF next
<1>7. Fits(next)
  BY <1>1, <1>4, <1>5 DEF Fits
<1> QED BY <1>5, <1>6, <1>7, ReadingKeepsInv DEF CorrelateFlow

LEMMA CommitPlanKeepsInv ==
  ASSUME IInv, NEW f \in Flows, CommitPlan(f) PROVE IInv'
<1> DEFINE plan == flow[f].plan
           id == flow[f].entity
           next == [flow[f] EXCEPT !.pc = "pick"]
<1>0. TableTypes /\ WholeTypes /\ flow[f] \in FlowType
  BY IInvTypes DEF IInv, WholeTypes
<1>1. /\ plan \in Seq(Plan) /\ Len(plan) = 1 /\ flow[f].at \in Nat
      /\ id \in Numbers /\ id # 0 /\ Holds(plan[1], id)
  BY <1>0, IInvTypes DEF CommitPlan, IInv, InHand, PlansHold, FlowType, Numbers
<1>2. Persist(id, plan, flow[f].at) /\ Step(f, next) /\ UNCHANGED <<now, entity, baseline, notifs, results, run, sweep>>
  BY DEF CommitPlan
<1>3. next \in FlowType /\ next.pc = "pick" /\ next.entity = id /\ next.plan = plan
  BY <1>0 DEF FlowType
<1> HIDE DEF next, plan, id
<1>4. /\ signals' \subseteq Signal
      /\ lastEvent' \in 0..MaxEvents
      /\ DOMAIN events' \subseteq 1..lastEvent' /\ \A e \in DOMAIN events' : events'[e] \in Event
      /\ links' \subseteq Ids \X Signal
      /\ \A e \in DOMAIN events' : events'[e].type = "content_change" => events'[e].rank <= 2
      /\ signals \subseteq signals'
      /\ NoDangling' /\ EventFitsItsSignals'
      /\ \A q, x : Holds(q, x) => Holds(q, x)'
  BY <1>1, <1>2, PersistKeeps
<1>5. /\ flow'[f] = next /\ \A g \in Flows \ {f} : flow'[g] = flow[g]
      /\ flow' \in [Flows -> FlowType]
  BY <1>0, <1>2, <1>3 DEF WholeTypes, Step
<1>6. TableTypes' /\ WholeTypes'
  BY <1>0, <1>2, <1>4, <1>5 DEF TableTypes, WholeTypes
<1>7. InHand'
  <2>1. \A g \in Flows : /\ flow'[g].pc # "idle" => flow'[g].entity # 0
                         /\ flow'[g].pc = "correlate" => flow'[g].todo # <<>>
                         /\ flow'[g].pc \in {"commit", "pick"} => Len(flow'[g].plan) = 1
    BY <1>1, <1>3, <1>5 DEF IInv, InHand
  <2> QED BY <1>2, <2>1 DEF IInv, InHand
<1>8. PlansHold'
  <2>1. \A g \in Flows : flow'[g].pc = "commit" => Holds(flow'[g].plan[1], flow'[g].entity)
    BY <1>3, <1>5 DEF IInv, PlansHold
  <2> QED BY <1>4, <2>1 DEF PlansHold
<1>9. BaselineNeedsEntity' /\ BaselineBacked'
  BY <1>2, <1>4 DEF IInv, BaselineNeedsEntity, BaselineBacked
<1> QED BY <1>4, <1>6, <1>7, <1>8, <1>9, TypesFromPartsNext DEF IInv

LEMMA CommitFailsKeepsInv ==
  ASSUME IInv, NEW f \in Flows, CommitFails(f) PROVE IInv'
<1>1. PICK next \in FlowType : Step(f, next) /\ Fits(next)
  BY AdvanceFits DEF CommitFails
<1> QED BY <1>1, ReadingKeepsInv DEF CommitFails

(* The flow as a pick leaves it. *)
Picked(x, c, e, b) == [x EXCEPT !.pc = c, !.event = e, !.plan = <<>>, !.eligible = b]

LEMMA PickedFlow ==
  ASSUME NEW x \in FlowType, NEW c \in {"investigate", "notify"}, NEW e \in 0..MaxEvents, NEW b \in BOOLEAN
  PROVE  Picked(x, c, e, b) \in FlowType /\ Picked(x, c, e, b).pc = c /\ Picked(x, c, e, b).entity = x.entity
<1>1. <<>> \in Seq(Plan)
  OBVIOUS
<1>2. \A p \in Seq(Plan) :
        /\ [x EXCEPT !.pc = c, !.event = e, !.plan = p, !.eligible = b] \in FlowType
        /\ [x EXCEPT !.pc = c, !.event = e, !.plan = p, !.eligible = b].pc = c
        /\ [x EXCEPT !.pc = c, !.event = e, !.plan = p, !.eligible = b].entity = x.entity
  BY DEF FlowType
<1> QED BY <1>1, <1>2 DEF Picked

LEMMA PickKeepsInv ==
  ASSUME IInv, NEW f \in Flows, Pick(f) PROVE IInv'
<1> DEFINE plan == flow[f].plan[1]
           E == IF plan.event # 0 THEN Found({plan.event} \cap DOMAIN events)
                ELSE LET open == OpenEvents(flow[f].entity, EventType(plan.print), 0)
                     IN IF open = {} THEN {flow[f].event} ELSE open
           next(e) == [flow[f] EXCEPT
                         !.pc = IF flow[f].kind = "observation" THEN "investigate" ELSE "notify",
                         !.event = e, !.plan = <<>>,
                         !.eligible = IF e \in DOMAIN events THEN Eligible(e) ELSE @]
<1>0. TableTypes /\ flow[f] \in FlowType /\ flow[f].entity # 0 /\ MaxEvents \in Nat
  BY IInvTypes, LedgerAssumption DEF Pick, IInv, WholeTypes, InHand
<1>1. PICK e \in E : IF e = 0 THEN Advance(f) ELSE Step(f, next(e))
  BY DEF Pick
<1>2. CASE e = 0
  <2>1. PICK n \in FlowType : Step(f, n) /\ Fits(n)
    BY <1>1, <1>2, AdvanceFits DEF Pick
  <2> QED BY <2>1, ReadingKeepsInv DEF Pick
<1>3. CASE e # 0
  <2>1. e \in DOMAIN events \/ e = flow[f].event
    BY <1>3 DEF Found, OpenEvents
  <2>2. e \in 0..MaxEvents
    BY <1>0, <2>1 DEF TableTypes, FlowType
  <2>3. (IF e \in DOMAIN events THEN Eligible(e) ELSE flow[f].eligible) \in BOOLEAN
    <3>1. flow[f].eligible \in BOOLEAN
      BY <1>0 DEF FlowType
    <3>2. (events[e].rank >= 2) \in BOOLEAN
      OBVIOUS
    <3> QED BY <3>1, <3>2 DEF Eligible
  <2>4. next(e) \in FlowType /\ next(e).pc \in {"investigate", "notify"} /\ next(e).entity = flow[f].entity
    <3> DEFINE c == IF flow[f].kind = "observation" THEN "investigate" ELSE "notify"
               b == IF e \in DOMAIN events THEN Eligible(e) ELSE flow[f].eligible
    <3>1. c \in {"investigate", "notify"} /\ b \in BOOLEAN
      BY <2>3
    <3>2. next(e) = Picked(flow[f], c, e, b)
      BY DEF Picked
    <3> HIDE DEF c, b, next
    <3> QED BY <1>0, <2>2, <3>1, <3>2, PickedFlow
  <2>5. Step(f, next(e))
    BY <1>1, <1>3
  <2> HIDE DEF next
  <2>6. Fits(next(e))
    BY <1>0, <2>4 DEF Fits
  <2> QED BY <2>4, <2>5, <2>6, ReadingKeepsInv DEF Pick
<1> QED BY <1>2, <1>3

LEMMA InvestigateKeepsInv ==
  ASSUME IInv, NEW f \in Flows, Investigate(f) PROVE IInv'
<1> DEFINE next == [flow[f] EXCEPT !.pc = "notify"]
<1>0. flow[f] \in FlowType /\ flow[f].entity # 0
  BY DEF Investigate, IInv, WholeTypes, InHand
<1>1. next \in FlowType /\ Fits(next)
  BY <1>0 DEF FlowType, Fits
<1>2. notifs \subseteq [event : Ids, created : Nat] /\ (\A n \in notifs : n.event \in DOMAIN events)
      /\ results \subseteq DOMAIN events
  BY DEF IInv, TypeOK, NoDangling
<1>3. \/ Step(f, next) /\ results' \subseteq DOMAIN events
      \/ Step(f, NoFlow) /\ results' \subseteq DOMAIN events
  BY <1>2 DEF Investigate, Stop, Step
<1>4. UNCHANGED <<now, entity, baseline, rows, notifs, run, sweep>>
  BY DEF Investigate
<1> HIDE DEF next
<1> QED BY <1>1, <1>2, <1>3, <1>4, NoFlowIsFlow, FlowMovesKeepInv

LEMMA NotifyKeepsInv ==
  ASSUME IInv, NEW f \in Flows, Notify(f) PROVE IInv'
<1>1. PICK next \in FlowType : Step(f, next) /\ Fits(next)
  BY AdvanceFits, NoFlowIsFlow DEF Notify, Stop, Step
<1>2. TableTypes /\ now \in Nat /\ DOMAIN events \subseteq Ids
  BY IInvTypes, LedgerAssumption DEF TableTypes, Ids
<1>3. \A n \in notifs' :
        n \in notifs \/ (n = [event |-> flow[f].event, created |-> now] /\ flow[f].event \in DOMAIN events)
  BY DEF Notify
<1>4. notifs' \subseteq [event : Ids, created : Nat] /\ \A n \in notifs' : n.event \in DOMAIN events
  BY <1>2, <1>3 DEF TableTypes, IInv, NoDangling
<1>5. results' \subseteq DOMAIN events
  BY DEF Notify, IInv, NoDangling
<1> QED BY <1>1, <1>4, <1>5, FlowMovesKeepInv DEF Notify

LEMMA CrashFlowKeepsInv ==
  ASSUME IInv, NEW f \in Flows, CrashFlow(f) PROVE IInv'
BY NoFlowIsFlow, ReadingKeepsInv DEF CrashFlow, Stop, Step

-----------------------------------------------------------------------------
(* Retention and the clock. *)
LEMMA SweepKeepsInv ==
  ASSUME IInv, SweepEvents \/ SweepSelected PROVE IInv'
<1>0. TableTypes /\ now \in 0..MaxTime /\ MaxAge \in Nat /\ MaxTime \in Nat
  BY IInvTypes, LedgerAssumption DEF TableTypes
<1>1. now >= MaxAge
  BY DEF SweepEvents, SweepSelected
<1>2. PICK S \in SUBSET Old(now - MaxAge) :
        /\ S \cap results = {} /\ events' = Without(S)
        /\ links' \subseteq links /\ \A l \in links' : l[1] \notin S
        /\ notifs' \subseteq notifs /\ \A n \in notifs' : n.event \notin S
        /\ sweep' \in {sweep, now - MaxAge}
        /\ UNCHANGED <<now, entity, baseline, signals, lastEvent, results, run, flow>>
  <2>1. CASE SweepEvents
    BY <2>1 DEF SweepEvents, Delete
  <2>2. CASE SweepSelected
    <3>1. PICK types \in SUBSET Types \ {{}} :
            LET S == {e \in Old(now - MaxAge) : events[e].type \in types} IN
            /\ S \cap results = {}
            /\ events' = Without(S)
            /\ links' = {l \in links : l[1] \notin S}
            /\ notifs' = {n \in notifs : n.event \notin S /\ n.created >= now - MaxAge}
      BY <2>2 DEF SweepSelected
    <3>2. {e \in Old(now - MaxAge) : events[e].type \in types} \in SUBSET Old(now - MaxAge)
      OBVIOUS
    <3> QED BY <2>2, <3>1, <3>2 DEF SweepSelected
  <2> QED BY <2>1, <2>2
<1>3. DOMAIN events' = DOMAIN events \ S /\ \A e \in DOMAIN events' : events'[e] = events[e]
  BY <1>2 DEF Without
<1>4. \A e \in S : events[e].created < now - MaxAge
  BY <1>2 DEF Old
<1>5. sweep' \in -1..MaxTime
  BY <1>0, <1>1, <1>2 DEF TableTypes
<1> QED BY <1>2, <1>3, <1>4, <1>5, DeletingKeepsInv

LEMMA SweepNotificationsKeepsInv ==
  ASSUME IInv, SweepNotifications PROVE IInv'
<1>1. sweep' \in -1..MaxTime
  BY LedgerAssumption DEF SweepNotifications
<1>2. notifs' \subseteq notifs /\ UNCHANGED <<now, entity, baseline, rows, results, run, flow>>
  BY DEF SweepNotifications
<1> DEFINE S == {}
<1>3. /\ S \cap results = {} /\ (\A e \in S : events[e].created < now - MaxAge)
      /\ DOMAIN events' = DOMAIN events \ S /\ (\A e \in DOMAIN events' : events'[e] = events[e])
      /\ links' \subseteq links /\ (\A l \in links' : l[1] \notin S) /\ (\A n \in notifs' : n.event \notin S)
      /\ UNCHANGED <<now, entity, baseline, signals, lastEvent, results, run, flow>>
  BY <1>2 DEF rows
<1> HIDE DEF S
<1> QED BY <1>1, <1>2, <1>3, DeletingKeepsInv

LEMMA TickKeepsInv ==
  ASSUME IInv, Tick PROVE IInv'
<1>0. TableTypes /\ WholeTypes /\ now \in 0..MaxTime /\ MaxTime \in Nat
  BY IInvTypes, LedgerAssumption DEF IInv, TableTypes
<1>1. now' \in 0..MaxTime /\ UNCHANGED <<entity, baseline, rows, notifs, results, run, flow, sweep>>
  BY <1>0 DEF Tick
<1>2. TableTypes' /\ WholeTypes'
  BY <1>0, <1>1 DEF TableTypes, WholeTypes, rows
<1>3. InHand'
  BY <1>1 DEF IInv, InHand
<1>4. PlansHold'
  BY <1>1 DEF Tick, PlansHold
<1>5. NoDangling' /\ EventFitsItsSignals' /\ BaselineNeedsEntity' /\ BaselineBacked'
  BY <1>1 DEF IInv, NoDangling, EventFitsItsSignals, BaselineNeedsEntity, BaselineBacked, rows
<1> QED BY <1>2, <1>3, <1>4, <1>5, TypesFromPartsNext DEF IInv

-----------------------------------------------------------------------------
LEMMA IInvInit == Init => IInv
<1> SUFFICES ASSUME Init PROVE IInv
  OBVIOUS
<1>1. DOMAIN events = {}
  BY DEF Init
<1>2. Cardinality(Targets) \in Nat
  BY FiniteAssumption, FS_CardinalityType
<1>3. TableTypes
  BY <1>1, <1>2, LedgerAssumption DEF Init, TableTypes
<1>4. WholeTypes
  BY <1>1, NoRunIsRun, NoFlowIsFlow DEF Init, WholeTypes
<1>5. InHand /\ PlansHold
  <2>1. (\A w \in Workers : run[w] = NoRun) /\ (\A f \in Flows : flow[f] = NoFlow)
    BY DEF Init
  <2>2. NoFlow.pc = "idle"
    BY DEF NoFlow
  <2> QED BY <2>1, <2>2, NoRunIsRun DEF InHand, PlansHold
<1>6. NoDangling /\ EventFitsItsSignals /\ BaselineNeedsEntity /\ BaselineBacked
  BY DEF Init, NoDangling, EventFitsItsSignals, BaselineNeedsEntity, BaselineBacked
<1> QED BY <1>3, <1>4, <1>5, <1>6, TypesFromParts DEF IInv

LEMMA IInvStep == IInv /\ [Next]_vars => IInv'
<1> SUFFICES ASSUME IInv, [Next]_vars PROVE IInv'
  OBVIOUS
<1>1. ASSUME NEW w \in Workers, RunStep(w) PROVE IInv'
  BY <1>1, CorrelateKeepsInv, FinalizeKeepsInv, RollbackKeepsInv DEF RunStep
<1>2. ASSUME NEW f \in Flows, FlowStep(f) PROVE IInv'
  BY <1>2, BeginKeepsInv, CorrelateFlowKeepsInv, CommitPlanKeepsInv, CommitFailsKeepsInv, PickKeepsInv,
     InvestigateKeepsInv, NotifyKeepsInv, CrashFlowKeepsInv DEF FlowStep
<1>3. CASE SweepEvents \/ SweepNotifications \/ SweepSelected \/ Tick
  BY <1>3, SweepKeepsInv, SweepNotificationsKeepsInv, TickKeepsInv
<1>4. CASE UNCHANGED vars
  <2>1. TypeOK' /\ WholeTypes' /\ InHand'
    BY <1>4, TypesFromPartsNext, IInvTypes DEF vars, rows, IInv, TableTypes, WholeTypes, InHand
  <2>2. PlansHold'
    BY <1>4 DEF vars, rows, IInv, PlansHold, Holds
  <2>3. NoDangling' /\ EventFitsItsSignals' /\ BaselineNeedsEntity' /\ BaselineBacked'
    BY <1>4 DEF vars, rows, IInv, NoDangling, EventFitsItsSignals, BaselineNeedsEntity, BaselineBacked
  <2> QED BY <2>1, <2>2, <2>3 DEF IInv
<1> QED BY <1>1, <1>2, <1>3, <1>4 DEF Next

(* The tables, the runs and the flows are what their columns and their     *)
(* programs make them, and what was correlated holds until it is           *)
(* committed: the inductive invariant.                                     *)
THEOREM LedgerInvariant == Spec => []IInv
BY IInvInit, IInvStep, PTL DEF Spec

(* Every variable keeps its type: the ids that AUTOINCREMENT gives, the    *)
(* rows of the five tables, what runs and flows have in their hands.       *)
THEOREM TypeCorrect == Spec => []TypeOK
<1>1. IInv => TypeOK
  BY DEF IInv
<1> QED BY <1>1, LedgerInvariant, PTL

(* No notification, link or investigation result refers to an event that   *)
(* retention has deleted, whichever flow had that event in its hands.      *)
THEOREM NothingDangles == Spec => []NoDangling
<1>1. IInv => NoDangling
  BY DEF IInv
<1> QED BY <1>1, LedgerInvariant, PTL

(* A linked signal is of its event's entity and type, and no more          *)
(* important than the event: for the results of runs and for the merges of *)
(* flows, however they interleave with each other and with retention.      *)
THEOREM EventsFit == Spec => []EventFitsItsSignals
<1>1. IInv => EventFitsItsSignals
  BY DEF IInv
<1> QED BY <1>1, LedgerInvariant, PTL

(* The stored baseline of a target never runs ahead of the ledger: every   *)
(* signal of the result that set it is in the table, under the number of   *)
(* the target's entity.                                                    *)
THEOREM BaselinesAreBacked == Spec => []BaselineBacked
<1>1. IInv => BaselineBacked
  BY DEF IInv
<1> QED BY <1>1, LedgerInvariant, PTL

-----------------------------------------------------------------------------
Linked == \A s \in signals' \ signals : \E e \in DOMAIN events' : <<e, s>> \in links'

LEMMA CommitsLink ==
  ASSUME IInv, NEW id \in Numbers, NEW plan \in Seq(Plan), NEW at \in Nat, Persist(id, plan, at),
         \A i \in DOMAIN plan : plan[i].event # 0 => Len(plan) = 1 /\ Holds(plan[1], id)
  PROVE  Linked
<1>1. TypeOK /\ \A e \in DOMAIN events : events[e].type = "content_change" => events[e].rank <= 2
  BY DEF IInv, WholeTypes
<1> QED BY <1>1, PersistEffect DEF Linked

LEMMA StepsLink == IInv /\ [Next]_vars => [Linked]_vars
<1> SUFFICES ASSUME IInv, Next PROVE Linked
  OBVIOUS
<1>0. TableTypes /\ WholeTypes
  BY IInvTypes DEF IInv
<1>1. ASSUME NEW w \in Workers, Finalize(w) PROVE Linked
  <2>1. run[w].target \in Targets /\ run[w].plan \in Seq(Plan)
        /\ \A i \in DOMAIN run[w].plan : run[w].plan[i].event = 0
    BY <1>0, <1>1 DEF Finalize, IInv, InHand, WholeTypes, RunType
  <2>2. EntityOf(run[w].target) \in Numbers /\ now \in Nat
    BY <1>0, <2>1, EntityFacts, LedgerAssumption DEF TableTypes
  <2> QED BY <1>1, <2>1, <2>2, CommitsLink DEF Finalize
<1>2. ASSUME NEW f \in Flows, CommitPlan(f) PROVE Linked
  <2>1. /\ flow[f].plan \in Seq(Plan) /\ Len(flow[f].plan) = 1 /\ flow[f].at \in Nat
        /\ flow[f].entity \in Numbers /\ Holds(flow[f].plan[1], flow[f].entity)
    BY <1>0, <1>2, IInvTypes DEF CommitPlan, IInv, InHand, PlansHold, WholeTypes, FlowType, Numbers
  <2> QED BY <1>2, <2>1, CommitsLink DEF CommitPlan
<1>3. CASE signals' = signals
  BY <1>3 DEF Linked
<1>4. \/ \E w \in Workers : Finalize(w)
      \/ \E f \in Flows : CommitPlan(f)
      \/ signals' = signals
  <2>1. ASSUME NEW w \in Workers, RunStep(w) PROVE Finalize(w) \/ signals' = signals
    BY <2>1 DEF RunStep, Correlate, Rollback, Crash, rows
  <2>2. ASSUME NEW f \in Flows, FlowStep(f) PROVE CommitPlan(f) \/ signals' = signals
    BY <2>2 DEF FlowStep, Observe, Receive, CorrelateFlow, CommitFails, Pick, Investigate, Notify, CrashFlow, rows
  <2>3. SweepEvents \/ SweepNotifications \/ SweepSelected \/ Tick => signals' = signals
    BY DEF SweepEvents, SweepNotifications, SweepSelected, Tick, rows
  <2> QED BY <2>1, <2>2, <2>3 DEF Next
<1> QED BY <1>1, <1>2, <1>3, <1>4

(* A signal enters the ledger together with a link to an event that is     *)
(* there: a merged event cannot have gone between the correlation and the  *)
(* commit, and no new event loses its number to a duplicate.               *)
THEOREM EveryStoredSignalIsLinked == Spec => StoredIsLinked
<1>1. IInv /\ [Next]_vars => [\A s \in signals' \ signals : \E e \in DOMAIN events' : <<e, s>> \in links']_vars
  BY StepsLink DEF Linked
<1> QED BY <1>1, LedgerInvariant, PTL DEF Spec, StoredIsLinked
=============================================================================
