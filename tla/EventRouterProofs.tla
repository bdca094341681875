------------------------- MODULE EventRouterProofs -------------------------
(***************************************************************************)
(* Proofs about EventRouter, for every number of publishers, actions,      *)
(* slots, queue places and stops.                                          *)
(*                                                                         *)
(* That the table is exact and that cancels are honoured depends on two    *)
(* things the code leaves to its callers: ids that differ, and a table     *)
(* with room.  Both are hypotheses of the theorems that need them.         *)
(***************************************************************************)
EXTENDS EventRouter, SlotLemmas, FiniteSetTheorems, TLAPS

\* The events that have an entry in the table while they wait
Tracked == {e \in Events : EventId[e] # NoEventId}

\* No two events have the same id.
IdsDiffer ==
  \A e, f \in Tracked : EventId[e] = EventId[f] => e = f

\* The table has a slot for each event that has an id.
TableHasRoom == IsFiniteSet(Tracked) /\ Cardinality(Tracked) <= TableSize

\* An action that publishes is inside the rules, and no other is.
EmittingInv ==
  \A e \in RuleEvents : fate[e] \in {"sending", "expired"} =>
    /\ rpc = "emitting"
    /\ \A f \in RuleEvents : fate[f] \in {"sending", "expired"} => f = e

\* The queue holds the queued events, each once.
QueueInv ==
  /\ \A n \in 1 .. Len(queue) : fate[queue[n]] = "queued"
  /\ \A m, n \in 1 .. Len(queue) : queue[m] = queue[n] => m = n

\* The event the router works on, and where it is with it.
EventInv ==
  /\ rpc \in {"none", "idle", "leaving"} <=> event = NoEvent
  /\ rpc = "taken" => fate[event] = "taken"
  /\ rpc \in {"rules", "emitting", "asking", "agent"} => fate[event] = "processed"
  /\ \A e \in Events : fate[e] = "taken" => rpc = "taken" /\ event = e

\* The inductive invariant that needs no hypothesis.
IInv ==
  /\ TypeOK
  /\ OneRouterTask
  /\ EmittingInv
  /\ QueueInv
  /\ EventInv

\* An event has one slot at most.
SlotsDiffer ==
  \A i, j \in Slots : Used(i) /\ slots[i].event = slots[j].event => i = j

\* A cancelled event that still waits has its flag in the table.
ArmedInv ==
  \A e \in armed :
    /\ fate[e] \notin {"new", "processed"}
    /\ Waiting(e) => \E i \in Slots : slots[i].event = e /\ slots[i].cancelled

\* The inductive invariant of the table, for ids that differ and a table with room.
TableInv ==
  /\ IInv
  /\ TableIsExact
  /\ SlotsDiffer
  /\ ArmedInv

-----------------------------------------------------------------------------
(* Facts about the data.                                                   *)

\* Entering or removing an event leaves a table.
LEMMA TableType ==
  ASSUME TypeOK, NEW e \in Events
  PROVE  /\ Track(e) => slots' \in [Slots -> [event : Events \cup {NoEvent}, cancelled : BOOLEAN]]
         /\ Untrack(e) => slots' \in [Slots -> [event : Events \cup {NoEvent}, cancelled : BOOLEAN]]
<1> USE DEF TypeOK, EmptySlot
<1>1. ASSUME NEW s \in [Slots -> [event : Events \cup {NoEvent}, cancelled : BOOLEAN]], NEW i
      PROVE  [s EXCEPT ![i] = [event |-> e, cancelled |-> FALSE]]
               \in [Slots -> [event : Events \cup {NoEvent}, cancelled : BOOLEAN]]
  OBVIOUS
<1>2. Track(e) => slots' \in [Slots -> [event : Events \cup {NoEvent}, cancelled : BOOLEAN]]
  BY <1>1 DEF Track
<1>3. Untrack(e) => slots' \in [Slots -> [event : Events \cup {NoEvent}, cancelled : BOOLEAN]]
  BY DEF Untrack
<1> QED
  BY <1>2, <1>3

\* Cancelling leaves a table, and confirms cancels of events.
LEMMA ArmType ==
  ASSUME TypeOK, NEW chosen \in SUBSET {i \in Slots : Used(i)}, Arm(chosen)
  PROVE  /\ slots' \in [Slots -> [event : Events \cup {NoEvent}, cancelled : BOOLEAN]]
         /\ armed' \subseteq Events
BY DEF TypeOK, Arm, Used

\* The router as claw_event_router_init leaves it satisfies the invariant.
LEMMA InitIInv == Init => IInv
<1> SUFFICES ASSUME Init PROVE IInv
  OBVIOUS
<1> USE EventRouterAssumption DEF EventRouterAssumption, Init
<1>1. TypeOK
  <2>1. started \in BOOLEAN /\ handle \in BOOLEAN /\ stopRequested \in BOOLEAN
    BY Zenon
  <2> QED
    BY <2>1 DEF TypeOK, EmptySlot
<1>2. OneRouterTask /\ EmittingInv /\ QueueInv /\ EventInv
  BY DEF OneRouterTask, EmittingInv, QueueInv, EventInv, Events
<1> QED
  BY <1>1, <1>2 DEF IInv

-----------------------------------------------------------------------------
(* Every step keeps the invariant.                                         *)

\* The tasks that publish: an event is tracked, and sent or given up.
PublishStep(e) == Publish(e) \/ Emit(e) \/ Send(e) \/ SendExpires(e) \/ GiveUp(e)

\* The tasks that cancel
CancelStep ==
  \/ \E e \in Events : CancelEvent(EventId[e])
  \/ \E kinds \in {{Kind[e]} : e \in Events} \cup {{Kind[e] : e \in Events}} : PurgeQueue(kinds)

\* A cancelling step arms slots that are in use, and nothing else changes.
LEMMA CancelArms ==
  ASSUME CancelStep
  PROVE  /\ \E chosen \in SUBSET {i \in Slots : Used(i)} : Arm(chosen)
         /\ UNCHANGED <<queue, rpc, event, taskVars, ctlVars, fate>>
<1>1. ASSUME NEW e \in Events, CancelEvent(EventId[e])
      PROVE  SlotsOf(EventId[e]) \in SUBSET {i \in Slots : Used(i)} /\ Arm(SlotsOf(EventId[e]))
  BY <1>1 DEF CancelEvent, SlotsOf
<1>2. ASSUME NEW kinds, PurgeQueue(kinds)
      PROVE  \E chosen \in SUBSET {i \in Slots : Used(i)} : Arm(chosen)
  <2> DEFINE chosen == {i \in Slots : Used(i) /\ Kind[slots[i].event] \in kinds}
  <2>1. chosen \in SUBSET {i \in Slots : Used(i)} /\ Arm(chosen)
    BY <1>2 DEF PurgeQueue
  <2> QED
    BY <2>1
<1>3. \E chosen \in SUBSET {i \in Slots : Used(i)} : Arm(chosen)
  BY <1>1, <1>2 DEF CancelStep
<1>4. UNCHANGED <<queue, rpc, event, taskVars, ctlVars, fate>>
  BY DEF CancelStep, CancelEvent, PurgeQueue
<1> QED
  BY <1>3, <1>4

\* Every step of a publisher keeps the types.
LEMMA PublishType ==
  ASSUME TypeOK, NEW e \in Events, PublishStep(e)
  PROVE  TypeOK'
<1> USE EventRouterAssumption DEF EventRouterAssumption, TypeOK, taskVars, ctlVars, ResumeRules
<1>1. CASE Publish(e)
  BY <1>1, TableType DEF Publish
<1>2. CASE Emit(e)
  BY <1>2, TableType DEF Emit
<1>3. CASE Send(e)
  BY <1>3 DEF Send
<1>4. CASE SendExpires(e)
  BY <1>4 DEF SendExpires
<1>5. CASE GiveUp(e)
  BY <1>5, TableType DEF GiveUp
<1> QED
  BY <1>1, <1>2, <1>3, <1>4, <1>5 DEF PublishStep

\* Every step of the router task keeps the types.
LEMMA RouterType ==
  ASSUME TypeOK, EventInv, RouterStep
  PROVE  TypeOK'
<1> USE EventRouterAssumption DEF EventRouterAssumption, TypeOK, taskVars, ctlVars
<1>0. rpc \notin {"none", "idle", "leaving"} => event \in Events
  BY DEF EventInv
<1>1. CASE TakeEvent
  BY <1>1 DEF TakeEvent
<1>2. CASE SkipCancelled
  BY <1>0, <1>2, TableType DEF SkipCancelled
<1>3. CASE BeginProcessing
  BY <1>0, <1>3, TableType DEF BeginProcessing
<1>4. CASE FinishEvent
  BY <1>4 DEF FinishEvent
<1>5. CASE AskAgent
  BY <1>5 DEF AskAgent
<1>6. CASE AgentAsked
  BY <1>6 DEF AgentAsked
<1>7. CASE LeaveLoop
  BY <1>7 DEF LeaveLoop
<1>8. CASE EndTask
  BY <1>8 DEF EndTask
<1> QED
  BY <1>1, <1>2, <1>3, <1>4, <1>5, <1>6, <1>7, <1>8 DEF RouterStep

\* Every step keeps the types.
LEMMA TypeStep == TypeOK /\ EventInv /\ [Next]_vars => TypeOK'
<1> SUFFICES ASSUME TypeOK, EventInv, [Next]_vars PROVE TypeOK'
  OBVIOUS
<1> USE EventRouterAssumption DEF EventRouterAssumption, taskVars, ctlVars
<1>1. ASSUME NEW e \in Events, PublishStep(e) PROVE TypeOK'
  BY <1>1, PublishType
<1>2. CASE CancelStep
  BY <1>2, CancelArms, ArmType DEF TypeOK
<1>3. CASE RouterStep
  BY <1>3, RouterType
<1>4. CASE Start
  BY <1>4 DEF Start, TypeOK
<1>5. CASE Stop
  BY <1>5 DEF Stop, TypeOK
<1>6. CASE StopReturns
  BY <1>6 DEF StopReturns, TypeOK
<1>7. CASE UNCHANGED vars
  BY <1>7 DEF vars, TypeOK
<1> QED
  BY <1>1, <1>2, <1>3, <1>4, <1>5, <1>6, <1>7 DEF Next, PublishStep, CancelStep

\* There is a router task only while started is set.
LEMMA OneTaskStep == IInv /\ [Next]_vars => OneRouterTask'
<1> SUFFICES ASSUME IInv, [Next]_vars PROVE OneRouterTask'
  OBVIOUS
<1> USE DEF OneRouterTask, taskVars, ctlVars
<1>0. OneRouterTask /\ EmittingInv
  BY DEF IInv
<1>1. ASSUME NEW e \in Events, PublishStep(e) PROVE OneRouterTask'
  <2>1. e \in RuleEvents /\ fate[e] \in {"sending", "expired"} => rpc = "emitting"
    BY <1>0 DEF EmittingInv
  <2> QED
    BY <1>0, <1>1, <2>1 DEF PublishStep, Publish, Emit, Send, SendExpires, GiveUp, ResumeRules
<1>2. CASE CancelStep
  BY <1>0, <1>2, CancelArms
<1>3. CASE RouterStep
  BY <1>0, <1>3 DEF RouterStep, TakeEvent, SkipCancelled, BeginProcessing, FinishEvent,
       AskAgent, AgentAsked, LeaveLoop, EndTask
<1>4. CASE Start
  BY <1>4 DEF Start
<1>5. CASE Stop \/ StopReturns \/ UNCHANGED vars
  BY <1>0, <1>5 DEF Stop, StopReturns, vars
<1> QED
  BY <1>1, <1>2, <1>3, <1>4, <1>5 DEF Next, PublishStep, CancelStep

\* One action publishes at a time, and the rules wait for it.
LEMMA EmittingStep == IInv /\ [Next]_vars => EmittingInv'
<1> SUFFICES ASSUME IInv, [Next]_vars PROVE EmittingInv'
  OBVIOUS
<1> USE DEF EmittingInv, taskVars, ctlVars
<1>0. TypeOK /\ EmittingInv /\ OneRouterTask
  BY DEF IInv
<1> USE DEF TypeOK
<1>1. ASSUME NEW e \in Events, PublishStep(e) PROVE EmittingInv'
  <2>1. e \in RuleEvents <=> e \notin TaskEvents
    BY EventRouterAssumption DEF EventRouterAssumption, Events
  <2>2. CASE Publish(e)
    BY <1>0, <2>1, <2>2, EventRouterAssumption DEF EventRouterAssumption, Publish
  <2>3. CASE Emit(e)
    BY <1>0, <2>3 DEF Emit
  <2>4. CASE Send(e)
    BY <1>0, <2>1, <2>4 DEF Send, ResumeRules
  <2>5. CASE SendExpires(e)
    BY <1>0, <2>1, <2>5 DEF SendExpires
  <2>6. CASE GiveUp(e)
    BY <1>0, <2>1, <2>6 DEF GiveUp, ResumeRules
  <2> QED
    BY <1>1, <2>2, <2>3, <2>4, <2>5, <2>6 DEF PublishStep
<1>2. CASE CancelStep
  BY <1>0, <1>2, CancelArms
<1>3. CASE RouterStep
  <2>1. CASE TakeEvent
    BY <1>0, <2>1 DEF TakeEvent
  <2>2. CASE SkipCancelled
    BY <1>0, <2>2 DEF SkipCancelled
  <2>3. CASE BeginProcessing
    BY <1>0, <2>3 DEF BeginProcessing
  <2>4. CASE FinishEvent \/ AskAgent \/ AgentAsked \/ LeaveLoop \/ EndTask
    BY <1>0, <2>4 DEF FinishEvent, AskAgent, AgentAsked, LeaveLoop, EndTask
  <2> QED
    BY <1>3, <2>1, <2>2, <2>3, <2>4 DEF RouterStep
<1>4. CASE Start
  BY <1>0, <1>4 DEF Start, OneRouterTask
<1>5. CASE Stop \/ StopReturns \/ UNCHANGED vars
  BY <1>0, <1>5 DEF Stop, StopReturns, vars
<1> QED
  BY <1>1, <1>2, <1>3, <1>4, <1>5 DEF Next, PublishStep, CancelStep

\* The queue holds the queued events, each once.
LEMMA QueueStep == IInv /\ [Next]_vars => QueueInv'
<1> SUFFICES ASSUME IInv, [Next]_vars PROVE QueueInv'
  OBVIOUS
<1> USE DEF QueueInv, taskVars, ctlVars
<1>0. TypeOK /\ QueueInv /\ EventInv
  BY DEF IInv
<1> USE DEF TypeOK
<1>1. ASSUME NEW e \in Events, PublishStep(e) PROVE QueueInv'
  <2>1. CASE Publish(e) \/ Emit(e) \/ SendExpires(e) \/ GiveUp(e)
    <3>1. queue' = queue /\ fate[e] # "queued" /\ \E to : fate' = [fate EXCEPT ![e] = to]
      BY <2>1 DEF Publish, Emit, SendExpires, GiveUp
    <3> QED
      BY <1>0, <3>1
  <2>2. CASE Send(e)
    <3>1. queue' = Append(queue, e) /\ fate[e] = "sending"
          /\ fate' = [fate EXCEPT ![e] = "queued"]
      BY <2>2 DEF Send
    <3>2. /\ Len(queue') = Len(queue) + 1 /\ queue'[Len(queue) + 1] = e
          /\ \A i \in 1 .. Len(queue) : queue'[i] = queue[i]
      BY <1>0, <3>1
    <3>3. \A i \in 1 .. Len(queue) : queue[i] # e
      BY <1>0, <3>1
    <3> QED
      BY <1>0, <3>1, <3>2, <3>3
  <2> QED
    BY <1>1, <2>1, <2>2 DEF PublishStep
<1>2. CASE CancelStep
  BY <1>0, <1>2, CancelArms
<1>3. CASE RouterStep
  <2>1. CASE TakeEvent
    <3>1. queue # <<>> /\ queue' = Tail(queue) /\ fate' = [fate EXCEPT ![Head(queue)] = "taken"]
      BY <2>1 DEF TakeEvent
    <3>2. \A n \in 1 .. Len(queue') : n + 1 \in 1 .. Len(queue) /\ queue'[n] = queue[n + 1]
      BY <1>0, <3>1
    <3>3. 1 \in 1 .. Len(queue) /\ Head(queue) = queue[1]
      BY <1>0, <3>1
    <3> QED
      BY <1>0, <3>1, <3>2, <3>3
  <2>2. CASE SkipCancelled \/ BeginProcessing
    <3>1. queue' = queue /\ fate[event] # "queued" /\ \E to : fate' = [fate EXCEPT ![event] = to]
      BY <1>0, <2>2 DEF SkipCancelled, BeginProcessing, EventInv
    <3> QED
      BY <1>0, <3>1
  <2>3. CASE FinishEvent \/ AskAgent \/ AgentAsked \/ LeaveLoop \/ EndTask
    BY <1>0, <2>3 DEF FinishEvent, AskAgent, AgentAsked, LeaveLoop, EndTask
  <2> QED
    BY <1>3, <2>1, <2>2, <2>3 DEF RouterStep
<1>4. CASE Start \/ Stop \/ StopReturns \/ UNCHANGED vars
  BY <1>0, <1>4 DEF Start, Stop, StopReturns, vars
<1> QED
  BY <1>1, <1>2, <1>3, <1>4 DEF Next, PublishStep, CancelStep

\* The event in hand is the one that was taken, and its fate follows the router's place.
LEMMA EventStep == IInv /\ [Next]_vars => EventInv'
<1> SUFFICES ASSUME IInv, [Next]_vars PROVE EventInv'
  OBVIOUS
<1> USE EventRouterAssumption DEF EventRouterAssumption, EventInv, taskVars, ctlVars
<1>0. TypeOK /\ OneRouterTask /\ EmittingInv /\ QueueInv /\ EventInv
  BY DEF IInv
<1> USE DEF TypeOK
<1>1. ASSUME NEW e \in Events, PublishStep(e) PROVE EventInv'
  <2>1. event' = event /\ fate[e] \notin {"taken", "processed"}
        /\ \E to \in {"sending", "queued", "expired", "dropped"} : fate' = [fate EXCEPT ![e] = to]
    BY <1>1 DEF PublishStep, Publish, Emit, Send, SendExpires, GiveUp
  <2>2. \/ rpc' = rpc
        \/ rpc \in {"rules", "emitting"} /\ rpc' \in {"rules", "emitting"}
    BY <1>0, <1>1 DEF PublishStep, Publish, Emit, Send, SendExpires, GiveUp, ResumeRules, EmittingInv
  <2> QED
    BY <1>0, <2>1, <2>2
<1>2. CASE CancelStep
  BY <1>0, <1>2, CancelArms
<1>3. CASE RouterStep
  <2>1. CASE TakeEvent
    <3>1. Head(queue) \in Events
      BY <1>0, <2>1 DEF TakeEvent
    <3> QED
      BY <1>0, <2>1, <3>1 DEF TakeEvent
  <2>2. CASE SkipCancelled
    BY <1>0, <2>2 DEF SkipCancelled
  <2>3. CASE BeginProcessing
    BY <1>0, <2>3 DEF BeginProcessing
  <2>4. CASE FinishEvent \/ AskAgent \/ AgentAsked
    BY <1>0, <2>4 DEF FinishEvent, AskAgent, AgentAsked
  <2>5. CASE LeaveLoop \/ EndTask
    BY <1>0, <2>5 DEF LeaveLoop, EndTask
  <2> QED
    BY <1>3, <2>1, <2>2, <2>3, <2>4, <2>5 DEF RouterStep
<1>4. CASE Start
  BY <1>0, <1>4 DEF Start, OneRouterTask
<1>5. CASE Stop \/ StopReturns \/ UNCHANGED vars
  BY <1>0, <1>5 DEF Stop, StopReturns, vars
<1> QED
  BY <1>1, <1>2, <1>3, <1>4, <1>5 DEF Next, PublishStep, CancelStep

\* Every step keeps the invariant.
LEMMA IInvStep == IInv /\ [Next]_vars => IInv'
BY TypeStep, OneTaskStep, EmittingStep, QueueStep, EventStep DEF IInv

\* The invariant holds in every behaviour of the router.
LEMMA IInvHolds == Spec => []IInv
BY InitIInv, IInvStep, PTL DEF Spec

-----------------------------------------------------------------------------
(* The table, for ids that differ and a table with room.                   *)

\* When an event that does not wait yet is entered, a slot is free.
LEMMA RoomForOneMore ==
  ASSUME TableHasRoom, TypeOK, TableIsExact, SlotsDiffer,
         NEW e \in Tracked, fate[e] = "new"
  PROVE  \E i \in Slots : ~Used(i)
<1> SUFFICES ASSUME \A i \in Slots : Used(i) PROVE FALSE
  OBVIOUS
<1> DEFINE f == [i \in Slots |-> slots[i].event]
<1>1. \A i \in Slots : slots[i].event \in Tracked \ {e}
  BY DEF TableIsExact, Waiting, Tracked
<1>2. f \in [Slots -> Tracked \ {e}]
  BY <1>1
<1>3. IsFiniteSet(Slots) /\ Cardinality(Slots) = TableSize
  BY EventRouterAssumption, FS_Interval DEF EventRouterAssumption, Slots
<1>4. IsFiniteSet(Tracked \ {e}) /\ Cardinality(Tracked \ {e}) = Cardinality(Tracked) - 1
      /\ Cardinality(Tracked) \in Nat
  BY FS_RemoveElement, FS_CardinalityType DEF TableHasRoom
<1>5. Cardinality(Tracked \ {e}) < Cardinality(Slots)
  BY <1>3, <1>4, EventRouterAssumption DEF TableHasRoom, EventRouterAssumption
<1>6. \E i, j \in Slots : i # j /\ f[i] = f[j]
  <2> HIDE DEF f
  <2> QED
    BY <1>2, <1>3, <1>4, <1>5, FS_PigeonHole
<1> QED
  BY <1>6 DEF SlotsDiffer

\* An event with an id that is entered takes a free slot.
LEMMA TrackTakesFreeSlot ==
  ASSUME IdsDiffer, TableHasRoom, TypeOK, TableIsExact, SlotsDiffer,
         NEW e \in Tracked, fate[e] = "new", Track(e)
  PROVE  \E i \in Slots :
           ~Used(i) /\ slots' = [slots EXCEPT ![i] = [event |-> e, cancelled |-> FALSE]]
<1>1. SlotsOf(EventId[e]) = {}
  BY DEF SlotsOf, TableIsExact, Waiting, IdsDiffer, Tracked
<1>2. AllocSlot \in Slots /\ ~Used(AllocSlot)
  <2> DEFINE free == {i \in Slots : ~Used(i)}
  <2>1. free # {} /\ free \in SUBSET Nat
    BY RoomForOneMore DEF Slots
  <2>2. Min(free) \in free
    <3> HIDE DEF free
    <3> QED
      BY <2>1, MinIsLeast
  <2> QED
    BY <2>1, <2>2 DEF AllocSlot
<1> QED
  BY <1>1, <1>2 DEF Track, Tracked

\* The slots of a waiting event's id are the slots of that event.
LEMMA SlotsOfEvent ==
  ASSUME IdsDiffer, TypeOK, TableIsExact, NEW e \in Tracked
  PROVE  SlotsOf(EventId[e]) = {i \in Slots : slots[i].event = e}
<1>1. \A i \in Slots : Used(i) => slots[i].event \in Tracked
  BY DEF TableIsExact, Tracked
<1>2. e # NoEvent
  BY EventRouterAssumption DEF EventRouterAssumption, Tracked
<1> QED
  BY <1>1, <1>2 DEF SlotsOf, IdsDiffer, Used, Tracked

\* Nothing has the empty id.
LEMMA NoSlotsOfEmptyId == SlotsOf(NoEventId) = {}
BY DEF SlotsOf

\* An event that begins to wait is entered, and nothing else in the table changes.
LEMMA TrackKeeps ==
  ASSUME IdsDiffer, TableHasRoom, TableInv, NEW e \in Events, fate[e] = "new", Track(e),
         fate' = [fate EXCEPT ![e] = "sending"], armed' = armed
  PROVE  TableIsExact' /\ SlotsDiffer' /\ ArmedInv'
<1>0. TypeOK /\ TableIsExact /\ SlotsDiffer /\ ArmedInv
  BY DEF TableInv, IInv
<1>e. e # NoEvent
  BY EventRouterAssumption DEF EventRouterAssumption
<1> USE <1>0, <1>e DEF TypeOK
<1>1. CASE e \in Tracked
  <2>1. PICK i \in Slots :
          ~Used(i) /\ slots' = [slots EXCEPT ![i] = [event |-> e, cancelled |-> FALSE]]
    BY <1>1, TrackTakesFreeSlot
  <2>2. \A j \in Slots : slots[j].event # e
    BY DEF TableIsExact, Waiting, Used
  <2>3. TableIsExact'
    <3>1. {slots'[j].event : j \in {k \in Slots : slots'[k].event # NoEvent}}
            = {slots[j].event : j \in {k \in Slots : slots[k].event # NoEvent}} \cup {e}
      BY <2>1 DEF Used
    <3>2. {f \in Events : Waiting(f)' /\ EventId[f] # NoEventId}
            = {f \in Events : Waiting(f) /\ EventId[f] # NoEventId} \cup {e}
      BY <1>1 DEF Waiting, Tracked
    <3> QED
      BY <3>1, <3>2 DEF TableIsExact, Used
  <2>4. SlotsDiffer'
    BY <2>1, <2>2 DEF SlotsDiffer, Used
  <2>5. ArmedInv'
    <3> SUFFICES ASSUME NEW f \in armed
                 PROVE  /\ fate'[f] \notin {"new", "processed"}
                        /\ Waiting(f)' => \E j \in Slots : slots'[j].event = f /\ slots'[j].cancelled
      BY DEF ArmedInv
    <3>1. f \in Events /\ f # e /\ fate'[f] = fate[f] /\ f # NoEvent
      BY EventRouterAssumption DEF ArmedInv, EventRouterAssumption
    <3>2. \A j \in Slots : slots[j].event = f => slots'[j] = slots[j]
      BY <2>1, <3>1 DEF Used
    <3> QED
      BY <3>1, <3>2 DEF ArmedInv, Waiting
  <2> QED
    BY <2>3, <2>4, <2>5
<1>2. CASE e \notin Tracked
  <2>1. slots' = slots
    BY <1>2 DEF Track, Tracked
  <2>2. TableIsExact'
    BY <1>2, <2>1 DEF TableIsExact, Used, Waiting, Tracked
  <2>3. SlotsDiffer' /\ ArmedInv'
    BY <2>1 DEF SlotsDiffer, ArmedInv, Used, Waiting
  <2> QED
    BY <2>2, <2>3
<1> QED
  BY <1>1, <1>2

\* An event that no longer waits is removed, and nothing else in the table changes.
LEMMA UntrackKeeps ==
  ASSUME IdsDiffer, TableInv, NEW e \in Events, Waiting(e), Untrack(e),
         NEW to \in {"dropped", "skipped", "processed"}, to = "processed" => e \notin armed,
         fate' = [fate EXCEPT ![e] = to], armed' = armed
  PROVE  TableIsExact' /\ SlotsDiffer' /\ ArmedInv'
<1>0. TypeOK /\ TableIsExact /\ SlotsDiffer /\ ArmedInv
  BY DEF TableInv, IInv
<1> USE <1>0 DEF TypeOK
<1>1. \A i \in Slots :
        slots'[i] = IF slots[i].event = e THEN EmptySlot ELSE slots[i]
  <2>1. CASE e \in Tracked
    BY <2>1, SlotsOfEvent DEF Untrack
  <2>2. CASE e \notin Tracked
    <3>1. SlotsOf(EventId[e]) = {}
      BY <2>2, NoSlotsOfEmptyId DEF Tracked
    <3>2. \A i \in Slots : slots[i].event # e
      BY <2>2, EventRouterAssumption DEF EventRouterAssumption, TableIsExact, Tracked, Used
    <3> QED
      BY <3>1, <3>2 DEF Untrack
  <2> QED
    BY <2>1, <2>2
<1>2. TableIsExact'
  <2>1. {slots'[j].event : j \in {k \in Slots : slots'[k].event # NoEvent}}
          = {slots[j].event : j \in {k \in Slots : slots[k].event # NoEvent}} \ {e}
    <3>1. \A i \in Slots : slots'[i].event = IF slots[i].event = e THEN NoEvent
                                                                  ELSE slots[i].event
      BY <1>1 DEF EmptySlot
    <3> QED
      BY <3>1
  <2>2. {f \in Events : Waiting(f)' /\ EventId[f] # NoEventId}
          = {f \in Events : Waiting(f) /\ EventId[f] # NoEventId} \ {e}
    BY DEF Waiting
  <2> QED
    BY <2>1, <2>2 DEF TableIsExact, Used
<1>3. SlotsDiffer'
  BY <1>1 DEF SlotsDiffer, Used, EmptySlot
<1>4. ArmedInv'
  BY <1>1 DEF ArmedInv, Waiting
<1> QED
  BY <1>2, <1>3, <1>4

\* A step that neither enters nor removes an event, and cancels none, keeps the table.
LEMMA WaitingKeeps ==
  ASSUME TableInv, UNCHANGED <<slots, armed>>,
         \A e \in Events : /\ Waiting(e)' <=> Waiting(e)
                           /\ fate'[e] \in {"new", "processed"} => fate'[e] = fate[e]
  PROVE  TableIsExact' /\ SlotsDiffer' /\ ArmedInv'
<1>0. TypeOK /\ TableIsExact /\ SlotsDiffer /\ ArmedInv
  BY DEF TableInv, IInv
<1>1. TableIsExact'
  BY <1>0 DEF TableIsExact, Used
<1>2. SlotsDiffer'
  BY <1>0 DEF SlotsDiffer, Used
<1>3. ArmedInv'
  BY <1>0 DEF ArmedInv, TypeOK
<1> QED
  BY <1>1, <1>2, <1>3

\* Cancelling arms events that wait and are in the table.
LEMMA ArmKeeps ==
  ASSUME TableInv, NEW chosen \in SUBSET {i \in Slots : Used(i)}, Arm(chosen), fate' = fate
  PROVE  TableIsExact' /\ SlotsDiffer' /\ ArmedInv'
<1>0. TypeOK /\ TableIsExact /\ SlotsDiffer /\ ArmedInv
  BY DEF TableInv, IInv
<1> USE <1>0 DEF TypeOK
<1>1. \A i \in Slots : /\ slots'[i].event = slots[i].event
                       /\ slots[i].cancelled => slots'[i].cancelled
  BY DEF Arm
<1>2. \A i \in Slots : Used(i)' <=> Used(i)
  BY <1>1 DEF Used
<1>3. TableIsExact'
  <2>1. {slots'[i].event : i \in {j \in Slots : Used(j)'}}
          = {slots[i].event : i \in {j \in Slots : Used(j)}}
    BY <1>1, <1>2
  <2>2. {e \in Events : Waiting(e)' /\ EventId[e] # NoEventId}
          = {e \in Events : Waiting(e) /\ EventId[e] # NoEventId}
    BY DEF Waiting
  <2> QED
    BY <2>1, <2>2 DEF TableIsExact
<1>4. SlotsDiffer'
  BY <1>1, <1>2 DEF SlotsDiffer
<1>5. ArmedInv'
  <2>1. \A i \in Slots : Used(i) => Waiting(slots[i].event)
    BY DEF TableIsExact
  <2>2. ASSUME NEW e \in armed', e \notin armed
        PROVE  Waiting(e) /\ \E i \in Slots : slots'[i].event = e /\ slots'[i].cancelled
    <3>1. PICK i \in chosen : ~slots[i].cancelled /\ e = slots[i].event
      BY <2>2 DEF Arm
    <3>2. slots'[i].event = e /\ slots'[i].cancelled
      BY <3>1 DEF Arm
    <3> QED
      BY <2>1, <3>1, <3>2
  <2>3. ASSUME NEW e \in armed
        PROVE  /\ fate[e] \notin {"new", "processed"}
               /\ Waiting(e) => \E i \in Slots : slots'[i].event = e /\ slots'[i].cancelled
    BY <1>1 DEF ArmedInv
  <2> QED
    BY <2>2, <2>3 DEF ArmedInv, Waiting
<1> QED
  BY <1>3, <1>4, <1>5

\* Every step of a publisher keeps the table.
LEMMA PublishKeepsTable ==
  ASSUME IdsDiffer, TableHasRoom, TableInv, NEW e \in Events, PublishStep(e)
  PROVE  TableIsExact' /\ SlotsDiffer' /\ ArmedInv'
<1>0. TypeOK
  BY DEF TableInv, IInv
<1>1. CASE Publish(e)
  BY <1>1, TrackKeeps DEF Publish
<1>2. CASE Emit(e)
  BY <1>2, TrackKeeps DEF Emit
<1>3. CASE Send(e) \/ SendExpires(e)
  <2>1. UNCHANGED <<slots, armed>> /\ fate[e] = "sending"
        /\ (fate' = [fate EXCEPT ![e] = "queued"] \/ fate' = [fate EXCEPT ![e] = "expired"])
    BY <1>3 DEF Send, SendExpires
  <2>2. \A f \in Events : /\ Waiting(f)' <=> Waiting(f)
                          /\ fate'[f] \in {"new", "processed"} => fate'[f] = fate[f]
    BY <1>0, <2>1 DEF TypeOK, Waiting
  <2> QED
    BY <2>1, <2>2, WaitingKeeps
<1>4. CASE GiveUp(e)
  <2>1. Waiting(e) /\ Untrack(e) /\ fate' = [fate EXCEPT ![e] = "dropped"] /\ armed' = armed
    BY <1>4 DEF GiveUp, Waiting
  <2> QED
    BY <2>1, UntrackKeeps
<1> QED
  BY <1>1, <1>2, <1>3, <1>4 DEF PublishStep

\* Every step of the router task keeps the table.
LEMMA RouterKeepsTable ==
  ASSUME IdsDiffer, TableInv, RouterStep
  PROVE  TableIsExact' /\ SlotsDiffer' /\ ArmedInv'
<1>0. TypeOK /\ QueueInv /\ EventInv /\ TableIsExact /\ ArmedInv
  BY DEF TableInv, IInv
<1>1. rpc = "taken" => event \in Events /\ Waiting(event)
  BY <1>0 DEF EventInv, TypeOK, Waiting
<1>2. CASE TakeEvent
  <2>1. UNCHANGED <<slots, armed>> /\ fate' = [fate EXCEPT ![Head(queue)] = "taken"]
    BY <1>2 DEF TakeEvent
  <2>2. fate[Head(queue)] = "queued"
    BY <1>0, <1>2 DEF TakeEvent, QueueInv, TypeOK
  <2>3. \A f \in Events : /\ Waiting(f)' <=> Waiting(f)
                          /\ fate'[f] \in {"new", "processed"} => fate'[f] = fate[f]
    BY <1>0, <2>1, <2>2 DEF TypeOK, Waiting
  <2> QED
    BY <2>1, <2>3, WaitingKeeps
<1>3. CASE SkipCancelled
  <2>1. Untrack(event) /\ fate' = [fate EXCEPT ![event] = "skipped"] /\ armed' = armed
        /\ rpc = "taken"
    BY <1>3 DEF SkipCancelled
  <2> QED
    BY <1>1, <2>1, UntrackKeeps
<1>4. CASE BeginProcessing
  <2>1. Untrack(event) /\ fate' = [fate EXCEPT ![event] = "processed"] /\ armed' = armed
        /\ rpc = "taken" /\ ~IsCancelled(event)
    BY <1>4 DEF BeginProcessing
  <2>2. event \notin armed
    <3>1. SUFFICES ASSUME event \in armed PROVE FALSE
      OBVIOUS
    <3>2. PICK i \in Slots : slots[i].event = event /\ slots[i].cancelled
      BY <1>1, <2>1, <3>1, <1>0 DEF ArmedInv
    <3>3. Used(i)
      BY <1>1, <2>1, <3>2, EventRouterAssumption DEF Used, EventRouterAssumption
    <3>4. EventId[event] # NoEventId
      BY <1>0, <3>2, <3>3 DEF TableIsExact
    <3> QED
      BY <2>1, <3>2, <3>3, <3>4 DEF IsCancelled, SlotsOf
  <2> QED
    BY <1>1, <2>1, <2>2, UntrackKeeps
<1>5. CASE FinishEvent \/ AskAgent \/ AgentAsked \/ LeaveLoop \/ EndTask
  <2>1. UNCHANGED <<slots, armed, fate>>
    BY <1>5 DEF FinishEvent, AskAgent, AgentAsked, LeaveLoop, EndTask
  <2>2. \A f \in Events : (Waiting(f)' <=> Waiting(f)) /\ fate'[f] = fate[f]
    BY <2>1 DEF Waiting
  <2> QED
    BY <2>1, <2>2, WaitingKeeps
<1> QED
  BY <1>2, <1>3, <1>4, <1>5 DEF RouterStep

\* Every step keeps the invariant of the table.
LEMMA TableStep ==
  ASSUME IdsDiffer, TableHasRoom, TableInv, [Next]_vars
  PROVE  TableInv'
<1>0. TypeOK /\ IInv
  BY DEF TableInv, IInv
<1>1. IInv'
  BY <1>0, IInvStep
<1>2. TableIsExact' /\ SlotsDiffer' /\ ArmedInv'
  <2>1. ASSUME NEW e \in Events, PublishStep(e) PROVE TableIsExact' /\ SlotsDiffer' /\ ArmedInv'
    BY <2>1, PublishKeepsTable
  <2>2. CASE CancelStep
    BY <2>2, CancelArms, ArmKeeps
  <2>3. CASE RouterStep
    BY <2>3, RouterKeepsTable
  <2>4. CASE Start \/ Stop \/ StopReturns \/ UNCHANGED vars
    <3>1. UNCHANGED <<slots, armed, fate>>
      BY <2>4 DEF Start, Stop, StopReturns, vars
    <3>2. \A f \in Events : (Waiting(f)' <=> Waiting(f)) /\ fate'[f] = fate[f]
      BY <3>1 DEF Waiting
    <3> QED
      BY <3>1, <3>2, WaitingKeeps
  <2> QED
    BY <2>1, <2>2, <2>3, <2>4 DEF Next, PublishStep, CancelStep
<1> QED
  BY <1>1, <1>2 DEF TableInv

\* The empty table satisfies the invariant.
LEMMA InitTableInv == Init => TableInv
<1> SUFFICES ASSUME Init PROVE TableInv
  OBVIOUS
<1>1. TableIsExact /\ SlotsDiffer
  BY DEF Init, TableIsExact, SlotsDiffer, Used, EmptySlot, Waiting
<1>2. ArmedInv
  BY DEF Init, ArmedInv
<1> QED
  BY <1>1, <1>2, InitIInv DEF TableInv

\* With ids that differ and room in the table, the invariant of the table always holds.
LEMMA TableInvHolds == ASSUME IdsDiffer, TableHasRoom PROVE Spec => []TableInv
<1>1. TableInv /\ [Next]_vars => TableInv'
  BY TableStep
<1> QED
  BY <1>1, InitTableInv, PTL DEF Spec

-----------------------------------------------------------------------------
(* The theorems.                                                           *)

\* The queue is never longer than event_queue_len, and every variable keeps its type.
THEOREM TypeCorrect == Spec => []TypeOK
BY IInvHolds, PTL DEF IInv

\* claw_event_router_start never creates a second router task over the same queue.
THEOREM RouterTaskIsAlone == Spec => []OneRouterTask
BY IInvHolds, PTL DEF IInv

\* With ids that differ and room in the table, the table holds exactly the events that wait:
\* no way through publish or through the router task loses a slot or frees one too early.
THEOREM TableStaysExact == ASSUME IdsDiffer, TableHasRoom PROVE Spec => []TableIsExact
<1>1. TableInv => TableIsExact
  BY DEF TableInv
<1> QED
  BY <1>1, TableInvHolds, PTL

\* With ids that differ and room in the table, an event whose cancellation was confirmed is
\* never processed, however the cancel races publishers and the router task.
THEOREM CancelsAreHonoured == ASSUME IdsDiffer, TableHasRoom PROVE Spec => []CancelHonoured
<1>1. TableInv => CancelHonoured
  BY DEF TableInv, ArmedInv, CancelHonoured
<1> QED
  BY <1>1, TableInvHolds, PTL

=============================================================================
