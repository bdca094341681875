----------------------------- MODULE EventRouter -----------------------------
(***************************************************************************)
(* The event router's queue (components/claw_modules/claw_event_router):   *)
(* tasks publish events, which are first entered in a small table of       *)
(* pending events and then sent to a bounded queue; the router task takes  *)
(* them one by one, skips the cancelled ones, and runs the rules' actions  *)
(* with the router's recursive mutex held.  An action may publish again.   *)
(*                                                                         *)
(* Which rules match is left open here.  The initial state is the one      *)
(* claw_event_router_init leaves.  Each event is published once, by a task *)
(* of its own or by an action; MaxStops bounds the calls of                *)
(* claw_event_router_stop.                                                 *)
(***************************************************************************)
EXTENDS Naturals, Sequences, FiniteSets, FiniteSetsExt

CONSTANTS
  TaskEvents,   \* events that tasks publish
  RuleEvents,   \* events that emit_event actions publish, in the router task
  EventId,      \* the event_id of each event
  Kind,         \* what purge_queue's filters see of it: event_type and source_cap
  OwnEvents,    \* those with source_cap "claw_event_router", which no rule sees
  NoEventId,    \* the empty event_id
  NoEvent,      \* no event
  TableSize,    \* CLAW_EVENT_ROUTER_PENDING_TABLE_SIZE
  QueueLen,     \* event_queue_len
  MaxStops      \* bound: how often the router is stopped

Events == TaskEvents \cup RuleEvents

ASSUME EventRouterAssumption ==
  /\ TaskEvents \cap RuleEvents = {}
  /\ OwnEvents \subseteq Events
  /\ NoEvent \notin Events
  /\ DOMAIN EventId = Events /\ DOMAIN Kind = Events
  /\ TableSize \in Nat \ {0} /\ QueueLen \in Nat \ {0} /\ MaxStops \in Nat

VARIABLES
  slots,          \* the pending table
  queue,          \* event_queue
  rpc,            \* where the router task is; "none" when there is no task
  event,          \* the event it works on
  started,        \* s_runtime->started
  handle,         \* s_runtime->task_handle is not NULL
  stopRequested,  \* s_runtime->stop_requested
  ctl,            \* the task that starts and stops the router
  stops,          \* how often it has called stop
  \* history
  fate,           \* what became of each event
  armed           \* the events whose cancellation was confirmed

taskVars == <<started, handle, stopRequested>>
ctlVars  == <<ctl, stops>>
vars == <<slots, queue, rpc, event, taskVars, ctlVars, fate, armed>>

Slots == 1 .. TableSize
EmptySlot == [event |-> NoEvent, cancelled |-> FALSE]

Init ==
  /\ slots = [i \in Slots |-> EmptySlot]
  /\ queue = <<>>
  /\ rpc = "none" /\ event = NoEvent
  /\ started = FALSE /\ handle = FALSE /\ stopRequested = FALSE
  /\ ctl = "idle" /\ stops = 0
  /\ fate = [e \in Events |-> "new"]
  /\ armed = {}

\* The router task holds the mutex while it runs the rules and their actions.  Every
\* other critical section of the module is a single step.
RulesHoldMutex == rpc \in {"rules", "emitting", "asking"}

-----------------------------------------------------------------------------
(* The table of pending events.                                            *)

Used(i) == slots[i].event # NoEvent

\* pending_find_slot_locked, for an id that is not empty
SlotsOf(id) == {i \in Slots : Used(i) /\ id # NoEventId /\ EventId[slots[i].event] = id}

\* pending_alloc_slot_locked: a free slot, else one that is not cancelled, else the first.
AllocSlot ==
  LET free == {i \in Slots : ~Used(i)}
      live == {i \in Slots : ~slots[i].cancelled}
  IN IF free # {} THEN Min(free) ELSE IF live # {} THEN Min(live) ELSE 1

\* pending_track: an event that has the id of a pending one takes over its slot.
Track(e) ==
  LET own == SlotsOf(EventId[e])
      i == IF own # {} THEN Min(own) ELSE AllocSlot
  IN slots' = IF EventId[e] = NoEventId
                THEN slots
                ELSE [slots EXCEPT ![i] = [event |-> e, cancelled |-> FALSE]]

\* pending_take_for_event_id
Untrack(e) ==
  slots' = [i \in Slots |-> IF i \in SlotsOf(EventId[e]) THEN EmptySlot ELSE slots[i]]

\* Mutant: the flag is read when memset has already cleared the slot.
IsCancelledTooLate(e) == \E i \in SlotsOf(EventId[e]) : EmptySlot.cancelled

IsCancelled(e) == \E i \in SlotsOf(EventId[e]) : slots[i].cancelled

-----------------------------------------------------------------------------
(* claw_event_router_publish.                                              *)

\* The event is cloned and tracked before it is sent.
Publish(e) ==
  /\ e \in TaskEvents
  /\ fate[e] = "new"
  /\ ~RulesHoldMutex
  /\ Track(e)
  /\ fate' = [fate EXCEPT ![e] = "sending"]
  /\ UNCHANGED <<queue, rpc, event, taskVars, ctlVars, armed>>

\* An emit_event action publishes too, inside the mutex that its task already holds.
Emit(e) ==
  /\ e \in RuleEvents
  /\ fate[e] = "new"
  /\ rpc = "rules"
  /\ Track(e)
  /\ fate' = [fate EXCEPT ![e] = "sending"]
  /\ rpc' = "emitting"
  /\ UNCHANGED <<queue, event, taskVars, ctlVars, armed>>

\* After an emit_event action the rules go on.
ResumeRules(e) == rpc' = IF e \in RuleEvents THEN "rules" ELSE rpc

\* Mutant: the queue's length is not respected.
SendAnyway(e) ==
  /\ fate[e] = "sending"
  /\ queue' = Append(queue, e)
  /\ fate' = [fate EXCEPT ![e] = "queued"]
  /\ ResumeRules(e)
  /\ UNCHANGED <<slots, event, taskVars, ctlVars, armed>>

\* xQueueSend found room.
Send(e) ==
  /\ fate[e] = "sending"
  /\ Len(queue) < QueueLen
  /\ queue' = Append(queue, e)
  /\ fate' = [fate EXCEPT ![e] = "queued"]
  /\ ResumeRules(e)
  /\ UNCHANGED <<slots, event, taskVars, ctlVars, armed>>

\* Mutant: an action that publishes waits without a timeout.
SendExpiresInTasks(e) ==
  /\ fate[e] = "sending" /\ e \in TaskEvents
  /\ Len(queue) = QueueLen
  /\ fate' = [fate EXCEPT ![e] = "expired"]
  /\ UNCHANGED <<slots, queue, rpc, event, taskVars, ctlVars, armed>>

\* The queue stayed full for 1000 ms.
SendExpires(e) ==
  /\ fate[e] = "sending"
  /\ Len(queue) = QueueLen
  /\ fate' = [fate EXCEPT ![e] = "expired"]
  /\ UNCHANGED <<slots, queue, rpc, event, taskVars, ctlVars, armed>>

\* Mutant: giving up leaves the event in the table.
GiveUpKeepingSlot(e) ==
  /\ fate[e] = "expired"
  /\ ~RulesHoldMutex \/ e \in RuleEvents
  /\ fate' = [fate EXCEPT ![e] = "dropped"]
  /\ ResumeRules(e)
  /\ UNCHANGED <<slots, queue, event, taskVars, ctlVars, armed>>

\* publish gives up: it untracks the event's id and returns ESP_ERR_TIMEOUT.
GiveUp(e) ==
  /\ fate[e] = "expired"
  /\ ~RulesHoldMutex \/ e \in RuleEvents
  /\ Untrack(e)
  /\ fate' = [fate EXCEPT ![e] = "dropped"]
  /\ ResumeRules(e)
  /\ UNCHANGED <<queue, event, taskVars, ctlVars, armed>>

-----------------------------------------------------------------------------
(* Cancellation.  An action of a rule may call these too: the mutex is     *)
(* recursive.                                                              *)

\* Arm those of the chosen slots that are not armed yet.
Arm(chosen) ==
  LET hit == {i \in chosen : ~slots[i].cancelled}
  IN /\ hit # {}
     /\ slots' = [i \in Slots |-> IF i \in hit THEN [slots[i] EXCEPT !.cancelled = TRUE]
                                               ELSE slots[i]]
     /\ armed' = armed \cup {slots[i].event : i \in hit}

\* claw_event_router_cancel_event that returns ESP_OK
CancelEvent(id) ==
  /\ Arm(SlotsOf(id))
  /\ UNCHANGED <<queue, rpc, event, taskVars, ctlVars, fate>>

\* claw_event_router_purge_queue, with a filter or without, that arms something
PurgeQueue(kinds) ==
  /\ Arm({i \in Slots : Used(i) /\ Kind[slots[i].event] \in kinds})
  /\ UNCHANGED <<queue, rpc, event, taskVars, ctlVars, fate>>

-----------------------------------------------------------------------------
(* claw_event_router_task.                                                 *)

\* xQueueReceive
TakeEvent ==
  /\ rpc = "idle"
  /\ ~stopRequested
  /\ queue # <<>>
  /\ event' = Head(queue)
  /\ queue' = Tail(queue)
  /\ fate' = [fate EXCEPT ![Head(queue)] = "taken"]
  /\ rpc' = "taken"
  /\ UNCHANGED <<slots, taskVars, ctlVars, armed>>

\* Its slot is given back; a cancelled event is skipped.
SkipCancelled ==
  /\ rpc = "taken"
  /\ IsCancelled(event)
  /\ Untrack(event)
  /\ fate' = [fate EXCEPT ![event] = "skipped"]
  /\ rpc' = "idle" /\ event' = NoEvent
  /\ UNCHANGED <<queue, taskVars, ctlVars, armed>>

\* claw_event_router_process_event begins; the router's own events pass untouched.
BeginProcessing ==
  /\ rpc = "taken"
  /\ ~IsCancelled(event)
  /\ Untrack(event)
  /\ fate' = [fate EXCEPT ![event] = "processed"]
  /\ IF event \in OwnEvents
       THEN rpc' = "idle" /\ event' = NoEvent
       ELSE rpc' = "rules" /\ UNCHANGED event
  /\ UNCHANGED <<queue, taskVars, ctlVars, armed>>

\* The last rule is done, or no rule matched and, with the mutex given back, the
\* default agent is asked.
FinishEvent ==
  /\ rpc = "rules"
  /\ rpc' \in {"idle", "agent"}
  /\ event' = IF rpc' = "idle" THEN NoEvent ELSE event
  /\ UNCHANGED <<slots, queue, taskVars, ctlVars, fate, armed>>

\* A run_agent action calls claw_core_submit, which may wait for a second.
AskAgent ==
  /\ rpc = "rules"
  /\ rpc' = "asking"
  /\ UNCHANGED <<slots, queue, event, taskVars, ctlVars, fate, armed>>

\* claw_core_submit returns, to the rules or to claw_event_router_run_default_agent.
AgentAsked ==
  /\ rpc \in {"asking", "agent"}
  /\ IF rpc = "asking" THEN rpc' = "rules" /\ UNCHANGED event
                       ELSE rpc' = "idle" /\ event' = NoEvent
  /\ UNCHANGED <<slots, queue, taskVars, ctlVars, fate, armed>>

\* The loop ends: task_handle is cleared first, started second.
LeaveLoop ==
  /\ rpc = "idle"
  /\ stopRequested
  /\ handle' = FALSE
  /\ rpc' = "leaving"
  /\ UNCHANGED <<slots, queue, event, started, stopRequested, ctlVars, fate, armed>>

EndTask ==
  /\ rpc = "leaving"
  /\ started' = FALSE
  /\ rpc' = "none"
  /\ UNCHANGED <<slots, queue, event, handle, stopRequested, ctlVars, fate, armed>>

RouterStep ==
  \/ TakeEvent
  \/ SkipCancelled
  \/ BeginProcessing
  \/ FinishEvent
  \/ AskAgent
  \/ AgentAsked
  \/ LeaveLoop
  \/ EndTask

-----------------------------------------------------------------------------
(* Starting and stopping.                                                  *)

\* claw_event_router_start; when started is still set it returns ESP_OK at once.
Start ==
  /\ ctl = "idle"
  /\ ~started
  /\ stopRequested' = FALSE
  /\ rpc' = "idle" /\ handle' = TRUE /\ started' = TRUE
  /\ UNCHANGED <<slots, queue, event, ctlVars, fate, armed>>

\* Mutant: stop clears started itself, before the task has ended.
StopClearsStarted ==
  /\ ctl = "idle"
  /\ stops < MaxStops
  /\ started /\ handle
  /\ stopRequested' = TRUE /\ started' = FALSE
  /\ ctl' = "stopping" /\ stops' = stops + 1
  /\ UNCHANGED <<slots, queue, rpc, event, handle, fate, armed>>

\* claw_event_router_stop asks the task to end, and waits.
Stop ==
  /\ ctl = "idle"
  /\ stops < MaxStops
  /\ started /\ handle
  /\ stopRequested' = TRUE
  /\ ctl' = "stopping" /\ stops' = stops + 1
  /\ UNCHANGED <<slots, queue, rpc, event, started, handle, fate, armed>>

\* The handle is gone, or 5000 ms have passed.
StopReturns ==
  /\ ctl = "stopping"
  /\ ctl' = "idle"
  /\ UNCHANGED <<slots, queue, rpc, event, taskVars, stops, fate, armed>>

-----------------------------------------------------------------------------
Next ==
  \/ \E e \in Events : Publish(e) \/ Emit(e) \/ Send(e) \/ SendExpires(e) \/ GiveUp(e)
  \/ \E e \in Events : CancelEvent(EventId[e])
  \/ \E kinds \in {{Kind[e]} : e \in Events} \cup {{Kind[e] : e \in Events}} : PurgeQueue(kinds)
  \/ RouterStep
  \/ Start
  \/ Stop
  \/ StopReturns

Spec == Init /\ [][Next]_vars

-----------------------------------------------------------------------------
(* Properties.                                                             *)

\* Every variable keeps to the values its C counterpart can hold.
TypeOK ==
  /\ slots \in [Slots -> [event : Events \cup {NoEvent}, cancelled : BOOLEAN]]
  /\ queue \in Seq(Events) /\ Len(queue) <= QueueLen
  /\ rpc \in {"none", "idle", "taken", "rules", "emitting", "asking", "agent", "leaving"}
  /\ event \in Events \cup {NoEvent}
  /\ started \in BOOLEAN /\ handle \in BOOLEAN /\ stopRequested \in BOOLEAN
  /\ ctl \in {"idle", "stopping"} /\ stops \in 0 .. MaxStops
  /\ fate \in [Events -> {"new", "sending", "expired", "queued", "taken", "skipped",
                          "processed", "dropped"}]
  /\ armed \subseteq Events

Waiting(e) == fate[e] \in {"sending", "expired", "queued", "taken"}

\* A table with room for every waiting event holds exactly those that have an id: no
\* path through publish, or through the router task, leaves a slot behind or gives one
\* back too early.
TableIsExact ==
  {slots[i].event : i \in {j \in Slots : Used(j)}}
    = {e \in Events : Waiting(e) /\ EventId[e] # NoEventId}

\* An event whose cancellation was confirmed is never processed.
CancelHonoured == \A e \in armed : fate[e] # "processed"

\* start creates a task only when the one before it is past its last use of s_runtime.
OneRouterTask == ~started => rpc = "none"

\* An event that got into the queue leaves it, and one that is being published is
\* either queued or refused, unless the router is stopped: neither a full queue nor an
\* action that publishes into it stops the router for good.
EventsMoveOn ==
  \A e \in Events :
    Waiting(e) ~> (fate[e] \in {"skipped", "processed", "dropped"} \/ stops > 0)

=============================================================================
