----------------------------- MODULE AgentLoop -----------------------------
(***************************************************************************)
(* The event router and the agent core together: the router submits        *)
(* requests to the core and the core's worker publishes its notes and      *)
(* answers to the router.  Each may wait for the other: the router, with   *)
(* its mutex held, for a place in the core's request queue                 *)
(* (claw_event_router.c, execute_agent_action), the worker for the mutex   *)
(* and for a place in the event queue (claw_core.c, publish_stage_event    *)
(* and publish_out_message_if_requested), and for the mutex once more in a *)
(* capability that manages rules (cap_router_mgr.c).                       *)
(*                                                                         *)
(* A request goes by the event it was made for.  What the worker does to   *)
(* find an answer is the subject of ClawCore.                              *)
(***************************************************************************)
EXTENDS EventRouter

CONSTANTS
  AgentEvents,      \* the events that are sent to the agent, by a rule or by default
  Outputs,          \* the events the worker publishes for each of them, in order
  RequestQueueLen   \* request_queue_len

OutputEvents == UNION {{Outputs[e][n] : n \in DOMAIN Outputs[e]} : e \in AgentEvents}

ASSUME AgentLoopAssumption ==
  /\ AgentEvents \subseteq Events
  /\ DOMAIN Outputs = AgentEvents
  /\ \A e \in AgentEvents : Outputs[e] \in Seq(TaskEvents)
  /\ RequestQueueLen \in Nat \ {0}

VARIABLES
  asked,     \* the events for which the agent has been asked
  requestQ,  \* request_queue
  job,       \* the request the worker works on, NoEvent when it waits for one
  wpc,       \* where the worker is
  said,      \* how many of the job's outputs are behind it
  \* history
  served     \* the requests the worker is done with

coreVars == <<asked, requestQ, job, wpc, said, served>>
loopVars == <<vars, coreVars>>

LoopInit ==
  /\ Init
  /\ asked = {}
  /\ requestQ = <<>>
  /\ job = NoEvent /\ wpc = "idle" /\ said = 0
  /\ served = {}

-----------------------------------------------------------------------------
(* The router's side.                                                      *)

\* A rule with a run_agent action has matched.
RuleAsks ==
  /\ event \in AgentEvents \ asked
  /\ AskAgent
  /\ asked' = asked \cup {event}
  /\ UNCHANGED <<requestQ, job, wpc, said, served>>

\* The rules are through.  The default agent is asked when none has matched.
RulesEnd ==
  /\ FinishEvent
  /\ rpc' = "agent" => event \in AgentEvents \ asked
  /\ asked' = IF rpc' = "agent" THEN asked \cup {event} ELSE asked
  /\ UNCHANGED <<requestQ, job, wpc, said, served>>

\* claw_core_submit finds room in the request queue.
Submitted ==
  /\ AgentAsked
  /\ Len(requestQ) < RequestQueueLen
  /\ requestQ' = Append(requestQ, event)
  /\ UNCHANGED <<asked, job, wpc, said, served>>

\* Mutant: the submit waits as long as it takes.
SubmitWaits ==
  /\ AgentAsked
  /\ Len(requestQ) < RequestQueueLen
  /\ UNCHANGED coreVars

\* It does not in core_submit_timeout_ms, or has no memory for the request.
NotSubmitted ==
  /\ AgentAsked
  /\ UNCHANGED coreVars

RouterSubmits == RuleAsks \/ RulesEnd \/ Submitted \/ NotSubmitted

-----------------------------------------------------------------------------
(* The worker's side (claw_core_task).                                     *)

\* The first round may run a capability that manages rules.
TakeJob ==
  /\ wpc = "idle" /\ requestQ # <<>>
  /\ job' = Head(requestQ)
  /\ requestQ' = Tail(requestQ)
  /\ wpc' \in {"thinking", "managing"} /\ said' = 0
  /\ UNCHANGED <<vars, asked, served>>

\* The next output, or a later one: a round without a note, or without tools
Say ==
  /\ wpc = "thinking"
  /\ \E n \in said + 1 .. Len(Outputs[job]) :
       /\ Publish(Outputs[job][n])
       /\ said' = n
  /\ wpc' = "publishing"
  /\ UNCHANGED <<asked, requestQ, job, served>>

\* claw_event_router_publish is through, with the event queued or dropped.  After a note
\* such a capability may be next.
Said ==
  /\ wpc = "publishing"
  /\ fate[Outputs[job][said]] \notin {"new", "sending", "expired"}
  /\ wpc' \in {"thinking"} \cup (IF said < Len(Outputs[job]) THEN {"managing"} ELSE {})
  /\ UNCHANGED <<vars, asked, requestQ, job, said, served>>

\* The capability takes the router's mutex.
ManageRules ==
  /\ wpc = "managing"
  /\ ~RulesHoldMutex
  /\ wpc' = "thinking"
  /\ UNCHANGED <<vars, asked, requestQ, job, said, served>>

\* The request is done, with an answer or, without memory for one, with none.
EndJob ==
  /\ wpc = "thinking"
  /\ served' = served \cup {job}
  /\ job' = NoEvent /\ wpc' = "idle" /\ said' = 0
  /\ UNCHANGED <<vars, asked, requestQ>>

WorkerStep == TakeJob \/ Say \/ Said \/ ManageRules \/ EndJob

-----------------------------------------------------------------------------

\* The steps of the router that do not concern the core
RouterAlone ==
  \/ \E e \in TaskEvents \ OutputEvents : Publish(e)
  \/ \E e \in Events : Emit(e) \/ Send(e) \/ SendExpires(e) \/ GiveUp(e)
  \/ \E e \in Events : CancelEvent(EventId[e])
  \/ \E kinds \in {{Kind[e]} : e \in Events} \cup {{Kind[e] : e \in Events}} : PurgeQueue(kinds)
  \/ TakeEvent \/ SkipCancelled \/ BeginProcessing \/ LeaveLoop \/ EndTask
  \/ Start \/ Stop \/ StopReturns

LoopNext ==
  \/ RouterAlone /\ UNCHANGED coreVars
  \/ RouterSubmits
  \/ WorkerStep

LoopSpec == LoopInit /\ [][LoopNext]_loopVars

\* The router task and the worker run on, and so do the tasks inside publish; a wait on a
\* full queue ends with room or with its timeout.  Boot starts the router.
LoopFairness ==
  /\ WF_loopVars(Start /\ UNCHANGED coreVars)
  /\ WF_loopVars(\/ (TakeEvent \/ SkipCancelled \/ BeginProcessing) /\ UNCHANGED coreVars
                 \/ RouterSubmits)
  /\ \A e \in Events :
       WF_loopVars((Send(e) \/ SendExpires(e) \/ GiveUp(e)) /\ UNCHANGED coreVars)
  /\ WF_loopVars(WorkerStep)

FairLoopSpec == LoopSpec /\ LoopFairness

-----------------------------------------------------------------------------
(* Properties.                                                             *)

\* A request that the core has accepted is worked on to its end, though its notes and
\* answers go through the router that may be waiting for the core at that time.
RequestsMoveOn ==
  \A e \in AgentEvents :
    (\E n \in DOMAIN requestQ : requestQ[n] = e) ~> (e \in served \/ stops > 0)

\* A message whose cancellation was confirmed is never worked on: the agent says nothing
\* about it.
CancelledUnanswered ==
  \A e \in armed \cap AgentEvents :
    /\ job # e /\ e \notin served
    /\ \A n \in DOMAIN Outputs[e] : fate[Outputs[e][n]] = "new"

=============================================================================
