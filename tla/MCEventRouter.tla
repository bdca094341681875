---------------------------- MODULE MCEventRouter ----------------------------
(* An instance of EventRouter for model checking: three messages with ids   *)
(* of their own, and a table as long as the queue.                          *)
EXTENDS EventRouter, TLC

CONSTANTS msg, tick, alarm

ThreeIds == (msg :> 1) @@ (tick :> 2) @@ (alarm :> 3)
ThreeKinds == (msg :> "message") @@ (tick :> "message") @@ (alarm :> "message")

\* claw_event_router.c:46 - "pending table must cover the default event queue length":
\* with a table as long as the queue, every queued event is in the table.
QueuedEventsAreTracked ==
  \A e \in Events : fate[e] = "queued" => \E i \in Slots : slots[i].event = e

=============================================================================
