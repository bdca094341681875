-------------------------- MODULE AgentLoopProofs --------------------------
(***************************************************************************)
(* Proofs about AgentLoop: the router that works with the core is the      *)
(* router of EventRouter, so all that is proved about that one holds here, *)
(* and the core never answers a message whose cancel was confirmed.        *)
(***************************************************************************)
EXTENDS AgentLoop, EventRouterProofs

\* An event is published for one request only.
OutputsDiffer ==
  \A e, f \in AgentEvents : \A m \in DOMAIN Outputs[e], n \in DOMAIN Outputs[f] :
    Outputs[e][m] = Outputs[f][n] => e = f

\* The core works only on events that the router has processed and sent to it, and nothing
\* is published for the others.
CoreInv ==
  /\ asked \subseteq AgentEvents
  /\ \A e \in asked : fate[e] = "processed"
  /\ requestQ \in Seq(Events)
  /\ \A n \in 1 .. Len(requestQ) : requestQ[n] \in asked
  /\ rpc \in {"asking", "agent"} => event \in asked
  /\ job \in asked \cup {NoEvent}
  /\ wpc # "idle" => job \in asked
  /\ said \in Nat
  /\ served \subseteq asked
  /\ \A e \in AgentEvents \ asked : \A n \in DOMAIN Outputs[e] : fate[Outputs[e][n]] = "new"

-----------------------------------------------------------------------------
(* Every step of the two is a step of the router, or none.                 *)

\* What the core does to the router it does by publishing.
LEMMA LoopStepIsRouterStep == [LoopNext]_loopVars => [Next]_vars
<1> SUFFICES ASSUME [LoopNext]_loopVars PROVE [Next]_vars
  OBVIOUS
<1>1. CASE RouterAlone
  BY <1>1 DEF RouterAlone, Next, RouterStep, Events
<1>2. CASE RouterSubmits
  BY <1>2 DEF RouterSubmits, RuleAsks, RulesEnd, Submitted, NotSubmitted, Next, RouterStep
<1>3. CASE WorkerStep
  <2>1. CASE Say
    <3>1. PICK n \in said + 1 .. Len(Outputs[job]) : Publish(Outputs[job][n])
      BY <2>1 DEF Say
    <3>2. Outputs[job][n] \in Events
      BY <3>1 DEF Publish, Events
    <3> QED
      BY <3>1, <3>2 DEF Next
  <2>2. CASE TakeJob \/ Said \/ ManageRules \/ EndJob
    BY <2>2 DEF TakeJob, Said, ManageRules, EndJob
  <2> QED
    BY <1>3, <2>1, <2>2 DEF WorkerStep
<1>4. CASE UNCHANGED loopVars
  BY <1>4 DEF loopVars
<1> QED
  BY <1>1, <1>2, <1>3, <1>4 DEF LoopNext

\* The router inside the loop is the router of EventRouter.
THEOREM LoopImplementsRouter == LoopSpec => Spec
<1>1. LoopInit => Init
  BY DEF LoopInit
<1> QED
  BY <1>1, LoopStepIsRouterStep, PTL DEF LoopSpec, Spec

-----------------------------------------------------------------------------
(* The core works on processed events only.                                *)

\* A processed event stays processed.
LEMMA ProcessedStays ==
  ASSUME IInv, [Next]_vars, NEW e \in Events, fate[e] = "processed"
  PROVE  fate'[e] = "processed"
<1>0. TypeOK /\ QueueInv /\ EventInv
  BY DEF IInv
<1> USE DEF TypeOK
<1>1. ASSUME NEW f \in Events, PublishStep(f) PROVE fate'[e] = "processed"
  BY <1>0, <1>1 DEF PublishStep, Publish, Emit, Send, SendExpires, GiveUp
<1>2. CASE CancelStep
  BY <1>2, CancelArms
<1>3. CASE TakeEvent
  BY <1>0, <1>3 DEF TakeEvent, QueueInv
<1>4. CASE SkipCancelled \/ BeginProcessing
  BY <1>0, <1>4 DEF SkipCancelled, BeginProcessing, EventInv
<1>5. CASE FinishEvent \/ AskAgent \/ AgentAsked \/ LeaveLoop \/ EndTask
  BY <1>5 DEF FinishEvent, AskAgent, AgentAsked, LeaveLoop, EndTask
<1>6. CASE Start \/ Stop \/ StopReturns \/ UNCHANGED vars
  BY <1>6 DEF Start, Stop, StopReturns, vars
<1> QED
  BY <1>1, <1>2, <1>3, <1>4, <1>5, <1>6 DEF Next, PublishStep, CancelStep, RouterStep

\* Nothing is published for an event that has not been sent to the core.
LEMMA OutputStaysNew ==
  ASSUME OutputsDiffer, IInv, CoreInv, [LoopNext]_loopVars,
         NEW e \in AgentEvents \ asked, NEW n \in DOMAIN Outputs[e]
  PROVE  fate'[Outputs[e][n]] = "new"
<1> DEFINE o == Outputs[e][n]
<1>0. TypeOK /\ QueueInv /\ EventInv
  BY DEF IInv
<1>1. o \in TaskEvents /\ o \in Events /\ o \in OutputEvents /\ o \notin RuleEvents
  <2>1. o \in TaskEvents
    BY AgentLoopAssumption DEF AgentLoopAssumption
  <2>2. o \in OutputEvents
    BY DEF OutputEvents
  <2> QED
    BY <2>1, <2>2, EventRouterAssumption DEF Events, EventRouterAssumption
<1>2. fate[o] = "new"
  BY DEF CoreInv
<1> SUFFICES fate'[o] = "new"
  OBVIOUS
<1> HIDE DEF o
<1> USE DEF TypeOK
<1>3. CASE RouterAlone
  <2>1. ASSUME NEW f \in TaskEvents \ OutputEvents, Publish(f) PROVE fate'[o] = "new"
    BY <1>0, <1>1, <1>2, <2>1 DEF Publish
  <2>2. ASSUME NEW f \in Events, Emit(f) \/ Send(f) \/ SendExpires(f) \/ GiveUp(f)
        PROVE  fate'[o] = "new"
    BY <1>0, <1>1, <1>2, <2>2 DEF Emit, Send, SendExpires, GiveUp
  <2>3. CASE CancelStep
    BY <1>2, <2>3, CancelArms
  <2>4. CASE TakeEvent
    BY <1>0, <1>1, <1>2, <2>4 DEF TakeEvent, QueueInv
  <2>5. CASE SkipCancelled \/ BeginProcessing
    BY <1>0, <1>1, <1>2, <2>5 DEF SkipCancelled, BeginProcessing, EventInv
  <2>6. CASE LeaveLoop \/ EndTask \/ Start \/ Stop \/ StopReturns
    BY <1>2, <2>6 DEF LeaveLoop, EndTask, Start, Stop, StopReturns
  <2> QED
    BY <1>3, <2>1, <2>2, <2>3, <2>4, <2>5, <2>6 DEF RouterAlone, CancelStep
<1>4. CASE RouterSubmits
  BY <1>2, <1>4 DEF RouterSubmits, RuleAsks, RulesEnd, Submitted, NotSubmitted,
       AskAgent, FinishEvent, AgentAsked
<1>5. CASE Say
  <2>1. PICK m \in said + 1 .. Len(Outputs[job]) : Publish(Outputs[job][m])
    BY <1>5 DEF Say
  <2>2. job \in asked /\ job \in AgentEvents
    BY <1>5 DEF Say, CoreInv
  <2>3. m \in DOMAIN Outputs[job]
    BY <2>2, AgentLoopAssumption DEF AgentLoopAssumption, CoreInv
  <2>4. o # Outputs[job][m]
    BY <2>2, <2>3 DEF OutputsDiffer, o
  <2> QED
    BY <1>0, <1>1, <1>2, <2>1, <2>4 DEF Publish
<1>6. CASE TakeJob \/ Said \/ ManageRules \/ EndJob
  BY <1>2, <1>6 DEF TakeJob, Said, ManageRules, EndJob, vars
<1>7. CASE UNCHANGED loopVars
  BY <1>2, <1>7 DEF loopVars, vars
<1> QED
  BY <1>3, <1>4, <1>5, <1>6, <1>7 DEF LoopNext, WorkerStep, o

\* Every step keeps the core to the events that were sent to it.
LEMMA CoreStep ==
  ASSUME OutputsDiffer, IInv, CoreInv, [LoopNext]_loopVars
  PROVE  CoreInv'
<1>0. TypeOK /\ EventInv /\ AgentEvents \subseteq Events /\ NoEvent \notin Events
  BY EventRouterAssumption, AgentLoopAssumption
     DEF IInv, EventRouterAssumption, AgentLoopAssumption
<1>1. \A e \in Events : fate[e] = "processed" => fate'[e] = "processed"
  BY ProcessedStays, LoopStepIsRouterStep
<1>2. \A e \in AgentEvents \ asked : \A n \in DOMAIN Outputs[e] : fate'[Outputs[e][n]] = "new"
  BY OutputStaysNew
<1> USE <1>0, <1>1, <1>2 DEF CoreInv, coreVars
<1>3. CASE RouterAlone /\ UNCHANGED coreVars
  <2>1. rpc' \in {"asking", "agent"} => rpc \in {"asking", "agent"} /\ event' = event
    <3>1. ASSUME NEW f \in Events, PublishStep(f)
          PROVE  event' = event /\ (rpc' = rpc \/ rpc' \in {"rules", "emitting"})
      BY <3>1 DEF PublishStep, Publish, Emit, Send, SendExpires, GiveUp, ResumeRules
    <3>2. CASE CancelStep
      BY <3>2, CancelArms
    <3>3. CASE TakeEvent \/ SkipCancelled \/ BeginProcessing \/ LeaveLoop \/ EndTask
      BY <3>3 DEF TakeEvent, SkipCancelled, BeginProcessing, LeaveLoop, EndTask
    <3>4. CASE Start \/ Stop \/ StopReturns
      BY <3>4 DEF Start, Stop, StopReturns
    <3> QED
      BY <1>3, <3>1, <3>2, <3>3, <3>4 DEF RouterAlone, PublishStep, CancelStep, Events
  <2> QED
    BY <1>3, <2>1
<1>4. CASE RuleAsks
  BY <1>4 DEF RuleAsks, AskAgent, EventInv
<1>5. CASE RulesEnd
  BY <1>5 DEF RulesEnd, FinishEvent, EventInv
<1>6. CASE Submitted
  BY <1>6 DEF Submitted, AgentAsked
<1>7. CASE NotSubmitted
  BY <1>7 DEF NotSubmitted, AgentAsked
<1>8. CASE TakeJob
  BY <1>8 DEF TakeJob, vars
<1>9. CASE Say
  BY <1>9 DEF Say, Publish
<1>10. CASE Said \/ ManageRules
  BY <1>10 DEF Said, ManageRules, vars
<1>11. CASE EndJob
  BY <1>11 DEF EndJob, vars
<1>12. CASE UNCHANGED loopVars
  BY <1>12 DEF loopVars, vars
<1> QED
  BY <1>3, <1>4, <1>5, <1>6, <1>7, <1>8, <1>9, <1>10, <1>11, <1>12
     DEF LoopNext, RouterSubmits, WorkerStep

\* Before the first event the core has nothing to do.
LEMMA InitCoreInv == LoopInit => CoreInv
BY AgentLoopAssumption, EventRouterAssumption
   DEF LoopInit, Init, CoreInv, AgentLoopAssumption, EventRouterAssumption, Events

\* When an event is published for one request only, the core keeps to its requests.
LEMMA CoreInvHolds == ASSUME OutputsDiffer PROVE LoopSpec => []CoreInv
<1>1. IInv /\ CoreInv /\ [LoopNext]_loopVars => CoreInv'
  BY CoreStep
<1>2. LoopSpec => []IInv
  BY LoopImplementsRouter, IInvHolds, PTL
<1> QED
  BY <1>1, <1>2, InitCoreInv, PTL DEF LoopSpec

-----------------------------------------------------------------------------
(* The theorems.                                                           *)

\* With the core at work too the event queue and all else of the router keeps its bounds.
THEOREM LoopTypeCorrect == LoopSpec => []TypeOK
BY LoopImplementsRouter, TypeCorrect, PTL

\* The core's notes and answers leave the table exact.
THEOREM LoopTableExact == ASSUME IdsDiffer, TableHasRoom PROVE LoopSpec => []TableIsExact
BY LoopImplementsRouter, TableStaysExact, PTL

\* With ids that differ and room in the table, the agent neither works on a message whose
\* cancel was confirmed nor publishes anything for it.
THEOREM CancelledStaysUnanswered ==
  ASSUME IdsDiffer, TableHasRoom, OutputsDiffer
  PROVE  LoopSpec => []CancelledUnanswered
<1>1. CancelHonoured /\ CoreInv => CancelledUnanswered
  <2> SUFFICES ASSUME CancelHonoured, CoreInv, NEW e \in armed \cap AgentEvents
               PROVE  /\ job # e /\ e \notin served
                      /\ \A n \in DOMAIN Outputs[e] : fate[Outputs[e][n]] = "new"
    BY DEF CancelledUnanswered
  <2>1. e \notin asked /\ e # NoEvent
    BY EventRouterAssumption, AgentLoopAssumption
       DEF CancelHonoured, CoreInv, EventRouterAssumption, AgentLoopAssumption
  <2> QED
    BY <2>1 DEF CoreInv
<1>2. LoopSpec => []CancelHonoured
  BY LoopImplementsRouter, CancelsAreHonoured, PTL
<1> QED
  BY <1>1, <1>2, CoreInvHolds, PTL

=============================================================================
