--------------------------- MODULE ClawCoreProofs ---------------------------
(***************************************************************************)
(* Proofs about ClawCore, for every number of clients, requests, queue     *)
(* slots, tool rounds, providers and observers.                            *)
(***************************************************************************)
EXTENDS ClawCore, TLAPS

\* What the worker's program counter says about its locals and about the request
\* that can be cancelled.
WorkerInv ==
  /\ cur = NoId <=> wpc = "idle"
  /\ inflight = IF wpc \in {"context", "llm", "tools", "complete", "finish"}
                  THEN cur ELSE NoId
  /\ abort => inflight # NoId /\ inflight \in armed
  /\ wpc \in {"idle", "taken"} => iteration = 0 /\ reply = "none" /\ err = FALSE
  /\ wpc \in {"context", "llm", "tools"} => iteration < MaxToolIterations /\ reply = "none"
  /\ wpc = "complete" => reply \in {"text", "empty"}
  /\ wpc \in {"finish", "publish", "push"} => reply # "none"
  /\ reply = "cancelled" => cur \in armed
  /\ wpc \in {"finish", "publish", "push"} /\ reply = "text" /\ cur[1] \notin Sessionless
       => cur \in turns

\* A client that is inside submit or receive_for has made a request.
ClientInv ==
  \A c \in Clients : cpc[c] # "idle" => asked[c] \in 1 .. MaxAsks[c]

\* The inductive invariant.
IInv ==
  /\ TypeOK
  /\ WorkerInv
  /\ ClientInv
  /\ CancelledOnlyOnDemand
  /\ TurnBeforeReply
  /\ LockHeldWhileReceiving
  /\ NoAnswerOverlooked

-----------------------------------------------------------------------------
(* Facts about the constants and the data.                                 *)

\* The request a client is making is one of the requests of the model.
LEMMA CurrentIsId ==
  ASSUME NEW c \in Clients, asked[c] \in 1 .. MaxAsks[c]
  PROVE  Current(c) \in Ids
BY DEF Current, Ids, IdsOf

\* Unlinking one answer of the pending list leaves a list of answers.
LEMMA RemoveAtType ==
  ASSUME NEW S, NEW s \in Seq(S), NEW i \in 1 .. Len(s)
  PROVE  RemoveAt(s, i) \in Seq(S)
BY DEF RemoveAt

\* The core as claw_core_init finds it satisfies the invariant.
LEMMA InitIInv == Init => IInv
<1> SUFFICES ASSUME Init PROVE IInv
  OBVIOUS
<1> USE ClawCoreAssumption DEF ClawCoreAssumption, Init, Quiet
<1>1. TypeOK
  <2>1. RegistryTypeOK /\ QueueTypeOK
    BY DEF RegistryTypeOK, QueueTypeOK
  <2>2. WorkerTypeOK
    <3>1. abort \in BOOLEAN /\ err \in BOOLEAN
      BY Zenon
    <3> QED
      BY <3>1 DEF WorkerTypeOK
  <2>3. ClientTypeOK
    BY DEF ClientTypeOK
  <2>4. HistoryTypeOK
    BY DEF HistoryTypeOK
  <2> QED
    BY <2>1, <2>2, <2>3, <2>4 DEF TypeOK
<1>2. WorkerInv /\ ClientInv
  BY DEF WorkerInv, ClientInv
<1>3. CancelledOnlyOnDemand /\ TurnBeforeReply
  BY DEF CancelledOnlyOnDemand, TurnBeforeReply
<1>4. LockHeldWhileReceiving /\ NoAnswerOverlooked
  BY DEF LockHeldWhileReceiving, NoAnswerOverlooked, Clients
<1> QED
  BY <1>1, <1>2, <1>3, <1>4 DEF IInv

-----------------------------------------------------------------------------
(* Every step keeps the types.                                             *)

\* Every step of the worker, of a client and of a cancelling task keeps the types.
LEMMA TypeStep == TypeOK /\ WorkerInv /\ ClientInv /\ [Next]_vars => TypeOK'
<1> SUFFICES ASSUME TypeOK, WorkerInv, ClientInv, [Next]_vars PROVE TypeOK'
  OBVIOUS
<1> USE ClawCoreAssumption DEF ClawCoreAssumption, TypeOK, RegistryTypeOK, QueueTypeOK,
      WorkerTypeOK,
      ClientTypeOK, HistoryTypeOK, registryVars, queueVars, workerVars, clientVars, historyVars
<1>1. CASE InitCore
  BY <1>1 DEF InitCore
<1>2. CASE StartCore
  BY <1>2 DEF StartCore
<1>3. CASE AddContextProvider
  BY <1>3 DEF AddContextProvider
<1>4. CASE AddObserver
  BY <1>4 DEF AddObserver
<1>5. CASE TakeRequest
  BY <1>5 DEF TakeRequest
<1>6. CASE ArmRequest
  BY <1>6 DEF ArmRequest, Replies, Errors
<1>7. CASE BuildContext
  BY <1>7 DEF BuildContext, Replies, Errors
<1>8. CASE LlmAnswers
  BY <1>8 DEF LlmAnswers, Replies, Errors
<1>9. CASE LlmFails
  BY <1>9 DEF LlmFails, Replies, Errors
<1>10. CASE RunTools
  <2>1. iteration' \in 0 .. MaxToolIterations
    BY <1>10 DEF RunTools, WorkerInv
  <2>2. err' \in BOOLEAN /\ abort' \in BOOLEAN
    BY <1>10, Zenon DEF RunTools
  <2>3. wpc' \in {"context", "finish"} /\ reply' \in Replies \cup {"none"}
    BY <1>10 DEF RunTools, Replies, Errors
  <2> QED
    BY <1>10, <2>1, <2>2, <2>3 DEF RunTools
<1>11. CASE CompleteRequest
  BY <1>11 DEF CompleteRequest, WorkerInv
<1>12. CASE FinishRequest
  BY <1>12 DEF FinishRequest, Replies, Errors
<1>13. CASE PublishReply
  <2>1. cur \in Ids /\ reply \in Replies
    BY <1>13 DEF PublishReply, WorkerInv
  <2>2. HistoryTypeOK'
    BY <1>13, <2>1 DEF PublishReply, Dispose
  <2>3. WorkerTypeOK'
    <3>1. abort' \in BOOLEAN /\ err' \in BOOLEAN
      BY <1>13, Zenon DEF PublishReply, Dispose
    <3> QED
      BY <1>13, <3>1 DEF PublishReply, Dispose
  <2>4. QueueTypeOK'
    BY <1>13, <2>1 DEF PublishReply, Dispose
  <2> QED
    BY <1>13, <2>2, <2>3, <2>4 DEF PublishReply, Dispose
<1>14. CASE PushReply
  <2>1. cur \in Ids /\ reply \in Replies
    BY <1>14 DEF PushReply, WorkerInv
  <2>2. HistoryTypeOK'
    BY <1>14, <2>1 DEF PushReply, Dispose
  <2>3. WorkerTypeOK'
    <3>1. abort' \in BOOLEAN /\ err' \in BOOLEAN
      BY <1>14, Zenon DEF PushReply, Dispose
    <3> QED
      BY <1>14, <3>1 DEF PushReply, Dispose
  <2>4. QueueTypeOK'
    BY <1>14, <2>1 DEF PushReply, Dispose
  <2> QED
    BY <1>14, <2>2, <2>3, <2>4 DEF PushReply, Dispose
<1>15. ASSUME NEW id \in Ids \cup {AnyId}, CancelRequest(id) PROVE TypeOK'
  BY <1>15 DEF CancelRequest
<1>16. ASSUME NEW c \in Clients, Submit(c) PROVE TypeOK'
  BY <1>16 DEF Submit
<1>17. ASSUME NEW c \in Clients, Accepted(c) PROVE TypeOK'
  BY <1>17, CurrentIsId DEF Accepted, ClientInv
<1>18. ASSUME NEW c \in Clients, Refused(c) PROVE TypeOK'
  BY <1>18, CurrentIsId DEF Refused, ClientInv
<1>19. ASSUME NEW c \in Callers, CallReceive(c) PROVE TypeOK'
  BY <1>19, CurrentIsId DEF CallReceive, ClientInv, Clients
<1>20. ASSUME NEW c \in Callers, ReceivePending(c) PROVE TypeOK'
  BY <1>20, RemoveAtType DEF ReceivePending, HandOver, Clients
<1>21. ASSUME NEW c \in Callers, LockResponses(c) PROVE TypeOK'
  BY <1>21 DEF LockResponses, Clients
<1>22. ASSUME NEW c \in Callers, ReceiveMatch(c) PROVE TypeOK'
  BY <1>22 DEF ReceiveMatch, HandOver, Clients
<1>23. ASSUME NEW c \in Callers, ReceiveOther(c) PROVE TypeOK'
  <2>1. Head(responseQ) \in Ids /\ Tail(responseQ) \in Seq(Ids)
        /\ Len(Tail(responseQ)) <= ResponseQueueLen
    BY <1>23 DEF ReceiveOther
  <2>2. pending' \in Seq(Ids)
    <3>1. pending' = Append(pending, Head(responseQ)) \/ pending' = pending
      BY <1>23 DEF ReceiveOther
    <3>2. Append(pending, Head(responseQ)) \in Seq(Ids)
      BY <2>1
    <3> QED
      BY <3>1, <3>2
  <2>3. QueueTypeOK'
    <3>1. responseQ' = Tail(responseQ) /\ UNCHANGED <<requestQ, lock>>
      BY <1>23 DEF ReceiveOther
    <3> QED
      BY <3>1, <2>1, <2>2
  <2>4. HistoryTypeOK'
    <3>1. /\ fate' = fate \/ fate' = [fate EXCEPT ![Head(responseQ)] = "lost"]
          /\ UNCHANGED <<result, armed, turns, observed>>
      BY <1>23 DEF ReceiveOther
    <3>2. fate' \in [Ids -> {"new", "open", "refused", "returned", "lost", "skipped"}]
      BY <2>1, <3>1
    <3> QED
      BY <3>1, <3>2
  <2> QED
    BY <1>23, <2>3, <2>4 DEF ReceiveOther
<1>24. ASSUME NEW c \in Callers, ReceiveTimeout(c) PROVE TypeOK'
  BY <1>24 DEF ReceiveTimeout, Clients
<1>25. CASE UNCHANGED vars
  BY <1>25 DEF vars
<1> QED
  BY <1>1, <1>2, <1>3, <1>4, <1>5, <1>6, <1>7, <1>8, <1>9, <1>10, <1>11, <1>12, <1>13,
     <1>14, <1>15, <1>16, <1>17, <1>18, <1>19, <1>20, <1>21, <1>22, <1>23, <1>24,
     <1>25 DEF Next, WorkerStep, ReceiveStep

-----------------------------------------------------------------------------
(* Every step keeps the worker's invariant.                                *)

\* Every step keeps the worker's locals, the abort flag and the request in flight in step.
LEMMA WorkerStepInv == TypeOK /\ WorkerInv /\ [Next]_vars => WorkerInv'
<1> SUFFICES ASSUME TypeOK, WorkerInv, [Next]_vars PROVE WorkerInv'
  OBVIOUS
<1> USE DEF WorkerInv, registryVars, queueVars, workerVars, clientVars, historyVars
<1>1. CASE UNCHANGED <<inflight, abort, workerVars, armed, turns>>
  BY <1>1
<1>2. CASE TakeRequest
  BY <1>2, ClawCoreAssumption DEF TakeRequest, ClawCoreAssumption, TypeOK, QueueTypeOK,
     WorkerTypeOK
<1>3. CASE ArmRequest
  BY <1>3, ClawCoreAssumption DEF ArmRequest, ClawCoreAssumption, TypeOK, QueueTypeOK,
     WorkerTypeOK
<1>4. CASE BuildContext
  BY <1>4 DEF BuildContext
<1>5. CASE LlmAnswers
  BY <1>5 DEF LlmAnswers
<1>6. CASE LlmFails
  BY <1>6 DEF LlmFails
<1>7. CASE RunTools
  BY <1>7, ClawCoreAssumption DEF RunTools, ClawCoreAssumption, TypeOK, QueueTypeOK, WorkerTypeOK
<1>8. CASE CompleteRequest
  BY <1>8 DEF CompleteRequest
<1>9. CASE FinishRequest
  BY <1>9 DEF FinishRequest
<1>10. CASE PublishReply
  BY <1>10 DEF PublishReply, Dispose
<1>11. CASE PushReply
  BY <1>11 DEF PushReply, Dispose
<1>12. ASSUME NEW id \in Ids \cup {AnyId}, CancelRequest(id) PROVE WorkerInv'
  BY <1>12 DEF CancelRequest
<1> QED
  BY <1>1, <1>2, <1>3, <1>4, <1>5, <1>6, <1>7, <1>8, <1>9, <1>10, <1>11, <1>12
  DEF Next, WorkerStep, ReceiveStep, vars,
      InitCore, StartCore, AddContextProvider, AddObserver, Submit, Accepted, Refused,
      CallReceive, ReceivePending, LockResponses, ReceiveMatch, ReceiveOther,
      ReceiveTimeout, HandOver

\* A client leaves "idle" only by making a request.
LEMMA ClientStepInv == TypeOK /\ ClientInv /\ [Next]_vars => ClientInv'
<1> SUFFICES ASSUME TypeOK, ClientInv, [Next]_vars PROVE ClientInv'
  OBVIOUS
<1> USE DEF TypeOK, ClientTypeOK, ClientInv, registryVars, queueVars, workerVars,
      clientVars, historyVars
<1>1. CASE UNCHANGED clientVars
  BY <1>1
<1>2. ASSUME NEW c \in Clients, Submit(c) PROVE ClientInv'
  <2>1. asked[c] + 1 \in 1 .. MaxAsks[c]
    <3>1. asked[c] < MaxAsks[c]
      BY <1>2 DEF Submit
    <3>2. asked[c] \in Nat /\ MaxAsks[c] \in Nat
      BY ClawCoreAssumption DEF ClawCoreAssumption
    <3> HIDE DEF TypeOK, ClientInv
    <3> QED
      BY <3>1, <3>2
  <2>2. asked' = [asked EXCEPT ![c] = asked[c] + 1] /\ cpc' = [cpc EXCEPT ![c] = "sending"]
    BY <1>2 DEF Submit
  <2> QED
    BY <2>1, <2>2
<1>3. ASSUME NEW c \in Clients, Accepted(c) \/ Refused(c) PROVE ClientInv'
  BY <1>3 DEF Accepted, Refused
<1>4. ASSUME NEW c \in Callers, ReceiveStep(c) \/ ReceiveTimeout(c) PROVE ClientInv'
  BY <1>4 DEF ReceiveStep, CallReceive, ReceivePending, LockResponses, ReceiveMatch,
              ReceiveOther, ReceiveTimeout, HandOver, Clients
<1> QED
  BY <1>1, <1>2, <1>3, <1>4
  DEF Next, WorkerStep, vars, InitCore, StartCore, AddContextProvider, AddObserver,
      CancelRequest, TakeRequest, ArmRequest, BuildContext, LlmAnswers, LlmFails, RunTools,
      CompleteRequest, FinishRequest, PublishReply, PushReply

-----------------------------------------------------------------------------
(* Every step keeps what the history says about cancels and session turns. *)

\* A cancelled answer was asked for, and a text answer has its turn stored.
LEMMA HistoryStep ==
  TypeOK /\ WorkerInv /\ CancelledOnlyOnDemand /\ TurnBeforeReply /\ [Next]_vars
    => CancelledOnlyOnDemand' /\ TurnBeforeReply'
<1> SUFFICES ASSUME TypeOK, WorkerInv, CancelledOnlyOnDemand, TurnBeforeReply, [Next]_vars
             PROVE  CancelledOnlyOnDemand' /\ TurnBeforeReply'
  OBVIOUS
<1> USE DEF CancelledOnlyOnDemand, TurnBeforeReply,
            registryVars, queueVars, workerVars, clientVars, historyVars
<1>1. CASE UNCHANGED <<result, armed, turns>>
  BY <1>1
<1>2. ASSUME NEW id \in Ids \cup {AnyId}, CancelRequest(id)
      PROVE  CancelledOnlyOnDemand' /\ TurnBeforeReply'
  BY <1>2 DEF CancelRequest
<1>3. CASE CompleteRequest
  BY <1>3 DEF CompleteRequest
<1>4. CASE PublishReply \/ PushReply
  <2>1. /\ result' = [result EXCEPT ![cur] = reply]
        /\ UNCHANGED <<armed, turns>>
        /\ reply = "cancelled" => cur \in armed
        /\ reply = "text" /\ cur[1] \notin Sessionless => cur \in turns
    BY <1>4 DEF PublishReply, PushReply, Dispose, WorkerInv
  <2> QED
    BY <2>1 DEF TypeOK, HistoryTypeOK
<1> QED
  BY <1>1, <1>2, <1>3, <1>4
  DEF Next, WorkerStep, ReceiveStep, vars, InitCore, StartCore, AddContextProvider, AddObserver,
      Submit, Accepted, Refused, TakeRequest, ArmRequest, BuildContext, LlmAnswers, LlmFails,
      RunTools, FinishRequest, CallReceive, ReceivePending, LockResponses, ReceiveMatch,
      ReceiveOther, ReceiveTimeout, HandOver

-----------------------------------------------------------------------------
(* Every step keeps response_lock with the caller that waits on the queue. *)

\* Every way into and out of receive_for keeps response_lock with the waiting caller.
LEMMA LockStep == TypeOK /\ LockHeldWhileReceiving /\ [Next]_vars => LockHeldWhileReceiving'
<1> SUFFICES ASSUME TypeOK, LockHeldWhileReceiving, [Next]_vars PROVE LockHeldWhileReceiving'
  OBVIOUS
<1> USE ClawCoreAssumption DEF ClawCoreAssumption, LockHeldWhileReceiving, Clients,
      registryVars, queueVars, workerVars, clientVars, historyVars
<1>0. cpc \in [Clients -> {"idle", "sending", "submitted", "locking", "receiving"}]
  BY DEF TypeOK, ClientTypeOK
<1>1. CASE UNCHANGED <<lock, cpc>>
  BY <1>1
<1>2. ASSUME NEW c \in Clients, Submit(c) \/ Accepted(c) \/ Refused(c)
      PROVE  LockHeldWhileReceiving'
  BY <1>2, <1>0 DEF Submit, Accepted, Refused
<1>3. ASSUME NEW c \in Callers, CallReceive(c) \/ ReceivePending(c)
      PROVE  LockHeldWhileReceiving'
  BY <1>3, <1>0 DEF CallReceive, ReceivePending, HandOver
<1>4. ASSUME NEW c \in Callers, LockResponses(c)
      PROVE  LockHeldWhileReceiving'
  BY <1>4, <1>0 DEF LockResponses
<1>5. ASSUME NEW c \in Callers, ReceiveMatch(c) \/ ReceiveTimeout(c)
      PROVE  LockHeldWhileReceiving'
  BY <1>5, <1>0 DEF ReceiveMatch, ReceiveTimeout, HandOver
<1> QED
  BY <1>1, <1>2, <1>3, <1>4, <1>5
  DEF Next, WorkerStep, ReceiveStep, vars, InitCore, StartCore, AddContextProvider, AddObserver,
      CancelRequest, TakeRequest, ArmRequest, BuildContext, LlmAnswers, LlmFails, RunTools,
      CompleteRequest, FinishRequest, PublishReply, PushReply, ReceiveOther

\* Only the holder of response_lock waits, so an answer set aside cannot be one that
\* another waiting caller is looking for.
LEMMA OverlookStep ==
  TypeOK /\ LockHeldWhileReceiving /\ NoAnswerOverlooked /\ [Next]_vars => NoAnswerOverlooked'
<1> SUFFICES ASSUME TypeOK, LockHeldWhileReceiving, NoAnswerOverlooked, [Next]_vars
             PROVE  NoAnswerOverlooked'
  OBVIOUS
<1> USE ClawCoreAssumption DEF ClawCoreAssumption, NoAnswerOverlooked, Matches, Clients,
      registryVars, queueVars, workerVars, clientVars, historyVars
<1>0. /\ cpc \in [Clients -> {"idle", "sending", "submitted", "locking", "receiving"}]
      /\ want \in [Callers -> Ids \cup {NoId, AnyId}]
      /\ pending \in Seq(Ids)
  BY DEF TypeOK, ClientTypeOK, QueueTypeOK
<1>1. CASE UNCHANGED <<pending, want, cpc>>
  BY <1>1
<1>2. ASSUME NEW c \in Clients, Submit(c) \/ Accepted(c) \/ Refused(c)
      PROVE  NoAnswerOverlooked'
  BY <1>2, <1>0 DEF Submit, Accepted, Refused
<1>3. ASSUME NEW c \in Callers,
             CallReceive(c) \/ LockResponses(c) \/ ReceiveMatch(c) \/ ReceiveTimeout(c)
      PROVE  NoAnswerOverlooked'
  BY <1>3, <1>0 DEF CallReceive, LockResponses, ReceiveMatch, ReceiveTimeout, HandOver
<1>4. ASSUME NEW c \in Callers, ReceivePending(c)
      PROVE  NoAnswerOverlooked'
  <2>1. \A d \in Callers : cpc[d] # "receiving"
    BY <1>4 DEF ReceivePending, LockHeldWhileReceiving
  <2>2. \A d \in Callers : cpc'[d] # "receiving"
    BY <1>4, <1>0, <2>1 DEF ReceivePending, HandOver
  <2> QED
    BY <2>2
<1>5. ASSUME NEW c \in Callers, ReceiveOther(c)
      PROVE  NoAnswerOverlooked'
  <2>1. \A d \in Callers : cpc[d] = "receiving" => d = c
    BY <1>5 DEF ReceiveOther, LockHeldWhileReceiving
  <2>2. CASE UNCHANGED pending
    BY <1>5, <2>2 DEF ReceiveOther
  <2>3. CASE pending' = Append(pending, Head(responseQ))
    <3>1. \A i \in 1 .. Len(pending') :
            pending'[i] = Head(responseQ) \/ \E j \in 1 .. Len(pending) : pending'[i] = pending[j]
      BY <2>3, <1>0
    <3>2. \A i \in 1 .. Len(pending') : ~Matches(c, pending'[i])
      BY <3>1, <1>5 DEF ReceiveOther
    <3>3. UNCHANGED <<cpc, want>>
      BY <1>5 DEF ReceiveOther
    <3> QED
      BY <2>1, <3>2, <3>3
  <2> QED
    BY <1>5, <2>2, <2>3 DEF ReceiveOther
<1> QED
  BY <1>1, <1>2, <1>3, <1>4, <1>5
  DEF Next, WorkerStep, ReceiveStep, vars, InitCore, StartCore, AddContextProvider, AddObserver,
      CancelRequest, TakeRequest, ArmRequest, BuildContext, LlmAnswers, LlmFails, RunTools,
      CompleteRequest, FinishRequest, PublishReply, PushReply

-----------------------------------------------------------------------------
(* The theorems.                                                           *)

\* The invariant is inductive.
LEMMA IInvStep == IInv /\ [Next]_vars => IInv'
BY TypeStep, WorkerStepInv, ClientStepInv, HistoryStep, LockStep, OverlookStep DEF IInv

\* The invariant holds in every behaviour of the core.
LEMMA IInvAlways == Spec => []IInv
<1>1. Init => IInv
  BY InitIInv
<1>2. IInv /\ [Next]_vars => IInv'
  BY IInvStep
<1> QED
  BY <1>1, <1>2, PTL DEF Spec

\* No sequence of calls takes a variable of the core out of its type: queues stay
\* within their configured lengths and a request never runs more tool rounds than
\* max_tool_iterations.
THEOREM TypeCorrect == Spec => []TypeOK
<1>1. IInv => TypeOK
  BY DEF IInv
<1> QED
  BY <1>1, IInvAlways, PTL

\* A request answered "request cancelled" is one that claw_core_cancel_request was told
\* to cancel while it was in flight.
THEOREM CancelledIsOnDemand == Spec => []CancelledOnlyOnDemand
<1>1. IInv => CancelledOnlyOnDemand
  BY DEF IInv
<1> QED
  BY <1>1, IInvAlways, PTL

\* append_session_turn has been called by the time a text answer leaves the worker.
THEOREM TurnIsBeforeReply == Spec => []TurnBeforeReply
<1>1. IInv => TurnBeforeReply
  BY DEF IInv
<1> QED
  BY <1>1, IInvAlways, PTL

\* response_lock is held by the caller that waits on the response queue, and by nobody
\* else: no path through claw_core_receive_for leaks it.
THEOREM LockIsHeldWhileReceiving == Spec => []LockHeldWhileReceiving
<1>1. IInv => LockHeldWhileReceiving
  BY DEF IInv
<1> QED
  BY <1>1, IInvAlways, PTL

\* No caller waits on the response queue while its answer is in the pending list.
THEOREM AnswersAreNotOverlooked == Spec => []NoAnswerOverlooked
<1>1. IInv => NoAnswerOverlooked
  BY DEF IInv
<1> QED
  BY <1>1, IInvAlways, PTL

=============================================================================
