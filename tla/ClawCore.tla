------------------------------ MODULE ClawCore ------------------------------
(***************************************************************************)
(* The agent core (components/claw_modules/claw_core): tasks submit        *)
(* requests to a bounded queue, one worker task runs each of them through  *)
(* context collection, LLM calls and tool rounds, and the answer travels   *)
(* back over a bounded response queue that the callers drain themselves,   *)
(* setting aside in a pending list the answers that are not theirs.        *)
(*                                                                         *)
(* One step stands for the code between two points where another task can  *)
(* interfere: a FreeRTOS queue operation, a critical section, a callback.  *)
(* Bounds of the model: MaxAsks[c] requests of client c, MaxProviders and  *)
(* MaxObservers registrations.                                             *)
(***************************************************************************)
EXTENDS Naturals, Sequences, FiniteSets, SequencesExt

CONSTANTS
  Callers,            \* tasks that submit and then receive (the console REPL)
  Routers,            \* tasks that submit with PUBLISH_OUT_MESSAGE | SKIP_RESPONSE_QUEUE
  AnyCallers,         \* the callers that use claw_core_receive (any answer)
  Sessionless,        \* clients that submit without a session id (ask_once)
  MaxAsks,            \* bound: how many requests each client makes
  RequestQueueLen,    \* config.request_queue_len
  ResponseQueueLen,   \* config.response_queue_len
  MaxToolIterations,  \* config.max_tool_iterations
  MaxProviders,       \* config.max_context_providers
  MaxObservers,       \* CLAW_CORE_MAX_COMPLETION_OBSERVERS
  HeapCanFail,        \* may an allocation fail?
  Impatient,          \* do the callers' timeouts expire?
  NoId, AnyId         \* request_id 0, as inflight_request_id and as an argument

Clients == Callers \cup Routers
IdsOf(c) == {c} \X (1 .. MaxAsks[c])
Ids == UNION {IdsOf(c) : c \in Clients}

ASSUME ClawCoreAssumption ==
  /\ Callers \cap Routers = {}
  /\ AnyCallers \subseteq Callers
  /\ MaxAsks \in [Clients -> Nat] /\ MaxProviders \in Nat /\ MaxObservers \in Nat
  /\ RequestQueueLen \in Nat \ {0}
  /\ ResponseQueueLen \in Nat \ {0}
  /\ MaxToolIterations \in Nat \ {0}
  /\ HeapCanFail \in BOOLEAN
  /\ Impatient \in BOOLEAN
  /\ NoId \notin Ids /\ AnyId \notin Ids /\ NoId # AnyId
  /\ NoId \notin Clients

VARIABLES
  boot,        \* initialized / started
  providers,   \* context_provider_count
  observers,   \* completion_observer_count
  requestQ,    \* request_queue
  responseQ,   \* response_queue
  pending,     \* pending_head .. pending_tail
  lock,        \* the holder of response_lock, NoId when free
  inflight,    \* inflight_request_id
  abort,       \* inflight_abort
  wpc,         \* where claw_core_task is
  cur,         \* the worker's local request
  iteration,   \* the worker's local iteration counter
  reply,       \* the worker's local response: "none" until it has a text or an error
  err,         \* the worker's local err is not ESP_OK
  cpc,         \* where each client is in submit or receive_for
  want,        \* the request_id each caller passed to receive_for
  asked,       \* how many requests each client has made
  \* history
  fate,        \* what became of each request, from its client's point of view
  result,      \* the answer the worker gave each request
  armed,       \* the requests claw_core_cancel_request was told to cancel, with ESP_OK
  turns,       \* the requests handed to append_session_turn
  observed     \* the requests reported to the completion observers

registryVars == <<boot, providers, observers>>
queueVars    == <<requestQ, responseQ, pending, lock>>
workerVars   == <<wpc, cur, iteration, reply, err>>
clientVars   == <<cpc, want, asked>>
historyVars  == <<fate, result, armed, turns, observed>>
vars == <<registryVars, queueVars, inflight, abort, workerVars, clientVars, historyVars>>

Silent  == UNION {IdsOf(c) : c \in Routers}
Errors  == {"failed", "cancelled"}
Replies == {"text", "empty"} \cup Errors

\* Nothing has been asked yet: the core is in boot state b and has n observers.
Quiet(b, n) ==
  /\ boot = b /\ providers = 0 /\ observers = n
  /\ requestQ = <<>> /\ responseQ = <<>> /\ pending = <<>> /\ lock = NoId
  /\ inflight = NoId /\ abort = FALSE
  /\ wpc = "idle" /\ cur = NoId /\ iteration = 0 /\ reply = "none" /\ err = FALSE
  /\ cpc = [c \in Clients |-> "idle"]
  /\ want = [c \in Callers |-> NoId]
  /\ asked = [c \in Clients |-> 0]
  /\ fate = [id \in Ids |-> "new"]
  /\ result = [id \in Ids |-> "none"]
  /\ armed = {} /\ turns = {} /\ observed = {}

Init == Quiet("down", 0)

-----------------------------------------------------------------------------
(* Boot and registration.                                                  *)

\* claw_core_init; when it fails everything it made is freed and nothing changes.
InitCore ==
  /\ boot = "down"
  /\ boot' = "initialized"
  /\ UNCHANGED <<providers, observers, queueVars, inflight, abort, workerVars,
                 clientVars, historyVars>>

\* claw_core_start; a second call changes nothing.
StartCore ==
  /\ boot = "initialized"
  /\ boot' = "started"
  /\ UNCHANGED <<providers, observers, queueVars, inflight, abort, workerVars,
                 clientVars, historyVars>>

\* claw_core_add_context_provider: refused once the worker runs.
AddContextProvider ==
  /\ boot = "initialized"
  /\ providers < MaxProviders
  /\ providers' = providers + 1
  /\ UNCHANGED <<boot, observers, queueVars, inflight, abort, workerVars,
                 clientVars, historyVars>>

\* claw_core_add_completion_observer
AddObserver ==
  /\ boot # "down"
  /\ observers < MaxObservers
  /\ observers' = observers + 1
  /\ UNCHANGED <<boot, providers, queueVars, inflight, abort, workerVars,
                 clientVars, historyVars>>

-----------------------------------------------------------------------------
(* claw_core_submit.                                                       *)

Current(c) == <<c, asked[c]>>

\* Up to the call of xQueueSend: the request is copied and has its id.
Submit(c) ==
  /\ boot = "started"
  /\ cpc[c] = "idle"
  /\ asked[c] < MaxAsks[c]
  /\ asked' = [asked EXCEPT ![c] = @ + 1]
  /\ cpc' = [cpc EXCEPT ![c] = "sending"]
  /\ UNCHANGED <<registryVars, queueVars, inflight, abort, workerVars, want, historyVars>>

\* Mutant: xQueueSendToFront.
AcceptedAtFront(c) ==
  /\ cpc[c] = "sending"
  /\ Len(requestQ) < RequestQueueLen
  /\ requestQ' = <<Current(c)>> \o requestQ
  /\ cpc' = [cpc EXCEPT ![c] = IF c \in Callers THEN "submitted" ELSE "idle"]
  /\ fate' = [fate EXCEPT ![Current(c)] = "open"]
  /\ UNCHANGED <<registryVars, responseQ, pending, lock, inflight, abort, workerVars,
                 want, asked, result, armed, turns, observed>>

\* xQueueSend found room.  A router's task goes on; a caller goes on to receive.
Accepted(c) ==
  /\ cpc[c] = "sending"
  /\ Len(requestQ) < RequestQueueLen
  /\ requestQ' = Append(requestQ, Current(c))
  /\ cpc' = [cpc EXCEPT ![c] = IF c \in Callers THEN "submitted" ELSE "idle"]
  /\ fate' = [fate EXCEPT ![Current(c)] = "open"]
  /\ UNCHANGED <<registryVars, responseQ, pending, lock, inflight, abort, workerVars,
                 want, asked, result, armed, turns, observed>>

\* The queue stayed full for timeout_ms (or a copy could not be allocated).
Refused(c) ==
  /\ cpc[c] = "sending"
  /\ \/ Impatient /\ Len(requestQ) = RequestQueueLen
     \/ HeapCanFail
  /\ cpc' = [cpc EXCEPT ![c] = "idle"]
  /\ fate' = [fate EXCEPT ![Current(c)] = "refused"]
  /\ UNCHANGED <<registryVars, queueVars, inflight, abort, workerVars, want, asked,
                 result, armed, turns, observed>>

-----------------------------------------------------------------------------
(* claw_core_cancel_request: id is a request or AnyId.  With nothing to    *)
(* cancel it returns ESP_ERR_NOT_FOUND and changes nothing.                *)

\* Mutant: whatever request is in flight is aborted.
CancelAnything(id) ==
  /\ inflight # NoId
  /\ abort' = TRUE
  /\ armed' = armed \cup {IF id = AnyId THEN inflight ELSE id}
  /\ UNCHANGED <<registryVars, queueVars, inflight, workerVars, clientVars,
                 fate, result, turns, observed>>

CancelRequest(id) ==
  /\ inflight # NoId
  /\ id = AnyId \/ id = inflight
  /\ abort' = TRUE
  /\ armed' = armed \cup {IF id = AnyId THEN inflight ELSE id}
  /\ UNCHANGED <<registryVars, queueVars, inflight, workerVars, clientVars,
                 fate, result, turns, observed>>

-----------------------------------------------------------------------------
(* claw_core_task: one request at a time.                                  *)

\* xQueueReceive on the request queue.  The request is not in flight yet.
TakeRequest ==
  /\ boot = "started"
  /\ wpc = "idle"
  /\ requestQ # <<>>
  /\ cur' = Head(requestQ)
  /\ requestQ' = Tail(requestQ)
  /\ wpc' = "taken"
  /\ UNCHANGED <<registryVars, responseQ, pending, lock, inflight, abort, iteration,
                 reply, err, clientVars, historyVars>>

\* The critical section that makes the request cancellable, arm_abort, and
\* on_request_start, whose failure is only logged.  Failing to copy the target ends
\* the request while err is still ESP_OK; the next allocation fails with err as
\* on_request_start left it.
ArmRequest ==
  /\ wpc = "taken"
  /\ inflight' = cur
  /\ abort' = FALSE
  /\ \/ wpc' = "context" /\ UNCHANGED <<reply, err>>
     \/ HeapCanFail /\ wpc' = "finish" /\ reply' = "failed" /\ err' \in BOOLEAN
  /\ UNCHANGED <<registryVars, queueVars, cur, iteration, clientVars, historyVars>>

\* build_iteration_context: a provider that fails ends the request.
BuildContext ==
  /\ wpc = "context"
  /\ \/ wpc' = "llm" /\ UNCHANGED <<reply, err>>
     \/ /\ providers > 0 \/ HeapCanFail
        /\ wpc' = "finish" /\ reply' = "failed" /\ err' = TRUE
  /\ UNCHANGED <<registryVars, queueVars, inflight, abort, cur, iteration, clientVars, historyVars>>

\* The LLM answered.  http_event_handler drops the data of a request whose abort
\* flag is set, so an answer got through before the flag was set.  An answer that
\* cannot be copied (finish_from_plain_text) is reported as an error, with err ESP_OK.
LlmAnswers ==
  /\ wpc = "llm"
  /\ ~abort
  /\ \/ wpc' = "complete" /\ reply' \in {"text", "empty"}
     \/ wpc' = "tools" /\ UNCHANGED reply
     \/ HeapCanFail /\ wpc' = "finish" /\ reply' = "failed"
  /\ UNCHANGED <<registryVars, queueVars, inflight, abort, cur, iteration, err,
                 clientVars, historyVars>>

\* The call failed: the network, an HTTP status, a timeout, or the abort flag.
LlmFails ==
  /\ wpc = "llm"
  /\ wpc' = "finish" /\ reply' = "failed" /\ err' = TRUE
  /\ UNCHANGED <<registryVars, queueVars, inflight, abort, cur, iteration, clientVars, historyVars>>

\* Mutant: one tool round too many.
RunOneRoundMore ==
  /\ wpc = "tools"
  /\ iteration' = iteration + 1
  /\ IF iteration' > MaxToolIterations
       THEN wpc' = "finish" /\ reply' = "failed" /\ err' = TRUE
       ELSE wpc' = "context" /\ UNCHANGED <<reply, err>>
  /\ UNCHANGED <<registryVars, queueVars, inflight, abort, cur, clientVars, historyVars>>

\* append_assistant_tool_calls and append_tool_results_message: a capability that
\* fails only makes its error the tool's output.
RunTools ==
  /\ wpc = "tools"
  /\ \/ /\ iteration' = iteration + 1
        /\ IF iteration' >= MaxToolIterations
             THEN wpc' = "finish" /\ reply' = "failed" /\ err' = TRUE
             ELSE wpc' = "context" /\ UNCHANGED <<reply, err>>
     \/ /\ HeapCanFail
        /\ wpc' = "finish" /\ reply' = "failed" /\ err' = TRUE
        /\ UNCHANGED iteration
  /\ UNCHANGED <<registryVars, queueVars, inflight, abort, cur, clientVars, historyVars>>

\* Mutant: the turn of a request cancelled too late is not stored.
CompleteUnlessCancelled ==
  /\ wpc = "complete"
  /\ wpc' = "finish"
  /\ IF reply = "text" /\ cur[1] \notin Sessionless /\ ~abort
       THEN turns' = turns \cup {cur} /\ err' \in BOOLEAN
       ELSE UNCHANGED <<turns, err>>
  /\ observed' = IF observers > 0 THEN observed \cup {cur} ELSE observed
  /\ UNCHANGED <<registryVars, queueVars, inflight, abort, cur, iteration, reply,
                 clientVars, fate, result, armed>>

\* A final text: append_session_turn (which may fail, and only err shows it), then
\* the completion observers.
CompleteRequest ==
  /\ wpc = "complete"
  /\ wpc' = "finish"
  /\ IF reply = "text" /\ cur[1] \notin Sessionless
       THEN turns' = turns \cup {cur} /\ err' \in BOOLEAN
       ELSE UNCHANGED <<turns, err>>
  /\ observed' = IF observers > 0 THEN observed \cup {cur} ELSE observed
  /\ UNCHANGED <<registryVars, queueVars, inflight, abort, cur, iteration, reply,
                 clientVars, fate, result, armed>>

\* Mutant: a set abort flag makes any failure a cancellation, even that of the store.
FinishAsCancelled ==
  /\ wpc = "finish"
  /\ reply' = IF abort /\ err THEN "cancelled" ELSE reply
  /\ inflight' = NoId
  /\ abort' = FALSE
  /\ wpc' = IF cur \in Silent THEN "publish" ELSE "push"
  /\ UNCHANGED <<registryVars, queueVars, cur, iteration, err, clientVars, historyVars>>

\* finish_request: disarm, and give the error of a cancelled request its name.  An
\* error whose text could not be allocated keeps none, or has none to rename.
FinishRequest ==
  /\ wpc = "finish"
  /\ \/ abort /\ err /\ reply = "failed" /\ reply' = "cancelled"
     \/ /\ ~(abort /\ err /\ reply = "failed") \/ HeapCanFail
        /\ UNCHANGED reply
  /\ inflight' = NoId
  /\ abort' = FALSE
  /\ wpc' = IF cur \in Silent THEN "publish" ELSE "push"
  /\ UNCHANGED <<registryVars, queueVars, cur, iteration, err, clientVars, historyVars>>

\* The worker is done with cur, whose answer is reply, and starts over with fresh locals.
Dispose(newFate) ==
  /\ result' = [result EXCEPT ![cur] = reply]
  /\ fate' = newFate
  /\ wpc' = "idle" /\ cur' = NoId /\ iteration' = 0 /\ reply' = "none" /\ err' = FALSE
  /\ UNCHANGED <<armed, turns, observed>>

\* publish_out_message_if_requested, whose failure is only logged; then the
\* response of a request with SKIP_RESPONSE_QUEUE is freed.
PublishReply ==
  /\ wpc = "publish"
  /\ Dispose([fate EXCEPT ![cur] = "skipped"])
  /\ UNCHANGED <<registryVars, queueVars, inflight, abort, clientVars>>

\* push_response waits for room with portMAX_DELAY.
PushReply ==
  /\ wpc = "push"
  /\ Len(responseQ) < ResponseQueueLen
  /\ responseQ' = Append(responseQ, cur)
  /\ Dispose(fate)
  /\ UNCHANGED <<registryVars, requestQ, pending, lock, inflight, abort, clientVars>>

WorkerStep ==
  \/ TakeRequest
  \/ ArmRequest
  \/ BuildContext
  \/ LlmAnswers
  \/ LlmFails
  \/ RunTools
  \/ CompleteRequest
  \/ FinishRequest
  \/ PublishReply
  \/ PushReply

-----------------------------------------------------------------------------
(* claw_core_receive and claw_core_receive_for.                            *)

\* The caller asks for the answer to the request it has just submitted.
CallReceive(c) ==
  /\ cpc[c] = "submitted"
  /\ cpc' = [cpc EXCEPT ![c] = "locking"]
  /\ want' = [want EXCEPT ![c] = IF c \in AnyCallers THEN AnyId ELSE Current(c)]
  /\ UNCHANGED <<registryVars, queueVars, inflight, abort, workerVars, asked, historyVars>>

Matches(c, id) == want[c] = AnyId \/ want[c] = id

FirstMatch(c, i) ==
  /\ i \in 1 .. Len(pending)
  /\ Matches(c, pending[i])
  /\ \A j \in 1 .. (i - 1) : ~Matches(c, pending[j])

\* receive_for returns the answer id to c.
HandOver(c, id) ==
  /\ fate' = [fate EXCEPT ![id] = "returned"]
  /\ cpc' = [cpc EXCEPT ![c] = "idle"]
  /\ want' = [want EXCEPT ![c] = NoId]
  /\ UNCHANGED <<asked, result, armed, turns, observed>>

\* Mutant: the answer is not taken off the pending list.
ReceivePendingKept(c) ==
  /\ cpc[c] = "locking"
  /\ lock = NoId
  /\ \E i \in 1 .. Len(pending) : FirstMatch(c, i) /\ HandOver(c, pending[i])
  /\ UNCHANGED <<registryVars, queueVars, inflight, abort, workerVars>>

\* The lock is free and pop_pending_response finds the answer.
ReceivePending(c) ==
  /\ cpc[c] = "locking"
  /\ lock = NoId
  /\ \E i \in 1 .. Len(pending) :
       /\ FirstMatch(c, i)
       /\ HandOver(c, pending[i])
       /\ pending' = RemoveAt(pending, i)
  /\ UNCHANGED <<registryVars, requestQ, responseQ, lock, inflight, abort, workerVars>>

\* Mutant: the pending list is not searched first.
LockWithoutLooking(c) ==
  /\ cpc[c] = "locking"
  /\ lock = NoId
  /\ lock' = c
  /\ cpc' = [cpc EXCEPT ![c] = "receiving"]
  /\ UNCHANGED <<registryVars, requestQ, responseQ, pending, inflight, abort, workerVars,
                 want, asked, historyVars>>

\* The lock is free and the answer is not there: wait, keeping the lock.
LockResponses(c) ==
  /\ cpc[c] = "locking"
  /\ lock = NoId
  /\ \A i \in 1 .. Len(pending) : ~Matches(c, pending[i])
  /\ lock' = c
  /\ cpc' = [cpc EXCEPT ![c] = "receiving"]
  /\ UNCHANGED <<registryVars, requestQ, responseQ, pending, inflight, abort, workerVars,
                 want, asked, historyVars>>

\* Mutant: the way out with an answer keeps response_lock.
ReceiveMatchLocked(c) ==
  /\ cpc[c] = "receiving"
  /\ responseQ # <<>>
  /\ Matches(c, Head(responseQ))
  /\ HandOver(c, Head(responseQ))
  /\ responseQ' = Tail(responseQ)
  /\ UNCHANGED <<registryVars, requestQ, pending, lock, inflight, abort, workerVars>>

\* xQueueReceive yields the caller's own answer.
ReceiveMatch(c) ==
  /\ cpc[c] = "receiving"
  /\ responseQ # <<>>
  /\ Matches(c, Head(responseQ))
  /\ HandOver(c, Head(responseQ))
  /\ responseQ' = Tail(responseQ)
  /\ lock' = NoId
  /\ UNCHANGED <<registryVars, requestQ, pending, inflight, abort, workerVars>>

\* It yields somebody else's: enqueue_pending_response, or drop it for lack of heap.
ReceiveOther(c) ==
  /\ cpc[c] = "receiving"
  /\ responseQ # <<>>
  /\ ~Matches(c, Head(responseQ))
  /\ responseQ' = Tail(responseQ)
  /\ \/ pending' = Append(pending, Head(responseQ)) /\ UNCHANGED fate
     \/ /\ HeapCanFail
        /\ fate' = [fate EXCEPT ![Head(responseQ)] = "lost"]
        /\ UNCHANGED pending
  /\ UNCHANGED <<registryVars, requestQ, lock, inflight, abort, workerVars, clientVars,
                 result, armed, turns, observed>>

\* Mutant: the timeout's way out keeps response_lock.
ReceiveTimeoutLocked(c) ==
  /\ Impatient
  /\ cpc[c] = "receiving"
  /\ cpc' = [cpc EXCEPT ![c] = "idle"]
  /\ want' = [want EXCEPT ![c] = NoId]
  /\ UNCHANGED <<registryVars, queueVars, inflight, abort, workerVars, asked, historyVars>>

\* timeout_ms elapsed, with the queue empty or between two foreign answers.
ReceiveTimeout(c) ==
  /\ Impatient
  /\ cpc[c] = "receiving"
  /\ lock' = NoId
  /\ cpc' = [cpc EXCEPT ![c] = "idle"]
  /\ want' = [want EXCEPT ![c] = NoId]
  /\ UNCHANGED <<registryVars, requestQ, responseQ, pending, inflight, abort, workerVars,
                 asked, historyVars>>

ReceiveStep(c) ==
  \/ CallReceive(c)
  \/ ReceivePending(c)
  \/ LockResponses(c)
  \/ ReceiveMatch(c)
  \/ ReceiveOther(c)

Next ==
  \/ InitCore
  \/ StartCore
  \/ AddContextProvider
  \/ AddObserver
  \/ \E c \in Clients : Submit(c) \/ Accepted(c) \/ Refused(c)
  \/ \E id \in Ids \cup {AnyId} : CancelRequest(id)
  \/ WorkerStep
  \/ \E c \in Callers : ReceiveStep(c) \/ ReceiveTimeout(c)

Spec == Init /\ [][Next]_vars

\* The worker task is never starved; a task inside submit or receive_for runs on.
\* Nobody has to submit, to cancel, or to let a timeout expire.
Fairness ==
  /\ WF_vars(InitCore) /\ WF_vars(StartCore)
  /\ WF_vars(WorkerStep)
  /\ \A c \in Clients : WF_vars(Accepted(c))
  /\ \A c \in Callers : WF_vars(ReceiveStep(c))

FairSpec == Spec /\ Fairness

-----------------------------------------------------------------------------
(* Properties.                                                             *)

\* The parts of the type invariant: registries, queues, the worker, the clients, history.
RegistryTypeOK ==
  /\ boot \in {"down", "initialized", "started"}
  /\ providers \in 0 .. MaxProviders
  /\ observers \in 0 .. MaxObservers

QueueTypeOK ==
  /\ requestQ \in Seq(Ids) /\ Len(requestQ) <= RequestQueueLen
  /\ responseQ \in Seq(Ids) /\ Len(responseQ) <= ResponseQueueLen
  /\ pending \in Seq(Ids)
  /\ lock \in Callers \cup {NoId}

WorkerTypeOK ==
  /\ wpc \in {"idle", "taken", "context", "llm", "tools", "complete", "finish",
              "publish", "push"}
  /\ cur \in Ids \cup {NoId} /\ inflight \in Ids \cup {NoId}
  /\ iteration \in 0 .. MaxToolIterations
  /\ reply \in Replies \cup {"none"}
  /\ abort \in BOOLEAN /\ err \in BOOLEAN

ClientTypeOK ==
  /\ cpc \in [Clients -> {"idle", "sending", "submitted", "locking", "receiving"}]
  /\ want \in [Callers -> Ids \cup {NoId, AnyId}]
  /\ asked \in [Clients -> Nat]
  /\ \A c \in Clients : asked[c] <= MaxAsks[c]

HistoryTypeOK ==
  /\ fate \in [Ids -> {"new", "open", "refused", "returned", "lost", "skipped"}]
  /\ result \in [Ids -> Replies \cup {"none"}]
  /\ armed \subseteq Ids /\ turns \subseteq Ids /\ observed \subseteq Ids

\* Every variable keeps to the values its C counterpart can hold; in particular no
\* sequence of calls takes a queue, a counter or a round past its configured bound.
TypeOK ==
  RegistryTypeOK /\ QueueTypeOK /\ WorkerTypeOK /\ ClientTypeOK /\ HistoryTypeOK

\* A request is answered "request cancelled" only if claw_core_cancel_request
\* returned ESP_OK while that very request was in flight: a late cancel never leaks
\* into the next request, and a cancel aimed at another request never hits this one.
CancelledOnlyOnDemand ==
  \A id \in Ids : result[id] = "cancelled" => id \in armed

\* No answer is lost or duplicated on its way: a request its client still waits for
\* is in exactly one place (request queue, worker, response queue, pending list),
\* once; a request that was returned, dropped or never accepted is nowhere.
Copies(seq, id) == Cardinality({i \in DOMAIN seq : seq[i] = id})

OpenRequestInOnePlace ==
  \A id \in Ids :
    Copies(requestQ, id) + Copies(responseQ, id) + Copies(pending, id)
      + (IF cur = id THEN 1 ELSE 0) = (IF fate[id] = "open" THEN 1 ELSE 0)

\* response_lock is held exactly by the caller that waits on the response queue:
\* every way out of receive_for gives it back.
LockHeldWhileReceiving ==
  \A c \in Callers : lock = c <=> cpc[c] = "receiving"

\* A caller that blocks on the response queue does not overlook an answer of its own
\* that another caller had already set aside.
NoAnswerOverlooked ==
  \A c \in Callers : cpc[c] = "receiving" =>
    \A i \in 1 .. Len(pending) : ~Matches(c, pending[i])

\* By the time anybody can see a text answer, the turn has been handed to the
\* session store, so the context of the next request contains it.
TurnBeforeReply ==
  \A id \in Ids : result[id] = "text" /\ id[1] \notin Sessionless => id \in turns

\* What the completion observers were told is what the caller gets: neither a cancel
\* that arrives while they run nor a failed append_session_turn turns a reported
\* answer into an error.
ReportedAnswerStands ==
  \A id \in observed : result[id] \in {"none", "text", "empty"}

\* The core implements the service of AgentService.
Phase == [id \in Ids |->
  IF fate[id] # "open" THEN fate[id]
  ELSE IF id \in ToSet(requestQ) THEN "accepted"
  ELSE IF cur = id THEN "running"
  ELSE "answered"]

Service == INSTANCE AgentService
             WITH phase <- Phase, line <- requestQ, wanted <- armed, result <- result

ImplementsService == Service!ServiceSpec

\* While callers stay patient, whoever got a request accepted gets its answer: the
\* worker is never stuck for good behind the response queue, and no caller is stuck
\* behind another one that holds the lock.
EveryRequestServed ==
  \A id \in Ids :
    fate[id] = "open" ~> fate[id] = (IF id \in Silent THEN "skipped" ELSE "returned")

=============================================================================
