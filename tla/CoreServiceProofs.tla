-------------------------- MODULE CoreServiceProofs --------------------------
(***************************************************************************)
(* ClawCore implements AgentService, for every number of clients,          *)
(* requests, queue slots, tool rounds and observers.  The core of it: a    *)
(* request that is open is in exactly one place.                           *)
(***************************************************************************)
EXTENDS ClawCoreProofs, FiniteSetTheorems

\* Whether id is in a queue or list, and whether that holds nothing twice
Has(s, id) == \E n \in 1 .. Len(s) : s[n] = id
Once(s)    == \A m, n \in 1 .. Len(s) : s[m] = s[n] => m = n

\* OpenRequestInOnePlace, without counting
PlaceInv ==
  /\ Once(requestQ) /\ Once(responseQ) /\ Once(pending)
  /\ \A id \in Ids :
       /\ fate[id] = "open" <=>
            Has(requestQ, id) \/ Has(responseQ, id) \/ Has(pending, id) \/ cur = id
       /\ Has(requestQ, id) => ~Has(responseQ, id) /\ ~Has(pending, id) /\ cur # id
       /\ Has(responseQ, id) => ~Has(pending, id) /\ cur # id
       /\ Has(pending, id) => cur # id

\* Nothing has become yet of requests that are still to be made or are being sent.
AskedInv ==
  \A c \in Clients :
    /\ \A n \in 1 .. MaxAsks[c] : n > asked[c] => fate[<<c, n>>] = "new"
    /\ cpc[c] = "sending" => fate[Current(c)] = "new"

\* A request has no answer while it waits or is worked on.
FreshInv ==
  \A id \in Ids : fate[id] = "new" \/ Has(requestQ, id) \/ cur = id => result[id] = "none"

\* An answer the observers were told of is the one the worker has given, or still has.
ReportInv ==
  \A id \in observed :
    \/ result[id] \in {"text", "empty"}
    \/ cur = id /\ wpc \in {"finish", "publish", "push"} /\ reply \in {"text", "empty"}
         /\ result[id] = "none"

\* The answers to silent requests, and no others, stay out of the response queue.
RouteInv == (wpc = "publish" => cur \in Silent) /\ (wpc = "push" => cur \notin Silent)

ServiceInv == IInv /\ PlaceInv /\ AskedInv /\ FreshInv /\ ReportInv /\ RouteInv

-----------------------------------------------------------------------------
(* Facts about sequences.                                                  *)

\* Appending adds what is appended.
LEMMA AppendHas ==
  ASSUME NEW S, NEW s \in Seq(S), NEW x \in S
  PROVE  /\ \A y : Has(Append(s, x), y) <=> Has(s, y) \/ y = x
         /\ Once(s) /\ ~Has(s, x) => Once(Append(s, x))
BY DEF Has, Once

\* The tail lacks the head.
LEMMA TailHas ==
  ASSUME NEW S, NEW s \in Seq(S), s # <<>>, Once(s)
  PROVE  /\ Head(s) \in S /\ Tail(s) \in Seq(S) /\ Has(s, Head(s)) /\ Once(Tail(s))
         /\ \A y : Has(Tail(s), y) <=> Has(s, y) /\ y # Head(s)
<1>1. Len(s) \in Nat /\ Len(s) > 0 /\ Head(s) = s[1] /\ Len(Tail(s)) = Len(s) - 1
      /\ Head(s) \in S /\ Tail(s) \in Seq(S)
  OBVIOUS
<1>2. \A n \in 1 .. Len(Tail(s)) : Tail(s)[n] = s[n + 1]
  OBVIOUS
<1>3. Once(Tail(s))
  BY <1>1, <1>2 DEF Once
<1>4. ASSUME NEW y PROVE Has(Tail(s), y) <=> Has(s, y) /\ y # Head(s)
  <2>1. ASSUME NEW n \in 1 .. Len(Tail(s)), Tail(s)[n] = y PROVE Has(s, y) /\ y # Head(s)
    BY <1>1, <1>2, <2>1 DEF Has, Once
  <2>2. ASSUME NEW n \in 1 .. Len(s), s[n] = y, y # Head(s) PROVE Has(Tail(s), y)
    <3>1. n - 1 \in 1 .. Len(Tail(s)) /\ Tail(s)[n - 1] = s[n]
      BY <1>1, <1>2, <2>2
    <3> QED
      BY <2>2, <3>1 DEF Has
  <2> QED
    BY <2>1, <2>2 DEF Has
<1> QED
  BY <1>1, <1>3, <1>4 DEF Has

\* What is unlinked from a list is gone from it.
LEMMA RemoveHas ==
  ASSUME NEW S, NEW s \in Seq(S), Once(s), NEW i \in 1 .. Len(s)
  PROVE  /\ Once(RemoveAt(s, i))
         /\ \A y : Has(RemoveAt(s, i), y) <=> Has(s, y) /\ y # s[i]
<1> DEFINE r == RemoveAt(s, i)
           a == SubSeq(s, 1, i - 1)
           b == SubSeq(s, i + 1, Len(s))
<1>a. /\ Len(s) \in Nat /\ i \in Nat /\ i > 0 /\ i <= Len(s)
      /\ a \in Seq(S) /\ Len(a) = i - 1 /\ \A n \in 1 .. Len(a) : a[n] = s[n]
  OBVIOUS
<1>b. /\ b \in Seq(S) /\ Len(b) = Len(s) - i
      /\ \A n \in 1 .. Len(b) : b[n] = s[n + i]
  OBVIOUS
<1>c. r = a \o b
  BY DEF RemoveAt
<1> HIDE DEF a, b, r
<1>1. Len(s) \in Nat /\ Len(r) = Len(s) - 1
  <2>1. Len(a \o b) = Len(a) + Len(b)
    <3>1. a \in Seq(S) /\ b \in Seq(S)
      BY <1>a, <1>b
    <3> QED
      BY <3>1
  <2>2. Len(r) = (i - 1) + (Len(s) - i)
    BY <2>1, <1>a, <1>b, <1>c
  <2> QED
    BY <2>2, <1>a
<1>2. \A n \in 1 .. Len(r) : r[n] = IF n < i THEN s[n] ELSE s[n + 1]
  <2>1. ASSUME NEW n \in 1 .. Len(r), n < i PROVE r[n] = s[n]
    BY <1>a, <1>b, <1>c, <2>1
  <2>2. ASSUME NEW n \in 1 .. Len(r), ~(n < i) PROVE r[n] = s[n + 1]
    <3>1. n - Len(a) \in 1 .. Len(b) /\ (n - Len(a)) + i = n + 1
      BY <1>1, <1>a, <1>b, <2>2
    <3>2. b[n - Len(a)] = s[n + 1]
      BY <1>b, <3>1
    <3>3. r[n] = b[n - Len(a)]
      BY <1>1, <1>a, <1>b, <1>c, <2>2
    <3> QED
      BY <3>2, <3>3
  <2> QED
    BY <2>1, <2>2
<1> HIDE DEF r
<1>3. Once(r)
  BY <1>1, <1>2 DEF Once
<1>4. ASSUME NEW y PROVE Has(r, y) <=> Has(s, y) /\ y # s[i]
  <2>1. ASSUME NEW n \in 1 .. Len(r), r[n] = y PROVE Has(s, y) /\ y # s[i]
    <3>1. PICK m \in 1 .. Len(s) : m # i /\ r[n] = s[m]
      BY <1>1, <1>2
    <3> QED
      BY <2>1, <3>1 DEF Has, Once
  <2>2. ASSUME NEW n \in 1 .. Len(s), s[n] = y, y # s[i] PROVE Has(r, y)
    <3>1. CASE n < i
      <4>1. n \in 1 .. Len(r) /\ r[n] = s[n]
        BY <1>1, <1>2, <3>1
      <4> QED
        BY <2>2, <4>1 DEF Has
    <3>2. CASE n > i
      <4>1. n - 1 \in 1 .. Len(r) /\ r[n - 1] = s[n]
        BY <1>1, <1>2, <3>2
      <4> QED
        BY <2>2, <4>1 DEF Has
    <3> QED
      BY <2>2, <3>1, <3>2
  <2> QED
    BY <2>1, <2>2 DEF Has
<1> QED
  BY <1>3, <1>4 DEF r

\* Copies counts an element of a sequence without repetitions.
LEMMA CopiesOnce ==
  ASSUME NEW S, NEW s \in Seq(S), Once(s), NEW id
  PROVE  Copies(s, id) = IF Has(s, id) THEN 1 ELSE 0
<1>1. DOMAIN s = 1 .. Len(s)
  OBVIOUS
<1>2. CASE Has(s, id)
  <2>1. PICK n \in 1 .. Len(s) : s[n] = id
    BY <1>2 DEF Has
  <2>2. {i \in DOMAIN s : s[i] = id} = {n}
    BY <1>1, <2>1 DEF Once
  <2> QED
    BY <1>2, <2>2, FS_Singleton DEF Copies
<1>3. CASE ~Has(s, id)
  <2>1. {i \in DOMAIN s : s[i] = id} = {}
    BY <1>1, <1>3 DEF Has
  <2> QED
    BY <1>3, <2>1, FS_EmptySet DEF Copies
<1> QED
  BY <1>2, <1>3

\* Being in one place, and counting to one, are the same.
LEMMA PlaceCounted == ASSUME TypeOK, PlaceInv PROVE OpenRequestInOnePlace
<1>1. requestQ \in Seq(Ids) /\ responseQ \in Seq(Ids) /\ pending \in Seq(Ids)
  BY DEF TypeOK, QueueTypeOK
<1>2. ASSUME NEW id \in Ids
      PROVE  /\ Copies(requestQ, id) = IF Has(requestQ, id) THEN 1 ELSE 0
             /\ Copies(responseQ, id) = IF Has(responseQ, id) THEN 1 ELSE 0
             /\ Copies(pending, id) = IF Has(pending, id) THEN 1 ELSE 0
  BY <1>1, CopiesOnce DEF PlaceInv
<1> QED
  BY <1>2 DEF OpenRequestInOnePlace, PlaceInv

-----------------------------------------------------------------------------
(* Every step keeps the invariant.                                         *)

\* The queues and lists hold requests.
LEMMA QueuesHoldIds ==
  ASSUME TypeOK
  PROVE  requestQ \in Seq(Ids) /\ responseQ \in Seq(Ids) /\ pending \in Seq(Ids)
BY DEF TypeOK, QueueTypeOK

\* What has its place in a queue or list is a request.
LEMMA HasIsId ==
  ASSUME TypeOK, NEW id, Has(requestQ, id) \/ Has(responseQ, id) \/ Has(pending, id)
  PROVE  id \in Ids
<1>1. \A s \in Seq(Ids) : Has(s, id) => id \in Ids
  BY DEF Has
<1> QED
  BY <1>1, QueuesHoldIds

\* A request changes places without being copied or dropped, and leaves the last one
\* when its fate is settled.
LEMMA PlaceStep ==
  TypeOK /\ WorkerInv /\ ClientInv /\ AskedInv /\ PlaceInv /\ [Next]_vars => PlaceInv'
<1> SUFFICES ASSUME TypeOK, WorkerInv, ClientInv, AskedInv, PlaceInv, [Next]_vars
             PROVE  PlaceInv'
  OBVIOUS
<1>0. /\ requestQ \in Seq(Ids) /\ responseQ \in Seq(Ids) /\ pending \in Seq(Ids)
      /\ DOMAIN fate = Ids
      /\ NoId \notin Ids
  BY ClawCoreAssumption, QueuesHoldIds DEF ClawCoreAssumption, TypeOK, HistoryTypeOK
<1>1. CASE UNCHANGED <<requestQ, responseQ, pending, cur, fate>>
  BY <1>1 DEF PlaceInv
<1>2. ASSUME NEW c \in Clients, Accepted(c) PROVE PlaceInv'
  <2>1. Current(c) \in Ids /\ fate[Current(c)] = "new"
    BY <1>2, CurrentIsId DEF Accepted, ClientInv, AskedInv
  <2>2. ~Has(requestQ, Current(c))
    BY <2>1 DEF PlaceInv
  <2>3. /\ requestQ' = Append(requestQ, Current(c))
        /\ fate' = [fate EXCEPT ![Current(c)] = "open"]
        /\ UNCHANGED <<responseQ, pending, cur>>
    BY <1>2 DEF Accepted, workerVars
  <2>4. Once(requestQ') /\ \A y : Has(requestQ', y) <=> Has(requestQ, y) \/ y = Current(c)
    BY <2>1, <2>2, <2>3, <1>0, AppendHas DEF PlaceInv
  <2> QED
    BY <1>0, <2>1, <2>3, <2>4 DEF PlaceInv
<1>3. ASSUME NEW c \in Clients, Refused(c) PROVE PlaceInv'
  <2>1. Current(c) \in Ids /\ fate[Current(c)] = "new"
    BY <1>3, CurrentIsId DEF Refused, ClientInv, AskedInv
  <2>2. /\ fate' = [fate EXCEPT ![Current(c)] = "refused"]
        /\ UNCHANGED <<requestQ, responseQ, pending, cur>>
    BY <1>3 DEF Refused, workerVars, queueVars
  <2> QED
    BY <1>0, <2>1, <2>2 DEF PlaceInv
<1>4. CASE TakeRequest
  <2>1. /\ cur = NoId /\ cur' = Head(requestQ) /\ requestQ' = Tail(requestQ)
        /\ requestQ # <<>>
        /\ UNCHANGED <<responseQ, pending, fate>>
    BY <1>4 DEF TakeRequest, WorkerInv, historyVars
  <2>2. /\ cur' \in Ids /\ Has(requestQ, cur') /\ Once(requestQ')
        /\ \A y : Has(requestQ', y) <=> Has(requestQ, y) /\ y # cur'
    BY <1>0, <2>1, TailHas DEF PlaceInv
  <2> QED
    BY <1>0, <2>1, <2>2 DEF PlaceInv
<1>5. CASE PublishReply
  <2>1. /\ cur \in Ids /\ cur' = NoId /\ fate' = [fate EXCEPT ![cur] = "skipped"]
        /\ UNCHANGED <<requestQ, responseQ, pending>>
    BY <1>5 DEF PublishReply, Dispose, WorkerInv, queueVars, TypeOK, WorkerTypeOK
  <2> QED
    BY <1>0, <2>1 DEF PlaceInv
<1>6. CASE PushReply
  <2>1. /\ cur \in Ids /\ cur' = NoId /\ responseQ' = Append(responseQ, cur)
        /\ UNCHANGED <<requestQ, pending, fate>>
    BY <1>6 DEF PushReply, Dispose, WorkerInv, TypeOK, WorkerTypeOK
  <2>2. Once(responseQ') /\ \A y : Has(responseQ', y) <=> Has(responseQ, y) \/ y = cur
    BY <1>0, <2>1, AppendHas DEF PlaceInv
  <2> QED
    BY <1>0, <2>1, <2>2 DEF PlaceInv
<1>7. ASSUME NEW c \in Callers, ReceivePending(c) PROVE PlaceInv'
  <2>1. PICK i \in 1 .. Len(pending) :
          /\ fate' = [fate EXCEPT ![pending[i]] = "returned"]
          /\ pending' = RemoveAt(pending, i)
          /\ UNCHANGED <<requestQ, responseQ, cur>>
    BY <1>7 DEF ReceivePending, HandOver, workerVars
  <2>2. /\ pending[i] \in Ids /\ Has(pending, pending[i]) /\ Once(pending')
        /\ \A y : Has(pending', y) <=> Has(pending, y) /\ y # pending[i]
    <3>1. pending[i] \in Ids /\ Has(pending, pending[i])
      BY <1>0, <2>1 DEF Has
    <3> QED
      BY <1>0, <2>1, <3>1, RemoveHas DEF PlaceInv
  <2> QED
    BY <1>0, <2>1, <2>2 DEF PlaceInv
<1>8. ASSUME NEW c \in Callers, ReceiveMatch(c) \/ ReceiveOther(c) PROVE PlaceInv'
  <2> DEFINE h == Head(responseQ)
  <2>1. /\ responseQ # <<>> /\ responseQ' = Tail(responseQ)
        /\ UNCHANGED <<requestQ, cur>>
        /\ \/ pending' = pending /\ fate' = [fate EXCEPT ![h] = "returned"]
           \/ pending' = pending /\ fate' = [fate EXCEPT ![h] = "lost"]
           \/ pending' = Append(pending, h) /\ fate' = fate
    BY <1>8 DEF ReceiveMatch, ReceiveOther, HandOver, workerVars
  <2> HIDE DEF h
  <2>2. /\ h \in Ids /\ Has(responseQ, h) /\ Once(responseQ')
        /\ \A y : Has(responseQ', y) <=> Has(responseQ, y) /\ y # h
    BY <1>0, <2>1, TailHas DEF PlaceInv, h
  <2>3. CASE pending' = pending
    BY <1>0, <2>1, <2>2, <2>3 DEF PlaceInv
  <2>4. CASE pending' = Append(pending, h) /\ fate' = fate
    <3>1. Once(pending') /\ \A y : Has(pending', y) <=> Has(pending, y) \/ y = h
      BY <1>0, <2>2, <2>4, AppendHas DEF PlaceInv
    <3> QED
      BY <1>0, <2>1, <2>2, <2>4, <3>1 DEF PlaceInv
  <2> QED
    BY <2>1, <2>3, <2>4
<1> QED
  BY <1>1, <1>2, <1>3, <1>4, <1>5, <1>6, <1>7, <1>8
  DEF Next, WorkerStep, ReceiveStep, vars, queueVars, workerVars, historyVars,
      InitCore, StartCore, AddContextProvider, AddObserver, Submit, CancelRequest,
      ArmRequest, BuildContext, LlmAnswers, LlmFails, RunTools, CompleteRequest,
      FinishRequest, CallReceive, LockResponses, ReceiveTimeout

\* A request that has been given its number is sent once.
LEMMA AskedStep ==
  TypeOK /\ WorkerInv /\ ClientInv /\ AskedInv /\ PlaceInv /\ [Next]_vars => AskedInv'
<1> SUFFICES ASSUME TypeOK, WorkerInv, ClientInv, AskedInv, PlaceInv, [Next]_vars
             PROVE  AskedInv'
  OBVIOUS
<1>0. /\ cpc \in [Clients -> {"idle", "sending", "submitted", "locking", "receiving"}]
      /\ DOMAIN asked = Clients /\ DOMAIN fate = Ids
      /\ \A c \in Clients : asked[c] \in Nat /\ MaxAsks[c] \in Nat
      /\ \A c \in Clients : \A n \in 1 .. MaxAsks[c] : <<c, n>> \in Ids
      /\ \A c \in Clients : cpc[c] = "sending" => asked[c] \in 1 .. MaxAsks[c]
  BY ClawCoreAssumption DEF ClawCoreAssumption, TypeOK, ClientTypeOK, HistoryTypeOK,
     ClientInv, Ids, IdsOf
<1>1. CASE UNCHANGED <<cpc, asked, fate>>
  BY <1>1 DEF AskedInv, Current
<1>2. ASSUME NEW c \in Clients, Submit(c) PROVE AskedInv'
  <2>1. /\ asked' = [asked EXCEPT ![c] = asked[c] + 1]
        /\ cpc' = [cpc EXCEPT ![c] = "sending"] /\ fate' = fate
        /\ asked[c] < MaxAsks[c]
    BY <1>2 DEF Submit, historyVars
  <2>2. asked'[c] \in 1 .. MaxAsks[c] /\ asked'[c] > asked[c]
    BY <1>0, <2>1
  <2> QED
    BY <1>0, <2>1, <2>2 DEF AskedInv, Current
<1>3. ASSUME NEW c \in Clients, Accepted(c) \/ Refused(c) PROVE AskedInv'
  <2>1. /\ cpc[c] = "sending" /\ asked' = asked
        /\ cpc' \in {[cpc EXCEPT ![c] = "submitted"], [cpc EXCEPT ![c] = "idle"]}
        /\ fate' \in {[fate EXCEPT ![Current(c)] = "open"],
                      [fate EXCEPT ![Current(c)] = "refused"]}
    BY <1>3 DEF Accepted, Refused, clientVars
  <2>2. \A id \in Ids : id # Current(c) => fate'[id] = fate[id]
    BY <1>0, <2>1
  <2>3. cpc'[c] # "sending" /\ \A d \in Clients : d # c => cpc'[d] = cpc[d]
    BY <1>0, <2>1
  <2>4. ASSUME NEW d \in Clients, NEW n \in 1 .. MaxAsks[d], n > asked'[d]
        PROVE  fate'[<<d, n>>] = "new"
    <3>1. <<d, n>> # Current(c)
      BY <1>0, <2>1, <2>4 DEF Current
    <3> QED
      BY <1>0, <2>1, <2>2, <2>4, <3>1 DEF AskedInv
  <2>5. ASSUME NEW d \in Clients, cpc'[d] = "sending" PROVE fate'[Current(d)'] = "new"
    <3>1. d # c /\ cpc[d] = "sending"
      BY <2>3, <2>5
    <3>2. Current(d)' = Current(d) /\ Current(d) # Current(c) /\ Current(d) \in Ids
      BY <1>0, <2>1, <3>1 DEF Current
    <3> QED
      BY <2>2, <3>1, <3>2 DEF AskedInv
  <2> QED
    BY <2>4, <2>5 DEF AskedInv
<1>4. ASSUME \A id \in Ids : fate[id] = "new" => fate'[id] = "new",
             \A c \in Clients : cpc'[c] = "sending" => cpc[c] = "sending",
             asked' = asked
      PROVE  AskedInv'
  BY <1>0, <1>4 DEF AskedInv, Current
<1>5. CASE PublishReply \/ PushReply
  <2>1. /\ cpc' = cpc /\ asked' = asked
        /\ fate' = fate \/ fate' = [fate EXCEPT ![cur] = "skipped"]
        /\ cur \in Ids
    BY <1>5 DEF PublishReply, PushReply, Dispose, clientVars, WorkerInv, TypeOK, WorkerTypeOK
  <2>2. \A id \in Ids : fate[id] = "new" => fate'[id] = "new"
    BY <1>0, <2>1 DEF PlaceInv
  <2> QED
    BY <1>4, <2>1, <2>2
<1>6. ASSUME NEW c \in Callers, ReceiveStep(c) \/ ReceiveTimeout(c) PROVE AskedInv'
  <2>0. c \in Clients
    BY DEF Clients
  <2>1. asked' = asked /\ \A d \in Clients : cpc'[d] = "sending" => cpc[d] = "sending"
    BY <1>0, <1>6, <2>0 DEF ReceiveStep, CallReceive, ReceivePending, LockResponses,
       ReceiveMatch, ReceiveOther, ReceiveTimeout, HandOver, clientVars
  <2>2. \A id \in Ids : fate[id] = "new" => fate'[id] = "new"
    <3>1. CASE fate' = fate
      BY <3>1
    <3>2. ASSUME NEW id, Has(responseQ, id) \/ Has(pending, id),
                 \/ fate' = [fate EXCEPT ![id] = "returned"]
                 \/ fate' = [fate EXCEPT ![id] = "lost"]
          PROVE  \A other \in Ids : fate[other] = "new" => fate'[other] = "new"
      <4>1. id \in Ids /\ fate[id] = "open"
        BY <3>2, HasIsId DEF PlaceInv
      <4> QED
        BY <1>0, <3>2, <4>1
    <3>3. CASE ReceivePending(c)
      <4>1. PICK i \in 1 .. Len(pending) : fate' = [fate EXCEPT ![pending[i]] = "returned"]
        BY <3>3 DEF ReceivePending, HandOver
      <4>2. Has(pending, pending[i])
        BY DEF Has
      <4> QED
        BY <3>2, <4>1, <4>2
    <3>4. CASE ReceiveMatch(c) \/ ReceiveOther(c)
      <4>1. Has(responseQ, Head(responseQ))
        BY <3>4, QueuesHoldIds, TailHas DEF PlaceInv, ReceiveMatch, ReceiveOther
      <4>2. \/ fate' = [fate EXCEPT ![Head(responseQ)] = "returned"]
            \/ fate' = [fate EXCEPT ![Head(responseQ)] = "lost"]
            \/ fate' = fate
        BY <3>4 DEF ReceiveMatch, ReceiveOther, HandOver
      <4> QED
        BY <3>1, <3>2, <4>1, <4>2
    <3> QED
      BY <1>6, <3>1, <3>3, <3>4 DEF ReceiveStep, CallReceive, LockResponses, ReceiveTimeout,
         historyVars
  <2> QED
    BY <1>4, <2>1, <2>2
<1> QED
  BY <1>1, <1>2, <1>3, <1>5, <1>6
  DEF Next, WorkerStep, vars, clientVars, historyVars, InitCore, StartCore,
      AddContextProvider, AddObserver, CancelRequest, TakeRequest, ArmRequest, BuildContext,
      LlmAnswers, LlmFails, RunTools, CompleteRequest, FinishRequest

\* Only the worker answers, and only the request it is working on.
LEMMA FreshStep ==
  TypeOK /\ WorkerInv /\ ClientInv /\ AskedInv /\ PlaceInv /\ FreshInv /\ [Next]_vars
    => FreshInv'
<1> SUFFICES ASSUME TypeOK, WorkerInv, ClientInv, AskedInv, PlaceInv, FreshInv, [Next]_vars
             PROVE  FreshInv'
  OBVIOUS
<1>0. /\ requestQ \in Seq(Ids) /\ DOMAIN fate = Ids /\ DOMAIN result = Ids /\ NoId \notin Ids
  BY ClawCoreAssumption, QueuesHoldIds DEF ClawCoreAssumption, TypeOK, HistoryTypeOK
<1>1. CASE UNCHANGED <<requestQ, cur, fate, result>>
  BY <1>1 DEF FreshInv
<1>2. ASSUME NEW c \in Clients, Accepted(c) PROVE FreshInv'
  <2>1. /\ Current(c) \in Ids /\ fate[Current(c)] = "new"
        /\ requestQ' = Append(requestQ, Current(c))
        /\ fate' = [fate EXCEPT ![Current(c)] = "open"]
        /\ UNCHANGED <<result, cur>>
    BY <1>2, CurrentIsId DEF Accepted, ClientInv, AskedInv, workerVars
  <2>2. \A y : Has(requestQ', y) <=> Has(requestQ, y) \/ y = Current(c)
    BY <1>0, <2>1, AppendHas
  <2> QED
    BY <1>0, <2>1, <2>2 DEF FreshInv
<1>3. ASSUME NEW c \in Clients, Refused(c) PROVE FreshInv'
  <2>1. /\ fate' = [fate EXCEPT ![Current(c)] = "refused"]
        /\ UNCHANGED <<requestQ, result, cur>>
    BY <1>3 DEF Refused, workerVars, queueVars
  <2> QED
    BY <1>0, <2>1 DEF FreshInv
<1>4. CASE TakeRequest
  <2>1. /\ requestQ # <<>> /\ cur' = Head(requestQ) /\ requestQ' = Tail(requestQ)
        /\ UNCHANGED <<fate, result>>
    BY <1>4 DEF TakeRequest, historyVars
  <2>2. Has(requestQ, cur') /\ \A y : Has(requestQ', y) <=> Has(requestQ, y) /\ y # cur'
    BY <1>0, <2>1, TailHas DEF PlaceInv
  <2> QED
    BY <2>1, <2>2 DEF FreshInv
<1>5. CASE PublishReply \/ PushReply
  <2>1. /\ cur \in Ids /\ cur' = NoId /\ requestQ' = requestQ
        /\ fate' = fate \/ fate' = [fate EXCEPT ![cur] = "skipped"]
        /\ result' = [result EXCEPT ![cur] = reply]
    BY <1>5 DEF PublishReply, PushReply, Dispose, queueVars, WorkerInv, TypeOK, WorkerTypeOK
  <2>2. fate'[cur] # "new" /\ ~Has(requestQ, cur)
    BY <1>0, <2>1 DEF PlaceInv
  <2>3. \A id \in Ids : id # cur => fate'[id] = fate[id] /\ result'[id] = result[id]
    BY <1>0, <2>1
  <2> QED
    BY <1>0, <2>1, <2>2, <2>3 DEF FreshInv
<1>6. ASSUME NEW c \in Callers, ReceivePending(c) \/ ReceiveMatch(c) \/ ReceiveOther(c)
      PROVE  FreshInv'
  <2>1. UNCHANGED <<requestQ, cur, result>>
    BY <1>6 DEF ReceivePending, ReceiveMatch, ReceiveOther, HandOver, workerVars
  <2>2. \A id \in Ids : fate'[id] = "new" => fate[id] = "new"
    BY <1>0, <1>6 DEF ReceivePending, ReceiveMatch, ReceiveOther, HandOver
  <2> QED
    BY <2>1, <2>2 DEF FreshInv
<1> QED
  BY <1>1, <1>2, <1>3, <1>4, <1>5, <1>6
  DEF Next, WorkerStep, ReceiveStep, vars, queueVars, workerVars, historyVars,
      InitCore, StartCore, AddContextProvider, AddObserver, Submit, CancelRequest,
      ArmRequest, BuildContext, LlmAnswers, LlmFails, RunTools, CompleteRequest,
      FinishRequest, CallReceive, LockResponses, ReceiveTimeout

\* From the observers to the caller the worker keeps the answer it has reported.
LEMMA ReportStep ==
  TypeOK /\ WorkerInv /\ FreshInv /\ ReportInv /\ [Next]_vars => ReportInv'
<1> SUFFICES ASSUME TypeOK, WorkerInv, FreshInv, ReportInv, [Next]_vars PROVE ReportInv'
  OBVIOUS
<1>0. DOMAIN result = Ids /\ observed \subseteq Ids
  BY DEF TypeOK, HistoryTypeOK
<1>1. CASE UNCHANGED <<cur, wpc, reply, result, observed>>
  BY <1>1 DEF ReportInv
<1>2. CASE CompleteRequest
  <2>1. /\ wpc' = "finish" /\ reply \in {"text", "empty"} /\ cur \in Ids
        /\ observed' \subseteq observed \cup {cur}
        /\ UNCHANGED <<cur, reply, result>>
        /\ wpc = "complete"
    BY <1>2 DEF CompleteRequest, WorkerInv, TypeOK, WorkerTypeOK
  <2>2. result[cur] = "none"
    BY <2>1 DEF FreshInv
  <2> QED
    BY <2>1, <2>2 DEF ReportInv
<1>3. CASE FinishRequest
  <2>1. /\ wpc = "finish" /\ wpc' \in {"publish", "push"}
        /\ reply' = reply \/ reply = "failed"
        /\ UNCHANGED <<cur, result, observed>>
    BY <1>3 DEF FinishRequest, historyVars
  <2> QED
    BY <2>1 DEF ReportInv
<1>4. CASE PublishReply \/ PushReply
  <2>1. /\ cur \in Ids /\ result' = [result EXCEPT ![cur] = reply] /\ observed' = observed
    BY <1>4 DEF PublishReply, PushReply, Dispose, WorkerInv, TypeOK, WorkerTypeOK
  <2>2. result[cur] = "none"
    BY <2>1 DEF FreshInv
  <2> QED
    BY <1>0, <2>1, <2>2 DEF ReportInv
<1>5. CASE TakeRequest \/ ArmRequest \/ BuildContext \/ LlmAnswers \/ LlmFails \/ RunTools
  <2>1. wpc \notin {"finish", "publish", "push"} /\ UNCHANGED <<result, observed>>
    BY <1>5 DEF TakeRequest, ArmRequest, BuildContext, LlmAnswers, LlmFails, RunTools,
       historyVars
  <2> QED
    BY <2>1 DEF ReportInv
<1> QED
  BY <1>1, <1>2, <1>3, <1>4, <1>5
  DEF Next, WorkerStep, ReceiveStep, vars, workerVars, historyVars, InitCore, StartCore,
      AddContextProvider, AddObserver, Submit, Accepted, Refused, CancelRequest, CallReceive,
      LockResponses, ReceivePending, ReceiveMatch, ReceiveOther, ReceiveTimeout, HandOver

\* The worker's way out is the one the request's flags ask for.
LEMMA RouteStep == RouteInv /\ [Next]_vars => RouteInv'
<1> SUFFICES ASSUME RouteInv, [Next]_vars PROVE RouteInv'
  OBVIOUS
<1>1. CASE UNCHANGED <<cur, wpc>>
  BY <1>1 DEF RouteInv
<1>2. CASE WorkerStep
  BY <1>2 DEF RouteInv, WorkerStep, TakeRequest, ArmRequest, BuildContext, LlmAnswers, LlmFails,
     RunTools, CompleteRequest, FinishRequest, PublishReply, PushReply, Dispose
<1> QED
  BY <1>1, <1>2
  DEF Next, ReceiveStep, vars, workerVars, InitCore, StartCore, AddContextProvider,
      AddObserver, Submit, Accepted, Refused, CancelRequest, CallReceive, LockResponses,
      ReceivePending, ReceiveMatch, ReceiveOther, ReceiveTimeout

\* The invariant holds before anything has been asked.
LEMMA InitServiceInv == Init => ServiceInv
<1> SUFFICES ASSUME Init PROVE ServiceInv
  OBVIOUS
<1>1. IInv
  BY InitIInv
<1>2. \A id : ~Has(<<>>, id)
  BY DEF Has
<1>3. Once(<<>>)
  BY DEF Once
<1>4. PlaceInv
  BY <1>2, <1>3, ClawCoreAssumption DEF ClawCoreAssumption, PlaceInv, Init, Quiet
<1>5. AskedInv
  BY DEF AskedInv, Init, Quiet, Ids, IdsOf
<1>6. FreshInv /\ ReportInv /\ RouteInv
  BY DEF FreshInv, ReportInv, RouteInv, Init, Quiet
<1> QED
  BY <1>1, <1>4, <1>5, <1>6 DEF ServiceInv

\* The strengthened invariant is inductive.
LEMMA ServiceInvStep == ServiceInv /\ [Next]_vars => ServiceInv'
<1> SUFFICES ASSUME ServiceInv, [Next]_vars PROVE ServiceInv'
  OBVIOUS
<1>1. TypeOK /\ WorkerInv /\ ClientInv
  BY DEF ServiceInv, IInv
<1> QED
  BY <1>1, IInvStep, PlaceStep, AskedStep, FreshStep, ReportStep, RouteStep DEF ServiceInv

\* The strengthened invariant holds in every behaviour of the core.
LEMMA ServiceInvAlways == Spec => []ServiceInv
BY InitServiceInv, ServiceInvStep, PTL DEF Spec

-----------------------------------------------------------------------------
(* Every step of the core is a step of the service, or none.               *)

\* ToSet and Has agree.
LEMMA ToSetHas == ASSUME NEW S, NEW s \in Seq(S), NEW id PROVE id \in ToSet(s) <=> Has(s, id)
<1>1. DOMAIN s = 1 .. Len(s)
  OBVIOUS
<1> QED
  BY <1>1 DEF ToSet, Has

\* The service sees the core at rest when the core starts.
LEMMA InitImplements == Init => Service!SInit
BY DEF Init, Quiet, Service!SInit, Phase

\* Accepting, refusing, taking, cancelling, answering, returning and losing a request
\* are those steps of the service; all the rest of the core is invisible to it.
LEMMA StepImplements ==
  ServiceInv /\ ServiceInv' /\ [Next]_vars => [Service!SNext]_(Service!svars)
<1> SUFFICES ASSUME ServiceInv, ServiceInv', [Next]_vars
             PROVE  Service!SNext \/ UNCHANGED Service!svars
  OBVIOUS
<1> USE DEF Service!SNext, Service!svars
<1>0. /\ TypeOK /\ WorkerInv /\ ClientInv /\ AskedInv /\ PlaceInv /\ RouteInv /\ PlaceInv'
      /\ TypeOK'
  BY DEF ServiceInv, IInv
<1>q. /\ requestQ \in Seq(Ids) /\ responseQ \in Seq(Ids) /\ pending \in Seq(Ids)
      /\ requestQ' \in Seq(Ids)
      /\ DOMAIN fate = Ids /\ DOMAIN result = Ids /\ NoId \notin Ids
      /\ \A id \in Ids : fate[id] # "running"
  BY <1>0, ClawCoreAssumption DEF ClawCoreAssumption, TypeOK, QueueTypeOK, HistoryTypeOK
<1>p. /\ DOMAIN Phase = Ids /\ Phase = [id \in Ids |-> Phase[id]]
      /\ \A id \in Ids : Phase[id] = IF fate[id] # "open" THEN fate[id]
                                     ELSE IF Has(requestQ, id) THEN "accepted"
                                     ELSE IF cur = id THEN "running" ELSE "answered"
  BY <1>q, ToSetHas DEF Phase
<1>r. /\ DOMAIN Phase' = Ids /\ Phase' = [id \in Ids |-> Phase'[id]]
      /\ \A id \in Ids : Phase'[id] = IF fate'[id] # "open" THEN fate'[id]
                                      ELSE IF Has(requestQ', id) THEN "accepted"
                                      ELSE IF cur' = id THEN "running" ELSE "answered"
  BY <1>q, ToSetHas DEF Phase
<1>s. ASSUME \A id \in Ids : Phase'[id] = Phase[id] PROVE Phase' = Phase
  BY <1>p, <1>r, <1>s
<1>t. ASSUME NEW id \in Ids, NEW v, Phase'[id] = v,
             \A other \in Ids : other # id => Phase'[other] = Phase[other]
      PROVE  Phase' = [Phase EXCEPT ![id] = v]
  <2> DEFINE f == [Phase EXCEPT ![id] = v]
  <2>1. f = [o \in Ids |-> IF o = id THEN v ELSE Phase[o]]
    BY <1>p
  <2>2. \A o \in Ids : Phase'[o] = f[o]
    BY <1>t, <2>1
  <2> QED
    BY <1>r, <2>1, <2>2
<1>1. CASE UNCHANGED <<fate, requestQ, cur, armed, result>>
  BY <1>1, <1>p, <1>r, <1>s
<1>2. ASSUME NEW c \in Clients, Accepted(c) PROVE Service!SNext
  <2> DEFINE id == Current(c)
  <2>1. /\ id \in Ids /\ fate[id] = "new"
        /\ requestQ' = Append(requestQ, id)
        /\ fate' = [fate EXCEPT ![id] = "open"]
        /\ UNCHANGED <<result, cur, armed>>
    BY <1>0, <1>2, CurrentIsId DEF Accepted, ClientInv, AskedInv, workerVars
  <2> HIDE DEF id
  <2>2. \A y : Has(requestQ', y) <=> Has(requestQ, y) \/ y = id
    BY <1>q, <2>1, AppendHas
  <2>3. Phase[id] = "new" /\ Phase'[id] = "accepted"
        /\ \A other \in Ids : other # id => Phase'[other] = Phase[other]
    BY <1>p, <1>q, <1>r, <2>1, <2>2
  <2>4. Phase' = [Phase EXCEPT ![id] = "accepted"]
    BY <1>t, <2>1, <2>3
  <2> QED
    BY <2>1, <2>3, <2>4 DEF Service!Accept
<1>3. ASSUME NEW c \in Clients, Refused(c) PROVE Service!SNext
  <2> DEFINE id == Current(c)
  <2>1. /\ id \in Ids /\ fate[id] = "new"
        /\ fate' = [fate EXCEPT ![id] = "refused"]
        /\ UNCHANGED <<requestQ, result, cur, armed>>
    BY <1>0, <1>3, CurrentIsId DEF Refused, ClientInv, AskedInv, workerVars, queueVars
  <2> HIDE DEF id
  <2>2. Phase[id] = "new" /\ Phase'[id] = "refused"
        /\ \A other \in Ids : other # id => Phase'[other] = Phase[other]
    BY <1>p, <1>q, <1>r, <2>1
  <2>3. Phase' = [Phase EXCEPT ![id] = "refused"]
    BY <1>t, <2>1, <2>2
  <2> QED
    BY <2>1, <2>2, <2>3 DEF Service!Refuse
<1>4. CASE TakeRequest
  <2> DEFINE h == Head(requestQ)
  <2>1. /\ requestQ # <<>> /\ cur = NoId /\ cur' = h /\ requestQ' = Tail(requestQ)
        /\ UNCHANGED <<fate, result, armed>>
    BY <1>0, <1>4 DEF TakeRequest, WorkerInv, historyVars
  <2>2. /\ h \in Ids /\ Has(requestQ, h)
        /\ \A y : Has(requestQ', y) <=> Has(requestQ, y) /\ y # h
    BY <1>0, <1>q, <2>1, TailHas DEF PlaceInv
  <2>3. fate[h] = "open"
    BY <1>0, <2>2 DEF PlaceInv
  <2>4. \A other \in Ids : Phase[other] # "running"
    BY <1>p, <1>q, <2>1
  <2>5. Phase'[h] = "running"
        /\ \A other \in Ids : other # h => Phase'[other] = Phase[other]
    <3> HIDE DEF h
    <3> QED
      BY <1>p, <1>q, <1>r, <2>1, <2>2, <2>3
  <2>6. Phase' = [Phase EXCEPT ![h] = "running"]
    BY <1>t, <2>2, <2>5
  <2> QED
    BY <2>1, <2>2, <2>4, <2>6 DEF Service!Begin
<1>5. ASSUME NEW id \in Ids \cup {AnyId}, CancelRequest(id) PROVE Service!SNext
  <2>1. /\ cur \in Ids /\ armed' = armed \cup {cur}
        /\ UNCHANGED <<fate, requestQ, cur, result>>
    BY <1>0, <1>5 DEF CancelRequest, WorkerInv, TypeOK, WorkerTypeOK, workerVars, queueVars
  <2>2. Phase[cur] = "running"
    BY <1>0, <1>p, <2>1 DEF PlaceInv
  <2>3. Phase' = Phase
    BY <1>p, <1>r, <1>s, <2>1
  <2> QED
    BY <2>1, <2>2, <2>3 DEF Service!Cancel
<1>6. CASE PublishReply \/ PushReply
  <2> DEFINE r == reply
             v == IF cur \in Silent THEN "skipped" ELSE "answered"
  <2>1. /\ cur \in Ids /\ cur' = NoId
        /\ result' = [result EXCEPT ![cur] = r]
        /\ fate' = IF cur \in Silent THEN [fate EXCEPT ![cur] = "skipped"] ELSE fate
        /\ UNCHANGED <<requestQ, armed>>
        /\ r \in Service!Results \ {"none"}
        /\ r = "cancelled" => cur \in armed
    BY <1>0, <1>6 DEF PublishReply, PushReply, Dispose, WorkerInv, RouteInv, TypeOK,
       WorkerTypeOK, Service!Results, Replies, Errors, queueVars
  <2>2. fate[cur] = "open" /\ ~Has(requestQ, cur)
    BY <1>0, <2>1 DEF PlaceInv
  <2>3. Phase[cur] = "running" /\ Phase'[cur] = v
    BY <1>p, <1>q, <1>r, <2>1, <2>2
  <2>4. \A other \in Ids : other # cur => Phase'[other] = Phase[other]
    <3>1. \A other \in Ids : other # cur => fate'[other] = fate[other]
      BY <1>q, <2>1
    <3> QED
      BY <1>p, <1>q, <1>r, <2>1, <3>1
  <2>5. Phase' = [Phase EXCEPT ![cur] = v]
    BY <1>t, <2>1, <2>3, <2>4
  <2>6. Service!Answer(cur, r)
    BY <2>1, <2>3, <2>5 DEF Service!Answer
  <2> QED
    BY <2>1, <2>6
<1>7. ASSUME NEW id \in Ids, Has(responseQ, id) \/ Has(pending, id),
             NEW v \in {"returned", "lost"}, fate' = [fate EXCEPT ![id] = v],
             UNCHANGED <<requestQ, cur, result, armed>>
      PROVE  Service!SNext
  <2>1. fate[id] = "open" /\ ~Has(requestQ, id) /\ cur # id
    BY <1>0, <1>7 DEF PlaceInv
  <2>2. Phase[id] = "answered" /\ Phase'[id] = v
    BY <1>p, <1>q, <1>r, <1>7, <2>1
  <2>3. \A other \in Ids : other # id => Phase'[other] = Phase[other]
    BY <1>p, <1>q, <1>r, <1>7
  <2>4. Phase' = [Phase EXCEPT ![id] = v]
    BY <1>t, <2>2, <2>3
  <2> QED
    BY <1>7, <2>2, <2>4 DEF Service!Return, Service!Lose
<1>8. ASSUME NEW c \in Callers, ReceivePending(c) PROVE Service!SNext
  <2>1. PICK i \in 1 .. Len(pending) :
          /\ fate' = [fate EXCEPT ![pending[i]] = "returned"]
          /\ UNCHANGED <<requestQ, cur, result, armed>>
    BY <1>8 DEF ReceivePending, HandOver, workerVars
  <2>2. pending[i] \in Ids /\ Has(pending, pending[i])
    BY <1>q DEF Has
  <2> QED
    BY <1>7, <2>1, <2>2
<1>9. ASSUME NEW c \in Callers, ReceiveMatch(c) \/ ReceiveOther(c)
      PROVE  Service!SNext \/ UNCHANGED Service!svars
  <2>1. /\ Head(responseQ) \in Ids /\ Has(responseQ, Head(responseQ))
        /\ UNCHANGED <<requestQ, cur, result, armed>>
    BY <1>0, <1>9, <1>q, TailHas DEF PlaceInv, ReceiveMatch, ReceiveOther, HandOver, workerVars
  <2>2. \/ fate' = [fate EXCEPT ![Head(responseQ)] = "returned"]
        \/ fate' = [fate EXCEPT ![Head(responseQ)] = "lost"]
        \/ fate' = fate
    BY <1>9 DEF ReceiveMatch, ReceiveOther, HandOver
  <2> QED
    BY <1>1, <1>7, <2>1, <2>2
<1> QED
  BY <1>1, <1>2, <1>3, <1>4, <1>5, <1>6, <1>8, <1>9
  DEF Next, WorkerStep, ReceiveStep, vars, queueVars, workerVars, historyVars,
      InitCore, StartCore, AddContextProvider, AddObserver, Submit, ArmRequest,
      BuildContext, LlmAnswers, LlmFails, RunTools, CompleteRequest, FinishRequest,
      CallReceive, LockResponses, ReceiveTimeout

-----------------------------------------------------------------------------
(* The theorems.                                                           *)

\* Between submit and its answer's return a request is in exactly one of the request
\* queue, the worker, the response queue and the pending list, and only once; when it
\* was refused, returned or dropped it is nowhere.
THEOREM RequestsAreInOnePlace == Spec => []OpenRequestInOnePlace
<1>1. ServiceInv => OpenRequestInOnePlace
  BY PlaceCounted DEF ServiceInv, IInv
<1> QED
  BY <1>1, ServiceInvAlways, PTL

\* The caller gets the answer the completion observers were told of, whatever cancels
\* and failures come between.
THEOREM ReportedAnswersStand == Spec => []ReportedAnswerStands
<1>1. ServiceInv => ReportedAnswerStands
  BY DEF ServiceInv, ReportInv, ReportedAnswerStands
<1> QED
  BY <1>1, ServiceInvAlways, PTL

\* The core with its queues, lock, pending list and worker is the service of AgentService:
\* requests are taken up in order and one at a time, answered once, reported cancelled only
\* on demand, and each answer goes back at most once.
THEOREM CoreImplementsService == Spec => ImplementsService
<1>1. Init => Service!SInit
  BY InitImplements
<1>2. ServiceInv /\ ServiceInv' /\ [Next]_vars => [Service!SNext]_(Service!svars)
  BY StepImplements
<1>3. Spec => []ServiceInv
  BY ServiceInvAlways
<1> QED
  BY <1>1, <1>2, <1>3, PTL DEF Spec, ImplementsService, Service!ServiceSpec

=============================================================================
