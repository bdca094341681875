---------------------------- MODULE AgentService ----------------------------
(***************************************************************************)
(* What the agent core promises to the tasks that use it, with no queues,  *)
(* locks or worker steps: requests are taken up in the order in which they *)
(* were accepted, one at a time; each is answered once; an answer says     *)
(* "cancelled" only if somebody asked for that while the request was being *)
(* worked on; and an answer goes back at most once.  ClawCore implements   *)
(* this module.                                                            *)
(***************************************************************************)
EXTENDS Naturals, Sequences

CONSTANTS
  Ids,      \* the requests that can be submitted
  Silent    \* those whose answer is not handed back (SKIP_RESPONSE_QUEUE)

VARIABLES
  phase,    \* where each request is
  line,     \* the accepted requests that wait, oldest first
  wanted,   \* the requests somebody asked to cancel while they were running
  result    \* the answer each request got

svars == <<phase, line, wanted, result>>

Phases == {"new", "refused", "accepted", "running", "answered",
           "returned", "lost", "skipped"}

Results == {"none", "text", "empty", "failed", "cancelled"}

SInit ==
  /\ phase = [id \in Ids |-> "new"]
  /\ line = <<>>
  /\ wanted = {}
  /\ result = [id \in Ids |-> "none"]

Accept(id) ==
  /\ phase[id] = "new"
  /\ phase' = [phase EXCEPT ![id] = "accepted"]
  /\ line' = Append(line, id)
  /\ UNCHANGED <<wanted, result>>

Refuse(id) ==
  /\ phase[id] = "new"
  /\ phase' = [phase EXCEPT ![id] = "refused"]
  /\ UNCHANGED <<line, wanted, result>>

Begin(id) ==
  /\ line # <<>>
  /\ id = Head(line)
  /\ \A other \in Ids : phase[other] # "running"
  /\ phase' = [phase EXCEPT ![id] = "running"]
  /\ line' = Tail(line)
  /\ UNCHANGED <<wanted, result>>

Cancel(id) ==
  /\ phase[id] = "running"
  /\ wanted' = wanted \cup {id}
  /\ UNCHANGED <<phase, line, result>>

Answer(id, r) ==
  /\ phase[id] = "running"
  /\ r = "cancelled" => id \in wanted
  /\ phase' = [phase EXCEPT ![id] = IF id \in Silent THEN "skipped"
                                                     ELSE "answered"]
  /\ result' = [result EXCEPT ![id] = r]
  /\ UNCHANGED <<line, wanted>>

Return(id) ==
  /\ phase[id] = "answered"
  /\ phase' = [phase EXCEPT ![id] = "returned"]
  /\ UNCHANGED <<line, wanted, result>>

\* The heap ran out while the answer was being set aside for its caller.
Lose(id) ==
  /\ phase[id] = "answered"
  /\ phase' = [phase EXCEPT ![id] = "lost"]
  /\ UNCHANGED <<line, wanted, result>>

SNext ==
  \E id \in Ids :
    \/ Accept(id)
    \/ Refuse(id)
    \/ Begin(id)
    \/ Cancel(id)
    \/ \E r \in Results \ {"none"} : Answer(id, r)
    \/ Return(id)
    \/ Lose(id)

ServiceSpec == SInit /\ [][SNext]_svars

=============================================================================
