----------------------------- MODULE CapService -----------------------------
(***************************************************************************)
(* What the capability registry promises to those who call capabilities    *)
(* and to the groups' life-cycle callbacks, with no slots, counts or       *)
(* sections: a call is taken only by a group that is open and stays in the *)
(* capability it asked for until it returns; a group that began to drain   *)
(* never opens again; its last stop callbacks run, and it goes, when no    *)
(* call is in it; parts are started in an open group only and stopped in   *)
(* a group that takes no calls; and nothing of a group that goes is left   *)
(* running.  ClawCap implements this module.                               *)
(***************************************************************************)
CONSTANTS
  Groups,   \* the groups that can be loaded
  Members,  \* the capabilities of each, in order
  Calls,    \* the tasks that call capabilities
  NoCap     \* what a task calls that calls nothing

VARIABLES
  status,   \* what each group is to its callers
  inside,   \* the capability each task is in
  live      \* the groups and capabilities started and not stopped since

cvars == <<status, inside, live>>

Statuses == {"out", "open", "closed", "draining", "leaving"}

CapsOf(g) == {Members[g][n] : n \in DOMAIN Members[g]}
Parts(g)  == {g} \cup CapsOf(g)

CInit ==
  /\ status = [g \in Groups |-> "out"]
  /\ inside = [k \in Calls |-> NoCap]
  /\ live = {}

Becomes(g, from, to) ==
  /\ status[g] \in from
  /\ status' = [status EXCEPT ![g] = to]
  /\ UNCHANGED <<inside, live>>

NobodyIn(g) == \A k \in Calls : inside[k] \notin CapsOf(g)

\* No two groups that are loaded have a capability of the same name.
Load(g) ==
  /\ Becomes(g, {"out"}, "open")
  /\ \A h \in Groups : status[h] # "out" => CapsOf(g) \cap CapsOf(h) = {}

Open(g)  == Becomes(g, {"closed"}, "open")
Close(g) == Becomes(g, {"open"}, "closed")
Drain(g) == Becomes(g, {"open", "closed"}, "draining")
Empty(g) == Becomes(g, {"draining"}, "leaving") /\ NobodyIn(g)
Go(g)    == Becomes(g, {"leaving"}, "out") /\ NobodyIn(g) /\ Parts(g) \cap live = {}

StartPart(g, x) ==
  /\ status[g] = "open"
  /\ live' = live \cup {x}
  /\ UNCHANGED <<status, inside>>

StopPart(g, x) ==
  /\ status[g] \in {"closed", "leaving"}
  /\ live' = live \ {x}
  /\ UNCHANGED <<status, inside>>

Call(k, g, c) ==
  /\ inside[k] = NoCap
  /\ status[g] = "open"
  /\ inside' = [inside EXCEPT ![k] = c]
  /\ UNCHANGED <<status, live>>

Return(k) ==
  /\ inside[k] # NoCap
  /\ inside' = [inside EXCEPT ![k] = NoCap]
  /\ UNCHANGED <<status, live>>

CNext ==
  \/ \E g \in Groups :
       \/ Load(g) \/ Open(g) \/ Close(g) \/ Drain(g) \/ Empty(g) \/ Go(g)
       \/ \E x \in Parts(g) : StartPart(g, x) \/ StopPart(g, x)
       \/ \E k \in Calls, c \in CapsOf(g) : Call(k, g, c)
  \/ \E k \in Calls : Return(k)

CapSpec == CInit /\ [][CNext]_cvars

=============================================================================
