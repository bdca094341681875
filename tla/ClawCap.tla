------------------------------ MODULE ClawCap ------------------------------
(***************************************************************************)
(* The capability registry (components/claw_modules/claw_cap/src/          *)
(* claw_cap.c): groups of capabilities are loaded, enabled, disabled and   *)
(* unloaded while the agent, the event router, Lua jobs and the console    *)
(* call capabilities by name.                                              *)
(*                                                                         *)
(* A section under s_runtime.mutex is one step, and so is each life-cycle  *)
(* callback, which runs outside the mutex.  One task manages the registry: *)
(* at boot app_claw.c's, later the console's (basic_demo_cli.c,            *)
(* cmd_cap_mcp_server.c); nobody else calls these functions.  Any number   *)
(* of tasks make calls.  A capability's state is its group's: every        *)
(* section that writes one writes the other.  The lists of groups visible  *)
(* to the LLM only decide whether an agent's call is refused, which        *)
(* changes nothing here.                                                   *)
(***************************************************************************)
EXTENDS Integers, Sequences, FiniteSets, FiniteSetsExt

CONSTANTS
  Groups,           \* the groups that can be loaded
  Members,          \* the capabilities of each, in order
  Calls,            \* the tasks that call capabilities
  NoGroup, NoCap,   \* what an empty slot holds
  CallbackCanFail   \* whether a life-cycle callback may return an error

Caps == UNION {{Members[g][n] : n \in DOMAIN Members[g]} : g \in Groups}

\* A group has a capability at least, and none twice: validate_group_locked.
ASSUME ClawCapAssumption ==
  /\ IsFiniteSet(Groups) /\ Groups # {} /\ NoGroup \notin Groups
  /\ Members \in [Groups -> Seq(Caps)]
  /\ \A g \in Groups :
       /\ Len(Members[g]) > 0
       /\ \A m, n \in 1 .. Len(Members[g]) : Members[g][m] = Members[g][n] => m = n
  /\ NoCap \notin Caps /\ IsFiniteSet(Caps) /\ Caps \cap Groups = {}
  /\ IsFiniteSet(Calls)
  /\ CallbackCanFail \in BOOLEAN

\* The arrays grow on demand: there is a slot for everything that can be registered.
GroupSlots == 1 .. Cardinality(Groups)
CapSlots   == 1 .. Cardinality(Caps)

VARIABLES
  started,  \* s_runtime.started
  group,    \* s_runtime.group_slots: the group in each slot and its state
  cap,      \* s_runtime.descriptor_slots: what each holds, the slot of its group,
            \* its active_calls
  pc,       \* where the managing task is
  at,       \* the group slot it works on
  next,     \* the callback it runs next: 0 is the group's, n the n-th member's
  sweep,    \* whether it is in claw_cap_start_all or claw_cap_stop_all
  todo,     \* the slots that sweep has still to look at
  timed,    \* whether its unload has a timeout: timeout_ms is not UINT32_MAX
  in,       \* the descriptor slot each calling task is in, 0 when it is in none
  live      \* history: the groups and capabilities started and not stopped since

managerVars == <<pc, at, next, sweep, todo, timed>>
vars == <<started, group, cap, managerVars, in, live>>

EmptyGroup == [id |-> NoGroup, state |-> "registered"]
EmptyCap   == [id |-> NoCap, home |-> 1, active |-> 0]

\* What claw_cap_init leaves.
Init ==
  /\ started = FALSE
  /\ group = [i \in GroupSlots |-> EmptyGroup]
  /\ cap = [d \in CapSlots |-> EmptyCap]
  /\ pc = "idle" /\ at = 1 /\ next = 0
  /\ sweep = "none" /\ todo = {} /\ timed = FALSE
  /\ in = [k \in Calls |-> 0]
  /\ live = {}

-----------------------------------------------------------------------------
(* The tables.                                                             *)

Occupied(i)   == group[i].id # NoGroup
SlotOf(g)     == {i \in GroupSlots : group[i].id = g}
FreeGroups    == {i \in GroupSlots : ~Occupied(i)}
FreeCaps      == {d \in CapSlots : cap[d].id = NoCap}
MemberSlots(i) == {d \in CapSlots : cap[d].id # NoCap /\ cap[d].home = i}
InState(i, states) == group[i].state \in states
Leaving == {"draining", "unloading"}

\* claw_cap_names_conflict_locked, for every capability of the group
NamesConflict(g) ==
  \E d \in CapSlots, n \in DOMAIN Members[g] : cap[d].id = Members[g][n]

\* Mutant: the first member is not looked at.
HasActiveCallsButFirst(i) ==
  \E d \in MemberSlots(i) : cap[d].active > 0 /\ cap[d].id # Members[group[i].id][1]

\* claw_cap_group_has_active_calls_locked
HasActiveCalls(i) == \E d \in MemberSlots(i) : cap[d].active > 0

SetState(i, state) == group' = [group EXCEPT ![i].state = state]

\* The managing task is back in the sweep it is in, or at its next command.
Return == pc' = "idle" /\ at' = 1 /\ next' = 0 /\ timed' = FALSE

\* The callbacks of slot i are to run, from the n-th on.
RunCallbacks(i, n, place) == pc' = place /\ at' = i /\ next' = n /\ timed' = FALSE

-----------------------------------------------------------------------------
(* Loading, enabling and disabling.                                        *)

Idle == pc = "idle" /\ sweep = "none"

\* The first section of claw_cap_register_group: the group takes the first free slot, its
\* members the first free slots, in order.
Register(g) ==
  /\ Idle
  /\ SlotOf(g) = {} /\ ~NamesConflict(g)
  /\ LET i == Min(FreeGroups)
     IN \E a \in [1 .. Len(Members[g]) -> FreeCaps] :
          /\ \A m, n \in DOMAIN a : m < n => a[m] < a[n]
          /\ \A n \in DOMAIN a, d \in FreeCaps : d < a[n] => \E m \in DOMAIN a : a[m] = d
          /\ group' = [group EXCEPT ![i] = [id |-> g, state |-> "registered"]]
          /\ cap' = [d \in CapSlots |->
               IF \E n \in DOMAIN a : a[n] = d
                 THEN [id |-> Members[g][CHOOSE n \in DOMAIN a : a[n] = d],
                       home |-> i, active |-> 0]
                 ELSE cap[d]]
          /\ IF started THEN RunCallbacks(i, 0, "registered") ELSE Return
  /\ UNCHANGED <<started, sweep, todo, in, live>>

\* Mutant: a group that drains is enabled like any other.
EnableDraining(i) ==
  /\ IF InState(i, {"unloading"}) \/ (started /\ InState(i, {"started"}))
       THEN Return /\ UNCHANGED group
       ELSE /\ SetState(i, IF started THEN "started" ELSE "registered")
            /\ IF started THEN RunCallbacks(i, 0, "starting") ELSE Return
  /\ UNCHANGED <<started, cap, sweep, in, live>>

\* The first section of claw_cap_enable_group
EnableSection(i) ==
  /\ IF InState(i, Leaving) \/ (started /\ InState(i, {"started"}))
       THEN Return /\ UNCHANGED group
       ELSE /\ SetState(i, IF started THEN "started" ELSE "registered")
            /\ IF started THEN RunCallbacks(i, 0, "starting") ELSE Return
  /\ UNCHANGED <<started, cap, sweep, in, live>>

\* claw_cap_register_group goes on to enable the group when the registry is started.
EnableRegistered == pc = "registered" /\ EnableSection(at) /\ UNCHANGED todo

Enable(g) == Idle /\ (\E i \in SlotOf(g) : EnableSection(i)) /\ UNCHANGED todo

\* The group or the member whose callback is next
Target == IF next = 0 THEN group[at].id ELSE Members[group[at].id][next]

\* claw_cap_start_group_callbacks: the group's start, then for each member its init, the
\* first time, and its start.
StartNext ==
  /\ pc = "starting"
  /\ live' = live \cup {Target}
  /\ IF next = Len(Members[group[at].id])
       THEN pc' = "begun" /\ UNCHANGED next
       ELSE next' = next + 1 /\ UNCHANGED pc
  /\ UNCHANGED <<started, group, cap, at, sweep, todo, timed, in>>

\* The first error, of an init or a start, ends it.
StartFails ==
  /\ CallbackCanFail
  /\ pc = "starting"
  /\ pc' = "failed"
  /\ UNCHANGED <<started, group, cap, at, next, sweep, todo, timed, in, live>>

\* Mutant: a group whose start failed is left as it is.
IgnoreFailure ==
  /\ pc = "failed"
  /\ Return
  /\ UNCHANGED <<started, group, cap, sweep, todo, in, live>>

\* The last section of claw_cap_enable_group, after an error and without one
DisableFailed ==
  /\ pc = "failed"
  /\ IF InState(at, Leaving) THEN UNCHANGED group ELSE SetState(at, "disabled")
  /\ Return
  /\ UNCHANGED <<started, cap, sweep, todo, in, live>>

FinishStart ==
  /\ pc = "begun"
  /\ IF InState(at, Leaving) THEN UNCHANGED group ELSE SetState(at, "started")
  /\ Return
  /\ UNCHANGED <<started, cap, sweep, todo, in, live>>

\* The section of claw_cap_disable_group
DisableSection(i) ==
  /\ IF InState(i, Leaving \cup {"disabled"})
       THEN Return /\ UNCHANGED group
       ELSE /\ SetState(i, "disabled")
            /\ RunCallbacks(i, Len(Members[group[i].id]), "stopping")
  /\ UNCHANGED <<started, cap, sweep, in, live>>

Disable(g) == Idle /\ (\E i \in SlotOf(g) : DisableSection(i)) /\ UNCHANGED todo

\* Mutant: the loop over the callbacks runs once too often.
StopOneTooMany ==
  /\ pc \in {"stopping", "unloading"}
  /\ live' = live \ {Target}
  /\ next' = next - 1
  /\ UNCHANGED <<started, group, cap, pc, at, sweep, todo, timed, in>>

\* claw_cap_stop_group_callbacks: the members' stops from the last to the first, then the
\* group's.  An error changes nothing but what an unload returns.
StopNext ==
  /\ pc \in {"stopping", "unloading"}
  /\ live' = live \ {Target}
  /\ \/ next > 0 /\ next' = next - 1 /\ UNCHANGED <<pc, at, timed>>
     \/ next = 0 /\ pc = "unloading" /\ pc' = "clear" /\ UNCHANGED <<at, next, timed>>
     \/ next = 0 /\ pc = "stopping" /\ Return
  /\ UNCHANGED <<started, group, cap, sweep, todo, in>>

-----------------------------------------------------------------------------
(* claw_cap_start_all and claw_cap_stop_all.                               *)

StartAll ==
  /\ Idle /\ ~started
  /\ started' = TRUE
  /\ sweep' = "start" /\ todo' = GroupSlots
  /\ UNCHANGED <<group, cap, pc, at, next, timed, in, live>>

StopAll ==
  /\ Idle
  /\ sweep' = "stop" /\ todo' = GroupSlots
  /\ UNCHANGED <<started, group, cap, pc, at, next, timed, in, live>>

\* The next slot of the sweep: start_all enables what is not disabled, stop_all disables
\* what is started.
SweepNext ==
  /\ pc = "idle" /\ todo # {}
  /\ LET i == Min(todo)
     IN /\ todo' = todo \ {i}
        /\ IF /\ Occupied(i)
              /\ IF sweep = "start" THEN ~InState(i, {"disabled"}) ELSE InState(i, {"started"})
             THEN IF sweep = "start" THEN EnableSection(i) ELSE DisableSection(i)
             ELSE UNCHANGED <<started, group, cap, pc, at, next, sweep, timed, in, live>>

SweepEnds ==
  /\ pc = "idle" /\ todo = {} /\ sweep # "none"
  /\ started' = (sweep = "start")
  /\ sweep' = "none"
  /\ UNCHANGED <<group, cap, pc, at, next, todo, timed, in, live>>

-----------------------------------------------------------------------------
(* claw_cap_unregister_group.                                              *)

\* Mutant: a group that is disabled has been stopped and is not stopped again.
UnloadDisabled(g) ==
  /\ Idle
  /\ timed' \in BOOLEAN
  /\ \E i \in SlotOf(g) :
       /\ ~InState(i, {"unloading"})
       /\ SetState(i, "draining")
       /\ at' = i
       /\ pc' = IF InState(i, {"disabled"}) THEN "clear" ELSE "draining"
  /\ UNCHANGED <<started, cap, next, sweep, todo, in, live>>

\* The group drains: it takes no call any more.
Unload(g) ==
  /\ Idle
  /\ timed' \in BOOLEAN
  /\ \E i \in SlotOf(g) :
       /\ ~InState(i, {"unloading"})
       /\ SetState(i, "draining")
       /\ at' = i
  /\ pc' = "draining"
  /\ UNCHANGED <<started, cap, next, sweep, todo, in, live>>

\* A look at the group, every CLAW_CAP_UNLOAD_POLL_MS, finds no call in it.
Drained ==
  /\ pc = "draining"
  /\ ~HasActiveCalls(at)
  /\ SetState(at, "unloading")
  /\ RunCallbacks(at, Len(Members[group[at].id]), "unloading")
  /\ UNCHANGED <<started, cap, sweep, todo, in, live>>

\* Mutant: the group is unloaded when the time is up.
DrainExpiresAnyway ==
  /\ pc = "draining"
  /\ timed
  /\ HasActiveCalls(at)
  /\ SetState(at, "unloading")
  /\ RunCallbacks(at, Len(Members[group[at].id]), "unloading")
  /\ UNCHANGED <<started, cap, sweep, todo, in, live>>

\* A look finds a call and the time is up: ESP_ERR_TIMEOUT, and the group stays draining.
DrainExpires ==
  /\ pc = "draining"
  /\ timed
  /\ HasActiveCalls(at)
  /\ Return
  /\ UNCHANGED <<started, group, cap, sweep, todo, in, live>>

\* Mutant: the descriptors of the group are left in their slots.
ClearGroupOnly ==
  /\ pc = "clear"
  /\ group' = [group EXCEPT ![at] = EmptyGroup]
  /\ Return
  /\ UNCHANGED <<started, cap, sweep, todo, in, live>>

\* claw_cap_clear_group_slot_locked
Clear ==
  /\ pc = "clear"
  /\ cap' = [d \in CapSlots |-> IF d \in MemberSlots(at) THEN EmptyCap ELSE cap[d]]
  /\ group' = [group EXCEPT ![at] = EmptyGroup]
  /\ Return
  /\ UNCHANGED <<started, sweep, todo, in, live>>

-----------------------------------------------------------------------------
(* claw_cap_call.                                                          *)

\* Mutant: a capability goes on taking calls while its group drains.
EnterWhileDraining(k, d) ==
  /\ in[k] = 0
  /\ cap[d].id # NoCap
  /\ InState(cap[d].home, {"registered", "started", "draining"})
  /\ cap' = [cap EXCEPT ![d].active = @ + 1]
  /\ in' = [in EXCEPT ![k] = d]
  /\ UNCHANGED <<started, group, managerVars, live>>

\* The first section: the capability is found by its name and is available.
Enter(k, d) ==
  /\ in[k] = 0
  /\ cap[d].id # NoCap
  /\ InState(cap[d].home, {"registered", "started"})
  /\ cap' = [cap EXCEPT ![d].active = @ + 1]
  /\ in' = [in EXCEPT ![k] = d]
  /\ UNCHANGED <<started, group, managerVars, live>>

\* The second: the slot's count goes down if the slot is in use, whatever it holds by now.
Leave(k) ==
  /\ in[k] # 0
  /\ cap' = IF cap[in[k]].id # NoCap /\ cap[in[k]].active > 0
              THEN [cap EXCEPT ![in[k]].active = @ - 1] ELSE cap
  /\ in' = [in EXCEPT ![k] = 0]
  /\ UNCHANGED <<started, group, managerVars, live>>

-----------------------------------------------------------------------------

Command == \/ \E g \in Groups : Register(g) \/ Enable(g) \/ Disable(g) \/ Unload(g)
           \/ StartAll \/ StopAll

\* What the managing task does once a command has begun
Proceed == \/ EnableRegistered
           \/ StartNext \/ StartFails \/ DisableFailed \/ FinishStart
           \/ StopNext
           \/ SweepNext \/ SweepEnds
           \/ Drained \/ DrainExpires \/ Clear

CallStep(k) == Leave(k) \/ \E d \in CapSlots : Enter(k, d)

Next == Command \/ Proceed \/ \E k \in Calls : CallStep(k)

Spec == Init /\ [][Next]_vars

\* The managing task is scheduled, and every execute function returns.
LiveSpec == Spec /\ WF_vars(Proceed) /\ \A k \in Calls : WF_vars(Leave(k))

-----------------------------------------------------------------------------
(* Properties.                                                             *)

\* The type of the state: no callback index and no count of calls leaves its range, and the
\* managing task works on a slot that exists.
TypeOK ==
  /\ started \in BOOLEAN
  /\ group \in [GroupSlots -> [id : Groups \cup {NoGroup},
       state : {"registered", "started", "disabled", "draining", "unloading"}]]
  /\ cap \in [CapSlots -> [id : Caps \cup {NoCap}, home : GroupSlots, active : Nat]]
  /\ pc \in {"idle", "registered", "starting", "failed", "begun", "stopping", "draining",
             "unloading", "clear"}
  /\ at \in GroupSlots /\ next \in Nat
  /\ sweep \in {"none", "start", "stop"} /\ todo \subseteq GroupSlots /\ timed \in BOOLEAN
  /\ in \in [Calls -> CapSlots \cup {0}]
  /\ live \subseteq Groups \cup Caps

\* The slots of a group's members hold its capabilities, each in one slot, for as long as
\* the group is registered: register_group_locked and clear_group_slot_locked, and no slot
\* is left over when a group goes and another takes its slots.
MembersComplete ==
  /\ \A i, j \in GroupSlots : Occupied(i) /\ group[i].id = group[j].id => i = j
  /\ \A d, e \in CapSlots : cap[d].id # NoCap /\ cap[d].id = cap[e].id => d = e
  /\ \A i \in GroupSlots :
       {cap[d].id : d \in MemberSlots(i)} =
         IF Occupied(i) THEN {Members[group[i].id][n] : n \in DOMAIN Members[group[i].id]}
                        ELSE {}

\* claw_cap_call counts itself in by descriptor slot and out by the same index: the count of
\* every slot is the number of calls in progress in it, though slots are freed and reused
\* while calls run.
ActiveCallsExact ==
  \A d \in CapSlots : cap[d].active = Cardinality({k \in Calls : in[k] = d})

\* An unload waits for the calls in progress: from the first stop callback of an unload on
\* until the slots are cleared no call is inside the group, and no call is ever inside a
\* slot that holds nothing.
NoCallInUnloading ==
  \A k \in Calls : in[k] # 0 =>
    /\ cap[in[k]].id # NoCap
    /\ ~InState(cap[in[k]].home, {"unloading"})

\* A group that is started has been started completely, unless the managing task is at work
\* on it: no failed start and no sweep leaves a group started of which a part is not.
StartedIsUp ==
  \A i \in GroupSlots :
    Occupied(i) /\ InState(i, {"started"}) /\ ~(pc \in {"starting", "failed"} /\ at = i) =>
      /\ group[i].id \in live
      /\ \A n \in DOMAIN Members[group[i].id] : Members[group[i].id][n] \in live

\* Nothing of a group goes on running when the group is gone, whether it was enabled,
\* disabled or half started (a start that failed stops nothing) when it was unloaded.
NothingOutlivesItsGroup ==
  \A x \in live : \E i \in GroupSlots :
    /\ Occupied(i)
    /\ x = group[i].id \/ \E n \in DOMAIN Members[group[i].id] : x = Members[group[i].id][n]

\* An unload without a timeout comes to its end, because a draining group takes no call.
UnloadReturns == pc = "draining" /\ ~timed ~> pc = "idle"

-----------------------------------------------------------------------------
(* What the registry is to those who call it.                              *)

\* What a group is to its callers, in the terms of CapService
Status(g) ==
  IF SlotOf(g) = {} THEN "out"
  ELSE LET i == Min(SlotOf(g))
       IN CASE InState(i, {"registered", "started"}) -> "open"
            [] InState(i, {"disabled"})              -> "closed"
            [] InState(i, {"draining"})              -> "draining"
            [] InState(i, {"unloading"})             -> "leaving"

Service == INSTANCE CapService
             WITH status <- [g \in Groups |-> Status(g)],
                  inside <- [k \in Calls |-> IF in[k] = 0 THEN NoCap ELSE cap[in[k]].id]

\* A call is tied to a slot by its index while groups are loaded into and cleared out of the
\* slots around it, and an unload gives up its waits and is taken up again: seen from
\* outside, a call stays in the capability it asked for, a group that began to drain opens
\* no more, and it goes only when no call is in it and nothing of it runs.
ImplementsCapService == Service!CapSpec

=============================================================================
