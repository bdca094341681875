--------------------------- MODULE ClawCapProofs ---------------------------
(***************************************************************************)
(* Proofs about ClawCap, for every number of groups, capabilities and      *)
(* calls: what an unload waits for, what the slots hold while they are     *)
(* freed and taken again, and what goes on running.                        *)
(***************************************************************************)
EXTENDS ClawCap, SlotLemmas, FiniteSetTheorems, TLAPS

\* The capabilities of a group
MembersOf(g) == {Members[g][n] : n \in DOMAIN Members[g]}

\* The group the managing task works on, and how many members it has
Here   == group[at].id
Length == Len(Members[Here])

\* The state of the group goes with the place of the managing task, and nobody else writes
\* it: so what was read before a callback still holds after it.
ManagerInv ==
  /\ pc # "idle" => Occupied(at)
  /\ pc \in {"starting", "failed", "begun"} => InState(at, {"started"})
  /\ pc = "stopping" => InState(at, {"disabled"})
  /\ pc = "draining" => InState(at, {"draining"})
  /\ pc \in {"unloading", "clear"} => InState(at, {"unloading"})
  /\ pc \in {"starting", "failed", "begun", "stopping", "unloading"} => next <= Length

\* The callbacks have run up to the next one: in a start those before it have, in an unload
\* those after it.
CallbackInv ==
  /\ pc = "starting" =>
       /\ next > 0 => Here \in live
       /\ \A n \in 1 .. Length : n < next => Members[Here][n] \in live
  /\ pc = "unloading" => \A n \in 1 .. Length : n > next => Members[Here][n] \notin live
  /\ pc = "clear" => Here \notin live /\ MembersOf(Here) \cap live = {}

IInv ==
  /\ TypeOK
  /\ ManagerInv
  /\ CallbackInv
  /\ MembersComplete
  /\ ActiveCallsExact
  /\ NoCallInUnloading
  /\ StartedIsUp
  /\ NothingOutlivesItsGroup

-----------------------------------------------------------------------------
(* Facts about the data.                                                   *)

\* There are slots, and a group has members, each once.
LEMMA Constants ==
  /\ 1 \in GroupSlots /\ GroupSlots \subseteq Nat /\ CapSlots \subseteq Nat
  /\ \A g \in Groups : /\ DOMAIN Members[g] = 1 .. Len(Members[g])
                       /\ Len(Members[g]) \in Nat \ {0}
                       /\ MembersOf(g) \subseteq Caps
                       /\ \A n \in 1 .. Len(Members[g]) :
                            Members[g][n] \in MembersOf(g) /\ Members[g][n] \in Caps
  /\ NoGroup \notin Groups /\ NoCap \notin Caps /\ Caps \cap Groups = {}
<1> USE ClawCapAssumption DEF ClawCapAssumption
<1>1. 1 \in GroupSlots /\ GroupSlots \subseteq Nat /\ CapSlots \subseteq Nat
  <2>1. Cardinality(Groups) \in Nat /\ Cardinality(Groups) # 0
    BY FS_CardinalityType, FS_EmptySet
  <2> QED
    BY <2>1 DEF GroupSlots, CapSlots
<1>2. ASSUME NEW g \in Groups
      PROVE  /\ DOMAIN Members[g] = 1 .. Len(Members[g])
             /\ Len(Members[g]) \in Nat \ {0}
             /\ MembersOf(g) \subseteq Caps
             /\ \A n \in 1 .. Len(Members[g]) :
                  Members[g][n] \in MembersOf(g) /\ Members[g][n] \in Caps
  <2>1. Members[g] \in Seq(Caps) /\ Len(Members[g]) > 0
    OBVIOUS
  <2>2. DOMAIN Members[g] = 1 .. Len(Members[g]) /\ Len(Members[g]) \in Nat \ {0}
    BY <2>1
  <2>3. \A n \in 1 .. Len(Members[g]) : Members[g][n] \in Caps
    BY <2>1
  <2>4. MembersOf(g) = {Members[g][n] : n \in 1 .. Len(Members[g])}
    BY <2>2, Zenon DEF MembersOf
  <2>5. MembersOf(g) \subseteq Caps
    BY <2>3, <2>4
  <2>6. \A n \in 1 .. Len(Members[g]) : Members[g][n] \in MembersOf(g)
    BY <2>4
  <2> QED
    BY <2>2, <2>3, <2>5, <2>6, Zenon
<1> QED
  BY <1>1, <1>2

\* An unregistered group finds a free slot.
LEMMA RoomForGroup ==
  ASSUME TypeOK, MembersComplete, NEW g \in Groups, SlotOf(g) = {}
  PROVE  Min(FreeGroups) \in GroupSlots /\ ~Occupied(Min(FreeGroups))
<1>1. ASSUME FreeGroups = {} PROVE FALSE
  <2> DEFINE f == [i \in GroupSlots |-> group[i].id]
  <2>1. f \in [GroupSlots -> Groups \ {g}]
    BY <1>1 DEF FreeGroups, Occupied, SlotOf, TypeOK
  <2>2. IsFiniteSet(GroupSlots) /\ Cardinality(GroupSlots) = Cardinality(Groups)
        /\ Cardinality(Groups) \in Nat
    BY ClawCapAssumption, FS_Interval, FS_CardinalityType DEF ClawCapAssumption, GroupSlots
  <2>3. IsFiniteSet(Groups \ {g}) /\ Cardinality(Groups \ {g}) = Cardinality(Groups) - 1
    BY ClawCapAssumption, FS_RemoveElement DEF ClawCapAssumption
  <2>4. \E i, j \in GroupSlots : i # j /\ f[i] = f[j]
    <3> HIDE DEF f
    <3> QED
      BY <2>1, <2>2, <2>3, FS_PigeonHole
  <2> QED
    BY <1>1, <2>4 DEF MembersComplete, FreeGroups
<1>2. FreeGroups \in SUBSET Nat
  BY DEF FreeGroups, GroupSlots
<1>3. Min(FreeGroups) \in FreeGroups
  BY <1>1, <1>2, MinIsLeast
<1> QED
  BY <1>3 DEF FreeGroups

\* A registered group's members have each a slot, which knows its group; a slot that holds
\* something belongs to a registered group.
LEMMA MemberHasSlot ==
  ASSUME TypeOK, MembersComplete
  PROVE  /\ \A i \in GroupSlots : Occupied(i) =>
              \A x \in MembersOf(group[i].id) : \E d \in CapSlots : cap[d].id = x /\ cap[d].home = i
         /\ \A d \in CapSlots : cap[d].id # NoCap =>
              /\ cap[d].home \in GroupSlots /\ Occupied(cap[d].home)
              /\ cap[d].id \in MembersOf(group[cap[d].home].id)
<1>1. ASSUME NEW i \in GroupSlots, Occupied(i), NEW x \in MembersOf(group[i].id)
      PROVE  \E d \in CapSlots : cap[d].id = x /\ cap[d].home = i
  <2>1. x \in {cap[d].id : d \in MemberSlots(i)}
    BY <1>1 DEF MembersComplete, MembersOf
  <2> QED
    BY <2>1 DEF MemberSlots
<1>2. ASSUME NEW d \in CapSlots, cap[d].id # NoCap
      PROVE  /\ cap[d].home \in GroupSlots /\ Occupied(cap[d].home)
             /\ cap[d].id \in MembersOf(group[cap[d].home].id)
  <2>1. cap[d].home \in GroupSlots
    BY DEF TypeOK
  <2>2. cap[d].id \in {cap[e].id : e \in MemberSlots(cap[d].home)}
    BY <1>2 DEF MemberSlots
  <2> QED
    BY <2>1, <2>2 DEF MembersComplete, MembersOf
<1> QED
  BY <1>1, <1>2

\* Two groups that are registered at the same time have no capability in common.
LEMMA GroupsAreDisjoint ==
  ASSUME TypeOK, MembersComplete, NEW i \in GroupSlots, NEW j \in GroupSlots, i # j,
         Occupied(i), Occupied(j)
  PROVE  /\ group[i].id # group[j].id
         /\ MembersOf(group[i].id) \cap MembersOf(group[j].id) = {}
<1>1. ASSUME NEW x \in MembersOf(group[i].id), x \in MembersOf(group[j].id) PROVE FALSE
  <2>1. PICK d \in CapSlots : cap[d].id = x /\ cap[d].home = i
    BY MemberHasSlot
  <2>2. PICK e \in CapSlots : cap[e].id = x /\ cap[e].home = j
    BY <1>1, MemberHasSlot
  <2>3. x # NoCap
    BY Constants DEF TypeOK, Occupied
  <2> QED
    BY <2>1, <2>2, <2>3 DEF MembersComplete
<1> QED
  BY <1>1 DEF MembersComplete

-----------------------------------------------------------------------------
(* What the steps do to the tables.                                        *)

\* What a slot of a table may hold
States    == {"registered", "started", "disabled", "draining", "unloading"}
GroupType == [id : Groups \cup {NoGroup}, state : States]
CapType   == [id : Caps \cup {NoCap}, home : GroupSlots, active : Nat]

\* No slot gets another group or another capability.
IdsStay ==
  /\ \A i \in GroupSlots : group'[i].id = group[i].id
  /\ \A d \in CapSlots : cap'[d].id = cap[d].id /\ cap'[d].home = cap[d].home

\* Registering gives the group a free slot, and each of its members one.
LEMMA RegisterEffect ==
  ASSUME TypeOK, MembersComplete, NEW g \in Groups, Register(g)
  PROVE  \E i \in GroupSlots, T \in SUBSET FreeCaps :
           /\ ~Occupied(i) /\ SlotOf(g) = {}
           /\ group' = [group EXCEPT ![i] = [id |-> g, state |-> "registered"]]
           /\ cap' \in [CapSlots -> CapType]
           /\ \A d \in CapSlots \ T : cap'[d] = cap[d]
           /\ \A d \in T : /\ cap'[d].id \in MembersOf(g)
                           /\ cap'[d].home = i /\ cap'[d].active = 0
           /\ \A d, e \in T : cap'[d].id = cap'[e].id => d = e
           /\ \A x \in MembersOf(g) : \E d \in T : cap'[d].id = x
           /\ \A x \in MembersOf(g), d \in CapSlots : cap[d].id # x
           /\ pc = "idle" /\ next' = 0 /\ in' = in /\ live' = live
           /\ (pc' = "registered" /\ at' = i) \/ (pc' = "idle" /\ at' = 1)
<1> DEFINE i == Min(FreeGroups)
<1>1. SlotOf(g) = {} /\ i \in GroupSlots /\ ~Occupied(i)
  BY RoomForGroup DEF Register
<1>2. PICK a \in [1 .. Len(Members[g]) -> FreeCaps] :
        /\ \A m, n \in DOMAIN a : m < n => a[m] < a[n]
        /\ group' = [group EXCEPT ![i] = [id |-> g, state |-> "registered"]]
        /\ cap' = [d \in CapSlots |->
             IF \E n \in DOMAIN a : a[n] = d
               THEN [id |-> Members[g][CHOOSE n \in DOMAIN a : a[n] = d],
                     home |-> i, active |-> 0]
               ELSE cap[d]]
  BY DEF Register
<1> HIDE DEF i
<1> DEFINE T == {a[n] : n \in 1 .. Len(Members[g])}
<1>3. T \in SUBSET FreeCaps /\ T \subseteq CapSlots
  BY DEF FreeCaps
<1>4. \A m, n \in 1 .. Len(Members[g]) : a[m] = a[n] => m = n
  <2> SUFFICES ASSUME NEW m \in 1 .. Len(Members[g]), NEW n \in 1 .. Len(Members[g]), m < n
               PROVE  a[m] # a[n]
    BY Constants
  <2>1. a[m] \in CapSlots /\ a[n] \in CapSlots
    BY <1>3
  <2>2. a[m] < a[n] /\ a[m] \in Nat /\ a[n] \in Nat
    BY <1>2, <2>1, Constants
  <2> QED
    BY <2>2
<1>5. \A n \in 1 .. Len(Members[g]) :
        cap'[a[n]] = [id |-> Members[g][n], home |-> i, active |-> 0]
  <2> TAKE n \in 1 .. Len(Members[g])
  <2>1. (CHOOSE m \in DOMAIN a : a[m] = a[n]) = n
    BY <1>4
  <2> QED
    BY <1>2, <1>3, <2>1
<1>6. \A d \in CapSlots \ T : cap'[d] = cap[d]
  BY <1>2
<1> DEFINE Record(n) == [id |-> Members[g][n], home |-> i, active |-> 0]
<1>7. \A n : Record(n).id = Members[g][n] /\ Record(n).home = i /\ Record(n).active = 0
  OBVIOUS
<1>8. \A d \in T : \E n \in 1 .. Len(Members[g]) : d = a[n] /\ cap'[d] = Record(n)
  BY <1>5
<1>9. \A n \in 1 .. Len(Members[g]) : a[n] \in T /\ cap'[a[n]] = Record(n)
  BY <1>5
<1>10. \A n \in 1 .. Len(Members[g]) : Members[g][n] \in MembersOf(g) /\ Members[g][n] \in Caps
  BY Constants
<1>11. cap' \in [CapSlots -> CapType]
  <2>1. ASSUME NEW d \in T PROVE cap'[d] \in CapType
    <3>1. \A n \in 1 .. Len(Members[g]) : Record(n) \in CapType
      BY <1>1, <1>10 DEF CapType
    <3> QED
      <4> HIDE DEF Record, T
      <4> QED
        BY <1>8, <2>1, <3>1
  <2>2. ASSUME NEW d \in CapSlots \ T PROVE cap'[d] \in CapType
    BY <1>6 DEF CapType, TypeOK
  <2>3. cap' = [d \in CapSlots |-> cap'[d]]
    BY <1>2
  <2> QED
    BY <2>1, <2>2, <2>3
<1> HIDE DEF Record, T
<1>12. \A d \in T : cap'[d].id \in MembersOf(g) /\ cap'[d].home = i /\ cap'[d].active = 0
  BY <1>10, <1>7, <1>8
<1>13. \A d, e \in T : cap'[d].id = cap'[e].id => d = e
  BY <1>7, <1>8, ClawCapAssumption DEF ClawCapAssumption
<1>14. \A x \in MembersOf(g) : \E d \in T : cap'[d].id = x
  <2> TAKE x \in MembersOf(g)
  <2>1. PICK n \in 1 .. Len(Members[g]) : x = Members[g][n]
    BY Constants DEF MembersOf
  <2> QED
    BY <1>7, <1>9, <2>1
<1>15. \A x \in MembersOf(g), d \in CapSlots : cap[d].id # x
  BY Constants DEF Register, NamesConflict, MembersOf
<1>16. /\ pc = "idle" /\ next' = 0 /\ in' = in /\ live' = live
       /\ (pc' = "registered" /\ at' = i) \/ (pc' = "idle" /\ at' = 1)
  <2>1. Idle /\ UNCHANGED <<in, live>> /\ (Return \/ RunCallbacks(i, 0, "registered"))
    <3>1. IF started THEN RunCallbacks(i, 0, "registered") ELSE Return
      BY DEF Register, i
    <3> QED
      BY <3>1 DEF Register
  <2> QED
    BY <2>1 DEF Idle, RunCallbacks, Return
<1> i \in GroupSlots /\ T \in SUBSET FreeCaps
  BY <1>1, <1>3
<1> WITNESS i \in GroupSlots, T \in SUBSET FreeCaps
<1> QED
  BY <1>1, <1>2, <1>6, <1>11, <1>12, <1>13, <1>14, <1>15, <1>16

\* Writing a state changes that slot's state and nothing else.
LEMMA SetStateEffect ==
  ASSUME TypeOK, NEW i \in GroupSlots, NEW state \in States, SetState(i, state)
  PROVE  /\ group' \in [GroupSlots -> GroupType]
         /\ \A j \in GroupSlots : group'[j].id = group[j].id
         /\ group'[i].state = state
         /\ \A j \in GroupSlots \ {i} : group'[j] = group[j]
<1> DEFINE new == [id |-> group[i].id, state |-> state]
<1>1. group[i] \in GroupType /\ group \in [GroupSlots -> GroupType]
  BY DEF TypeOK, GroupType, States
<1>2. [group[i] EXCEPT !.state = state] = new
  BY <1>1 DEF GroupType
<1>3. group' = [group EXCEPT ![i] = new]
  BY <1>2 DEF SetState
<1>4. new \in GroupType
  BY <1>1 DEF GroupType
<1>5. new.id = group[i].id /\ new.state = state
  OBVIOUS
<1> QED
  BY <1>1, <1>3, <1>4, <1>5

\* Counting a call in or out changes that slot's count and nothing else.
LEMMA CountEffect ==
  ASSUME TypeOK, NEW d \in CapSlots, NEW n \in Nat, cap' = [cap EXCEPT ![d].active = n]
  PROVE  /\ cap' \in [CapSlots -> CapType]
         /\ \A e \in CapSlots : cap'[e].id = cap[e].id /\ cap'[e].home = cap[e].home
         /\ cap'[d].active = n
         /\ \A e \in CapSlots \ {d} : cap'[e] = cap[e]
<1> DEFINE new == [id |-> cap[d].id, home |-> cap[d].home, active |-> n]
<1>1. cap[d] \in CapType /\ cap \in [CapSlots -> CapType]
  BY DEF TypeOK, CapType
<1>2. [cap[d] EXCEPT !.active = n] = new
  BY <1>1 DEF CapType
<1>3. cap' = [cap EXCEPT ![d] = new]
  BY <1>2
<1>4. new \in CapType
  BY <1>1 DEF CapType
<1>5. new.id = cap[d].id /\ new.home = cap[d].home /\ new.active = n
  OBVIOUS
<1> QED
  BY <1>1, <1>3, <1>4, <1>5

\* Only the states change, and those of slot i only.
StateOnly(i) ==
  /\ group' \in [GroupSlots -> GroupType]
  /\ \A j \in GroupSlots : group'[j].id = group[j].id
  /\ \A j \in GroupSlots \ {i} : group'[j] = group[j]
  /\ UNCHANGED <<cap, in>>

\* The section of an enable leaves a group that goes alone, and starts the callbacks of
\* those that it makes started.
LEMMA EnableEffect ==
  ASSUME TypeOK, NEW i \in GroupSlots, EnableSection(i)
  PROVE  /\ StateOnly(i) /\ live' = live /\ next' = 0
         /\ \/ pc' = "starting" /\ at' = i /\ group'[i].state = "started"
            \/ pc' = "idle" /\ at' = 1 /\ (group' = group \/ group'[i].state = "registered")
<1> USE DEF EnableSection, RunCallbacks, Return
<1>1. CASE InState(i, Leaving) \/ (started /\ InState(i, {"started"}))
  BY <1>1 DEF StateOnly, TypeOK, GroupType, States
<1>2. CASE ~(InState(i, Leaving) \/ (started /\ InState(i, {"started"})))
  <2>1. CASE started
    <3>1. SetState(i, "started") /\ RunCallbacks(i, 0, "starting")
      BY <1>2, <2>1
    <3>2. "started" \in States
      BY DEF States
    <3> QED
      BY <3>1, <3>2, SetStateEffect DEF StateOnly
  <2>2. CASE ~started
    <3>1. SetState(i, "registered") /\ Return
      BY <1>2, <2>2
    <3>2. "registered" \in States
      BY DEF States
    <3> QED
      BY <3>1, <3>2, SetStateEffect DEF StateOnly
  <2> QED
    BY <2>1, <2>2
<1> QED
  BY <1>1, <1>2

\* The section of a disable, likewise.
LEMMA DisableEffect ==
  ASSUME TypeOK, NEW i \in GroupSlots, DisableSection(i)
  PROVE  /\ StateOnly(i) /\ live' = live
         /\ \/ /\ pc' = "stopping" /\ at' = i /\ group'[i].state = "disabled"
               /\ next' = Len(Members[group[i].id])
            \/ pc' = "idle" /\ at' = 1 /\ next' = 0 /\ group' = group
<1> USE DEF DisableSection, RunCallbacks, Return
<1>1. CASE InState(i, Leaving \cup {"disabled"})
  BY <1>1 DEF StateOnly, TypeOK, GroupType, States
<1>2. CASE ~InState(i, Leaving \cup {"disabled"})
  <2>1. "disabled" \in States
    BY DEF States
  <2> QED
    BY <1>2, <2>1, SetStateEffect DEF StateOnly
<1> QED
  BY <1>1, <1>2

\* An unload begins.
LEMMA UnloadEffect ==
  ASSUME TypeOK, NEW g \in Groups, Unload(g)
  PROVE  \E i \in GroupSlots :
           /\ Occupied(i) /\ StateOnly(i) /\ group'[i].state = "draining"
           /\ pc = "idle" /\ pc' = "draining" /\ at' = i /\ next' = next /\ live' = live
<1>1. PICK i \in SlotOf(g) : SetState(i, "draining") /\ at' = i
  BY DEF Unload
<1>2. i \in GroupSlots /\ Occupied(i)
  BY Constants DEF SlotOf, Occupied
<1>3. "draining" \in States
  BY DEF States
<1> QED
  BY <1>1, <1>2, <1>3, SetStateEffect DEF Unload, Idle, StateOnly

\* A stop callback moves the managing task by one member.
LEMMA StopEffect ==
  ASSUME TypeOK, StopNext
  PROVE  /\ UNCHANGED <<started, group, cap, sweep, todo, in>>
         /\ live' = live \ {Target} /\ timed' \in BOOLEAN
         /\ \/ next > 0 /\ next' = next - 1 /\ pc' = pc /\ at' = at
            \/ next = 0 /\ pc = "unloading" /\ pc' = "clear" /\ at' = at /\ next' = 0
            \/ next = 0 /\ pc = "stopping" /\ pc' = "idle" /\ at' = 1 /\ next' = 0
BY DEF StopNext, Return, TypeOK

\* What the sections have in common: who may enable and disable which slot.
Enables == \E i \in GroupSlots :
  Occupied(i) /\ pc \in {"idle", "registered"} /\ EnableSection(i)

Disables == \E i \in GroupSlots : Occupied(i) /\ pc = "idle" /\ DisableSection(i)

\* The managing task only moves in its sweep.
Sweeps == pc = "idle" /\ UNCHANGED <<group, cap, pc, at, next, timed, in, live>>

\* Every step is one of these.
LEMMA StepCases ==
  ASSUME TypeOK, ManagerInv, [Next]_vars
  PROVE  \/ \E g \in Groups : Register(g) \/ Unload(g)
         \/ Enables \/ Disables \/ Sweeps
         \/ StartNext \/ StartFails \/ DisableFailed \/ FinishStart \/ StopNext
         \/ Drained \/ DrainExpires \/ Clear
         \/ \E k \in Calls : CallStep(k)
         \/ UNCHANGED vars
<1>1. ASSUME NEW g \in Groups, Enable(g) \/ Disable(g) PROVE Enables \/ Disables
  <2>1. \A i \in SlotOf(g) : i \in GroupSlots /\ Occupied(i)
    BY Constants DEF SlotOf, Occupied
  <2> QED
    BY <1>1, <2>1 DEF Enable, Disable, Enables, Disables, Idle
<1>2. CASE EnableRegistered
  BY <1>2 DEF EnableRegistered, Enables, ManagerInv, TypeOK
<1>3. CASE SweepNext
  <2> DEFINE i == Min(todo)
  <2>1. i \in GroupSlots
    BY <1>3, MinIsLeast, Constants DEF SweepNext, TypeOK
  <2>2. Sweeps \/ (Occupied(i) /\ pc = "idle" /\ (EnableSection(i) \/ DisableSection(i)))
    BY <1>3 DEF SweepNext, Sweeps
  <2> HIDE DEF i
  <2> QED
    BY <2>1, <2>2 DEF Enables, Disables
<1>4. CASE StartAll \/ StopAll \/ SweepEnds
  BY <1>4 DEF StartAll, StopAll, SweepEnds, Sweeps, Idle
<1> QED
  BY <1>1, <1>2, <1>3, <1>4 DEF Next, Command, Proceed

\* Every step keeps the types of what belongs to the sweeps.
LEMMA SweepType ==
  ASSUME TypeOK, ManagerInv, [Next]_vars
  PROVE  /\ started' \in BOOLEAN /\ timed' \in BOOLEAN
         /\ sweep' \in {"none", "start", "stop"} /\ todo' \subseteq GroupSlots
<1> USE DEF TypeOK
<1>1. ASSUME NEW i, EnableSection(i) \/ DisableSection(i)
      PROVE  started' = started /\ sweep' = sweep /\ timed' = FALSE
  BY <1>1 DEF EnableSection, DisableSection, RunCallbacks, Return
<1>2. ASSUME NEW g \in Groups, Register(g) \/ Enable(g) \/ Disable(g)
      PROVE  started' = started /\ sweep' = sweep /\ todo' = todo /\ timed' = FALSE
  BY <1>1, <1>2 DEF Register, Enable, Disable, RunCallbacks, Return
<1>3. ASSUME NEW g \in Groups, Unload(g)
      PROVE  started' = started /\ sweep' = sweep /\ todo' = todo /\ timed' \in BOOLEAN
  BY <1>3 DEF Unload
<1>4. CASE EnableRegistered
  BY <1>1, <1>4 DEF EnableRegistered
<1>5. CASE SweepNext
  <2>1. todo' \subseteq todo
    BY <1>5 DEF SweepNext
  <2>2. started' = started /\ sweep' = sweep /\ timed' \in BOOLEAN
    BY <1>1, <1>5 DEF SweepNext
  <2> QED
    BY <2>1, <2>2
<1>6. CASE StartAll \/ StopAll \/ SweepEnds
  BY <1>6 DEF StartAll, StopAll, SweepEnds
<1>7. CASE StartNext \/ StartFails \/ DisableFailed \/ FinishStart
  BY <1>7 DEF StartNext, StartFails, DisableFailed, FinishStart, Return
<1>8. CASE StopNext
  BY <1>8, StopEffect
<1>9. CASE Drained \/ DrainExpires \/ Clear
  BY <1>9 DEF Drained, DrainExpires, Clear, Return, RunCallbacks
<1>10. ASSUME NEW k \in Calls, CallStep(k) PROVE UNCHANGED <<started, managerVars>>
  BY <1>10 DEF CallStep, Enter, Leave
<1> QED
  BY <1>2, <1>3, <1>4, <1>5, <1>6, <1>7, <1>8, <1>9, <1>10
     DEF Next, Command, Proceed, managerVars, vars

-----------------------------------------------------------------------------
(* Every step keeps the invariant.                                         *)

\* What the next callback belongs to is known, and is a group or a capability.
LEMMA TargetIsKnown ==
  ASSUME TypeOK, ManagerInv, pc \in {"starting", "stopping", "unloading"}
  PROVE  /\ Here \in Groups /\ Length \in Nat \ {0} /\ next \in 0 .. Length
         /\ next = 0 => Target = Here
         /\ next > 0 => Target = Members[Here][next] /\ Target \in MembersOf(Here)
         /\ Target \in Groups \cup Caps
<1>1. Here \in Groups
  BY DEF TypeOK, ManagerInv, Occupied, Here
<1>2. Length \in Nat \ {0} /\ next \in 0 .. Length
  BY <1>1, Constants DEF TypeOK, ManagerInv, Length
<1>3. next = 0 => Target = Here
  BY DEF Target, Here
<1>4. next > 0 => Target = Members[Here][next] /\ next \in 1 .. Length
  BY <1>2 DEF Target, Here
<1>5. next > 0 => Target \in MembersOf(Here) /\ Target \in Caps
  BY <1>1, <1>4, Constants DEF Length
<1> QED
  BY <1>1, <1>2, <1>3, <1>4, <1>5

\* What the next stop callback stops belongs to no other registered group.
LEMMA TargetIsAlone ==
  ASSUME TypeOK, ManagerInv, MembersComplete, pc \in {"stopping", "unloading"},
         NEW j \in GroupSlots, j # at, Occupied(j)
  PROVE  Target # group[j].id /\ Target \notin MembersOf(group[j].id)
<1>1. at \in GroupSlots /\ Occupied(at) /\ group[j].id \in Groups
  BY DEF TypeOK, ManagerInv, Occupied
<1>2. group[j].id # Here /\ MembersOf(group[j].id) \cap MembersOf(Here) = {}
  BY <1>1, GroupsAreDisjoint DEF Here
<1>3. MembersOf(Here) \subseteq Caps /\ MembersOf(group[j].id) \subseteq Caps
  BY <1>1, TargetIsKnown, Constants
<1> QED
  BY <1>1, <1>2, <1>3, TargetIsKnown, Constants

\* Clearing a slot empties it and the slots of its members.
LEMMA ClearEffect ==
  ASSUME TypeOK, Clear
  PROVE  /\ pc = "clear" /\ pc' = "idle" /\ at' = 1 /\ next' = 0 /\ UNCHANGED <<in, live>>
         /\ group' = [group EXCEPT ![at] = EmptyGroup]
         /\ cap' \in [CapSlots -> CapType]
         /\ \A d \in MemberSlots(at) : cap'[d].id = NoCap /\ cap'[d].active = 0
         /\ \A d \in CapSlots \ MemberSlots(at) : cap'[d] = cap[d]
<1>1. EmptyCap \in CapType /\ EmptyCap.id = NoCap /\ EmptyCap.active = 0
  BY Constants DEF EmptyCap, CapType
<1>2. \A d \in CapSlots : cap[d] \in CapType
  BY DEF TypeOK, CapType
<1>3. cap' = [d \in CapSlots |-> IF d \in MemberSlots(at) THEN EmptyCap ELSE cap[d]]
  BY DEF Clear
<1>4. MemberSlots(at) \subseteq CapSlots
  BY DEF MemberSlots
<1>5. pc = "clear" /\ pc' = "idle" /\ at' = 1 /\ next' = 0 /\ UNCHANGED <<in, live>>
      /\ group' = [group EXCEPT ![at] = EmptyGroup]
  BY DEF Clear, Return
<1> QED
  BY <1>1, <1>2, <1>3, <1>4, <1>5

\* The sections of a call.
LEMMA CallEffect ==
  ASSUME TypeOK, ActiveCallsExact, NoCallInUnloading, NEW k \in Calls, CallStep(k)
  PROVE  /\ UNCHANGED <<started, group, managerVars, live>>
         /\ \E d \in CapSlots, n \in Nat :
              /\ cap' = [cap EXCEPT ![d].active = n]
              /\ cap[d].id # NoCap
              /\ \/ /\ in[k] = 0 /\ n = cap[d].active + 1 /\ in' = [in EXCEPT ![k] = d]
                    /\ ~InState(cap[d].home, {"unloading"})
                 \/ in[k] = d /\ n = cap[d].active - 1 /\ in' = [in EXCEPT ![k] = 0]
<1> USE DEF TypeOK
<1>1. ASSUME NEW d \in CapSlots, Enter(k, d)
      PROVE  /\ cap' = [cap EXCEPT ![d].active = cap[d].active + 1]
             /\ cap[d].id # NoCap /\ in[k] = 0 /\ in' = [in EXCEPT ![k] = d]
             /\ ~InState(cap[d].home, {"unloading"})
             /\ cap[d].active + 1 \in Nat
  BY <1>1 DEF Enter, InState
<1>2. CASE Leave(k)
  <2> DEFINE d == in[k]
             inside == {c \in Calls : in[c] = d}
  <2>1. d \in CapSlots /\ cap[d].id # NoCap
    BY <1>2 DEF Leave, NoCallInUnloading
  <2>2. IsFiniteSet(inside) /\ k \in inside
    BY FS_Subset, ClawCapAssumption DEF ClawCapAssumption
  <2>3. Cardinality(inside) \in Nat /\ Cardinality(inside) # 0
    <3> HIDE DEF inside
    <3> QED
      BY <2>2, FS_CardinalityType, FS_EmptySet
  <2>4. cap[d].active > 0 /\ cap[d].active \in Nat
    BY <2>1, <2>3 DEF ActiveCallsExact
  <2>5. cap' = [cap EXCEPT ![d].active = cap[d].active - 1] /\ in' = [in EXCEPT ![k] = 0]
    BY <1>2, <2>1, <2>4 DEF Leave
  <2>6. cap[d].active - 1 \in Nat
    BY <2>4
  <2> QED
    BY <1>2, <2>1, <2>5, <2>6 DEF Leave
<1> QED
  BY <1>1, <1>2 DEF CallStep, Enter

\* Every step keeps the types.
LEMMA TypeStep == ASSUME IInv, [Next]_vars PROVE TypeOK'
<1> USE DEF IInv
<1>0. /\ started' \in BOOLEAN /\ timed' \in BOOLEAN
      /\ sweep' \in {"none", "start", "stop"} /\ todo' \subseteq GroupSlots
  BY SweepType
<1> DEFINE Typed == /\ group' \in [GroupSlots -> GroupType] /\ cap' \in [CapSlots -> CapType]
                    /\ pc' \in {"idle", "registered", "starting", "failed", "begun",
                                "stopping", "draining", "unloading", "clear"}
                    /\ at' \in GroupSlots /\ next' \in Nat
                    /\ in' \in [Calls -> CapSlots \cup {0}]
                    /\ live' \subseteq Groups \cup Caps
<1> SUFFICES Typed
  BY <1>0 DEF TypeOK, GroupType, CapType, States
<1> USE DEF TypeOK
<1>1. group \in [GroupSlots -> GroupType] /\ cap \in [CapSlots -> CapType]
  BY DEF GroupType, CapType, States
<1>2. 1 \in GroupSlots
  BY Constants
<1>3. \A g \in Groups : Len(Members[g]) \in Nat
  BY Constants
<1>4. ASSUME NEW g \in Groups, Register(g) PROVE Typed
  <2>1. PICK i \in GroupSlots :
          /\ group' = [group EXCEPT ![i] = [id |-> g, state |-> "registered"]]
          /\ cap' \in [CapSlots -> CapType]
          /\ next' = 0 /\ in' = in /\ live' = live
          /\ (pc' = "registered" /\ at' = i) \/ (pc' = "idle" /\ at' = 1)
    BY <1>4, RegisterEffect
  <2>2. [id |-> g, state |-> "registered"] \in GroupType
    BY DEF GroupType, States
  <2>3. group' \in [GroupSlots -> GroupType]
    BY <1>1, <2>1, <2>2
  <2> QED
    BY <1>2, <2>1, <2>3
<1>5. ASSUME NEW g \in Groups, Unload(g) PROVE Typed
  BY <1>1, <1>5, UnloadEffect DEF StateOnly
<1>6. CASE Enables
  <2>1. PICK i \in GroupSlots : EnableSection(i)
    BY <1>6 DEF Enables
  <2> QED
    BY <1>1, <1>2, <2>1, EnableEffect DEF StateOnly
<1>7. CASE Disables
  <2>1. PICK i \in GroupSlots : Occupied(i) /\ DisableSection(i)
    BY <1>7 DEF Disables
  <2>2. Len(Members[group[i].id]) \in Nat
    BY <1>3, <2>1 DEF Occupied
  <2> QED
    BY <1>1, <1>2, <2>1, <2>2, DisableEffect DEF StateOnly
<1>8. CASE Sweeps \/ StartFails \/ FinishStart \/ DrainExpires \/ UNCHANGED vars
  <2>1. CASE FinishStart
    <3>1. group' = group
      <4>1. "started" \in States
        BY DEF States
      <4>2. InState(at, {"started"}) /\ ~InState(at, Leaving)
        BY <2>1 DEF FinishStart, ManagerInv, InState, Leaving
      <4>3. SetState(at, "started") /\ group[at].state = "started"
        BY <2>1, <4>2 DEF FinishStart, InState
      <4> QED
        BY <4>3 DEF SetState
    <3> QED
      BY <1>1, <1>2, <2>1, <3>1 DEF FinishStart, Return
  <2> QED
    BY <1>1, <1>2, <1>8, <2>1 DEF Sweeps, StartFails, DrainExpires, Return, vars, managerVars
<1>9. CASE StartNext
  <2>1. Target \in Groups \cup Caps
    BY <1>9, TargetIsKnown DEF StartNext
  <2> QED
    BY <1>1, <1>9, <2>1 DEF StartNext
<1>10. CASE StopNext
  <2>1. next' \in Nat /\ at' \in GroupSlots
    BY <1>2, <1>10, StopEffect
  <2> QED
    BY <1>1, <1>10, <2>1, StopEffect DEF StopNext
<1>11. CASE DisableFailed
  <2>1. "disabled" \in States
    BY DEF States
  <2> QED
    BY <1>1, <1>2, <1>11, <2>1, SetStateEffect DEF DisableFailed, Return
<1>12. CASE Drained
  <2>1. "unloading" \in States
    BY DEF States
  <2>2. Len(Members[group[at].id]) \in Nat
    BY <1>3, <1>12 DEF Drained, ManagerInv, Occupied
  <2> QED
    BY <1>1, <1>12, <2>1, <2>2, SetStateEffect DEF Drained, RunCallbacks
<1>13. CASE Clear
  <2>1. EmptyGroup \in GroupType
    BY DEF EmptyGroup, GroupType, States
  <2> QED
    BY <1>1, <1>2, <1>13, <2>1, ClearEffect
<1>14. ASSUME NEW k \in Calls, CallStep(k) PROVE Typed
  <2>1. PICK d \in CapSlots, n \in Nat :
          /\ cap' = [cap EXCEPT ![d].active = n]
          /\ in' = [in EXCEPT ![k] = d] \/ in' = [in EXCEPT ![k] = 0]
    BY <1>14, CallEffect
  <2>2. cap' \in [CapSlots -> CapType]
    BY <2>1, CountEffect
  <2>3. in' \in [Calls -> CapSlots \cup {0}]
    BY <2>1
  <2>4. UNCHANGED <<started, group, managerVars, live>>
    BY <1>14, CallEffect
  <2> QED
    BY <1>1, <2>2, <2>3, <2>4 DEF managerVars
<1> QED
  BY <1>4, <1>5, <1>6, <1>7, <1>8, <1>9, <1>10, <1>11, <1>12, <1>13, <1>14, StepCases

\* Writing the state it has already changes no group.
LEMMA FinishEffect ==
  ASSUME TypeOK, ManagerInv, FinishStart
  PROVE  group' = group /\ pc = "begun"
<1>1. "started" \in States /\ at \in GroupSlots /\ group \in [GroupSlots -> GroupType]
  BY DEF States, TypeOK, GroupType
<1>2. group[at].state = "started" /\ ~InState(at, Leaving)
  BY DEF FinishStart, ManagerInv, InState, Leaving
<1>3. SetState(at, "started")
  BY <1>2 DEF FinishStart
<1>4. /\ group' \in [GroupSlots -> GroupType]
      /\ \A j \in GroupSlots : group'[j].id = group[j].id
      /\ group'[at].state = "started"
      /\ \A j \in GroupSlots \ {at} : group'[j] = group[j]
  BY <1>1, <1>3, SetStateEffect
<1>5. group'[at] = group[at]
  BY <1>1, <1>2, <1>4 DEF GroupType
<1> QED
  BY <1>1, <1>4, <1>5 DEF FinishStart

\* The three other sections that write a state.
LEMMA StateEffect ==
  ASSUME TypeOK, ManagerInv
  PROVE  /\ DisableFailed => /\ StateOnly(at) /\ group'[at].state = "disabled" /\ live' = live
                             /\ pc = "failed" /\ pc' = "idle"
         /\ Drained => /\ StateOnly(at) /\ group'[at].state = "unloading" /\ live' = live
                       /\ pc = "draining" /\ pc' = "unloading" /\ at' = at
                       /\ next' = Length /\ ~HasActiveCalls(at)
<1>1. at \in GroupSlots /\ {"disabled", "unloading"} \subseteq States
  BY DEF TypeOK, States
<1>2. pc = "failed" => ~InState(at, Leaving)
  BY DEF ManagerInv, InState, Leaving
<1>3. ASSUME DisableFailed
      PROVE  /\ StateOnly(at) /\ group'[at].state = "disabled" /\ live' = live
             /\ pc = "failed" /\ pc' = "idle"
  <2>1. SetState(at, "disabled")
    BY <1>2, <1>3 DEF DisableFailed
  <2> QED
    BY <1>1, <1>3, <2>1, SetStateEffect DEF DisableFailed, Return, StateOnly
<1>4. ASSUME Drained
      PROVE  /\ StateOnly(at) /\ group'[at].state = "unloading" /\ live' = live
             /\ pc = "draining" /\ pc' = "unloading" /\ at' = at
             /\ next' = Length /\ ~HasActiveCalls(at)
  BY <1>1, <1>4, SetStateEffect DEF Drained, RunCallbacks, StateOnly, Length, Here
<1> QED
  BY <1>3, <1>4

\* Every step keeps the managing task and the state of its group together.
LEMMA ManagerStep == ASSUME IInv, [Next]_vars PROVE ManagerInv'
<1> USE DEF IInv, InState, Occupied, Length, Here
<1>0. at \in GroupSlots /\ next \in Nat
  BY DEF TypeOK
<1>1. ASSUME NEW g \in Groups, Register(g) PROVE ManagerInv'
  <2>1. PICK i \in GroupSlots :
          /\ group' = [group EXCEPT ![i] = [id |-> g, state |-> "registered"]]
          /\ (pc' = "registered" /\ at' = i) \/ (pc' = "idle" /\ at' = 1)
    BY <1>1, RegisterEffect
  <2>2. group'[i] = [id |-> g, state |-> "registered"]
    BY <2>1 DEF TypeOK
  <2>3. group'[i].id = g /\ g # NoGroup
    BY <2>2, Constants
  <2> QED
    BY <2>1, <2>3 DEF ManagerInv
<1>2. ASSUME NEW g \in Groups, Unload(g) PROVE ManagerInv'
  BY <1>2, UnloadEffect DEF ManagerInv, StateOnly
<1>3. CASE Enables
  <2>1. PICK i \in GroupSlots : Occupied(i) /\ EnableSection(i)
    BY <1>3 DEF Enables
  <2>2. Len(Members[group[i].id]) \in Nat
    BY <2>1, Constants DEF TypeOK
  <2> QED
    BY <2>1, <2>2, EnableEffect DEF ManagerInv, StateOnly
<1>4. CASE Disables
  <2>1. PICK i \in GroupSlots : Occupied(i) /\ DisableSection(i)
    BY <1>4 DEF Disables
  <2>2. Len(Members[group[i].id]) \in Nat
    BY <2>1, Constants DEF TypeOK
  <2> QED
    BY <2>1, <2>2, DisableEffect DEF ManagerInv, StateOnly
<1>5. CASE Sweeps \/ StartFails \/ DrainExpires \/ UNCHANGED vars
  BY <1>5 DEF Sweeps, StartFails, DrainExpires, Return, ManagerInv, vars, managerVars
<1>6. CASE StartNext
  <2>1. next # Length => next + 1 <= Length
    BY <1>6, TargetIsKnown DEF StartNext
  <2> QED
    BY <1>6, <2>1 DEF StartNext, ManagerInv
<1>7. CASE StopNext
  <2>1. next > 0 => next - 1 <= Length
    BY <1>7, TargetIsKnown DEF StopNext
  <2> QED
    BY <1>7, <2>1, StopEffect DEF ManagerInv
<1>8. CASE FinishStart
  BY <1>8, FinishEffect DEF FinishStart, Return, ManagerInv
<1>9. CASE DisableFailed
  BY <1>9, StateEffect DEF ManagerInv
<1>10. CASE Drained
  <2>1. Length \in Nat
    BY <1>10, Constants DEF Drained, ManagerInv, TypeOK
  <2> QED
    BY <1>0, <1>10, <2>1, StateEffect DEF ManagerInv, StateOnly
<1>11. CASE Clear
  BY <1>11, ClearEffect DEF ManagerInv
<1>12. ASSUME NEW k \in Calls, CallStep(k) PROVE ManagerInv'
  BY <1>12, CallEffect DEF ManagerInv, managerVars
<1> QED
  BY <1>1, <1>2, <1>3, <1>4, <1>5, <1>6, <1>7, <1>8, <1>9, <1>10, <1>11, <1>12, StepCases

\* Every step keeps the record of the callbacks that have run.
LEMMA CallbackStep == ASSUME IInv, [Next]_vars PROVE CallbackInv'
<1> USE DEF IInv
<1>1. ASSUME NEW g \in Groups, Register(g) PROVE CallbackInv'
  <2>1. pc' \in {"registered", "idle"}
    BY <1>1, RegisterEffect
  <2> QED
    BY <2>1 DEF CallbackInv
<1>2. ASSUME NEW g \in Groups, Unload(g) PROVE CallbackInv'
  BY <1>2, UnloadEffect DEF CallbackInv
<1>3. CASE Enables
  <2>1. next' = 0 /\ pc' \in {"starting", "idle"}
    BY <1>3, EnableEffect DEF Enables
  <2>2. \A n \in 1 .. Length' : ~ (n < next')
    BY <2>1
  <2> QED
    BY <2>1, <2>2 DEF CallbackInv
<1>4. CASE Disables
  <2>1. pc' \in {"stopping", "idle"}
    BY <1>4, DisableEffect DEF Disables
  <2> QED
    BY <2>1 DEF CallbackInv
<1>5. CASE Sweeps \/ UNCHANGED vars
  BY <1>5 DEF Sweeps, CallbackInv, vars, managerVars, Here, Length, MembersOf
<1>6. CASE StartFails \/ DrainExpires \/ FinishStart \/ DisableFailed \/ Clear
  <2>1. pc' \in {"failed", "idle"}
    BY <1>6 DEF StartFails, DrainExpires, FinishStart, DisableFailed, Clear, Return
  <2> QED
    BY <2>1 DEF CallbackInv
<1>7. CASE StartNext
  <2>1. Length' = Length /\ Here' = Here
    BY <1>7 DEF StartNext, Length, Here
  <2>2. live' = live \cup {Target} /\ pc = "starting"
    BY <1>7 DEF StartNext
  <2>3. pc' = "begun" \/ (pc' = "starting" /\ next' = next + 1)
    BY <1>7 DEF StartNext
  <2>4. next \in Nat /\ Length \in Nat /\ next <= Length
    BY <2>2, TargetIsKnown
  <2>5. Here \in live'
    BY <2>2, <2>4, TargetIsKnown DEF CallbackInv
  <2>6. \A n \in 1 .. Length : n < next + 1 => Members[Here][n] \in live'
    <3>1. \A n \in 1 .. Length : n < next + 1 => n < next \/ (n = next /\ next > 0)
      BY <2>4
    <3> QED
      BY <2>2, <2>4, <3>1, TargetIsKnown DEF CallbackInv
  <2> QED
    BY <2>1, <2>3, <2>5, <2>6 DEF CallbackInv
<1>8. CASE StopNext
  <2>1. Length' = Length \/ pc' = "idle"
    BY <1>8, StopEffect DEF Length, Here
  <2>2. live' = live \ {Target} /\ pc \in {"stopping", "unloading"}
    BY <1>8, StopEffect DEF StopNext
  <2>3. next \in Nat /\ Length \in Nat /\ next <= Length
    BY <2>2, TargetIsKnown
  <2>4. CASE pc' = "unloading"
    <3>1. pc = "unloading" /\ next > 0 /\ next' = next - 1 /\ Here' = Here /\ Length' = Length
      BY <1>8, <2>4, StopEffect DEF Here, Length
    <3>2. \A n \in 1 .. Length : n > next - 1 => n > next \/ n = next
      BY <2>3
    <3>3. \A n \in 1 .. Length : n > next - 1 => Members[Here][n] \notin live'
      BY <2>2, <3>1, <3>2, TargetIsKnown DEF CallbackInv
    <3> QED
      BY <2>4, <3>1, <3>3 DEF CallbackInv
  <2>5. CASE pc' = "clear"
    <3>1. pc = "unloading" /\ next = 0 /\ Here' = Here
      BY <1>8, <2>2, <2>5, StopEffect DEF Here
    <3>2. \A n \in 1 .. Length : Members[Here][n] \notin live'
      BY <2>2, <3>1 DEF CallbackInv
    <3>3. Here \in Groups /\ Target = Here
      BY <3>1, TargetIsKnown
    <3>4. MembersOf(Here) \cap live' = {}
      BY <3>2, <3>3, Constants DEF MembersOf, Length
    <3>5. MembersOf(Here)' = MembersOf(Here)
      BY <3>1 DEF MembersOf
    <3> QED
      BY <2>2, <2>5, <3>1, <3>3, <3>4, <3>5 DEF CallbackInv
  <2>6. pc' # "starting"
    BY <1>8, <2>2, StopEffect
  <2> QED
    BY <2>4, <2>5, <2>6 DEF CallbackInv
<1>9. CASE Drained
  <2>1. pc' = "unloading" /\ next' = Length /\ Length' = Length
    BY <1>9, StateEffect DEF StateOnly, Length, Here, TypeOK
  <2>2. Length \in Nat
    BY <1>9, Constants DEF Drained, ManagerInv, TypeOK, Occupied, Length, Here
  <2>3. \A n \in 1 .. Length' : ~ (n > next')
    BY <2>1, <2>2
  <2> QED
    BY <2>1, <2>3 DEF CallbackInv
<1>10. ASSUME NEW k \in Calls, CallStep(k) PROVE CallbackInv'
  <2>1. UNCHANGED <<group, managerVars, live>>
    BY <1>10, CallEffect
  <2> QED
    BY <2>1 DEF CallbackInv, managerVars, Here, Length, MembersOf
<1> QED
  BY <1>1, <1>2, <1>3, <1>4, <1>5, <1>6, <1>7, <1>8, <1>9, <1>10, StepCases

\* Two ways to describe the ids in a set of slots.
LEMMA SameIds ==
  ASSUME NEW f, NEW h, NEW S, \A d \in S : f[d].id = h[d].id
  PROVE  {f[d].id : d \in S} = {h[d].id : d \in S}
OBVIOUS

LEMMA IdsAre ==
  ASSUME NEW f, NEW S, NEW M, \A d \in S : f[d].id \in M, \A x \in M : \E d \in S : f[d].id = x
  PROVE  {f[d].id : d \in S} = M
OBVIOUS

\* What the slots of a group's members hold, and what they should.
IdsIn(i)  == {cap[d].id : d \in MemberSlots(i)}
IdsDue(i) == IF Occupied(i) THEN MembersOf(group[i].id) ELSE {}

\* MembersComplete after a step, in these terms.
LEMMA MembersRestated ==
  ASSUME \A i, j \in GroupSlots : Occupied(i)' /\ group'[i].id = group'[j].id => i = j,
         \A d, e \in CapSlots : cap'[d].id # NoCap /\ cap'[d].id = cap'[e].id => d = e,
         \A i \in GroupSlots : IdsIn(i)' = IdsDue(i)'
  PROVE  MembersComplete'
BY DEF MembersComplete, IdsIn, IdsDue, MembersOf

\* A slot whose members stay keeps what it has.
LEMMA SlotKept ==
  ASSUME MembersComplete, NEW i \in GroupSlots, MemberSlots(i)' = MemberSlots(i),
         group'[i].id = group[i].id, \A d \in MemberSlots(i) : cap'[d].id = cap[d].id
  PROVE  IdsIn(i)' = IdsDue(i)'
<1>1. IdsIn(i)' = IdsIn(i)
  BY SameIds DEF IdsIn
<1>2. IdsDue(i)' = IdsDue(i)
  BY DEF IdsDue, Occupied, MembersOf
<1>3. IdsIn(i) = IdsDue(i)
  BY DEF IdsIn, IdsDue, MembersComplete, MembersOf
<1> QED
  BY <1>1, <1>2, <1>3

\* As long as no slot gets anything else the members stay where they are.
LEMMA MembersKept ==
  ASSUME MembersComplete, IdsStay
  PROVE  MembersComplete'
<1>1. \A i \in GroupSlots : MemberSlots(i)' = MemberSlots(i) /\ group'[i].id = group[i].id
  BY DEF MemberSlots, IdsStay
<1>2. \A i \in GroupSlots : \A d \in MemberSlots(i) : cap'[d].id = cap[d].id
  BY DEF IdsStay, MemberSlots
<1>3. \A i \in GroupSlots : IdsIn(i)' = IdsDue(i)'
  BY <1>1, <1>2, SlotKept
<1>4. \A i, j \in GroupSlots : Occupied(i)' /\ group'[i].id = group'[j].id => i = j
  BY <1>1 DEF MembersComplete, Occupied
<1>5. \A d, e \in CapSlots : cap'[d].id # NoCap /\ cap'[d].id = cap'[e].id => d = e
  BY DEF IdsStay, MembersComplete
<1> QED
  BY <1>3, <1>4, <1>5, MembersRestated

\* All steps but Register and Clear leave the slots what they hold.
LEMMA IdsStayOtherwise ==
  ASSUME IInv, [Next]_vars, ~ \E g \in Groups : Register(g), ~Clear
  PROVE  IdsStay
<1> USE DEF IInv
<1>1. ASSUME NEW i \in GroupSlots, StateOnly(i) PROVE IdsStay
  BY <1>1 DEF StateOnly, IdsStay
<1>2. CASE Enables \/ Disables
  BY <1>1, <1>2, EnableEffect, DisableEffect DEF Enables, Disables
<1>3. ASSUME NEW g \in Groups, Unload(g) PROVE IdsStay
  BY <1>1, <1>3, UnloadEffect
<1>4. CASE DisableFailed \/ Drained
  <2>1. at \in GroupSlots
    BY DEF TypeOK
  <2> QED
    BY <1>1, <1>4, <2>1, StateEffect
<1>5. CASE FinishStart
  BY <1>5, FinishEffect DEF FinishStart, IdsStay
<1>6. CASE Sweeps \/ StartNext \/ StartFails \/ StopNext \/ DrainExpires \/ UNCHANGED vars
  <2>1. group' = group /\ cap' = cap
    BY <1>6, StopEffect DEF Sweeps, StartNext, StartFails, DrainExpires, vars
  <2> QED
    BY <2>1 DEF IdsStay
<1>7. ASSUME NEW k \in Calls, CallStep(k) PROVE IdsStay
  <2>1. group' = group /\ \E d \in CapSlots, n \in Nat : cap' = [cap EXCEPT ![d].active = n]
    BY <1>7, CallEffect
  <2> QED
    BY <2>1, CountEffect DEF IdsStay
<1> QED
  BY <1>2, <1>3, <1>4, <1>5, <1>6, <1>7, StepCases

\* The slots of groups that are not registered hold nothing.
LEMMA NothingInFreeSlot ==
  ASSUME TypeOK, MembersComplete, NEW i \in GroupSlots, ~Occupied(i)
  PROVE  MemberSlots(i) = {}
BY MemberHasSlot DEF MemberSlots

\* Every step keeps the members of each registered group complete.
LEMMA MembersStep == ASSUME IInv, [Next]_vars PROVE MembersComplete'
<1> USE DEF IInv
<1>1. ASSUME NEW g \in Groups, Register(g) PROVE MembersComplete'
  <2>1. PICK i \in GroupSlots, T \in SUBSET FreeCaps :
           /\ ~Occupied(i) /\ SlotOf(g) = {}
           /\ group' = [group EXCEPT ![i] = [id |-> g, state |-> "registered"]]
           /\ \A d \in CapSlots \ T : cap'[d] = cap[d]
           /\ \A d \in T : cap'[d].id \in MembersOf(g) /\ cap'[d].home = i
           /\ \A d, e \in T : cap'[d].id = cap'[e].id => d = e
           /\ \A x \in MembersOf(g) : \E d \in T : cap'[d].id = x
           /\ \A x \in MembersOf(g), d \in CapSlots : cap[d].id # x
    BY <1>1, RegisterEffect
  <2>2. /\ group'[i].id = g /\ g # NoGroup
        /\ \A j \in GroupSlots \ {i} : group'[j] = group[j] /\ group[j].id # g
    BY <2>1, Constants DEF TypeOK, SlotOf
  <2>3. \A d \in T : d \in CapSlots /\ cap[d].id = NoCap /\ cap'[d].id # NoCap
    BY <2>1, Constants DEF FreeCaps
  <2>4. \A j, k \in GroupSlots : Occupied(j)' /\ group'[j].id = group'[k].id => j = k
    BY <2>2 DEF Occupied, MembersComplete
  <2>5. \A d, e \in CapSlots : cap'[d].id # NoCap /\ cap'[d].id = cap'[e].id => d = e
    BY <2>1, <2>3 DEF MembersComplete
  <2>6. MemberSlots(i)' = T
    BY <2>1, <2>3, NothingInFreeSlot DEF MemberSlots
  <2>7. IdsIn(i)' = IdsDue(i)'
    <3>1. {cap'[d].id : d \in T} = MembersOf(g)
      BY <2>1, IdsAre
    <3>2. IdsDue(i)' = MembersOf(g)
      BY <2>2 DEF IdsDue, Occupied, MembersOf
    <3> QED
      BY <2>6, <3>1, <3>2 DEF IdsIn
  <2>8. ASSUME NEW j \in GroupSlots \ {i} PROVE IdsIn(j)' = IdsDue(j)'
    <3>1. MemberSlots(j)' = MemberSlots(j) /\ \A d \in MemberSlots(j) : cap'[d].id = cap[d].id
      BY <2>1, <2>3 DEF MemberSlots
    <3> QED
      BY <2>2, <3>1, SlotKept
  <2> QED
    BY <2>4, <2>5, <2>7, <2>8, MembersRestated
<1>2. CASE Clear
  <2>1. PICK i \in GroupSlots : i = at
    BY DEF TypeOK
  <2>2. group'[i].id = NoGroup /\ \A j \in GroupSlots \ {i} : group'[j] = group[j]
    BY <1>2, <2>1, ClearEffect DEF TypeOK, EmptyGroup
  <2>3. /\ \A d \in MemberSlots(i) : cap'[d].id = NoCap
        /\ \A d \in CapSlots \ MemberSlots(i) : cap'[d] = cap[d]
    BY <1>2, <2>1, ClearEffect
  <2>4. \A j, k \in GroupSlots : Occupied(j)' /\ group'[j].id = group'[k].id => j = k
    BY <2>2 DEF Occupied, MembersComplete
  <2>5. \A d, e \in CapSlots : cap'[d].id # NoCap /\ cap'[d].id = cap'[e].id => d = e
    BY <2>3 DEF MembersComplete
  <2>6. MemberSlots(i)' = {}
    BY <2>3 DEF MemberSlots
  <2>7. IdsIn(i)' = IdsDue(i)'
    BY <2>2, <2>6 DEF IdsIn, IdsDue, Occupied
  <2>8. ASSUME NEW j \in GroupSlots \ {i} PROVE IdsIn(j)' = IdsDue(j)'
    <3>1. MemberSlots(j)' = MemberSlots(j) /\ \A d \in MemberSlots(j) : cap'[d].id = cap[d].id
      BY <2>3 DEF MemberSlots
    <3> QED
      BY <2>2, <3>1, SlotKept
  <2> QED
    BY <2>4, <2>5, <2>7, <2>8, MembersRestated
<1>3. CASE (~ \E g \in Groups : Register(g)) /\ ~Clear
  BY <1>2, <1>3, IdsStayOtherwise, MembersKept
<1> QED
  BY <1>1, <1>2, <1>3

\* The calls inside a descriptor slot
Inside(d) == {k \in Calls : in[k] = d}

\* Their number is a natural number, which goes up and down with each.
LEMMA InsideCounts ==
  ASSUME TypeOK
  PROVE  /\ \A d \in CapSlots : Cardinality(Inside(d)) \in Nat
         /\ \A d \in CapSlots : Inside(d) = {} => Cardinality(Inside(d)) = 0
         /\ \A k \in Calls, d \in CapSlots :
              /\ in[k] = 0 /\ in' = [in EXCEPT ![k] = d] =>
                   Cardinality(Inside(d)') = Cardinality(Inside(d)) + 1
              /\ in[k] = d /\ in' = [in EXCEPT ![k] = 0] =>
                   Cardinality(Inside(d)') = Cardinality(Inside(d)) - 1
<1>1. \A d : IsFiniteSet(Inside(d))
  BY FS_Subset, ClawCapAssumption DEF ClawCapAssumption, Inside
<1>2. \A d \in CapSlots : d # 0
  BY DEF CapSlots
<1>3. ASSUME NEW k \in Calls, NEW d \in CapSlots, in[k] = 0, in' = [in EXCEPT ![k] = d]
      PROVE  Cardinality(Inside(d)') = Cardinality(Inside(d)) + 1
  <2>1. Inside(d)' = Inside(d) \cup {k} /\ k \notin Inside(d)
    BY <1>2, <1>3 DEF Inside, TypeOK
  <2> QED
    BY <1>1, <2>1, FS_AddElement
<1>4. ASSUME NEW k \in Calls, NEW d \in CapSlots, in[k] = d, in' = [in EXCEPT ![k] = 0]
      PROVE  Cardinality(Inside(d)') = Cardinality(Inside(d)) - 1
  <2>1. Inside(d)' = Inside(d) \ {k} /\ k \in Inside(d)
    BY <1>2, <1>4 DEF Inside, TypeOK
  <2> QED
    BY <1>1, <2>1, FS_RemoveElement
<1> QED
  BY <1>1, <1>3, <1>4, FS_CardinalityType, FS_EmptySet

\* Every step keeps the counts exact and the calls out of what is unloaded.
LEMMA CallsStep == ASSUME IInv, [Next]_vars PROVE ActiveCallsExact' /\ NoCallInUnloading'
<1> USE DEF IInv
<1>0. /\ \A d \in CapSlots : cap[d].active = Cardinality(Inside(d))
      /\ \A d \in CapSlots, k \in Calls : k \in Inside(d) <=> in[k] = d
  BY DEF ActiveCallsExact, Inside
<1> DEFINE Exact == \A d \in CapSlots : cap'[d].active = Cardinality(Inside(d)')
           Out == \A k \in Calls : in'[k] # 0 =>
                    cap'[in'[k]].id # NoCap /\ group'[cap'[in'[k]].home].state # "unloading"
<1> SUFFICES Exact /\ Out
  BY DEF ActiveCallsExact, NoCallInUnloading, Inside, InState
<1>1. \A k \in Calls : in[k] # 0 =>
        /\ in[k] \in CapSlots /\ cap[in[k]].id # NoCap
        /\ cap[in[k]].home \in GroupSlots /\ group[cap[in[k]].home].state # "unloading"
        /\ Occupied(cap[in[k]].home)
  BY MemberHasSlot DEF NoCallInUnloading, TypeOK, InState
<1>2. ASSUME NEW i \in GroupSlots, StateOnly(i),
             group'[i].state # "unloading" \/ \A k \in Calls : in[k] # 0 => cap[in[k]].home # i
      PROVE  Exact /\ Out
  <2>1. \A d \in CapSlots : Inside(d)' = Inside(d)
    BY <1>2 DEF StateOnly, Inside
  <2> QED
    BY <1>0, <1>1, <1>2, <2>1 DEF StateOnly
<1>3. ASSUME NEW g \in Groups, Register(g) PROVE Exact /\ Out
  <2>1. PICK i \in GroupSlots, T \in SUBSET FreeCaps :
           /\ ~Occupied(i) /\ in' = in
           /\ group' = [group EXCEPT ![i] = [id |-> g, state |-> "registered"]]
           /\ \A d \in CapSlots \ T : cap'[d] = cap[d]
           /\ \A d \in T : cap'[d].id \in MembersOf(g) /\ cap'[d].home = i /\ cap'[d].active = 0
    BY <1>3, RegisterEffect
  <2>2. \A d \in T : d \in CapSlots /\ Inside(d) = {}
    <3>1. \A d \in FreeCaps : d \in CapSlots /\ d # 0 /\ cap[d].id = NoCap
      BY DEF FreeCaps, CapSlots
    <3> QED
      BY <1>1, <2>1, <3>1 DEF Inside
  <2>3. \A d \in CapSlots : Inside(d)' = Inside(d)
    BY <2>1 DEF Inside
  <2>4. \A d \in CapSlots : cap'[d].active = Cardinality(Inside(d))
    BY <1>0, <2>1, <2>2, InsideCounts
  <2>5. \A k \in Calls : in[k] # 0 => in[k] \notin T /\ cap[in[k]].home # i
    BY <1>1, <2>1, <2>2 DEF Inside
  <2>6. \A j \in GroupSlots \ {i} : group'[j] = group[j]
    BY <2>1 DEF TypeOK
  <2>7. Out
    BY <1>1, <2>1, <2>5, <2>6
  <2> QED
    BY <2>3, <2>4, <2>7
<1>4. ASSUME NEW g \in Groups, Unload(g) PROVE Exact /\ Out
  BY <1>2, <1>4, UnloadEffect
<1>5. CASE Enables
  <2>1. PICK i \in GroupSlots : EnableSection(i)
    BY <1>5 DEF Enables
  <2>2. StateOnly(i) /\ (group' = group \/ group'[i].state # "unloading")
    BY <2>1, EnableEffect
  <2>3. group' = group => Exact /\ Out
    <3> SUFFICES ASSUME group' = group PROVE Exact /\ Out
      OBVIOUS
    <3>1. in' = in /\ cap' = cap /\ \A d \in CapSlots : Inside(d)' = Inside(d)
      BY <2>2 DEF StateOnly, Inside
    <3> QED
      BY <1>0, <1>1, <3>1
  <2> QED
    BY <1>2, <2>2, <2>3
<1>6. CASE Disables
  <2>1. PICK i \in GroupSlots : DisableSection(i)
    BY <1>6 DEF Disables
  <2>2. StateOnly(i) /\ (group' = group \/ group'[i].state # "unloading")
    BY <2>1, DisableEffect
  <2>3. group' = group => Exact /\ Out
    <3> SUFFICES ASSUME group' = group PROVE Exact /\ Out
      OBVIOUS
    <3>1. in' = in /\ cap' = cap /\ \A d \in CapSlots : Inside(d)' = Inside(d)
      BY <2>2 DEF StateOnly, Inside
    <3> QED
      BY <1>0, <1>1, <3>1
  <2> QED
    BY <1>2, <2>2, <2>3
<1>7. CASE Sweeps \/ StartNext \/ StartFails \/ FinishStart \/ StopNext \/ DrainExpires
           \/ UNCHANGED vars
  <2>1. group' = group /\ cap' = cap /\ in' = in
    BY <1>7, FinishEffect, StopEffect
       DEF Sweeps, StartNext, StartFails, FinishStart, DrainExpires, vars
  <2>2. \A d \in CapSlots : Inside(d)' = Inside(d)
    BY <2>1 DEF Inside
  <2> QED
    BY <1>0, <1>1, <2>1, <2>2
<1>8. CASE DisableFailed
  <2>1. at \in GroupSlots
    BY DEF TypeOK
  <2> QED
    BY <1>2, <1>8, <2>1, StateEffect
<1>9. CASE Drained
  <2>1. at \in GroupSlots /\ StateOnly(at) /\ ~HasActiveCalls(at)
    BY <1>9, StateEffect DEF TypeOK
  <2>2. \A k \in Calls : in[k] # 0 => cap[in[k]].home # at
    <3> SUFFICES ASSUME NEW k \in Calls, in[k] # 0, cap[in[k]].home = at PROVE FALSE
      OBVIOUS
    <3>1. in[k] \in MemberSlots(at) /\ in[k] \in CapSlots
      BY <1>1 DEF MemberSlots
    <3>2. cap[in[k]].active = Cardinality(Inside(in[k])) /\ k \in Inside(in[k])
      BY <1>0, <3>1
    <3>3. IsFiniteSet(Inside(in[k]))
      BY FS_Subset, ClawCapAssumption DEF ClawCapAssumption, Inside
    <3>4. Cardinality(Inside(in[k])) \in Nat /\ Cardinality(Inside(in[k])) # 0
      BY <3>2, <3>3, FS_CardinalityType, FS_EmptySet
    <3> QED
      BY <2>1, <3>1, <3>2, <3>4 DEF HasActiveCalls
  <2> QED
    BY <1>2, <2>1, <2>2
<1>10. CASE Clear
  <2>1. PICK i \in GroupSlots : i = at /\ group[i].state = "unloading"
    BY <1>10 DEF TypeOK, ManagerInv, InState, Clear
  <2>2. /\ in' = in /\ \A j \in GroupSlots \ {i} : group'[j] = group[j]
        /\ \A d \in MemberSlots(i) : cap'[d].active = 0
        /\ \A d \in CapSlots \ MemberSlots(i) : cap'[d] = cap[d]
    BY <1>10, <2>1, ClearEffect DEF TypeOK
  <2>3. \A k \in Calls : in[k] # 0 => in[k] \notin MemberSlots(i) /\ cap[in[k]].home # i
    BY <1>1, <2>1 DEF MemberSlots
  <2>4. \A d \in CapSlots : Inside(d)' = Inside(d)
    BY <2>2 DEF Inside
  <2>5. \A d \in MemberSlots(i) : d \in CapSlots /\ Inside(d) = {}
    BY <2>3 DEF Inside, MemberSlots, CapSlots
  <2>6. Exact
    BY <1>0, <2>2, <2>4, <2>5, InsideCounts
  <2>7. Out
    BY <1>1, <2>2, <2>3
  <2> QED
    BY <2>6, <2>7
<1>11. ASSUME NEW k \in Calls, CallStep(k) PROVE Exact /\ Out
  <2>1. PICK d \in CapSlots, n \in Nat :
              /\ cap' = [cap EXCEPT ![d].active = n]
              /\ cap[d].id # NoCap
              /\ \/ /\ in[k] = 0 /\ n = cap[d].active + 1 /\ in' = [in EXCEPT ![k] = d]
                    /\ ~InState(cap[d].home, {"unloading"})
                 \/ in[k] = d /\ n = cap[d].active - 1 /\ in' = [in EXCEPT ![k] = 0]
    BY <1>11, CallEffect
  <2>2. /\ \A e \in CapSlots : cap'[e].id = cap[e].id /\ cap'[e].home = cap[e].home
        /\ cap'[d].active = n
        /\ \A e \in CapSlots \ {d} : cap'[e] = cap[e]
    BY <2>1, CountEffect
  <2>3. group' = group
    BY <1>11, CallEffect
  <2>4. \A e \in CapSlots \ {d} : Inside(e)' = Inside(e)
    BY <2>1 DEF Inside, TypeOK, CapSlots
  <2>5. Cardinality(Inside(d)') = n
    BY <1>0, <2>1, InsideCounts
  <2>6. Exact
    BY <1>0, <2>2, <2>4, <2>5
  <2>7. \A c \in Calls \ {k} : in'[c] = in[c]
    BY <2>1 DEF TypeOK
  <2>8. in'[k] = 0 \/ (in'[k] = d /\ group[cap[d].home].state # "unloading")
    BY <2>1 DEF TypeOK, InState
  <2>9. Out
    BY <1>1, <2>1, <2>2, <2>3, <2>7, <2>8
  <2> QED
    BY <2>6, <2>9
<1> QED
  BY <1>3, <1>4, <1>5, <1>6, <1>7, <1>8, <1>9, <1>10, <1>11, StepCases

\* What a registered group consists of: itself and its members.
Parts(i) == {group[i].id} \cup MembersOf(group[i].id)

\* A slot whose group has been started completely, and the exemption of StartedIsUp
IsUp(i)     == Parts(i) \subseteq live
AtWorkOn(i) == pc \in {"starting", "failed"} /\ at = i

\* Every step keeps started groups completely started.
LEMMA StartedStep == ASSUME IInv, [Next]_vars PROVE StartedIsUp'
<1> USE DEF IInv
<1>0. \A i \in GroupSlots :
        Occupied(i) /\ InState(i, {"started"}) /\ ~AtWorkOn(i) => IsUp(i)
  BY DEF StartedIsUp, AtWorkOn, IsUp, Parts, MembersOf
<1> DEFINE Goal == \A i \in GroupSlots :
             Occupied(i)' /\ InState(i, {"started"})' /\ ~AtWorkOn(i)' => IsUp(i)'
<1> SUFFICES Goal
  BY DEF StartedIsUp, AtWorkOn, IsUp, Parts, MembersOf
<1> USE DEF AtWorkOn, IsUp, Parts, InState, Occupied, MembersOf
<1>1. ASSUME NEW i \in GroupSlots, StateOnly(i), live' = live,
             ~(pc \in {"starting", "failed"} /\ at # i),
             group'[i].state # "started" \/ AtWorkOn(i)'
      PROVE  Goal
  BY <1>0, <1>1 DEF StateOnly
<1>2. ASSUME group' = group, live \subseteq live',
             \A i \in GroupSlots : Occupied(i) /\ AtWorkOn(i) /\ ~AtWorkOn(i)' => IsUp(i)'
      PROVE  Goal
  BY <1>0, <1>2
<1>3. ASSUME NEW g \in Groups, Register(g) PROVE Goal
  <2>1. PICK i \in GroupSlots :
          /\ group' = [group EXCEPT ![i] = [id |-> g, state |-> "registered"]]
          /\ pc = "idle" /\ live' = live
    BY <1>3, RegisterEffect
  <2>2. \A j \in GroupSlots \ {i} : group'[j] = group[j]
    BY <2>1 DEF TypeOK
  <2>3. group'[i].state = "registered"
    BY <2>1 DEF TypeOK
  <2> QED
    BY <1>0, <2>1, <2>2, <2>3
<1>4. ASSUME NEW g \in Groups, Unload(g) PROVE Goal
  BY <1>1, <1>4, UnloadEffect
<1>5. CASE Enables
  <2>1. PICK i \in GroupSlots : EnableSection(i) /\ pc \in {"idle", "registered"}
    BY <1>5 DEF Enables
  <2>2. StateOnly(i) /\ live' = live
        /\ (group' = group \/ group'[i].state # "started" \/ AtWorkOn(i)')
    BY <2>1, EnableEffect
  <2> QED
    BY <1>1, <1>2, <2>1, <2>2
<1>6. CASE Disables
  <2>1. PICK i \in GroupSlots : DisableSection(i) /\ pc = "idle"
    BY <1>6 DEF Disables
  <2>2. StateOnly(i) /\ live' = live /\ (group' = group \/ group'[i].state # "started")
    BY <2>1, DisableEffect
  <2> QED
    BY <1>1, <1>2, <2>1, <2>2
<1>7. CASE Sweeps \/ DrainExpires \/ UNCHANGED vars
  BY <1>0, <1>7 DEF Sweeps, DrainExpires, vars, managerVars
<1>8. CASE StartFails
  BY <1>2, <1>8 DEF StartFails
<1>9. CASE FinishStart
  BY <1>2, <1>9, FinishEffect DEF FinishStart
<1>10. CASE StartNext
  <2>1. group' = group /\ at' = at /\ live' = live \cup {Target} /\ pc = "starting"
        /\ (pc' = "starting" \/ (pc' = "begun" /\ next = Length))
    BY <1>10 DEF StartNext, Length, Here
  <2>2. Length \in Nat \ {0} /\ Here \in Groups /\ next \in Nat
        /\ (next > 0 => Target = Members[Here][next])
    BY <2>1, TargetIsKnown
  <2>3. next = Length => Here \in live /\ MembersOf(Here) \subseteq live \cup {Target}
    <3> SUFFICES ASSUME next = Length
                 PROVE  Here \in live /\ MembersOf(Here) \subseteq live \cup {Target}
      OBVIOUS
    <3>1. Here \in live /\ \A n \in 1 .. Length : n < next => Members[Here][n] \in live
      BY <2>1, <2>2 DEF CallbackInv
    <3>2. \A n \in 1 .. Length : n < next \/ n = next
      BY <2>2
    <3>3. DOMAIN Members[Here] = 1 .. Length
      BY <2>2, Constants DEF Length
    <3> QED
      BY <2>2, <3>1, <3>2, <3>3
  <2>4. \A i \in GroupSlots : Occupied(i) /\ AtWorkOn(i) /\ ~AtWorkOn(i)' => IsUp(i)'
    BY <2>1, <2>3 DEF Here
  <2> QED
    BY <1>2, <2>1, <2>4
<1>11. CASE StopNext
  <2>1. group' = group /\ live' = live \ {Target} /\ pc \in {"stopping", "unloading"}
        /\ pc' \in {"stopping", "unloading", "clear", "idle"}
    BY <1>11, StopEffect DEF StopNext
  <2>2. ~InState(at, {"started"})
    BY <2>1 DEF ManagerInv
  <2>3. \A i \in GroupSlots : Occupied(i) /\ i # at => Target \notin Parts(i)
    BY <2>1, TargetIsAlone
  <2> QED
    BY <1>0, <2>1, <2>2, <2>3
<1>12. CASE DisableFailed
  <2>1. at \in GroupSlots
    BY DEF TypeOK
  <2> QED
    BY <1>1, <1>12, <2>1, StateEffect
<1>13. CASE Drained
  <2>1. at \in GroupSlots
    BY DEF TypeOK
  <2> QED
    BY <1>1, <1>13, <2>1, StateEffect
<1>14. CASE Clear
  <2>1. PICK i \in GroupSlots : i = at
    BY DEF TypeOK
  <2>2. group'[i].id = NoGroup /\ \A j \in GroupSlots \ {i} : group'[j] = group[j]
    BY <1>14, <2>1, ClearEffect DEF TypeOK, EmptyGroup
  <2>3. pc = "clear" /\ live' = live
    BY <1>14, ClearEffect
  <2> QED
    BY <1>0, <2>2, <2>3
<1>15. ASSUME NEW k \in Calls, CallStep(k) PROVE Goal
  <2>1. UNCHANGED <<group, managerVars, live>>
    BY <1>15, CallEffect
  <2> QED
    BY <1>0, <2>1 DEF managerVars
<1> QED
  BY <1>3, <1>4, <1>5, <1>6, <1>7, <1>8, <1>9, <1>10, <1>11, <1>12, <1>13, <1>14, <1>15, StepCases

\* Every step keeps what goes on running to the groups that are registered.
LEMMA OutlivesStep == ASSUME IInv, [Next]_vars PROVE NothingOutlivesItsGroup'
<1> USE DEF IInv
<1>0. \A x \in live : \E i \in GroupSlots : Occupied(i) /\ x \in Parts(i)
  BY DEF NothingOutlivesItsGroup, Parts, MembersOf
<1> DEFINE Goal == \A x \in live' : \E i \in GroupSlots : Occupied(i)' /\ x \in Parts(i)'
<1> SUFFICES Goal
  BY DEF NothingOutlivesItsGroup, Parts, MembersOf
<1>1. ASSUME IdsStay, live' \subseteq live PROVE Goal
  BY <1>0, <1>1 DEF IdsStay, Parts, MembersOf, Occupied
<1>2. CASE \E g \in Groups : Register(g)
  <2>1. PICK g \in Groups, i \in GroupSlots :
          /\ group' = [group EXCEPT ![i] = [id |-> g, state |-> "registered"]]
          /\ ~Occupied(i) /\ live' = live
    BY <1>2, RegisterEffect
  <2>2. \A j \in GroupSlots : Occupied(j) => group'[j] = group[j]
    BY <2>1 DEF TypeOK
  <2> QED
    BY <1>0, <2>1, <2>2 DEF Parts, MembersOf, Occupied
<1>3. CASE StartNext
  <2>1. pc = "starting" /\ group' = group /\ live' = live \cup {Target}
    BY <1>3 DEF StartNext
  <2>2. at \in GroupSlots /\ Occupied(at) /\ Target \in Parts(at)
    BY <2>1, TargetIsKnown DEF TypeOK, ManagerInv, Parts, Here
  <2> QED
    BY <1>0, <2>1, <2>2 DEF Parts, MembersOf, Occupied
<1>4. CASE Clear
  <2>1. PICK i \in GroupSlots : i = at
    BY DEF TypeOK
  <2>2. \A j \in GroupSlots \ {i} : group'[j] = group[j]
    BY <1>4, <2>1, ClearEffect DEF TypeOK
  <2>3. live' = live /\ Parts(i) \cap live = {}
    BY <1>4, <2>1, ClearEffect DEF CallbackInv, Parts, Here
  <2> QED
    BY <1>0, <2>2, <2>3 DEF Parts, MembersOf, Occupied
<1>5. CASE ~(\E g \in Groups : Register(g)) /\ ~StartNext /\ ~Clear
  <2>1. IdsStay
    BY <1>5, IdsStayOtherwise
  <2>2. live' \subseteq live
    BY <1>5, StepCases, UnloadEffect, EnableEffect, DisableEffect, StopEffect, StateEffect,
       CallEffect
       DEF Enables, Disables, Sweeps, StartFails, FinishStart, DrainExpires, vars
  <2> QED
    BY <1>1, <2>1, <2>2
<1> QED
  BY <1>2, <1>3, <1>4, <1>5

\* The registry as claw_cap_init leaves it satisfies the invariant.
LEMMA InitIInv == Init => IInv
<1> SUFFICES ASSUME Init PROVE IInv
  OBVIOUS
<1>1. /\ group \in [GroupSlots -> GroupType] /\ cap \in [CapSlots -> CapType]
      /\ \A i \in GroupSlots : group[i].id = NoGroup
      /\ \A d \in CapSlots : cap[d].id = NoCap /\ cap[d].active = 0
      /\ in \in [Calls -> CapSlots \cup {0}] /\ \A k \in Calls : in[k] = 0
      /\ pc = "idle" /\ at = 1 /\ at \in GroupSlots /\ next = 0 /\ live = {}
      /\ sweep = "none" /\ todo = {}
  BY Constants DEF Init, EmptyGroup, EmptyCap, GroupType, CapType, States
<1>2. started \in BOOLEAN /\ timed \in BOOLEAN
  BY DEF Init
<1>3. TypeOK
  BY <1>1, <1>2 DEF TypeOK, GroupType, CapType, States
<1>4. MembersComplete
  <2>1. \A i \in GroupSlots : MemberSlots(i) = {}
    BY <1>1 DEF MemberSlots
  <2>2. \A i \in GroupSlots : {cap[d].id : d \in MemberSlots(i)} = {}
    BY <2>1
  <2> QED
    BY <1>1, <2>2 DEF MembersComplete, Occupied
<1>5. ActiveCallsExact
  <2>1. \A d \in CapSlots : Inside(d) = {}
    BY <1>1 DEF Inside, CapSlots
  <2> QED
    BY <1>1, <1>3, <2>1, InsideCounts DEF ActiveCallsExact, Inside
<1> QED
  BY <1>1, <1>3, <1>4, <1>5
     DEF IInv, ManagerInv, CallbackInv, NoCallInUnloading, StartedIsUp,
         NothingOutlivesItsGroup, Occupied

\* The invariant is inductive.
LEMMA IInvHolds == Spec => []IInv
<1>1. IInv /\ [Next]_vars => IInv'
  BY TypeStep, ManagerStep, CallbackStep, MembersStep, CallsStep, StartedStep, OutlivesStep
     DEF IInv
<1> QED
  BY InitIInv, <1>1, PTL DEF Spec

-----------------------------------------------------------------------------

\* Every variable keeps its type, and no callback index leaves its group.
THEOREM TypeCorrect == Spec => []TypeOK
BY IInvHolds, PTL DEF IInv

\* A registered group has each of its capabilities in one slot and no slot is left over,
\* however groups come and go.
THEOREM MembersStayComplete == Spec => []MembersComplete
BY IInvHolds, PTL DEF IInv

\* The counts that an unload waits for are exact, though a call counts itself out of a slot
\* by its index and without a look at what the slot holds.
THEOREM CountsAreExact == Spec => []ActiveCallsExact
BY IInvHolds, PTL DEF IInv

\* No call is inside a group whose stop callbacks run, nor inside a slot that was cleared.
THEOREM UnloadWaits == Spec => []NoCallInUnloading
BY IInvHolds, PTL DEF IInv

\* No failed start, no sweep and no unload leaves a group started that is up in parts only.
THEOREM StartIsComplete == Spec => []StartedIsUp
BY IInvHolds, PTL DEF IInv

\* Nothing goes on running once its group is gone.
THEOREM NothingIsLeft == Spec => []NothingOutlivesItsGroup
BY IInvHolds, PTL DEF IInv

-----------------------------------------------------------------------------
(* ClawCap implements CapService.                                          *)

\* What the variables of the service are
ServiceStatus == [g \in Groups |-> Status(g)]
InsideOf(k)   == IF in[k] = 0 THEN NoCap ELSE cap[in[k]].id
ServiceInside == [k \in Calls |-> InsideOf(k)]

\* What each state is to the callers
AsSeen == [s \in States |->
  CASE s = "disabled"                  -> "closed"
    [] s = "draining"                  -> "draining"
    [] s = "unloading"                 -> "leaving"
    [] s \in {"registered", "started"} -> "open"]

\* The capabilities of a group are the same in both modules.
LEMMA SameParts == \A g : Service!CapsOf(g) = MembersOf(g) /\ Service!Parts(g) = {g} \cup MembersOf(g)
BY DEF Service!CapsOf, Service!Parts, MembersOf

\* The status of a group is that of its slot, and "out" when it has none.
LEMMA StatusIs ==
  ASSUME TypeOK, \A i, j \in GroupSlots : Occupied(i) /\ group[i].id = group[j].id => i = j
  PROVE  /\ \A i \in GroupSlots : Occupied(i) =>
              group[i].id \in Groups /\ Status(group[i].id) = AsSeen[group[i].state]
         /\ \A g \in Groups : (\A i \in GroupSlots : group[i].id # g) => Status(g) = "out"
<1>1. ASSUME NEW i \in GroupSlots, Occupied(i)
      PROVE  group[i].id \in Groups /\ Status(group[i].id) = AsSeen[group[i].state]
  <2>1. SlotOf(group[i].id) = {i} /\ {i} \in SUBSET Nat
    BY <1>1, Constants DEF SlotOf
  <2>2. Min({i}) = i
    BY <2>1, MinIsLeast
  <2>3. group[i].state \in States /\ group[i].id \in Groups
    BY <1>1 DEF TypeOK, States, Occupied
  <2>4. Status(group[i].id) =
          CASE InState(i, {"registered", "started"}) -> "open"
            [] InState(i, {"disabled"})              -> "closed"
            [] InState(i, {"draining"})              -> "draining"
            [] InState(i, {"unloading"})             -> "leaving"
    BY <2>1, <2>2 DEF Status
  <2> QED
    BY <2>3, <2>4 DEF States, InState, AsSeen
<1>2. ASSUME NEW g \in Groups, \A i \in GroupSlots : group[i].id # g PROVE Status(g) = "out"
  BY <1>2 DEF Status, SlotOf
<1> QED
  BY <1>1, <1>2

\* A group whose slot stays as it is keeps its status.
LEMMA StatusStays ==
  ASSUME TypeOK, NEW h \in Groups, SlotOf(h)' = SlotOf(h),
         \A m \in SlotOf(h) : group'[m].state = group[m].state
  PROVE  Status(h)' = Status(h)
<1>1. SlotOf(h) \in SUBSET Nat /\ SlotOf(h) \subseteq GroupSlots
  BY Constants DEF SlotOf
<1>2. CASE SlotOf(h) = {}
  BY <1>2 DEF Status
<1>3. ASSUME NEW m \in SlotOf(h), m = Min(SlotOf(h)) PROVE Status(h)' = Status(h)
  <2>1. group'[m].state = group[m].state /\ group[m].state \in States
    BY <1>1 DEF TypeOK, States
  <2>2. Status(h) =
          CASE group[m].state \in {"registered", "started"} -> "open"
            [] group[m].state \in {"disabled"}              -> "closed"
            [] group[m].state \in {"draining"}              -> "draining"
            [] group[m].state \in {"unloading"}             -> "leaving"
    BY <1>3 DEF Status, InState
  <2>3. Status(h)' =
          CASE group'[m].state \in {"registered", "started"} -> "open"
            [] group'[m].state \in {"disabled"}              -> "closed"
            [] group'[m].state \in {"draining"}              -> "draining"
            [] group'[m].state \in {"unloading"}             -> "leaving"
    BY <1>3 DEF Status, InState
  <2> QED
    BY <2>1, <2>2, <2>3
<1> QED
  BY <1>1, <1>2, <1>3, MinIsLeast

\* A group that is in slot i after a step has the status of that slot.
LEMMA StatusBecomes ==
  ASSUME TypeOK', NEW i \in GroupSlots, NEW h \in Groups, SlotOf(h)' = {i}
  PROVE  Status(h)' = AsSeen[group'[i].state]
<1>1. {i} \in SUBSET Nat
  BY Constants
<1>2. Min({i}) = i
  BY <1>1, MinIsLeast
<1>3. group'[i].state \in States
  BY DEF TypeOK, States
<1>4. Status(h)' =
        CASE group'[i].state \in {"registered", "started"} -> "open"
          [] group'[i].state \in {"disabled"}              -> "closed"
          [] group'[i].state \in {"draining"}              -> "draining"
          [] group'[i].state \in {"unloading"}             -> "leaving"
  BY <1>2 DEF Status, InState
<1> QED
  BY <1>3, <1>4 DEF States, AsSeen

\* When only the state of one slot changes, the status of its group alone changes.
LEMMA OneStatus ==
  ASSUME IInv, TypeOK', NEW i \in GroupSlots, Occupied(i), StateOnly(i)
  PROVE  /\ group[i].id \in Groups
         /\ ServiceStatus[group[i].id] = AsSeen[group[i].state]
         /\ ServiceStatus' = [ServiceStatus EXCEPT ![group[i].id] = AsSeen[group'[i].state]]
         /\ ServiceInside' = ServiceInside
<1>1. /\ TypeOK
      /\ \A j, k \in GroupSlots : Occupied(j) /\ group[j].id = group[k].id => j = k
      /\ \A j \in GroupSlots : group'[j].id = group[j].id
      /\ \A j \in GroupSlots \ {i} : group'[j] = group[j]
  BY DEF IInv, MembersComplete, StateOnly
<1>2. group[i].id \in Groups /\ Status(group[i].id) = AsSeen[group[i].state]
  BY <1>1, StatusIs
<1>3. \A h \in Groups : SlotOf(h)' = SlotOf(h)
  BY <1>1 DEF SlotOf
<1>4. ASSUME NEW h \in Groups, h # group[i].id PROVE Status(h)' = Status(h)
  <2>1. SlotOf(h) \subseteq GroupSlots \ {i}
    BY <1>4 DEF SlotOf
  <2> QED
    BY <1>1, <1>3, <2>1, StatusStays
<1>5. ASSUME NEW h \in Groups, h = group[i].id PROVE Status(h)' = AsSeen[group'[i].state]
  <2>1. SlotOf(h)' = {i}
    BY <1>1, <1>3, <1>5 DEF SlotOf
  <2> QED
    BY <2>1, StatusBecomes
<1>6. ServiceInside' = ServiceInside
  BY DEF StateOnly, ServiceInside, InsideOf
<1>7. ServiceStatus' = [ServiceStatus EXCEPT ![group[i].id] = AsSeen[group'[i].state]]
  BY <1>2, <1>4, <1>5 DEF ServiceStatus
<1> QED
  BY <1>2, <1>6, <1>7 DEF ServiceStatus

\* A step that writes no state and changes no slot's contents changes nothing the callers see.
LEMMA SameStatus ==
  ASSUME UNCHANGED <<group, cap, in>>
  PROVE  ServiceStatus' = ServiceStatus /\ ServiceInside' = ServiceInside
BY DEF ServiceStatus, ServiceInside, Status, SlotOf, InState, InsideOf

\* A call is inside a capability of a registered group.
LEMMA InsideIs ==
  ASSUME IInv, NEW k \in Calls
  PROVE  /\ in[k] = 0 => InsideOf(k) = NoCap
         /\ in[k] # 0 => /\ in[k] \in CapSlots /\ InsideOf(k) = cap[in[k]].id
                         /\ InsideOf(k) # NoCap
                         /\ cap[in[k]].home \in GroupSlots /\ Occupied(cap[in[k]].home)
                         /\ InsideOf(k) \in MembersOf(group[cap[in[k]].home].id)
                         /\ group[cap[in[k]].home].state # "unloading"
BY MemberHasSlot DEF IInv, TypeOK, NoCallInUnloading, InsideOf, InState

\* A call is inside a group when it is in a slot of one of its members.
LEMMA InsideGroup ==
  ASSUME IInv, NEW i \in GroupSlots, Occupied(i), NEW k \in Calls,
         InsideOf(k) \in MembersOf(group[i].id)
  PROVE  in[k] # 0 /\ in[k] \in MemberSlots(i)
<1>1. group[i].id \in Groups
  BY DEF IInv, TypeOK, Occupied
<1>2. in[k] # 0
  BY <1>1, InsideIs, Constants
<1>3. cap[in[k]].home = i
  BY <1>2, InsideIs, GroupsAreDisjoint DEF IInv
<1> QED
  BY <1>2, <1>3, InsideIs DEF MemberSlots

\* Registering a group is Load.
LEMMA RegisterServes ==
  ASSUME IInv, TypeOK', NEW g \in Groups, Register(g)
  PROVE  Service!Load(g)
<1> USE DEF IInv
<1>1. PICK i \in GroupSlots, T \in SUBSET FreeCaps :
        /\ ~Occupied(i) /\ SlotOf(g) = {}
        /\ group' = [group EXCEPT ![i] = [id |-> g, state |-> "registered"]]
        /\ \A d \in CapSlots \ T : cap'[d] = cap[d]
        /\ \A x \in MembersOf(g), d \in CapSlots : cap[d].id # x
        /\ in' = in /\ live' = live
  BY RegisterEffect
<1>2. /\ group'[i].id = g /\ group'[i].state = "registered" /\ group[i].id = NoGroup
      /\ \A j \in GroupSlots \ {i} : group'[j] = group[j]
  <2>1. group'[i] = [id |-> g, state |-> "registered"]
    BY <1>1 DEF TypeOK
  <2> QED
    BY <1>1, <2>1 DEF Occupied, TypeOK
<1>3. ASSUME NEW h \in Groups, h # g PROVE Status(h)' = Status(h)
  <2>1. SlotOf(h)' = SlotOf(h) /\ SlotOf(h) \subseteq GroupSlots \ {i}
    BY <1>2, <1>3, Constants DEF SlotOf
  <2> QED
    BY <1>2, <2>1, StatusStays
<1>4. Status(g) = "out" /\ Status(g)' = "open"
  <2>1. SlotOf(g)' = {i}
    BY <1>1, <1>2 DEF SlotOf
  <2>2. AsSeen["registered"] = "open"
    BY DEF AsSeen, States
  <2>3. Status(g)' = AsSeen[group'[i].state]
    BY <2>1, StatusBecomes
  <2> QED
    BY <1>1, <1>2, <2>2, <2>3 DEF Status
<1>5. ServiceInside' = ServiceInside
  <2>1. \A d \in T : cap[d].id = NoCap
    BY DEF FreeCaps
  <2>2. ASSUME NEW k \in Calls PROVE InsideOf(k)' = InsideOf(k)
    <3>1. in[k] # 0 => in[k] \in CapSlots \ T
      BY <2>1, InsideIs
    <3> QED
      BY <1>1, <3>1 DEF InsideOf
  <2> QED
    BY <2>2 DEF ServiceInside
<1>6. ASSUME NEW h \in Groups, Status(h) # "out" PROVE MembersOf(g) \cap MembersOf(h) = {}
  <2>1. PICK j \in GroupSlots : group[j].id = h /\ Occupied(j)
    BY <1>6, Constants DEF Status, SlotOf, Occupied
  <2> QED
    BY <1>1, <2>1, MemberHasSlot
<1>7. ServiceStatus' = [ServiceStatus EXCEPT ![g] = "open"] /\ ServiceStatus[g] = "out"
  BY <1>3, <1>4 DEF ServiceStatus
<1>8. \A h \in Groups : ServiceStatus[h] # "out" => MembersOf(g) \cap MembersOf(h) = {}
  BY <1>6 DEF ServiceStatus
<1> QED
  BY <1>1, <1>5, <1>7, <1>8, SameParts
     DEF Service!Load, Service!Becomes, ServiceStatus, ServiceInside, InsideOf

\* Clearing a group is Go.
LEMMA ClearServes ==
  ASSUME IInv, TypeOK', Clear
  PROVE  Service!Go(group[at].id)
<1> USE DEF IInv
<1> DEFINE g == group[at].id
<1>1. /\ pc = "clear" /\ UNCHANGED <<in, live>>
      /\ group' = [group EXCEPT ![at] = EmptyGroup]
      /\ \A d \in CapSlots \ MemberSlots(at) : cap'[d] = cap[d]
  BY ClearEffect
<1>2. /\ at \in GroupSlots /\ Occupied(at) /\ g \in Groups /\ group[at].state = "unloading"
      /\ \A j \in GroupSlots : group[j].id = g => j = at
  BY <1>1 DEF TypeOK, ManagerInv, Occupied, InState, MembersComplete
<1>3. group'[at].id = NoGroup /\ \A j \in GroupSlots \ {at} : group'[j] = group[j]
  BY <1>1, <1>2 DEF TypeOK, EmptyGroup
<1>4. ASSUME NEW h \in Groups, h # g PROVE Status(h)' = Status(h)
  <2>1. SlotOf(h)' = SlotOf(h) /\ SlotOf(h) \subseteq GroupSlots \ {at}
    BY <1>3, <1>4, Constants DEF SlotOf
  <2> QED
    BY <1>3, <2>1, StatusStays
<1>5. ASSUME NEW h \in Groups, h = g PROVE Status(h) = "leaving" /\ Status(h)' = "out"
  <2>1. SlotOf(h)' = {}
    BY <1>2, <1>3, <1>5, Constants DEF SlotOf
  <2>2. AsSeen["unloading"] = "leaving"
    BY DEF AsSeen, States
  <2>3. Status(h) = AsSeen[group[at].state]
    BY <1>2, <1>5, StatusIs DEF MembersComplete
  <2> QED
    BY <1>2, <2>1, <2>2, <2>3 DEF Status
<1>6. \A k \in Calls : in[k] # 0 => in[k] \in CapSlots \ MemberSlots(at)
  BY <1>2, InsideIs DEF MemberSlots
<1>7. ServiceInside' = ServiceInside
  BY <1>1, <1>6 DEF ServiceInside, InsideOf
<1>8. \A k \in Calls : ServiceInside[k] \notin MembersOf(g)
  BY <1>2, <1>6, InsideGroup DEF ServiceInside
<1>9. g \notin live /\ MembersOf(g) \cap live = {}
  BY <1>1 DEF CallbackInv, Here
<1>10. ServiceStatus' = [ServiceStatus EXCEPT ![g] = "out"] /\ ServiceStatus[g] = "leaving"
  BY <1>2, <1>4, <1>5 DEF ServiceStatus
<1> QED
  BY <1>1, <1>7, <1>8, <1>9, <1>10, SameParts
     DEF Service!Go, Service!Becomes, Service!NobodyIn, ServiceStatus, ServiceInside, InsideOf

\* The sections that write a state are Open, Close, Drain and Empty, or change nothing.
LEMMA StatesServe ==
  ASSUME IInv, TypeOK', NEW i \in GroupSlots, Occupied(i), StateOnly(i), live' = live,
         \/ group'[i].state = group[i].state
         \/ /\ group[i].state \in {"registered", "started", "disabled"}
            /\ group'[i].state \in States \ {"unloading"}
         \/ group[i].state = "draining" /\ group'[i].state = "draining"
         \/ /\ group[i].state = "draining" /\ group'[i].state = "unloading"
            /\ ~HasActiveCalls(i)
  PROVE  [Service!CNext]_Service!cvars
<1> DEFINE g == group[i].id
<1>1. /\ g \in Groups /\ ServiceStatus[g] = AsSeen[group[i].state]
      /\ ServiceStatus' = [ServiceStatus EXCEPT ![g] = AsSeen[group'[i].state]]
      /\ ServiceInside' = ServiceInside
  BY OneStatus
<1>2. /\ AsSeen["registered"] = "open" /\ AsSeen["started"] = "open"
      /\ AsSeen["disabled"] = "closed" /\ AsSeen["draining"] = "draining"
      /\ AsSeen["unloading"] = "leaving"
  BY DEF AsSeen, States
<1>3. CASE AsSeen[group'[i].state] = AsSeen[group[i].state]
  <2>1. ServiceStatus' = ServiceStatus
    BY <1>1, <1>3 DEF ServiceStatus
  <2> QED
    BY <1>1, <2>1 DEF Service!cvars, ServiceStatus, ServiceInside, InsideOf
<1>4. ASSUME NEW from, NEW to, from = AsSeen[group[i].state], to = AsSeen[group'[i].state]
      PROVE  \A S : from \in S => Service!Becomes(g, S, to)
  BY <1>1, <1>4 DEF Service!Becomes, ServiceStatus, ServiceInside, InsideOf
<1>5. CASE /\ group[i].state \in {"registered", "started", "disabled"}
           /\ group'[i].state \in States \ {"unloading"}
  <2>1. CASE group'[i].state \in {"registered", "started"}
    BY <1>1, <1>2, <1>3, <1>4, <1>5, <2>1 DEF Service!CNext, Service!Open
  <2>2. CASE group'[i].state = "disabled"
    BY <1>1, <1>2, <1>3, <1>4, <1>5, <2>2 DEF Service!CNext, Service!Close
  <2>3. CASE group'[i].state = "draining"
    BY <1>1, <1>2, <1>4, <1>5, <2>3 DEF Service!CNext, Service!Drain
  <2> QED
    BY <1>5, <2>1, <2>2, <2>3 DEF States
<1>6. CASE /\ group[i].state = "draining" /\ group'[i].state = "unloading"
           /\ ~HasActiveCalls(i)
  <2>1. ASSUME NEW k \in Calls, InsideOf(k) \in MembersOf(g) PROVE FALSE
    <3>1. in[k] # 0 /\ in[k] \in MemberSlots(i)
      BY <2>1, InsideGroup
    <3>2. in[k] \in CapSlots /\ cap[in[k]].active = Cardinality(Inside(in[k]))
      BY <3>1, InsideIs DEF IInv, ActiveCallsExact, Inside
    <3>3. Inside(in[k]) # {} /\ IsFiniteSet(Inside(in[k]))
      BY FS_Subset, ClawCapAssumption DEF ClawCapAssumption, Inside
    <3>4. Cardinality(Inside(in[k])) \in Nat /\ Cardinality(Inside(in[k])) # 0
      BY <3>3, FS_CardinalityType, FS_EmptySet
    <3>5. cap[in[k]].active > 0
      BY <3>2, <3>4
    <3> QED
      BY <1>6, <3>1, <3>5 DEF HasActiveCalls
  <2>2. Service!NobodyIn(g)
    BY <2>1, SameParts DEF Service!NobodyIn, InsideOf
  <2> QED
    BY <1>1, <1>2, <1>4, <1>6, <2>2 DEF Service!CNext, Service!Empty
<1> QED
  BY <1>2, <1>3, <1>5, <1>6

\* A start callback runs in an open group, a stop callback in one that takes no calls.
LEMMA CallbacksServe ==
  ASSUME IInv, StartNext \/ StopNext
  PROVE  [Service!CNext]_Service!cvars
<1> USE DEF IInv
<1>1. /\ pc \in {"starting", "stopping", "unloading"}
      /\ at \in GroupSlots /\ Occupied(at) /\ UNCHANGED <<group, cap, in>>
  BY DEF TypeOK, ManagerInv, StartNext, StopNext
<1>2. Here \in Groups /\ Target \in {Here} \cup MembersOf(Here)
  <2>1. next = 0 \/ next > 0
    BY <1>1, TargetIsKnown
  <2> QED
    BY <1>1, <2>1, TargetIsKnown
<1>3. Status(Here) = AsSeen[group[at].state]
  BY <1>1, StatusIs DEF Here, MembersComplete
<1>4. ServiceStatus' = ServiceStatus /\ ServiceInside' = ServiceInside
      /\ ServiceStatus[Here] = Status(Here)
  BY <1>1, <1>2, SameStatus DEF ServiceStatus
<1>5. CASE StartNext
  <2>1. ServiceStatus[Here] = "open" /\ live' = live \cup {Target}
    <3>1. group[at].state = "started" /\ AsSeen["started"] = "open"
      BY <1>5 DEF StartNext, ManagerInv, InState, AsSeen, States
    <3> QED
      BY <1>3, <1>4, <1>5, <3>1 DEF StartNext
  <2>2. Service!StartPart(Here, Target)
    BY <1>4, <2>1 DEF Service!StartPart, ServiceStatus, ServiceInside, InsideOf
  <2> QED
    BY <1>2, <2>2, SameParts DEF Service!CNext
<1>6. CASE StopNext
  <2>1. ServiceStatus[Here] \in {"closed", "leaving"} /\ live' = live \ {Target}
    <3>1. /\ group[at].state \in {"disabled", "unloading"}
          /\ AsSeen["disabled"] = "closed" /\ AsSeen["unloading"] = "leaving"
      BY <1>6 DEF StopNext, ManagerInv, InState, AsSeen, States
    <3> QED
      BY <1>3, <1>4, <1>6, <3>1 DEF StopNext
  <2>2. Service!StopPart(Here, Target)
    BY <1>4, <2>1 DEF Service!StopPart, ServiceStatus, ServiceInside, InsideOf
  <2> QED
    BY <1>2, <2>2, SameParts DEF Service!CNext
<1> QED
  BY <1>5, <1>6

\* Entering a slot is a call to the capability it holds, and leaving it the call's return.
LEMMA CallsServe ==
  ASSUME IInv, NEW k \in Calls, CallStep(k)
  PROVE  [Service!CNext]_Service!cvars
<1> USE DEF IInv
<1>1. /\ group' = group /\ live' = live
      /\ \A d \in CapSlots : cap'[d].id = cap[d].id
  <2>1. PICK d \in CapSlots, n \in Nat : cap' = [cap EXCEPT ![d].active = n]
    BY CallEffect
  <2>2. group' = group /\ live' = live
    BY CallEffect
  <2> QED
    BY <2>1, <2>2, CountEffect
<1>2. ServiceStatus' = ServiceStatus
  BY <1>1 DEF ServiceStatus, Status, SlotOf, InState
<1>3. \A d \in CapSlots : d # 0
  BY DEF CapSlots
<1>4. ASSUME NEW c, NEW d \in CapSlots \cup {0}, in' = [in EXCEPT ![k] = d],
             c = IF d = 0 THEN NoCap ELSE cap[d].id
      PROVE  ServiceInside' = [ServiceInside EXCEPT ![k] = c]
  <2>1. \A l \in Calls : InsideOf(l)' = IF l = k THEN c ELSE InsideOf(l)
    BY <1>1, <1>3, <1>4 DEF InsideOf, TypeOK
  <2> QED
    BY <2>1 DEF ServiceInside
<1>5. CASE Leave(k)
  <2>1. ServiceInside' = [ServiceInside EXCEPT ![k] = NoCap] /\ ServiceInside[k] # NoCap
    BY <1>4, <1>5, InsideIs DEF Leave, ServiceInside
  <2>2. Service!Return(k)
    BY <1>1, <1>2, <2>1 DEF Service!Return, ServiceStatus, ServiceInside, InsideOf
  <2> QED
    BY <2>2 DEF Service!CNext
<1>6. ASSUME NEW d \in CapSlots, Enter(k, d) PROVE [Service!CNext]_Service!cvars
  <2> DEFINE i == cap[d].home
             g == group[i].id
  <2>1. i \in GroupSlots /\ Occupied(i) /\ cap[d].id \in MembersOf(g)
    BY <1>6, MemberHasSlot DEF Enter
  <2>2. g \in Groups /\ Status(g) = AsSeen[group[i].state]
    BY <2>1, StatusIs DEF MembersComplete
  <2>3. AsSeen[group[i].state] = "open"
    BY <1>6 DEF Enter, InState, AsSeen, States
  <2>4. ServiceStatus[g] = "open"
    BY <2>2, <2>3 DEF ServiceStatus
  <2>5. ServiceInside[k] = NoCap /\ ServiceInside' = [ServiceInside EXCEPT ![k] = cap[d].id]
    BY <1>3, <1>4, <1>6 DEF Enter, ServiceInside, InsideOf
  <2>6. PICK h \in Groups, c \in Caps : h = g /\ c = cap[d].id /\ c \in Service!CapsOf(h)
    BY <2>1, <2>2, Constants, SameParts
  <2>7. Service!Call(k, h, c)
    BY <1>1, <1>2, <2>4, <2>5, <2>6 DEF Service!Call, ServiceStatus, ServiceInside, InsideOf
  <2>8. c \in Service!CapsOf(h)
    BY <2>6
  <2>9. Service!CNext
    BY <2>7, <2>8 DEF Service!CNext
  <2> QED
    BY <2>9
<1> QED
  BY <1>5, <1>6 DEF CallStep

\* The registry with its slots, counts and sections is the service of CapService: a call
\* stays in its capability while slots are freed and taken around it, a group that began to
\* drain opens no more, and it goes when no call is in it and nothing of it runs.
THEOREM RegistryImplementsCapService == Spec => ImplementsCapService
<1>1. Init => Service!CInit
  <2>1. ASSUME Init, NEW g \in Groups PROVE Status(g) = "out"
    <3>1. \A i \in GroupSlots : group[i].id = NoGroup
      BY <2>1 DEF Init, EmptyGroup
    <3> QED
      BY <3>1, Constants DEF Status, SlotOf
  <2> QED
    BY <2>1 DEF Init, Service!CInit
<1>2. IInv /\ IInv' /\ [Next]_vars => [Service!CNext]_Service!cvars
  <2> SUFFICES ASSUME IInv, IInv', [Next]_vars PROVE [Service!CNext]_Service!cvars
    OBVIOUS
  <2>a. TypeOK /\ ManagerInv /\ TypeOK'
    BY DEF IInv
  <2>1. ASSUME UNCHANGED <<group, cap, in, live>> PROVE [Service!CNext]_Service!cvars
    BY <2>1, SameStatus DEF Service!cvars, ServiceStatus, ServiceInside, InsideOf
  <2>2. ASSUME NEW g \in Groups, Register(g) PROVE [Service!CNext]_Service!cvars
    BY <2>a, <2>2, RegisterServes DEF Service!CNext
  <2>3. CASE Clear
    <3>1. group[at].id \in Groups
      BY <2>a, <2>3 DEF Clear, TypeOK, ManagerInv, Occupied
    <3> QED
      BY <2>a, <2>3, <3>1, ClearServes DEF Service!CNext
  <2>4. ASSUME NEW g \in Groups, Unload(g) PROVE [Service!CNext]_Service!cvars
    <3>1. PICK i \in SlotOf(g) : ~InState(i, {"unloading"}) /\ SetState(i, "draining")
      BY <2>4 DEF Unload
    <3>2. /\ i \in GroupSlots /\ Occupied(i) /\ "draining" \in States
          /\ group[i].state \in States \ {"unloading"}
      BY <2>a, <3>1, Constants DEF SlotOf, Occupied, States, TypeOK, InState
    <3>3. StateOnly(i) /\ group'[i].state = "draining" /\ live' = live
      BY <2>a, <2>4, <3>1, <3>2, SetStateEffect DEF StateOnly, Unload
    <3> QED
      BY <2>a, <3>2, <3>3, StatesServe DEF States
  <2>5. CASE Enables
    <3>1. PICK i \in GroupSlots : Occupied(i) /\ EnableSection(i)
      BY <2>5 DEF Enables
    <3>2. StateOnly(i) /\ live' = live
          /\ (group' = group \/ group'[i].state \in {"started", "registered"})
      BY <2>a, <3>1, EnableEffect
    <3>3. group' = group \/ group[i].state \in {"registered", "started", "disabled"}
      BY <2>a, <3>1 DEF EnableSection, InState, Leaving, TypeOK
    <3> QED
      BY <2>a, <3>1, <3>2, <3>3, StatesServe DEF States
  <2>6. CASE Disables
    <3>1. PICK i \in GroupSlots : Occupied(i) /\ DisableSection(i)
      BY <2>6 DEF Disables
    <3>2. StateOnly(i) /\ live' = live /\ (group' = group \/ group'[i].state = "disabled")
      BY <2>a, <3>1, DisableEffect
    <3>3. group' = group \/ group[i].state \in {"registered", "started", "disabled"}
      BY <2>a, <3>1 DEF DisableSection, InState, Leaving, TypeOK
    <3> QED
      BY <2>a, <3>1, <3>2, <3>3, StatesServe DEF States
  <2>7. CASE DisableFailed
    <3>1. /\ at \in GroupSlots /\ Occupied(at) /\ group[at].state = "started"
          /\ StateOnly(at) /\ group'[at].state = "disabled" /\ live' = live
      BY <2>a, <2>7, StateEffect DEF TypeOK, ManagerInv, InState
    <3> QED
      BY <2>a, <3>1, StatesServe DEF States
  <2>8. CASE Drained
    <3>1. /\ at \in GroupSlots /\ Occupied(at) /\ StateOnly(at) /\ live' = live
          /\ group'[at].state = "unloading" /\ ~HasActiveCalls(at)
      BY <2>a, <2>8, StateEffect DEF TypeOK, ManagerInv
    <3>2. group[at].state = "draining"
      BY <2>a, <2>8 DEF Drained, ManagerInv, InState
    <3> QED
      BY <2>a, <3>1, <3>2, StatesServe
  <2>9. CASE FinishStart
    BY <2>a, <2>1, <2>9, FinishEffect DEF FinishStart
  <2>10. CASE StartNext \/ StopNext
    BY <2>10, CallbacksServe
  <2>11. CASE Sweeps \/ StartFails \/ DrainExpires \/ UNCHANGED vars
    BY <2>1, <2>11 DEF Sweeps, StartFails, DrainExpires, vars
  <2>12. ASSUME NEW k \in Calls, CallStep(k) PROVE [Service!CNext]_Service!cvars
    BY <2>12, CallsServe
  <2> QED
    BY <2>a, <2>2, <2>3, <2>4, <2>5, <2>6, <2>7, <2>8, <2>9, <2>10, <2>11, <2>12, StepCases
<1> QED
  BY <1>1, <1>2, IInvHolds, PTL DEF Spec, ImplementsCapService, Service!CapSpec

=============================================================================
