--------------------------- MODULE LuaAsyncProofs ---------------------------
(***************************************************************************)
(* Proofs about LuaAsync, for every number of jobs, consoles, slots and    *)
(* scripts at a time: what submitters and stops rely on while slots and    *)
(* their semaphores pass from one job to the next.                         *)
(***************************************************************************)
EXTENDS LuaAsync, SlotLemmas, FiniteSetTheorems, TLAPS

\* The jobs that count as running
Busy == {j \in Jobs : Live(j) \/ pc[j] \in {"create", "undo"}}

\* Where a job is once it has taken a slot (or has been refused): it takes no other.
Past  == {"create", "undo", "mark", "accepted", "refused"}
Waits == {"stop", "check", "wait", "recheck"}

\* Where a caller that stops or waits goes on
Onward == {"check", "wait", "recheck", "preflight", "refused", "stopping", "returned"}

\* A job has a task only when its submission has created one.
PlaceInv == \A j \in Jobs : task[j] # "none" => pc[j] \in {"mark", "accepted"}

\* A job that counts as running owns its slot, and no job is in another slot than its own.
SlotInv ==
  /\ \A j \in Busy : slots[slotOf[j]].job = j /\ ~Terminal(slotOf[j])
  /\ \A i \in Slots, j \in Jobs :
       slots[i].job = j => slotOf[j] = i /\ pc[j] \in Past \ {"refused"}

\* What is to be stopped or waited for is a job that was found in its own slot.
Seen(t) == t.job \in Jobs /\ slotOf[t.job] = t.slot /\ pc[t.job] \in Past

TargetInv ==
  /\ \A c \in Callers : pc[c] \in Waits => Seen(target[c])
  /\ \A c \in Consoles : \A t \in todo[c] : Seen(t)

\* Jobs that count as running differ in name and in exclusive group.
Differ(j, k) == /\ Name[j] # Name[k] \/ Name[j] = NoLabel
                /\ Exclusive[j] # Exclusive[k] \/ Exclusive[j] = NoLabel

KindInv == \A j, k \in Busy : j # k => Differ(j, k)

CountInv == IsFiniteSet(Busy) /\ running = Cardinality(Busy)

\* A confirmed stop is for good: the job is not about to run either.
ConfirmInv == \A j \in confirmed : j \notin Busy /\ pc[j] \in Past

IInv ==
  /\ TypeOK
  /\ PlaceInv
  /\ SlotInv
  /\ TargetInv
  /\ KindInv
  /\ CountInv
  /\ ConfirmInv
  /\ StopHitsItsJob

-----------------------------------------------------------------------------
(* Facts about the data.                                                   *)

SlotType == [job : Jobs \cup {NoJob}, stop : BOOLEAN,
             status : TerminalStatus \cup {"queued", "running"}]

\* Raising the flag of a slot changes nothing else.
LEMMA StopFlagEffect ==
  ASSUME TypeOK, NEW i \in Slots, slots' = [slots EXCEPT ![i].stop = TRUE]
  PROVE  /\ slots' \in [Slots -> SlotType]
         /\ \A k \in Slots : slots'[k].job = slots[k].job /\ slots'[k].status = slots[k].status
         /\ \A k \in Slots \ {i} : slots'[k] = slots[k]
<1> DEFINE new == [job |-> slots[i].job, stop |-> TRUE, status |-> slots[i].status]
<1>1. slots[i] \in SlotType /\ slots \in [Slots -> SlotType]
  BY DEF TypeOK, SlotType
<1>2. [slots[i] EXCEPT !.stop = TRUE] = new
  <2>1. ASSUME NEW r \in SlotType, NEW b
      PROVE  [r EXCEPT !.stop = b] = [job |-> r.job, stop |-> b, status |-> r.status]
    BY DEF SlotType
  <2> QED
    BY <1>1, <2>1
<1>5. new \in SlotType
  BY <1>1 DEF SlotType
<1>3. slots' = [slots EXCEPT ![i] = new]
  BY <1>2
<1>4. new.job = slots[i].job /\ new.status = slots[i].status
  OBVIOUS
<1> QED
  BY <1>1, <1>3, <1>4, <1>5

\* Writing the status of a slot changes nothing else.
LEMMA StatusEffect ==
  ASSUME TypeOK, NEW i \in Slots, NEW s \in TerminalStatus \cup {"running"},
         slots' = [slots EXCEPT ![i].status = s]
  PROVE  /\ slots' \in [Slots -> SlotType]
         /\ \A k \in Slots : slots'[k].job = slots[k].job /\ slots'[k].stop = slots[k].stop
         /\ slots'[i].status = s
         /\ \A k \in Slots \ {i} : slots'[k] = slots[k]
<1> DEFINE new == [job |-> slots[i].job, stop |-> slots[i].stop, status |-> s]
<1>1. slots[i] \in SlotType /\ slots \in [Slots -> SlotType]
  BY DEF TypeOK, SlotType
<1>2. [slots[i] EXCEPT !.status = s] = new /\ new \in SlotType
  BY <1>1 DEF SlotType
<1>3. slots' = [slots EXCEPT ![i] = new]
  BY <1>2
<1>4. new.job = slots[i].job /\ new.stop = slots[i].stop /\ new.status = s
  OBVIOUS
<1> QED
  BY <1>1, <1>2, <1>3, <1>4

\* Filling or clearing a slot changes no other slot.
LEMMA RecordEffect ==
  ASSUME TypeOK, NEW i \in Slots, NEW job \in Jobs \cup {NoJob},
         slots' = [slots EXCEPT ![i] = [job |-> job, status |-> "queued", stop |-> FALSE]]
  PROVE  /\ slots' \in [Slots -> SlotType]
         /\ slots'[i].job = job /\ slots'[i].status = "queued" /\ slots'[i].stop = FALSE
         /\ \A k \in Slots \ {i} : slots'[k] = slots[k]
<1> DEFINE new == [job |-> job, status |-> "queued", stop |-> FALSE]
<1>1. slots \in [Slots -> SlotType] /\ new \in SlotType
  BY DEF TypeOK, SlotType
<1>2. new.job = job /\ new.status = "queued" /\ new.stop = FALSE
  OBVIOUS
<1> QED
  BY <1>1, <1>2

\* The searches find slots: a conflict is an active job's slot, and what may be used again
\* holds no active job.
LEMMA SearchFinds ==
  ASSUME TypeOK
  PROVE  /\ \A j \in Jobs : Conflict(j) # {} =>
              Min(Conflict(j)) \in Slots /\ Active(Min(Conflict(j)))
         /\ \A i \in Reusable : i \in Slots /\ ~Active(i)
<1>1. ASSUME NEW j \in Jobs, Conflict(j) # {}
      PROVE  Min(Conflict(j)) \in Slots /\ Active(Min(Conflict(j)))
  <2>1. \A i \in Conflict(j) : i \in Slots /\ Active(i)
    BY DEF Conflict, Holders
  <2>2. Conflict(j) \in SUBSET Nat
    BY <2>1 DEF Slots
  <2>3. Min(Conflict(j)) \in Conflict(j)
    BY <1>1, <2>2, MinIsLeast
  <2> QED
    BY <2>1, <2>3
<1>2. ASSUME NEW i \in Reusable PROVE i \in Slots /\ ~Active(i)
  <2> DEFINE free == {k \in Slots : ~Used(k)}
  <2>1. CASE free # {}
    <3>1. free \in SUBSET Nat
      BY DEF Slots
    <3>2. Min(free) \in free
      <4> HIDE DEF free
      <4> QED
        BY <2>1, <3>1, MinIsLeast
    <3>3. i = Min(free)
      BY <2>1 DEF Reusable
    <3> QED
      BY <3>2, <3>3 DEF Active
  <2>2. CASE free = {}
    BY <2>2 DEF Reusable, Active
  <2> QED
    BY <2>1, <2>2
<1> QED
  BY <1>1, <1>2

-----------------------------------------------------------------------------
(* The steps that leave jobs where they are.                               *)

\* Nothing that a job owns changes; one caller at most moves, and not one that has a slot.
Quiet ==
  /\ \A i \in Slots : slots'[i].job = slots[i].job /\ slots'[i].status = slots[i].status
  /\ UNCHANGED <<slotOf, running>>
  /\ \A j \in Jobs : (task'[j] = "running" <=> task[j] = "running")
                     /\ (task'[j] = "none" <=> task[j] = "none")
  /\ \A c \in Callers :
       pc'[c] = pc[c] \/ (pc[c] \notin Past /\ pc'[c] \notin Past \ {"refused"})

\* Such a step keeps who runs, and where.
LEMMA QuietKeeps ==
  ASSUME IInv, Quiet
  PROVE  /\ PlaceInv' /\ SlotInv' /\ KindInv' /\ CountInv'
         /\ \A t \in Targets : Seen(t) => Seen(t)'
         /\ Busy' = Busy
         /\ \A j \in Jobs : pc[j] \in Past => pc'[j] \in Past
<1> USE DEF IInv
<1>1. Jobs \subseteq Callers
  BY DEF Callers
<1>2. Busy' = Busy
  BY <1>1 DEF Busy, Live, Quiet, Past
<1>3. PlaceInv'
  BY <1>1 DEF PlaceInv, Quiet, Past
<1>4. SlotInv'
  <2>1. \A j \in Busy : slotOf[j] \in Slots
    BY DEF Busy, TypeOK
  <2>2. \A j \in Busy : slots'[slotOf'[j]].job = j /\ ~Terminal(slotOf[j])'
    BY <2>1 DEF SlotInv, Quiet, Terminal
  <2>3. \A i \in Slots, j \in Jobs :
          slots'[i].job = j => slotOf'[j] = i /\ pc'[j] \in Past \ {"refused"}
    BY <1>1 DEF SlotInv, Quiet
  <2> QED
    BY <1>2, <2>2, <2>3 DEF SlotInv
<1>5. KindInv' /\ CountInv'
  BY <1>2 DEF KindInv, CountInv, Quiet, Differ
<1>6. \A t \in Targets : Seen(t) => Seen(t)'
  BY <1>1 DEF Seen, Quiet
<1>7. \A j \in Jobs : pc[j] \in Past => pc'[j] \in Past
  BY <1>1 DEF Quiet
<1> QED
  BY <1>2, <1>3, <1>4, <1>5, <1>6, <1>7

\* A caller that has waited goes back to look for a conflict, gives up, or returns.
LEMMA ResumeEffect ==
  ASSUME NEW c \in Callers, NEW terminal \in BOOLEAN, Resume(c, terminal)
  PROVE  /\ \E p \in {"preflight", "refused", "stopping", "returned"} : pc' = [pc EXCEPT ![c] = p]
         /\ target' = [target EXCEPT ![c] = NoTarget]
<1>1. CASE c \in Jobs /\ terminal
  BY <1>1, LuaAsyncAssumption DEF Resume, Goto, LuaAsyncAssumption
<1>2. CASE c \in Jobs /\ ~terminal
  BY <1>2, LuaAsyncAssumption DEF Resume, Goto, LuaAsyncAssumption
<1>3. CASE c \notin Jobs /\ c \in Consoles /\ todo[c] # {}
  BY <1>3 DEF Resume, Goto
<1>4. CASE c \notin Jobs /\ ~(c \in Consoles /\ todo[c] # {})
  BY <1>4 DEF Resume, Goto
<1> QED
  BY <1>1, <1>2, <1>3, <1>4

\* The quiet steps of a job, of a console, and of whoever waits
QuietJob(j)     == Preflight(j) \/ CommitConflict(j) \/ CommitRefused(j) \/ Signal(j)
QuietConsole(c) == ConsoleCall(c) \/ StopNext(c)

\* Where a quiet step takes its caller
LEMMA QuietMoves ==
  ASSUME TypeOK
  PROVE  /\ \A j \in Jobs : QuietJob(j) =>
              \/ pc' = pc
              \/ /\ pc[j] \in {"new", "preflight", "commit"}
                 /\ \E p \in {"refused", "commit", "stop", "preflight"} : pc' = [pc EXCEPT ![j] = p]
         /\ \A c \in Consoles : QuietConsole(c) =>
              /\ pc[c] \in {"new", "stopping"}
              /\ \E p \in {"stop", "stopping", "returned", "check"} : pc' = [pc EXCEPT ![c] = p]
         /\ \A c \in Callers : StopAndWait(c) =>
              /\ pc[c] \in Waits
              /\ \E p \in Onward :
                   pc' = [pc EXCEPT ![c] = p]
<1>1. ASSUME NEW j \in Jobs, QuietJob(j)
      PROVE  \/ pc' = pc
             \/ /\ pc[j] \in {"new", "preflight", "commit"}
                /\ \E p \in {"refused", "commit", "stop", "preflight"} : pc' = [pc EXCEPT ![j] = p]
  <2>1. CASE Preflight(j)
    BY <2>1 DEF Preflight, Goto
  <2>2. CASE CommitConflict(j) \/ CommitRefused(j) \/ Signal(j)
    BY <2>2 DEF CommitConflict, CommitRefused, Signal, Goto, callerVars
  <2> QED
    BY <1>1, <2>1, <2>2 DEF QuietJob
<1>2. ASSUME NEW c \in Consoles, QuietConsole(c)
      PROVE  /\ pc[c] \in {"new", "stopping"}
             /\ \E p \in {"stop", "stopping", "returned", "check"} : pc' = [pc EXCEPT ![c] = p]
  <2>1. CASE StopNext(c)
    <3>1. PICK t \in todo[c] :
            IF slots[t.slot].job = t.job
              THEN Goto(c, "stop")
              ELSE Goto(c, IF todo[c] = {t} THEN "returned" ELSE "stopping")
      BY <2>1 DEF StopNext
    <3> QED
      BY <2>1, <3>1 DEF StopNext, Goto
  <2>2. CASE StopJob(c) \/ StopAllJobs(c) \/ WaitSettle(c)
    BY <2>2 DEF StopJob, StopAllJobs, WaitSettle, Goto
  <2> QED
    BY <1>2, <2>1, <2>2 DEF QuietConsole, ConsoleCall
<1>3. ASSUME NEW c \in Callers, StopAndWait(c)
      PROVE  /\ pc[c] \in Waits
             /\ \E p \in Onward :
                  pc' = [pc EXCEPT ![c] = p]
  <2>1. ASSUME NEW terminal \in BOOLEAN, Resume(c, terminal)
        PROVE  \E p \in Onward :
                 pc' = [pc EXCEPT ![c] = p]
    BY <2>1, ResumeEffect DEF Onward
  <2>2. CASE StopSlot(c)
    <3>1. Goto(c, "check") \/ Resume(c, TRUE)
      BY <2>2 DEF StopSlot
    <3> QED
      BY <2>1, <2>2, <3>1 DEF StopSlot, Goto, Waits, Onward
  <2>3. CASE CheckTerminal(c)
    <3>1. Goto(c, "wait") \/ Resume(c, TRUE)
      BY <2>3 DEF CheckTerminal, Answer
    <3> QED
      BY <2>1, <2>3, <3>1 DEF CheckTerminal, Goto, Waits, Onward
  <2>4. CASE Woken(c) \/ WaitExpires(c)
    BY <2>4 DEF Woken, WaitExpires, Goto, Waits, Onward
  <2>5. CASE RecheckTerminal(c)
    BY <2>1, <2>5 DEF RecheckTerminal, Answer, Waits, Onward
  <2> QED
    BY <1>3, <2>2, <2>3, <2>4, <2>5 DEF StopAndWait
<1> QED
  BY <1>1, <1>2, <1>3

\* What these steps do to the slots: only StopSlot writes, and only a flag.
LEMMA QuietSlots ==
  ASSUME IInv
  PROVE  /\ \A j \in Jobs : QuietJob(j) => slots' = slots
         /\ \A c \in Consoles : QuietConsole(c) => slots' = slots
         /\ \A c \in Callers : StopAndWait(c) =>
              \/ slots' = slots
              \/ /\ StopSlot(c) /\ target[c].slot \in Slots
                 /\ slots[target[c].slot].job = target[c].job
                 /\ slots' = [slots EXCEPT ![target[c].slot].stop = TRUE]
<1>1. ASSUME NEW j \in Jobs, QuietJob(j) PROVE slots' = slots
  BY <1>1 DEF QuietJob, Preflight, CommitConflict, CommitRefused, Signal
<1>2. ASSUME NEW c \in Consoles, QuietConsole(c) PROVE slots' = slots
  BY <1>2 DEF QuietConsole, ConsoleCall, StopJob, StopAllJobs, WaitSettle, StopNext
<1>3. ASSUME NEW c \in Callers, StopSlot(c), slots' # slots
      PROVE  /\ target[c].slot \in Slots
             /\ slots[target[c].slot].job = target[c].job
             /\ slots' = [slots EXCEPT ![target[c].slot].stop = TRUE]
  BY <1>3 DEF StopSlot, IInv, TypeOK, Targets
<1>4. ASSUME NEW c \in Callers, StopAndWait(c), ~StopSlot(c) PROVE slots' = slots
  BY <1>4 DEF StopAndWait, CheckTerminal, Woken, WaitExpires, RecheckTerminal
<1> QED
  BY <1>1, <1>2, <1>3, <1>4

\* The steps before a slot is taken, and the waits, are quiet.
LEMMA QuietSteps ==
  ASSUME IInv,
         \/ \E j \in Jobs : QuietJob(j)
         \/ \E c \in Consoles : QuietConsole(c)
         \/ \E c \in Callers : StopAndWait(c)
  PROVE  Quiet
<1> USE DEF IInv
<1>1. \A i \in Slots : slots'[i].job = slots[i].job /\ slots'[i].status = slots[i].status
  BY QuietSlots, StopFlagEffect
<1>2. ASSUME NEW c \in Callers, NEW p \in Places, pc[c] \notin Past, p \notin Past \ {"refused"},
             pc' = [pc EXCEPT ![c] = p]
      PROVE  \A d \in Callers :
               pc'[d] = pc[d] \/ (pc[d] \notin Past /\ pc'[d] \notin Past \ {"refused"})
  BY <1>2 DEF TypeOK
<1>3. ASSUME NEW j \in Jobs, QuietJob(j) PROVE Quiet
  <2>1. UNCHANGED <<slotOf, running>>
    BY <1>3 DEF QuietJob, Preflight, CommitConflict, CommitRefused, Signal
  <2>2. \A k \in Jobs : (task'[k] = "running" <=> task[k] = "running")
                        /\ (task'[k] = "none" <=> task[k] = "none")
    BY <1>3 DEF QuietJob, Preflight, CommitConflict, CommitRefused, Signal, TypeOK
  <2>3. j \in Callers
    BY DEF Callers
  <2>4. \A d \in Callers :
          pc'[d] = pc[d] \/ (pc[d] \notin Past /\ pc'[d] \notin Past \ {"refused"})
    BY <1>2, <1>3, <2>3, QuietMoves DEF Past, Places
  <2> QED
    BY <1>1, <2>1, <2>2, <2>4 DEF Quiet
<1>4. ASSUME NEW c \in Consoles, QuietConsole(c) PROVE Quiet
  <2>1. UNCHANGED <<slotOf, running, task>>
    BY <1>4 DEF QuietConsole, ConsoleCall, StopJob, StopAllJobs, WaitSettle, StopNext
  <2>2. c \in Callers
    BY DEF Callers
  <2>3. \A d \in Callers :
          pc'[d] = pc[d] \/ (pc[d] \notin Past /\ pc'[d] \notin Past \ {"refused"})
    BY <1>2, <1>4, <2>2, QuietMoves DEF Past, Places
  <2> QED
    BY <1>1, <2>1, <2>3 DEF Quiet
<1>5. ASSUME NEW c \in Callers, StopAndWait(c) PROVE Quiet
  <2>1. UNCHANGED <<slotOf, running, task>>
    BY <1>5 DEF StopAndWait, StopSlot, CheckTerminal, Woken, WaitExpires, RecheckTerminal
  <2>2. \A d \in Callers :
          pc'[d] = pc[d] \/ (pc[d] \notin Past /\ pc'[d] \notin Past \ {"refused"})
    BY <1>2, <1>5, QuietMoves DEF Past, Places, Waits, Onward
  <2> QED
    BY <1>1, <2>1, <2>2 DEF Quiet
<1> QED
  BY <1>3, <1>4, <1>5

-----------------------------------------------------------------------------
(* The steps that take a slot, start a script and end it.                  *)

\* A job that has taken a slot takes no other, and does not run again.
Keeps == \A j \in Jobs : pc[j] \in Past =>
  pc'[j] \in Past /\ slotOf'[j] = slotOf[j] /\ (j \notin Busy => j \notin Busy')

\* What the invariant says of the jobs
JobsInv == PlaceInv /\ SlotInv /\ KindInv /\ CountInv

\* A job takes a slot: it differs from all that count as running.
LEMMA CommitKeeps ==
  ASSUME IInv, NEW j \in Jobs, Commit(j)
  PROVE  JobsInv' /\ Keeps
<1> USE DEF IInv
<1>1. PICK i \in Reusable :
        /\ slots' = [slots EXCEPT ![i] = [job |-> j, status |-> "queued", stop |-> FALSE]]
        /\ slotOf' = [slotOf EXCEPT ![j] = i]
  BY DEF Commit, ClearAndDrain
<1>2. i \in Slots /\ ~Active(i)
  BY SearchFinds
<1>3. /\ slots'[i].job = j /\ slots'[i].status = "queued"
      /\ \A k \in Slots \ {i} : slots'[k] = slots[k]
  BY <1>1, <1>2, RecordEffect
<1>4. pc[j] = "commit" /\ j \in Callers /\ pc' = [pc EXCEPT ![j] = "create"] /\ task' = task
      /\ running' = running + 1
  BY DEF Commit, Goto, Callers
<1>5. j \notin Busy /\ task[j] = "none"
  BY <1>4 DEF Busy, Live, PlaceInv, TypeOK
<1>6. Busy' = Busy \cup {j}
  BY <1>4, <1>5 DEF Busy, Live, TypeOK, Callers
<1>7. \A k \in Busy : k # j /\ slotOf'[k] = slotOf[k] /\ slotOf[k] \in Slots /\ slotOf[k] # i
  BY <1>1, <1>2, <1>5, LuaAsyncAssumption
     DEF SlotInv, Active, Used, TypeOK, Busy, LuaAsyncAssumption
<1>8. PlaceInv'
  BY <1>4, <1>5 DEF PlaceInv, TypeOK, Callers
<1>9. SlotInv'
  <2>1. slotOf'[j] = i
    BY <1>1 DEF TypeOK
  <2>2. \A k \in Busy' : slots'[slotOf'[k]].job = k /\ ~Terminal(slotOf[k])'
    BY <1>3, <1>6, <1>7, <2>1 DEF SlotInv, Terminal, TerminalStatus
  <2>3. ASSUME NEW h \in Slots, NEW k \in Jobs, slots'[h].job = k
        PROVE  slotOf'[k] = h /\ pc'[k] \in Past \ {"refused"}
    <3>1. CASE h = i
      BY <1>3, <1>4, <2>1, <2>3, <3>1 DEF TypeOK, Past
    <3>2. CASE h # i
      <4>1. slots[h].job = k
        BY <1>3, <2>3, <3>2
      <4>2. slotOf[k] = h /\ pc[k] \in Past \ {"refused"}
        BY <4>1 DEF SlotInv
      <4>3. k # j
        BY <1>4, <4>2 DEF Past
      <4> QED
        BY <1>1, <1>4, <4>2, <4>3 DEF TypeOK, Callers
    <3> QED
      BY <3>1, <3>2
  <2> QED
    BY <2>2, <2>3 DEF SlotInv
<1>10. KindInv'
  <2>1. ASSUME NEW k \in Busy PROVE Differ(j, k) /\ Differ(k, j)
    <3>1. slotOf[k] \in Slots /\ slots[slotOf[k]].job = k /\ ~Terminal(slotOf[k])
      BY <1>7 DEF SlotInv
    <3>2. Active(slotOf[k])
      BY <3>1, LuaAsyncAssumption DEF Active, Used, Busy, LuaAsyncAssumption
    <3>3. Holders(Name, j) = {} /\ Holders(Exclusive, j) = {}
      BY DEF Commit, Conflict
    <3>4. slotOf[k] \notin Holders(Name, j) /\ slotOf[k] \notin Holders(Exclusive, j)
      BY <3>3
    <3>5. Name[j] = NoLabel \/ Name[k] # Name[j]
      BY <3>1, <3>2, <3>4 DEF Holders
    <3>6. Exclusive[j] = NoLabel \/ Exclusive[k] # Exclusive[j]
      BY <3>1, <3>2, <3>4 DEF Holders
    <3> QED
      BY <3>5, <3>6 DEF Differ
  <2> QED
    BY <1>6, <2>1 DEF KindInv, Differ
<1>11. CountInv'
  BY <1>4, <1>5, <1>6, FS_AddElement DEF CountInv
<1>12. Keeps
  BY <1>1, <1>4, <1>6 DEF Keeps, Past, TypeOK, Callers
<1> QED
  BY <1>8, <1>9, <1>10, <1>11, <1>12 DEF JobsInv

\* Memory runs out when a slot has been cleared: no job was in it.
LEMMA CommitOutOfMemoryKeeps ==
  ASSUME IInv, NEW j \in Jobs, CommitOutOfMemory(j)
  PROVE  JobsInv' /\ Keeps
<1> USE DEF IInv
<1>1. PICK i \in Reusable : slots' = [slots EXCEPT ![i] = EmptySlot]
  BY DEF CommitOutOfMemory, ClearAndDrain
<1>2. i \in Slots /\ ~Active(i)
  BY SearchFinds
<1>3. slots'[i].job = NoJob /\ \A k \in Slots \ {i} : slots'[k] = slots[k]
  BY <1>1, <1>2, RecordEffect DEF EmptySlot
<1>4. pc[j] = "commit" /\ j \in Callers /\ pc' = [pc EXCEPT ![j] = "refused"]
      /\ UNCHANGED <<running, task, slotOf>>
  BY DEF CommitOutOfMemory, Goto, Callers
<1>5. Busy' = Busy
  BY <1>4 DEF Busy, Live, TypeOK, Callers
<1>6. \A k \in Busy : slotOf[k] \in Slots /\ slotOf[k] # i
  BY <1>2, LuaAsyncAssumption DEF SlotInv, Active, Used, TypeOK, Busy, LuaAsyncAssumption
<1>7. PlaceInv'
  BY <1>4 DEF PlaceInv, TypeOK, Callers
<1>8. SlotInv'
  <2>1. \A k \in Busy' : slots'[slotOf'[k]].job = k /\ ~Terminal(slotOf[k])'
    BY <1>3, <1>4, <1>5, <1>6 DEF SlotInv, Terminal
  <2>2. ASSUME NEW h \in Slots, NEW k \in Jobs, slots'[h].job = k
        PROVE  slotOf'[k] = h /\ pc'[k] \in Past \ {"refused"}
    <3>1. slots[h].job = k
      BY <1>3, <2>2, LuaAsyncAssumption DEF LuaAsyncAssumption
    <3>2. slotOf[k] = h /\ pc[k] \in Past \ {"refused"}
      BY <3>1 DEF SlotInv
    <3> QED
      BY <1>4, <3>2 DEF TypeOK, Past, Callers
  <2> QED
    BY <2>1, <2>2 DEF SlotInv
<1>9. KindInv' /\ CountInv'
  BY <1>4, <1>5 DEF KindInv, CountInv, Differ
<1>10. Keeps
  BY <1>4, <1>5 DEF Keeps, Past, TypeOK, Callers
<1> QED
  BY <1>7, <1>8, <1>9, <1>10 DEF JobsInv

\* A task is created, or not: the job counts as running all the same.
LEMMA CreateKeeps ==
  ASSUME IInv, NEW j \in Jobs, CreateTask(j) \/ CreateFails(j)
  PROVE  JobsInv' /\ Keeps
<1> USE DEF IInv
<1>1. /\ pc[j] = "create" /\ j \in Callers /\ UNCHANGED <<slots, running, slotOf>>
      /\ \/ pc' = [pc EXCEPT ![j] = "mark"] /\ task' = [task EXCEPT ![j] = "running"]
         \/ pc' = [pc EXCEPT ![j] = "undo"] /\ task' = task
  BY DEF CreateTask, CreateFails, Goto, Callers
<1>2. Busy' = Busy
  BY <1>1 DEF Busy, Live, TypeOK, Callers, PlaceInv
<1>3. PlaceInv'
  BY <1>1 DEF PlaceInv, TypeOK, Callers
<1>4. SlotInv'
  <2>1. \A k \in Busy' : slots'[slotOf'[k]].job = k /\ ~Terminal(slotOf[k])'
    BY <1>1, <1>2 DEF SlotInv, Terminal
  <2>2. \A k \in Jobs : pc[k] \in Past \ {"refused"} => pc'[k] \in Past \ {"refused"}
    BY <1>1 DEF Past, TypeOK, Callers
  <2>3. ASSUME NEW h \in Slots, NEW k \in Jobs, slots'[h].job = k
        PROVE  slotOf'[k] = h /\ pc'[k] \in Past \ {"refused"}
    BY <1>1, <2>2, <2>3 DEF SlotInv
  <2> QED
    BY <1>1, <2>1, <2>3 DEF SlotInv
<1>5. KindInv' /\ CountInv'
  BY <1>1, <1>2 DEF KindInv, CountInv, Differ
<1>6. Keeps
  BY <1>1, <1>2 DEF Keeps, Past, TypeOK, Callers
<1> QED
  BY <1>3, <1>4, <1>5, <1>6 DEF JobsInv

\* A failed submission clears its own slot.
LEMMA UndoKeeps ==
  ASSUME IInv, NEW j \in Jobs, Undo(j)
  PROVE  JobsInv' /\ Keeps /\ running > 0
<1> USE DEF IInv
<1> DEFINE i == slotOf[j]
<1>1. /\ pc[j] = "undo" /\ j \in Callers /\ pc' = [pc EXCEPT ![j] = "refused"]
      /\ UNCHANGED <<task, slotOf>> /\ running' = running - 1
  BY DEF Undo, Goto, Callers
<1>2. j \in Busy /\ i \in Slots /\ slots[i].job = j
  BY <1>1 DEF Busy, SlotInv, TypeOK
<1>3. slots'[i].job = NoJob /\ \A k \in Slots \ {i} : slots'[k] = slots[k]
  BY <1>2, RecordEffect DEF EmptySlot, Undo
<1>4. Busy' = Busy \ {j}
  <2>1. task[j] = "none"
    BY <1>1 DEF PlaceInv, TypeOK
  <2> QED
    BY <1>1, <2>1 DEF Busy, Live, TypeOK, Callers
<1>5. \A k \in Busy' : slotOf[k] \in Slots /\ slotOf[k] # i
  BY <1>2, <1>4 DEF SlotInv, TypeOK, Busy
<1>6. PlaceInv'
  BY <1>1 DEF PlaceInv, TypeOK, Callers
<1>7. SlotInv'
  <2>1. \A k \in Busy' : slots'[slotOf'[k]].job = k /\ ~Terminal(slotOf[k])'
    BY <1>1, <1>3, <1>4, <1>5 DEF SlotInv, Terminal
  <2>2. ASSUME NEW h \in Slots, NEW k \in Jobs, slots'[h].job = k
        PROVE  slotOf'[k] = h /\ pc'[k] \in Past \ {"refused"}
    <3>1. h # i /\ slots[h].job = k
      BY <1>3, <2>2, LuaAsyncAssumption DEF LuaAsyncAssumption
    <3>2. slotOf[k] = h /\ pc[k] \in Past \ {"refused"} /\ k # j
      BY <3>1 DEF SlotInv
    <3> QED
      BY <1>1, <3>2 DEF TypeOK, Callers
  <2> QED
    BY <2>1, <2>2 DEF SlotInv
<1>8. KindInv'
  BY <1>4 DEF KindInv, Differ
<1>9. CountInv' /\ running > 0
  <2>1. IsFiniteSet(Busy) /\ running = Cardinality(Busy) /\ running \in Nat
    BY FS_CardinalityType DEF CountInv
  <2>2. running # 0
    BY <1>2, <2>1, FS_EmptySet
  <2>3. IsFiniteSet(Busy') /\ Cardinality(Busy') = Cardinality(Busy) - 1
    BY <1>2, <1>4, <2>1, FS_RemoveElement
  <2> QED
    BY <1>1, <2>1, <2>2, <2>3 DEF CountInv
<1>10. Keeps
  BY <1>1, <1>4 DEF Keeps, Past, TypeOK, Callers
<1> QED
  BY <1>6, <1>7, <1>8, <1>9, <1>10 DEF JobsInv

\* Whatever slot is marked as running, a job that counts as running keeps its own.
LEMMA MarkRunningKeeps ==
  ASSUME IInv, NEW j \in Jobs, MarkRunning(j)
  PROVE  JobsInv' /\ Keeps
<1> USE DEF IInv
<1>1. /\ pc[j] = "mark" /\ j \in Callers /\ pc' = [pc EXCEPT ![j] = "accepted"]
      /\ UNCHANGED <<running, task, slotOf>>
  BY DEF MarkRunning, Goto, Callers
<1>2. slotOf[j] \in Slots
  BY DEF TypeOK
<1>3. /\ \A k \in Slots : slots'[k].job = slots[k].job
      /\ slots'[slotOf[j]].status = "running"
      /\ \A k \in Slots \ {slotOf[j]} : slots'[k] = slots[k]
  BY <1>2, StatusEffect DEF MarkRunning
<1>4. Busy' = Busy
  BY <1>1 DEF Busy, Live, TypeOK, Callers
<1>5. PlaceInv'
  BY <1>1 DEF PlaceInv, TypeOK, Callers
<1>6. SlotInv'
  <2>1. \A k \in Busy' : slots'[slotOf'[k]].job = k /\ ~Terminal(slotOf[k])'
    BY <1>1, <1>3, <1>4 DEF SlotInv, Terminal, TerminalStatus, Busy, TypeOK
  <2>2. \A h \in Slots, k \in Jobs :
          slots'[h].job = k => slotOf'[k] = h /\ pc'[k] \in Past \ {"refused"}
    BY <1>1, <1>3 DEF SlotInv, Past, TypeOK, Callers
  <2> QED
    BY <2>1, <2>2 DEF SlotInv
<1>7. KindInv' /\ CountInv'
  BY <1>1, <1>4 DEF KindInv, CountInv, Differ
<1>8. Keeps
  BY <1>1, <1>4 DEF Keeps, Past, TypeOK, Callers
<1> QED
  BY <1>5, <1>6, <1>7, <1>8 DEF JobsInv

\* A script that ends writes its result in its own slot.
LEMMA FinishJobKeeps ==
  ASSUME IInv, NEW j \in Jobs, FinishJob(j)
  PROVE  JobsInv' /\ Keeps /\ running > 0 /\ running' = running - 1
<1> USE DEF IInv
<1> DEFINE i == slotOf[j]
<1>1. j \in Busy /\ task[j] = "running" /\ UNCHANGED <<pc, slotOf>>
  BY DEF FinishJob, Busy, Live, callerVars
<1>2. i \in Slots /\ slots[i].job = j /\ pc[j] \in {"mark", "accepted"}
  BY <1>1 DEF SlotInv, PlaceInv, TypeOK
<1>3. /\ task' = [task EXCEPT ![j] = "signal"]
      /\ \E s \in TerminalStatus : slots' = [slots EXCEPT ![i].status = s]
  BY <1>2 DEF FinishJob, TerminalStatus
<1>4. /\ \A k \in Slots : slots'[k].job = slots[k].job
      /\ \A k \in Slots \ {i} : slots'[k] = slots[k]
  BY <1>2, <1>3, StatusEffect
<1>5. Busy' = Busy \ {j}
  BY <1>1, <1>2, <1>3 DEF Busy, Live, TypeOK
<1>6. \A k \in Busy' : slotOf[k] \in Slots /\ slotOf[k] # i
  BY <1>2, <1>5 DEF SlotInv, TypeOK, Busy
<1>7. PlaceInv'
  BY <1>1, <1>2, <1>3 DEF PlaceInv, TypeOK
<1>8. SlotInv'
  <2>1. \A k \in Busy' : slots'[slotOf'[k]].job = k /\ ~Terminal(slotOf[k])'
    BY <1>1, <1>4, <1>5, <1>6 DEF SlotInv, Terminal
  <2>2. \A h \in Slots, k \in Jobs :
          slots'[h].job = k => slotOf'[k] = h /\ pc'[k] \in Past \ {"refused"}
    BY <1>1, <1>4 DEF SlotInv
  <2> QED
    BY <2>1, <2>2 DEF SlotInv
<1>9. KindInv'
  BY <1>5 DEF KindInv, Differ
<1>10. CountInv' /\ running > 0 /\ running' = running - 1
  <2>1. IsFiniteSet(Busy) /\ running = Cardinality(Busy) /\ running \in Nat
    BY FS_CardinalityType DEF CountInv
  <2>2. running # 0
    BY <1>1, <2>1, FS_EmptySet
  <2>3. IsFiniteSet(Busy') /\ Cardinality(Busy') = Cardinality(Busy) - 1
    BY <1>1, <1>5, <2>1, FS_RemoveElement
  <2>4. running' = running - 1
    BY <2>1, <2>2 DEF FinishJob
  <2> QED
    BY <2>1, <2>2, <2>3, <2>4 DEF CountInv
<1>11. Keeps
  BY <1>1, <1>5 DEF Keeps
<1> QED
  BY <1>7, <1>8, <1>9, <1>10, <1>11 DEF JobsInv

-----------------------------------------------------------------------------
(* What is to be stopped or waited for, and who has been stopped.          *)

\* What a caller finds in a used slot is a job in its own slot.
LEMMA FoundIsSeen ==
  ASSUME IInv, NEW i \in Slots, Used(i), NEW b \in BOOLEAN
  PROVE  Target(i, b) \in Targets /\ Seen(Target(i, b))
<1>1. slots[i].job \in Jobs
  BY DEF IInv, TypeOK, Used
<1> QED
  BY <1>1 DEF Target, Targets, Seen, IInv, SlotInv, Past

\* The target of a caller that stops nothing has the type of a target.
LEMMA NoTargetTyped == NoTarget \in Targets
BY LuaAsyncAssumption DEF NoTarget, Targets, Slots, LuaAsyncAssumption

\* After a step of a caller its new target, and what it still has to stop, were seen.
TargetsSeen ==
  /\ target' \in [Callers -> Targets] /\ todo' \in [Consoles -> SUBSET Targets]
  /\ \A c \in Callers : pc'[c] \in Waits => Seen(target'[c])
  /\ \A c \in Consoles : \A t \in todo'[c] : Seen(t)

\* The same, when the caller keeps its target and does not begin to wait
LEMMA TargetsKept ==
  ASSUME IInv, NEW c \in Callers, NEW p \in Places, pc' = [pc EXCEPT ![c] = p],
         UNCHANGED <<target, todo>>, p \in Waits => pc[c] \in Waits
  PROVE  TargetsSeen
BY DEF TargetsSeen, IInv, TypeOK, TargetInv

\* The same, when the caller has waited
LEMMA TargetsDropped ==
  ASSUME IInv, NEW c \in Callers, NEW terminal \in BOOLEAN, Resume(c, terminal), todo' = todo
  PROVE  TargetsSeen
<1>1. PICK p \in {"preflight", "refused", "stopping", "returned"} : pc' = [pc EXCEPT ![c] = p]
  BY ResumeEffect
<1>2. target' = [target EXCEPT ![c] = NoTarget]
  BY ResumeEffect
<1>3. target' \in [Callers -> Targets]
  BY <1>2, NoTargetTyped DEF IInv, TypeOK
<1>4. ASSUME NEW d \in Callers, pc'[d] \in Waits PROVE Seen(target'[d])
  <2>1. d # c
    BY <1>1, <1>4 DEF IInv, TypeOK, Waits
  <2>2. target'[d] = target[d] /\ pc[d] \in Waits
    BY <1>1, <1>2, <1>4, <2>1 DEF IInv, TypeOK
  <2> QED
    BY <2>2 DEF IInv, TargetInv
<1> QED
  BY <1>3, <1>4 DEF TargetsSeen, IInv, TypeOK, TargetInv

\* The same, when the caller begins to wait for a job that was seen
LEMMA TargetsTaken ==
  ASSUME IInv, NEW c \in Callers, NEW p \in Places, pc' = [pc EXCEPT ![c] = p],
         NEW t \in Targets, Seen(t), target' = [target EXCEPT ![c] = t],
         todo' \in [Consoles -> SUBSET Targets],
         \A d \in Consoles : \A s \in todo'[d] : s \in todo[d]
  PROVE  TargetsSeen
<1>1. target' \in [Callers -> Targets]
  BY DEF IInv, TypeOK
<1>2. ASSUME NEW d \in Callers, pc'[d] \in Waits PROVE Seen(target'[d])
  <2>1. CASE d = c
    <3>1. target'[d] = t
      BY <2>1 DEF IInv, TypeOK
    <3> QED
      BY <3>1
  <2>2. CASE d # c
    <3>1. target'[d] = target[d] /\ pc[d] \in Waits
      BY <1>2, <2>2 DEF IInv, TypeOK
    <3> QED
      BY <3>1 DEF IInv, TargetInv
  <2> QED
    BY <2>1, <2>2
<1> QED
  BY <1>1, <1>2 DEF TargetsSeen, IInv, TargetInv

\* Every quiet step keeps that.
LEMMA QuietTargets ==
  ASSUME IInv,
         \/ \E j \in Jobs : QuietJob(j)
         \/ \E c \in Consoles : QuietConsole(c)
         \/ \E c \in Callers : StopAndWait(c)
  PROVE  TargetsSeen
<1> USE DEF Callers
<1>1. ASSUME NEW j \in Jobs, Preflight(j) PROVE TargetsSeen
  <2>1. todo' = todo /\ todo \in [Consoles -> SUBSET Targets]
    BY <1>1 DEF Preflight, IInv, TypeOK
  <2>2. CASE target' = target /\ \E p \in {"refused", "commit"} : pc' = [pc EXCEPT ![j] = p]
    BY <2>1, <2>2, TargetsKept DEF Waits, Places
  <2>3. CASE Conflict(j) # {} /\ target' = [target EXCEPT ![j] = Target(Min(Conflict(j)), TRUE)]
             /\ pc' = [pc EXCEPT ![j] = "stop"]
    <3>1. Min(Conflict(j)) \in Slots /\ Used(Min(Conflict(j)))
      BY <2>3, SearchFinds DEF IInv, Active
    <3>2. Target(Min(Conflict(j)), TRUE) \in Targets /\ Seen(Target(Min(Conflict(j)), TRUE))
      BY <3>1, FoundIsSeen
    <3> QED
      BY <2>1, <2>3, <3>2, TargetsTaken DEF Places
  <2> QED
    BY <1>1, <2>2, <2>3 DEF Preflight, Goto
<1>2. ASSUME NEW j \in Jobs, CommitConflict(j) \/ CommitRefused(j) PROVE TargetsSeen
  BY <1>2, TargetsKept DEF CommitConflict, CommitRefused, Goto, Waits, Places
<1>3. ASSUME NEW j \in Jobs, Signal(j) PROVE TargetsSeen
  BY <1>3 DEF Signal, callerVars, TargetsSeen, IInv, TypeOK, TargetInv
<1>4. ASSUME NEW c \in Consoles, StopJob(c) \/ WaitSettle(c) PROVE TargetsSeen
  <2>1. PICK i \in Slots, b \in BOOLEAN, p \in {"stop", "check"} :
          Used(i) /\ target' = [target EXCEPT ![c] = Target(i, b)] /\ pc' = [pc EXCEPT ![c] = p]
    BY <1>4 DEF StopJob, WaitSettle, Active, Goto
  <2>2. Target(i, b) \in Targets /\ Seen(Target(i, b))
    BY <2>1, FoundIsSeen
  <2>3. todo' = todo /\ todo \in [Consoles -> SUBSET Targets]
    BY <1>4 DEF StopJob, WaitSettle, IInv, TypeOK
  <2> QED
    BY <2>1, <2>2, <2>3, TargetsTaken DEF Places
<1>5. ASSUME NEW c \in Consoles, StopAllJobs(c) PROVE TargetsSeen
  <2>1. PICK S \in SUBSET Slots : /\ \A s \in S : Used(s)
                                  /\ todo' = [todo EXCEPT ![c] = {Target(i, TRUE) : i \in S}]
    <3>1. PICK group : todo' = [todo EXCEPT ![c] =
                  {Target(i, TRUE) : i \in {s \in Slots :
                     Active(s) /\ (group = NoLabel \/ Exclusive[slots[s].job] = group)}}]
      BY <1>5 DEF StopAllJobs
    <3> DEFINE T == {s \in Slots :
                     Active(s) /\ (group = NoLabel \/ Exclusive[slots[s].job] = group)}
    <3>2. T \in SUBSET Slots /\ \A s \in T : Used(s)
      BY DEF Active
    <3>3. todo' = [todo EXCEPT ![c] = {Target(i, TRUE) : i \in T}]
      BY <3>1
    <3> QED
      BY <3>2, <3>3
  <2>2. \A t \in {Target(i, TRUE) : i \in S} : t \in Targets /\ Seen(t)
    BY <2>1, FoundIsSeen
  <2>3. /\ todo' \in [Consoles -> SUBSET Targets]
        /\ \A d \in Consoles : \A t \in todo'[d] : Seen(t)
    BY <2>1, <2>2 DEF IInv, TypeOK, TargetInv
  <2>4. target' = target /\ pc' = [pc EXCEPT ![c] = "stopping"]
    BY <1>5 DEF StopAllJobs, Goto
  <2>5. \A d \in Callers : pc'[d] \in Waits => pc[d] \in Waits
    BY <2>4 DEF IInv, TypeOK, Waits
  <2> QED
    BY <2>3, <2>4, <2>5 DEF TargetsSeen, IInv, TypeOK, TargetInv
<1>6. ASSUME NEW c \in Consoles, StopNext(c) PROVE TargetsSeen
  <2>1. PICK t \in todo[c] :
          /\ todo' = [todo EXCEPT ![c] = @ \ {t}]
          /\ \/ target' = [target EXCEPT ![c] = t] /\ pc' = [pc EXCEPT ![c] = "stop"]
             \/ /\ target' = target
                /\ \E p \in {"returned", "stopping"} : pc' = [pc EXCEPT ![c] = p]
    BY <1>6 DEF StopNext, Goto
  <2>2. t \in Targets /\ Seen(t)
    BY DEF IInv, TypeOK, TargetInv
  <2>3. todo' \in [Consoles -> SUBSET Targets] /\ \A d \in Consoles : todo'[d] \subseteq todo[d]
    BY <2>1 DEF IInv, TypeOK
  <2>4. CASE target' = [target EXCEPT ![c] = t] /\ pc' = [pc EXCEPT ![c] = "stop"]
    BY <2>2, <2>3, <2>4, TargetsTaken DEF Places
  <2>5. CASE target' = target /\ \E p \in {"returned", "stopping"} : pc' = [pc EXCEPT ![c] = p]
    <3>1. \A d \in Callers : pc'[d] \in Waits => pc[d] \in Waits
      BY <2>5 DEF IInv, TypeOK, Waits
    <3> QED
      BY <2>3, <2>5, <3>1 DEF TargetsSeen, IInv, TypeOK, TargetInv
  <2> QED
    BY <2>1, <2>4, <2>5
<1>7. ASSUME NEW c \in Callers, StopAndWait(c) PROVE TargetsSeen
  <2>1. todo' = todo
    BY <1>7 DEF StopAndWait, StopSlot, CheckTerminal, Woken, WaitExpires, RecheckTerminal
  <2>2. CASE \E terminal \in BOOLEAN : Resume(c, terminal)
    BY <2>1, <2>2, TargetsDropped
  <2>3. CASE /\ target' = target /\ pc[c] \in Waits
             /\ \E p \in {"check", "wait", "recheck"} : pc' = [pc EXCEPT ![c] = p]
    BY <2>1, <2>3, TargetsKept DEF Places
  <2>4. CASE StopSlot(c)
    BY <2>2, <2>3, <2>4 DEF StopSlot, Goto, Waits
  <2>5. CASE CheckTerminal(c)
    BY <2>2, <2>3, <2>5 DEF CheckTerminal, Answer, Goto, Waits
  <2>6. CASE Woken(c) \/ WaitExpires(c)
    BY <2>3, <2>6 DEF Woken, WaitExpires, Goto, Waits
  <2>7. CASE RecheckTerminal(c)
    BY <2>2, <2>7 DEF RecheckTerminal, Answer, Used, Terminal
  <2> QED
    BY <1>7, <2>4, <2>5, <2>6, <2>7 DEF StopAndWait
<1> QED
  BY <1>1, <1>2, <1>3, <1>4, <1>5, <1>6, <1>7 DEF QuietJob, QuietConsole, ConsoleCall

\* A seen job whose slot is free or terminal, or holds another job, does not count as running.
LEMMA SeenOver ==
  ASSUME IInv, NEW t \in Targets, Seen(t),
         ~Used(t.slot) \/ Terminal(t.slot) \/ slots[t.slot].job # t.job
  PROVE  t.job \in Jobs /\ t.job \notin Busy /\ pc[t.job] \in Past
BY LuaAsyncAssumption DEF IInv, SlotInv, Seen, Used, Targets, LuaAsyncAssumption

\* What a waiting caller answers, and what a quiet step adds to the jobs asked and confirmed
LEMMA QuietHistory ==
  ASSUME IInv,
         \/ \E j \in Jobs : QuietJob(j)
         \/ \E c \in Consoles : QuietConsole(c)
         \/ \E c \in Callers : StopAndWait(c)
  PROVE  /\ asked \subseteq asked' /\ asked' \subseteq Jobs
         /\ \A j \in confirmed' : j \in confirmed \/ (j \in Jobs /\ j \notin Busy /\ pc[j] \in Past)
         /\ \A i \in Slots : slots'[i].stop => slots'[i].job \in asked'
<1> USE DEF IInv
<1>1. asked \subseteq Jobs /\ confirmed \subseteq Jobs
  BY DEF TypeOK
<1>2. CASE UNCHANGED <<asked, confirmed, slots>>
  BY <1>1, <1>2 DEF StopHitsItsJob
<1>3. ASSUME NEW c \in Callers, StopAndWait(c)
      PROVE  /\ asked \subseteq asked' /\ asked' \subseteq Jobs
             /\ \A j \in confirmed' :
                  j \in confirmed \/ (j \in Jobs /\ j \notin Busy /\ pc[j] \in Past)
             /\ \A i \in Slots : slots'[i].stop => slots'[i].job \in asked'
  <2>1. target[c] \in Targets /\ Seen(target[c])
    BY <1>3 DEF TypeOK, TargetInv, StopAndWait, StopSlot, CheckTerminal, Woken, WaitExpires,
                RecheckTerminal, Waits
  <2>2. target[c].job \in Jobs
    BY <2>1 DEF Seen
  <2>3. CASE StopSlot(c)
    <3>1. asked' = asked \cup {target[c].job}
      BY <2>3 DEF StopSlot
    <3>2. confirmed' = confirmed
          \/ (confirmed' = confirmed \cup {target[c].job} /\ ~Active(target[c].slot))
      BY <2>3 DEF StopSlot
    <3>3. \A j \in confirmed' : j \in confirmed \/ (j \in Jobs /\ j \notin Busy /\ pc[j] \in Past)
      BY <2>1, <3>2, SeenOver DEF Active
    <3>4. CASE slots' = slots
      BY <1>1, <2>2, <3>1, <3>3, <3>4 DEF StopHitsItsJob
    <3>5. CASE /\ target[c].slot \in Slots
               /\ slots[target[c].slot].job = target[c].job
               /\ slots' = [slots EXCEPT ![target[c].slot].stop = TRUE]
      <4>1. /\ \A k \in Slots : slots'[k].job = slots[k].job
            /\ \A k \in Slots \ {target[c].slot} : slots'[k] = slots[k]
        BY <3>5, StopFlagEffect
      <4> QED
        BY <1>1, <2>2, <3>1, <3>3, <3>5, <4>1 DEF StopHitsItsJob
    <3> QED
      BY <1>3, <2>3, <3>4, <3>5, QuietSlots
  <2>4. CASE CheckTerminal(c) \/ RecheckTerminal(c)
    <3>1. UNCHANGED <<asked, slots>>
      BY <2>4 DEF CheckTerminal, RecheckTerminal
    <3>2. confirmed' = confirmed
          \/ /\ confirmed' = confirmed \cup {target[c].job}
             /\ ~Used(target[c].slot) \/ Terminal(target[c].slot)
      BY <2>4 DEF CheckTerminal, RecheckTerminal, Answer
    <3>3. \A j \in confirmed' : j \in confirmed \/ (j \in Jobs /\ j \notin Busy /\ pc[j] \in Past)
      BY <2>1, <3>2, SeenOver
    <3> QED
      BY <1>1, <3>1, <3>3 DEF StopHitsItsJob
  <2>5. CASE Woken(c) \/ WaitExpires(c)
    BY <1>2, <2>5 DEF Woken, WaitExpires
  <2> QED
    BY <1>3, <2>3, <2>4, <2>5 DEF StopAndWait
<1>4. ASSUME NEW j \in Jobs, QuietJob(j) PROVE UNCHANGED <<asked, confirmed, slots>>
  BY <1>4 DEF QuietJob, Preflight, CommitConflict, CommitRefused, Signal
<1>5. ASSUME NEW c \in Consoles, QuietConsole(c) PROVE UNCHANGED <<asked, confirmed, slots>>
  BY <1>5 DEF QuietConsole, ConsoleCall, StopJob, StopAllJobs, WaitSettle, StopNext
<1> QED
  BY <1>2, <1>3, <1>4, <1>5

-----------------------------------------------------------------------------
(* The invariant.                                                          *)

LoudJob(j) == CommitOutOfMemory(j) \/ Commit(j) \/ CreateTask(j) \/ CreateFails(j)
              \/ Undo(j) \/ MarkRunning(j) \/ FinishJob(j)

\* The quiet steps keep the invariant.
LEMMA QuietInv ==
  ASSUME IInv,
         \/ \E j \in Jobs : QuietJob(j)
         \/ \E c \in Consoles : QuietConsole(c)
         \/ \E c \in Callers : StopAndWait(c)
  PROVE  IInv'
<1>1. Quiet
  BY QuietSteps
<1>2. /\ JobsInv' /\ Busy' = Busy
      /\ \A t \in Targets : Seen(t) => Seen(t)'
      /\ \A j \in Jobs : pc[j] \in Past => pc'[j] \in Past
  <2>1. PlaceInv' /\ SlotInv' /\ KindInv' /\ CountInv'
    BY <1>1, QuietKeeps
  <2>2. Busy' = Busy
    BY <1>1, QuietKeeps
  <2>3. \A t \in Targets : Seen(t) => Seen(t)'
    BY <1>1, QuietKeeps
  <2>4. \A j \in Jobs : pc[j] \in Past => pc'[j] \in Past
    BY <1>1, QuietKeeps
  <2> QED
    BY <2>1, <2>2, <2>3, <2>4 DEF JobsInv
<1>3. TargetsSeen
  BY QuietTargets
<1>4. TargetInv'
  BY <1>2, <1>3 DEF TargetInv, TargetsSeen, Seen
<1>5. /\ asked' \subseteq Jobs
      /\ \A j \in confirmed' : j \in confirmed \/ (j \in Jobs /\ j \notin Busy /\ pc[j] \in Past)
      /\ StopHitsItsJob'
  BY QuietHistory DEF StopHitsItsJob
<1>6. ConfirmInv' /\ confirmed' \subseteq Jobs
  BY <1>2, <1>5 DEF ConfirmInv, IInv, TypeOK
<1>7. slots' \in [Slots -> SlotType]
  BY QuietSlots, StopFlagEffect DEF IInv, TypeOK, SlotType
<1>8. pc' \in [Callers -> Places]
  <2>1. /\ \A j \in Jobs : j \in Callers
        /\ \A j \in Consoles : j \in Callers
    BY DEF Callers
  <2>2. pc' = pc \/ \E c \in Callers, p \in Places : pc' = [pc EXCEPT ![c] = p]
    BY <2>1, QuietMoves DEF Places, Onward, IInv
  <2> QED
    BY <2>2 DEF IInv, TypeOK
<1>9. sem' \in [Slots -> BOOLEAN] /\ retried' \subseteq Jobs
      /\ task' \in [Jobs -> {"none", "running", "signal", "ended"}]
  <2>1. ASSUME NEW j \in Jobs, QuietJob(j) PROVE <1>9!:
    <3>1. CASE Signal(j)
      BY <3>1 DEF Signal, callerVars, IInv, TypeOK
    <3>2. CASE Preflight(j) \/ CommitConflict(j) \/ CommitRefused(j)
      BY <3>2 DEF Preflight, CommitConflict, CommitRefused, IInv, TypeOK
    <3> QED
      BY <2>1, <3>1, <3>2 DEF QuietJob
  <2>2. ASSUME NEW c \in Consoles, QuietConsole(c) PROVE <1>9!:
    BY <2>2 DEF QuietConsole, ConsoleCall, StopJob, StopAllJobs, WaitSettle, StopNext, IInv, TypeOK
  <2>3. ASSUME NEW c \in Callers, StopAndWait(c) PROVE <1>9!:
    BY <2>3 DEF StopAndWait, StopSlot, CheckTerminal, Woken, WaitExpires, RecheckTerminal,
                IInv, TypeOK
  <2> QED
    BY <2>1, <2>2, <2>3
<1>10. TypeOK'
  BY <1>1, <1>3, <1>5, <1>6, <1>7, <1>8, <1>9
     DEF TypeOK, IInv, SlotType, TargetsSeen, Quiet
<1> QED
  BY <1>2, <1>4, <1>5, <1>6, <1>10 DEF IInv, JobsInv

\* The other steps keep what it says of the jobs, and who ran no more runs no more.
LEMMA LoudKeeps ==
  ASSUME IInv, NEW j \in Jobs, LoudJob(j)
  PROVE  JobsInv' /\ Keeps
BY CommitKeeps, CommitOutOfMemoryKeeps, CreateKeeps, UndoKeeps, MarkRunningKeeps, FinishJobKeeps
   DEF LoudJob

\* What the other steps do to the slots: no stop flag is raised.
LEMMA LoudSlots ==
  ASSUME IInv, NEW j \in Jobs, LoudJob(j)
  PROVE  /\ slots' \in [Slots -> SlotType]
         /\ \A i \in Slots : slots'[i].stop => slots[i].stop /\ slots'[i].job = slots[i].job
<1> USE DEF IInv
<1>1. slots \in [Slots -> SlotType] /\ slotOf[j] \in Slots
  BY DEF TypeOK, SlotType
<1>2. ASSUME NEW i \in Slots, NEW job \in Jobs \cup {NoJob},
             slots' = [slots EXCEPT ![i] = [job |-> job, status |-> "queued", stop |-> FALSE]]
      PROVE  /\ slots' \in [Slots -> SlotType]
             /\ \A k \in Slots : slots'[k].stop => slots[k].stop /\ slots'[k].job = slots[k].job
  <2>1. /\ slots' \in [Slots -> SlotType]
        /\ slots'[i].stop = FALSE
        /\ \A k \in Slots \ {i} : slots'[k] = slots[k]
    BY <1>2, RecordEffect
  <2> QED
    BY <2>1
<1>3. ASSUME NEW i \in Slots, NEW s \in TerminalStatus \cup {"running"},
             slots' = [slots EXCEPT ![i].status = s]
      PROVE  /\ slots' \in [Slots -> SlotType]
             /\ \A k \in Slots : slots'[k].stop => slots[k].stop /\ slots'[k].job = slots[k].job
  <2>1. /\ slots' \in [Slots -> SlotType]
        /\ \A k \in Slots : slots'[k].job = slots[k].job /\ slots'[k].stop = slots[k].stop
    BY <1>3, StatusEffect
  <2> QED
    BY <2>1
<1>4. CASE slots' = slots
  BY <1>1, <1>4
<1>5. CASE Commit(j)
  <2>1. PICK i \in Reusable :
          slots' = [slots EXCEPT ![i] = [job |-> j, status |-> "queued", stop |-> FALSE]]
    BY <1>5 DEF Commit, ClearAndDrain
  <2> QED
    BY <1>2, <2>1, SearchFinds
<1>6. CASE CommitOutOfMemory(j)
  <2>1. PICK i \in Reusable : slots' = [slots EXCEPT ![i] = EmptySlot]
    BY <1>6 DEF CommitOutOfMemory, ClearAndDrain
  <2> QED
    BY <1>2, <2>1, SearchFinds DEF EmptySlot
<1>7. CASE Undo(j)
  BY <1>1, <1>2, <1>7 DEF Undo, EmptySlot
<1>8. CASE MarkRunning(j)
  BY <1>1, <1>3, <1>8 DEF MarkRunning
<1>9. CASE FinishJob(j)
  <2>1. slots' = slots \/ \E s \in TerminalStatus : slots' = [slots EXCEPT ![slotOf[j]].status = s]
    BY <1>9 DEF FinishJob, TerminalStatus
  <2> QED
    BY <1>1, <1>3, <1>4, <2>1
<1>10. CASE CreateTask(j) \/ CreateFails(j)
  BY <1>4, <1>10 DEF CreateTask, CreateFails
<1> QED
  BY <1>5, <1>6, <1>7, <1>8, <1>9, <1>10 DEF LoudJob

\* The other steps keep the types: no room is given twice and none is returned twice.
LEMMA LoudTypes ==
  ASSUME IInv, NEW j \in Jobs, LoudJob(j)
  PROVE  TypeOK'
<1> USE DEF IInv
<1>1. slots' \in [Slots -> SlotType]
  BY LoudSlots
<1>2. running' \in 0 .. MaxConcurrent
  <2>1. running \in 0 .. MaxConcurrent /\ MaxConcurrent \in Nat
    BY LuaAsyncAssumption DEF TypeOK, LuaAsyncAssumption
  <2>2. CASE Commit(j)
    BY <2>1, <2>2 DEF Commit
  <2>3. CASE Undo(j)
    <3>1. running > 0
      BY <2>3, UndoKeeps
    <3> QED
      BY <2>1, <2>3, <3>1 DEF Undo
  <2>4. CASE FinishJob(j)
    <3>1. running > 0 /\ running' = running - 1
      BY <2>4, FinishJobKeeps
    <3> QED
      BY <2>1, <3>1
  <2>5. CASE CommitOutOfMemory(j) \/ CreateTask(j) \/ CreateFails(j) \/ MarkRunning(j)
    BY <2>1, <2>5 DEF CommitOutOfMemory, CreateTask, CreateFails, MarkRunning
  <2> QED
    BY <2>2, <2>3, <2>4, <2>5 DEF LoudJob
<1>3. /\ sem' \in [Slots -> BOOLEAN] /\ slotOf' \in [Jobs -> Slots]
      /\ pc' \in [Callers -> Places]
      /\ task' \in [Jobs -> {"none", "running", "signal", "ended"}]
  <2>1. j \in Callers
    BY DEF Callers
  <2>2. CASE Commit(j)
    <3>1. PICK i \in Reusable :
            sem' = [sem EXCEPT ![i] = FALSE] /\ slotOf' = [slotOf EXCEPT ![j] = i]
      BY <2>2 DEF Commit, ClearAndDrain
    <3>2. i \in Slots
      BY SearchFinds
    <3> QED
      BY <2>1, <2>2, <3>1, <3>2 DEF Commit, Goto, TypeOK, Places
  <2>3. CASE CommitOutOfMemory(j)
    BY <2>1, <2>3 DEF CommitOutOfMemory, ClearAndDrain, Goto, TypeOK, Places
  <2>4. CASE CreateTask(j) \/ CreateFails(j) \/ Undo(j) \/ MarkRunning(j)
    BY <2>1, <2>4 DEF CreateTask, CreateFails, Undo, MarkRunning, Goto, TypeOK, Places
  <2>5. CASE FinishJob(j)
    BY <2>5 DEF FinishJob, callerVars, TypeOK
  <2> QED
    BY <2>2, <2>3, <2>4, <2>5 DEF LoudJob
<1>4. UNCHANGED <<retried, target, todo, asked, confirmed>>
  BY DEF LoudJob, CommitOutOfMemory, Commit, CreateTask, CreateFails, Undo, MarkRunning,
         FinishJob, callerVars
<1> QED
  BY <1>1, <1>2, <1>3, <1>4 DEF TypeOK, SlotType

\* The other steps keep the invariant.
LEMMA LoudInv ==
  ASSUME IInv, NEW j \in Jobs, LoudJob(j)
  PROVE  IInv'
<1> USE DEF IInv
<1>1. JobsInv' /\ Keeps
  BY LoudKeeps
<1>2. TypeOK'
  BY LoudTypes
<1>3. UNCHANGED <<retried, target, todo, asked, confirmed>>
  BY DEF LoudJob, CommitOutOfMemory, Commit, CreateTask, CreateFails, Undo, MarkRunning,
         FinishJob, callerVars
<1>4. /\ j \in Callers
      /\ pc' = pc \/ \E p \in Places \ (Waits \cup {"stopping"}) : pc' = [pc EXCEPT ![j] = p]
  BY DEF LoudJob, CommitOutOfMemory, Commit, CreateTask, CreateFails, Undo, MarkRunning,
         FinishJob, callerVars, Goto, Callers, Places, Waits
<1>5. \A t \in Targets : Seen(t) => Seen(t)'
  BY <1>1 DEF Seen, Keeps
<1>6. TargetInv'
  <2>1. \A c \in Callers : pc'[c] \in Waits => pc[c] \in Waits
    BY <1>4 DEF TypeOK, Waits
  <2> QED
    BY <1>3, <1>5, <2>1 DEF TargetInv, Seen, TypeOK
<1>7. ConfirmInv'
  BY <1>1, <1>3 DEF ConfirmInv, Keeps, TypeOK
<1>8. StopHitsItsJob'
  BY <1>3, LoudSlots DEF StopHitsItsJob
<1> QED
  BY <1>1, <1>2, <1>6, <1>7, <1>8 DEF JobsInv

\* A step that changes nothing keeps the invariant.
LEMMA StutterInv == ASSUME IInv, UNCHANGED vars PROVE IInv'
BY DEF vars, callerVars, IInv, TypeOK, PlaceInv, SlotInv, TargetInv, KindInv, CountInv, ConfirmInv,
       StopHitsItsJob, Busy, Live, Terminal, Seen, Differ

\* The invariant holds when the table has been started.
LEMMA InitIInv == Init => IInv
<1> SUFFICES ASSUME Init PROVE IInv
  OBVIOUS
<1> USE LuaAsyncAssumption DEF LuaAsyncAssumption
<1>1. Busy = {}
  BY DEF Busy, Live, Init, Callers
<1>2. TypeOK
  BY NoTargetTyped DEF TypeOK, Init, EmptySlot, Places, Slots, TerminalStatus
<1>3. CountInv
  BY <1>1, FS_EmptySet DEF CountInv, Init
<1>4. PlaceInv /\ SlotInv /\ KindInv
  BY <1>1 DEF PlaceInv, SlotInv, KindInv, Init, EmptySlot
<1>5. TargetInv /\ ConfirmInv /\ StopHitsItsJob
  BY DEF TargetInv, ConfirmInv, StopHitsItsJob, Init, EmptySlot, Waits
<1> QED
  BY <1>2, <1>3, <1>4, <1>5 DEF IInv

\* The invariant holds in every reachable state.
THEOREM Invariance == Spec => []IInv
<1>1. IInv /\ [Next]_vars => IInv'
  <2> SUFFICES ASSUME IInv, [Next]_vars PROVE IInv'
    OBVIOUS
  <2>1. CASE UNCHANGED vars
    BY <2>1, StutterInv
  <2>2. ASSUME NEW j \in Jobs, SubmitStep(j) \/ FinishJob(j) \/ Signal(j) PROVE IInv'
    <3>1. QuietJob(j) \/ LoudJob(j)
      BY <2>2 DEF SubmitStep, QuietJob, LoudJob
    <3> QED
      BY <3>1, QuietInv, LoudInv
  <2>3. ASSUME NEW c \in Consoles, ConsoleCall(c) \/ StopNext(c) PROVE IInv'
    BY <2>3, QuietInv DEF QuietConsole
  <2>4. ASSUME NEW c \in Callers, StopAndWait(c) PROVE IInv'
    BY <2>4, QuietInv
  <2> QED
    BY <2>1, <2>2, <2>3, <2>4 DEF Next
<1> QED
  BY <1>1, InitIInv, PTL DEF Spec

\* Every variable keeps to the values its C counterpart can hold; s_running_jobs never
\* passes CAP_LUA_ASYNC_MAX_CONCURRENT, though submit reads it in one section and counts it
\* up in another.
THEOREM TypeCorrect == Spec => []TypeOK
BY Invariance, PTL DEF IInv

\* However submissions with and without replace interleave, two scripts that run differ in
\* name and in exclusive group.
THEOREM ScriptsDiffer == Spec => []OneOfAKind
<1>1. IInv => OneOfAKind
  BY DEF IInv, KindInv, OneOfAKind, Differ, Busy
<1> QED
  BY <1>1, Invariance, PTL

\* s_running_jobs is the number of scripts that run or are about to.
THEOREM RunningIsCounted == Spec => []RunningCountExact
<1>1. IInv => RunningCountExact
  BY DEF IInv, CountInv, RunningCountExact, Busy
<1> QED
  BY <1>1, Invariance, PTL

\* A script that runs keeps its slot: it can be listed and stopped to its end.
THEOREM RunningIsListed == Spec => []LiveJobIsListed
<1>1. IInv => LiveJobIsListed
  BY LuaAsyncAssumption
     DEF IInv, SlotInv, LiveJobIsListed, Busy, Active, Used, LuaAsyncAssumption
<1> QED
  BY <1>1, Invariance, PTL

\* A stop that was confirmed is true for ever, though the waiter may have looked at a slot
\* that another job had taken.
THEOREM StoppedIsGone == Spec => []StopConfirmedMeansGone
<1>1. IInv => StopConfirmedMeansGone
  BY DEF IInv, ConfirmInv, StopConfirmedMeansGone, Busy, TypeOK
<1> QED
  BY <1>1, Invariance, PTL

\* The stop flag of a slot that is used again and again is only ever raised for a job that
\* somebody asked to stop.
THEOREM FlagHitsItsJob == Spec => []StopHitsItsJob
BY Invariance, PTL DEF IInv
-----------------------------------------------------------------------------
(* LuaAsync implements JobService.                                         *)

\* A submission that went through has left a task behind.
StartedInv == \A j \in Jobs : pc[j] \in {"mark", "accepted"} => task[j] # "none"

\* Whoever waits to confirm a stop has asked for it.
AskedInv ==
  \A c \in Callers :
    pc[c] \in Waits \ {"stop"} /\ target[c].stop => target[c].job \in asked

ServiceInv == IInv /\ StartedInv /\ AskedInv

ServicePhase == [j \in Jobs |-> Phase(j)]

\* The phases in the terms of the invariant
LEMMA PhaseOf ==
  ASSUME ServiceInv, NEW j \in Jobs
  PROVE  /\ Phase(j) = "running" <=> task[j] = "running"
         /\ Phase(j) = "over" <=> task[j] \in {"signal", "ended"}
         /\ Phase(j) = "admitted" <=> pc[j] \in {"create", "undo"}
         /\ Phase(j) = "refused" <=> pc[j] = "refused"
         /\ Phase(j) = "submitted" <=> pc[j] \notin Past
         /\ Phase(j) \in {"running", "admitted"} <=> j \in Busy
<1>1. j \in Callers
  BY DEF Callers
<1>2. /\ task[j] \in {"none", "running", "signal", "ended"}
      /\ task[j] # "none" <=> pc[j] \in {"mark", "accepted"}
  BY DEF ServiceInv, IInv, TypeOK, PlaceInv, StartedInv
<1>3. j \in Busy <=> task[j] = "running" \/ pc[j] \in {"create", "undo"}
  BY DEF Busy, Live
<1>4. CASE task[j] = "running"
  BY <1>2, <1>3, <1>4 DEF Phase, Past
<1>5. CASE task[j] \in {"signal", "ended"}
  BY <1>2, <1>3, <1>5 DEF Phase, Past
<1>6. CASE task[j] = "none"
  BY <1>2, <1>3, <1>6 DEF Phase, Past
<1> QED
  BY <1>2, <1>4, <1>5, <1>6

\* The jobs at work are those that count as running.
LEMMA AtWorkIsBusy == ASSUME ServiceInv PROVE Service!AtWork = Busy
<1>1. \A j \in Jobs : ServicePhase[j] \in {"admitted", "running"} <=> j \in Busy
  BY PhaseOf DEF ServicePhase
<1>2. Busy \subseteq Jobs
  BY DEF Busy
<1>3. Service!AtWork = {j \in Jobs : ServicePhase[j] \in {"admitted", "running"}}
  BY DEF Service!AtWork, ServicePhase
<1> QED
  BY <1>1, <1>2, <1>3

\* JobService counts as LuaAsync does.
LEMMA SameCardinality == ASSUME NEW S PROVE Service!Cardinality(S) = Cardinality(S)
BY DEF Service!Cardinality, Cardinality

\* One job's phase changes.
LEMMA OneMoves ==
  ASSUME NEW j \in Jobs, NEW to, \A k \in Jobs : Phase(k)' = IF k = j THEN to ELSE Phase(k)
  PROVE  ServicePhase' = [ServicePhase EXCEPT ![j] = to]
BY DEF ServicePhase

\* A step changes no phase in which no task changes and one caller goes on, if it has no
\* slot, stays with its slot, has its task, or is a console.
LEMMA SamePhases ==
  ASSUME TypeOK, NEW c \in Callers, NEW p, task' = task, pc' = [pc EXCEPT ![c] = p],
         \/ pc[c] \notin Past /\ p \notin Past
         \/ pc[c] = "create" /\ p = "undo"
         \/ c \in Jobs /\ task[c] # "none"
         \/ c \notin Jobs
  PROVE  ServicePhase' = ServicePhase
<1>1. ASSUME NEW j \in Jobs PROVE Phase(j)' = Phase(j)
  <2>1. j \in Callers
    BY DEF Callers
  <2>2. CASE j = c
    <3>1. pc'[c] = p
      BY DEF TypeOK
    <3>2. CASE task[c] # "none"
      BY <2>2, <3>2 DEF TypeOK, Phase
    <3>3. CASE pc[c] \notin Past /\ p \notin Past
      BY <2>2, <3>1, <3>3 DEF Phase, Past
    <3>4. CASE pc[c] = "create" /\ p = "undo"
      BY <2>2, <3>1, <3>4 DEF Phase
    <3> QED
      BY <2>2, <3>2, <3>3, <3>4
  <2>3. CASE j # c
    <3>1. pc'[j] = pc[j]
      BY <2>1, <2>3 DEF TypeOK
    <3> QED
      BY <3>1 DEF Phase
  <2> QED
    BY <2>2, <2>3
<1> QED
  BY <1>1 DEF ServicePhase

\* A job goes from one phase to another when it alone moves.
LEMMA JobMoves ==
  ASSUME TypeOK, NEW j \in Jobs, \A k \in Jobs \ {j} : task'[k] = task[k] /\ pc'[k] = pc[k]
  PROVE  ServicePhase[j] = Phase(j) /\ ServicePhase' = [ServicePhase EXCEPT ![j] = Phase(j)']
<1>1. \A k \in Jobs \ {j} : Phase(k)' = Phase(k)
  BY DEF Phase
<1>2. \A k \in Jobs : Phase(k)' = IF k = j THEN Phase(j)' ELSE Phase(k)
  BY <1>1
<1> QED
  BY <1>2, OneMoves DEF ServicePhase

\* A submission is refused before it has taken a slot.
LEMMA RefuseSteps ==
  ASSUME ServiceInv, NEW j \in Jobs, pc[j] \notin Past, task' = task,
         pc' = [pc EXCEPT ![j] = "refused"]
  PROVE  Service!Move(j, "submitted", "refused")
<1>1. j \in Callers /\ task[j] = "none" /\ TypeOK
  BY DEF ServiceInv, IInv, TypeOK, PlaceInv, Callers, Past
<1>2. Phase(j)' = "refused"
  BY <1>1 DEF TypeOK, Phase
<1>3. \A k \in Jobs \ {j} : task'[k] = task[k] /\ pc'[k] = pc[k]
  BY <1>1 DEF TypeOK, Callers
<1>4. Phase(j) = "submitted"
  BY PhaseOf
<1> QED
  BY <1>1, <1>2, <1>3, <1>4, JobMoves DEF Service!Move, ServicePhase

\* The quiet steps of a submitter and of its script
LEMMA QuietJobServes ==
  ASSUME ServiceInv, NEW j \in Jobs, QuietJob(j)
  PROVE  [Service!JNext]_Service!jvars
<1>1. j \in Callers /\ TypeOK
  BY DEF Callers, ServiceInv, IInv
<1>2. UNCHANGED <<asked, confirmed>>
  BY DEF QuietJob, Preflight, CommitConflict, CommitRefused, Signal
<1>3. CASE Signal(j)
  <2>1. task[j] = "signal" /\ task' = [task EXCEPT ![j] = "ended"] /\ pc' = pc
    BY <1>3 DEF Signal, callerVars
  <2>2. \A k \in Jobs : Phase(k)' = Phase(k)
    BY <1>1, <2>1 DEF TypeOK, Phase
  <2> QED
    BY <1>2, <2>2 DEF Service!jvars, ServicePhase
<1>4. CASE task' = task /\ pc[j] \notin Past /\ pc' = [pc EXCEPT ![j] = "refused"]
  BY <1>2, <1>4, RefuseSteps DEF Service!JNext, Service!Refuse
<1>5. CASE /\ task' = task /\ pc[j] \notin Past
           /\ \E p \in {"commit", "stop", "preflight"} : pc' = [pc EXCEPT ![j] = p]
  <2>1. ServicePhase' = ServicePhase
    BY <1>1, <1>5, SamePhases DEF Past
  <2> QED
    BY <1>2, <2>1 DEF Service!jvars, ServicePhase
<1>6. ~Signal(j) => task' = task /\ (pc' # pc => pc[j] \notin Past)
  BY QuietMoves, <1>1 DEF QuietJob, Preflight, CommitConflict, CommitRefused, Past
<1>7. CASE pc' = pc /\ task' = task
  BY <1>2, <1>7 DEF Service!jvars, Phase
<1> QED
  BY <1>1, <1>3, <1>4, <1>5, <1>6, <1>7, QuietMoves

\* The steps of a console leave every job where it is.
LEMMA QuietConsoleServes ==
  ASSUME ServiceInv, NEW c \in Consoles, QuietConsole(c)
  PROVE  [Service!JNext]_Service!jvars
<1>1. c \in Callers \ Jobs /\ TypeOK
  BY LuaAsyncAssumption DEF Callers, ServiceInv, IInv, LuaAsyncAssumption
<1>2. UNCHANGED <<task, asked, confirmed>>
  BY DEF QuietConsole, ConsoleCall, StopJob, StopAllJobs, WaitSettle, StopNext
<1>3. \E p \in Places : pc' = [pc EXCEPT ![c] = p]
  BY <1>1, QuietMoves DEF Places
<1>4. ServicePhase' = ServicePhase
  BY <1>1, <1>2, <1>3, SamePhases
<1> QED
  BY <1>2, <1>4 DEF Service!jvars, ServicePhase

\* A confirmed job's phase
LEMMA ConfirmedPhase ==
  ASSUME ServiceInv, NEW j \in Jobs, j \notin Busy, pc[j] \in Past
  PROVE  ServicePhase[j] \in {"over", "refused"}
<1>1. task[j] \in {"none", "running", "signal", "ended"}
  BY DEF ServiceInv, IInv, TypeOK
<1>2. task[j] # "running" /\ pc[j] \notin {"create", "undo"}
  BY DEF Busy, Live
<1>3. task[j] \in {"signal", "ended"} \/ pc[j] = "refused"
  BY <1>1, <1>2 DEF ServiceInv, StartedInv, Past
<1> QED
  BY <1>3, PhaseOf DEF ServicePhase

\* Stopping and waiting
LEMMA StopServes ==
  ASSUME ServiceInv, NEW c \in Callers, StopAndWait(c)
  PROVE  [Service!JNext]_Service!jvars
<1>1. IInv /\ TypeOK /\ task' = task
  BY DEF ServiceInv, IInv, StopAndWait, StopSlot, CheckTerminal, Woken, WaitExpires,
         RecheckTerminal
<1> DEFINE job == target[c].job
<1>2. target[c] \in Targets /\ Seen(target[c]) /\ job \in Jobs
  BY <1>1 DEF TypeOK, IInv, TargetInv, StopAndWait, StopSlot, CheckTerminal, Woken, WaitExpires,
              RecheckTerminal, Waits, Seen
<1>3. ServicePhase[job] # "submitted"
  BY <1>2, PhaseOf DEF ServicePhase, Seen
<1>4. pc[c] \in Waits
  BY DEF StopAndWait, StopSlot, CheckTerminal, Woken, WaitExpires, RecheckTerminal, Waits
<1>5. ASSUME NEW p, p \notin Past, pc' = [pc EXCEPT ![c] = p] PROVE ServicePhase' = ServicePhase
  BY <1>1, <1>4, <1>5, SamePhases DEF Waits, Past
<1>6. ASSUME Resume(c, TRUE) PROVE ServicePhase' = ServicePhase
  <2>1. \E p \in {"preflight", "stopping", "returned"} : pc' = [pc EXCEPT ![c] = p]
    BY <1>6, LuaAsyncAssumption DEF Resume, Goto, LuaAsyncAssumption, Callers
  <2> QED
    BY <1>5, <2>1 DEF Past
<1>7. CASE StopSlot(c)
  <2>1. asked' = asked \cup {job}
    BY <1>7 DEF StopSlot
  <2>2. CASE confirmed' = confirmed /\ ServicePhase' = ServicePhase
    BY <1>2, <1>3, <2>1, <2>2 DEF Service!JNext, Service!Stop, ServicePhase
  <2>3. CASE /\ confirmed' = confirmed \cup {job} /\ ServicePhase' = ServicePhase
             /\ ~Active(target[c].slot)
    <3>1. ServicePhase[job] \in {"over", "refused"}
      BY <1>1, <1>2, <2>3, SeenOver, ConfirmedPhase DEF Active
    <3> QED
      BY <1>2, <1>3, <2>1, <2>3, <3>1
         DEF Service!JNext, Service!Stop, Service!Confirmed, ServicePhase
  <2>4. CASE Goto(c, "check") /\ UNCHANGED confirmed
    BY <1>5, <2>2, <2>4 DEF Goto, Past
  <2>5. CASE Resume(c, TRUE) /\ UNCHANGED confirmed
    BY <1>6, <2>2, <2>5
  <2>6. CASE Resume(c, TRUE) /\ confirmed' = confirmed \cup {job} /\ ~Active(target[c].slot)
    BY <1>6, <2>3, <2>6
  <2> QED
    BY <1>7, <2>4, <2>5, <2>6 DEF StopSlot
<1>8. ASSUME pc[c] \in Waits \ {"stop"}, UNCHANGED asked, Answer(c, TRUE),
             ~Used(target[c].slot) \/ Terminal(target[c].slot)
      PROVE  [Service!JNext]_Service!jvars
  <2>1. ServicePhase' = ServicePhase
    BY <1>6, <1>8 DEF Answer
  <2>2. CASE target[c].stop
    <3>1. ServicePhase[job] \in {"over", "refused"} /\ job \in asked
      BY <1>1, <1>2, <1>8, <2>2, SeenOver, ConfirmedPhase DEF ServiceInv, AskedInv
    <3>2. confirmed' = confirmed \cup {job}
      BY <1>8, <2>2 DEF Answer
    <3> QED
      BY <1>2, <1>8, <2>1, <3>1, <3>2
         DEF Service!JNext, Service!Confirm, Service!Confirmed, ServicePhase
  <2>3. CASE ~target[c].stop
    BY <1>8, <2>1, <2>3 DEF Answer, Service!jvars, ServicePhase
  <2> QED
    BY <2>2, <2>3
<1>9. CASE CheckTerminal(c)
  <2>1. CASE Answer(c, TRUE) /\ (~Used(target[c].slot) \/ Terminal(target[c].slot))
    BY <1>8, <1>9, <2>1 DEF CheckTerminal, Waits
  <2>2. CASE Goto(c, "wait") /\ UNCHANGED <<asked, confirmed>>
    BY <1>5, <2>2 DEF Goto, Past, Service!jvars, ServicePhase
  <2> QED
    BY <1>9, <2>1, <2>2 DEF CheckTerminal
<1>10. CASE Woken(c) \/ WaitExpires(c)
  BY <1>5, <1>10 DEF Woken, WaitExpires, Goto, Past, Service!jvars, ServicePhase
<1>11. CASE RecheckTerminal(c)
  <2>1. CASE ~Used(target[c].slot) \/ Terminal(target[c].slot)
    <3>1. Answer(c, TRUE)
      BY <1>11, <2>1 DEF RecheckTerminal, Used, Terminal
    <3> QED
      BY <1>8, <1>11, <2>1, <3>1 DEF RecheckTerminal, Waits
  <2>2. CASE ~(~Used(target[c].slot) \/ Terminal(target[c].slot))
    <3>1. Resume(c, FALSE) /\ UNCHANGED <<asked, confirmed>>
      BY <1>11, <2>2 DEF RecheckTerminal, Answer, Used, Terminal
    <3>2. CASE c \in Jobs
      <4>1. pc' = [pc EXCEPT ![c] = "refused"]
        BY <3>1, <3>2, LuaAsyncAssumption DEF Resume, Goto, LuaAsyncAssumption
      <4> QED
        BY <1>1, <1>4, <3>1, <3>2, <4>1, RefuseSteps
           DEF Service!JNext, Service!Refuse, Waits, Past
    <3>3. CASE c \notin Jobs
      <4>1. \E p \in {"preflight", "refused", "stopping", "returned"} : pc' = [pc EXCEPT ![c] = p]
        BY <3>1, ResumeEffect
      <4>2. ServicePhase' = ServicePhase
        BY <1>1, <3>3, <4>1, SamePhases
      <4> QED
        BY <3>1, <4>2 DEF Service!jvars, ServicePhase
    <3> QED
      BY <3>2, <3>3
  <2> QED
    BY <2>1, <2>2
<1> QED
  BY <1>7, <1>9, <1>10, <1>11 DEF StopAndWait

\* Every step that takes a slot, starts a script or ends it is the service's.
LEMMA LoudJobServes ==
  ASSUME ServiceInv, NEW j \in Jobs, LoudJob(j)
  PROVE  [Service!JNext]_Service!jvars
<1>1. j \in Callers /\ TypeOK /\ IInv
  BY DEF Callers, ServiceInv, IInv
<1>2. UNCHANGED <<asked, confirmed>>
  BY DEF LoudJob, CommitOutOfMemory, Commit, CreateTask, CreateFails, Undo, MarkRunning,
         FinishJob, callerVars
<1>3. ASSUME NEW from, NEW to, Phase(j) = from, Phase(j)' = to,
             \A k \in Jobs \ {j} : task'[k] = task[k] /\ pc'[k] = pc[k]
      PROVE  Service!Move(j, from, to)
  BY <1>1, <1>3, JobMoves DEF Service!Move, ServicePhase
<1>4. ASSUME NEW p, pc' = [pc EXCEPT ![j] = p]
      PROVE  /\ pc'[j] = p
             /\ \A k \in Jobs \ {j} : pc'[k] = pc[k]
  BY <1>1, <1>4 DEF TypeOK, Callers
<1>5. ASSUME NEW t, task' = [task EXCEPT ![j] = t]
      PROVE  /\ task'[j] = t
             /\ \A k \in Jobs \ {j} : task'[k] = task[k]
  BY <1>1, <1>5 DEF TypeOK
<1>6. pc[j] \in {"commit", "create", "undo"} => task[j] = "none"
  BY DEF ServiceInv, IInv, TypeOK, PlaceInv
<1>7. CASE CommitOutOfMemory(j)
  <2>1. pc[j] = "commit" /\ task' = task /\ pc' = [pc EXCEPT ![j] = "refused"]
    BY <1>7 DEF CommitOutOfMemory, Goto
  <2> QED
    BY <1>2, <2>1, RefuseSteps DEF Past, Service!JNext, Service!Refuse
<1>8. CASE Commit(j)
  <2>1. pc[j] = "commit" /\ task' = task /\ pc' = [pc EXCEPT ![j] = "create"]
    BY <1>8 DEF Commit, Goto
  <2>2. Phase(j) = "submitted" /\ Phase(j)' = "admitted"
    BY <1>4, <1>6, <2>1 DEF Phase
  <2>3. Service!Move(j, "submitted", "admitted")
    BY <1>3, <1>4, <2>1, <2>2
  <2>4. Service!Cardinality(Service!AtWork) < MaxConcurrent
    <3>1. Cardinality(Busy) < MaxConcurrent
      BY <1>1, <1>8 DEF Commit, IInv, CountInv
    <3> QED
      BY <3>1, AtWorkIsBusy, SameCardinality
  <2>5. \A k \in Service!AtWork : Service!MayMeet(j, k)
    <3>1. \A k \in Busy : k \in Busy' /\ k # j
      <4>1. j \notin Busy
        BY <1>6, <2>1 DEF Busy, Live
      <4> QED
        BY <1>4, <2>1, <4>1 DEF Busy, Live
    <3>2. j \in Busy'
      BY <1>4, <2>1 DEF Busy, Live
    <3>3. \A k \in Busy : Differ(j, k)
      BY <1>1, <1>8, <3>1, <3>2, CommitKeeps DEF JobsInv, KindInv, Differ
    <3> QED
      BY <3>3, AtWorkIsBusy DEF Differ, Service!MayMeet
  <2> QED
    BY <1>2, <2>3, <2>4, <2>5 DEF Service!JNext, Service!Admit
<1>9. CASE CreateTask(j)
  <2>1. /\ pc[j] = "create" /\ task' = [task EXCEPT ![j] = "running"]
        /\ pc' = [pc EXCEPT ![j] = "mark"]
    BY <1>9 DEF CreateTask, Goto
  <2>2. Phase(j) = "admitted" /\ Phase(j)' = "running"
    <3>1. task[j] = "none" /\ task'[j] = "running" /\ pc'[j] = "mark"
      BY <1>4, <1>5, <1>6, <2>1
    <3> QED
      BY <2>1, <3>1 DEF Phase
  <2>3. Service!Move(j, "admitted", "running")
    BY <1>3, <1>4, <1>5, <2>1, <2>2
  <2> QED
    BY <1>2, <2>3 DEF Service!JNext, Service!Start
<1>10. CASE CreateFails(j)
  <2>1. pc[j] = "create" /\ task' = task /\ pc' = [pc EXCEPT ![j] = "undo"]
    BY <1>10 DEF CreateFails, Goto
  <2>2. ServicePhase' = ServicePhase
    BY <1>1, <2>1, SamePhases
  <2> QED
    BY <1>2, <2>2 DEF Service!jvars, ServicePhase
<1>11. CASE Undo(j)
  <2>1. pc[j] = "undo" /\ task' = task /\ pc' = [pc EXCEPT ![j] = "refused"]
    BY <1>11 DEF Undo, Goto
  <2>2. Phase(j) = "admitted" /\ Phase(j)' = "refused"
    BY <1>4, <1>6, <2>1 DEF Phase
  <2>3. Service!Move(j, "admitted", "refused")
    BY <1>3, <1>4, <2>1, <2>2
  <2> QED
    BY <1>2, <2>3 DEF Service!JNext, Service!Withdraw
<1>12. CASE MarkRunning(j)
  <2>1. pc[j] = "mark" /\ task' = task /\ pc' = [pc EXCEPT ![j] = "accepted"]
    BY <1>12 DEF MarkRunning, Goto
  <2>2. task[j] # "none"
    BY <2>1 DEF ServiceInv, StartedInv
  <2>3. ServicePhase' = ServicePhase
    BY <1>1, <2>1, <2>2, SamePhases
  <2> QED
    BY <1>2, <2>3 DEF Service!jvars, ServicePhase
<1>13. CASE FinishJob(j)
  <2>1. task[j] = "running" /\ pc' = pc
        /\ \E t \in {"signal", "ended"} : task' = [task EXCEPT ![j] = t]
    BY <1>13 DEF FinishJob, callerVars
  <2>2. Phase(j) = "running" /\ Phase(j)' = "over"
    <3>1. task'[j] \in {"signal", "ended"} /\ pc[j] \in {"mark", "accepted"}
      BY <1>1, <1>5, <2>1 DEF IInv, PlaceInv
    <3> QED
      BY <2>1, <3>1 DEF Phase
  <2>3. Service!Move(j, "running", "over")
    BY <1>3, <1>5, <2>1, <2>2
  <2> QED
    BY <1>2, <2>3 DEF Service!JNext, Service!End
<1> QED
  BY <1>7, <1>8, <1>9, <1>10, <1>11, <1>12, <1>13 DEF LoudJob

\* A task is created before the submission goes through.
LEMMA StartedStep == ASSUME ServiceInv, [Next]_vars PROVE StartedInv'
<1> USE DEF ServiceInv, IInv
<1>1. ASSUME NEW c \in Callers, NEW p \in Places \ {"mark", "accepted"},
             pc' = pc \/ pc' = [pc EXCEPT ![c] = p],
             \A j \in Jobs : task[j] # "none" => task'[j] # "none"
      PROVE  StartedInv'
  BY <1>1 DEF StartedInv, TypeOK, Callers
<1>2. ASSUME NEW j \in Jobs, QuietJob(j) PROVE StartedInv'
  <2>1. \A k \in Jobs : task[k] # "none" => task'[k] # "none"
    BY <1>2 DEF QuietJob, Preflight, CommitConflict, CommitRefused, Signal, TypeOK
  <2> QED
    BY <1>1, <1>2, <2>1, QuietMoves DEF Callers, Places
<1>3. ASSUME NEW c \in Consoles, QuietConsole(c) PROVE StartedInv'
  <2>1. task' = task
    BY <1>3 DEF QuietConsole, ConsoleCall, StopJob, StopAllJobs, WaitSettle, StopNext
  <2> QED
    BY <1>1, <1>3, <2>1, QuietMoves DEF Callers, Places
<1>4. ASSUME NEW c \in Callers, StopAndWait(c) PROVE StartedInv'
  <2>1. task' = task
    BY <1>4 DEF StopAndWait, StopSlot, CheckTerminal, Woken, WaitExpires, RecheckTerminal
  <2> QED
    BY <1>1, <1>4, <2>1, QuietMoves DEF Onward, Places
<1>5. ASSUME NEW j \in Jobs, LoudJob(j) PROVE StartedInv'
  <2>1. CASE CommitOutOfMemory(j) \/ Commit(j) \/ CreateFails(j) \/ Undo(j)
    BY <1>1, <2>1 DEF CommitOutOfMemory, Commit, CreateFails, Undo, Goto, Callers, Places
  <2>2. CASE CreateTask(j)
    BY <2>2 DEF CreateTask, Goto, StartedInv, TypeOK, Callers
  <2>3. CASE MarkRunning(j)
    BY <2>3 DEF MarkRunning, Goto, StartedInv, TypeOK, Callers
  <2>4. CASE FinishJob(j)
    BY <2>4 DEF FinishJob, callerVars, StartedInv, TypeOK
  <2> QED
    BY <1>5, <2>1, <2>2, <2>3, <2>4 DEF LoudJob
<1>6. CASE UNCHANGED vars
  BY <1>6 DEF vars, callerVars, StartedInv
<1> QED
  BY <1>2, <1>3, <1>4, <1>5, <1>6
     DEF Next, SubmitStep, QuietJob, QuietConsole, LoudJob

\* A caller asks for the stop before it waits.
LEMMA AskedStep == ASSUME ServiceInv, [Next]_vars PROVE AskedInv'
<1> USE DEF ServiceInv, IInv
<1>1. ASSUME NEW c \in Callers, NEW p, pc' = pc \/ pc' = [pc EXCEPT ![c] = p],
             asked \subseteq asked',
             \A d \in Callers \ {c} : target'[d] = target[d],
             pc'[c] \in Waits \ {"stop"} /\ target'[c].stop => target'[c].job \in asked'
      PROVE  AskedInv'
  <2> SUFFICES ASSUME NEW d \in Callers, pc'[d] \in Waits \ {"stop"}, target'[d].stop
               PROVE  target'[d].job \in asked'
    BY DEF AskedInv
  <2>1. CASE d = c
    BY <1>1, <2>1
  <2>2. CASE d # c
    <3>1. pc'[d] = pc[d] /\ target'[d] = target[d]
      BY <1>1, <2>2 DEF TypeOK
    <3> QED
      BY <1>1, <3>1 DEF AskedInv
  <2> QED
    BY <2>1, <2>2
<1>2. ASSUME NEW c \in Callers, NEW p, p \notin Waits \ {"stop"}, pc' = [pc EXCEPT ![c] = p],
             asked \subseteq asked', \A d \in Callers \ {c} : target'[d] = target[d]
      PROVE  AskedInv'
  <2>1. pc'[c] \notin Waits \ {"stop"}
    BY <1>2 DEF TypeOK
  <2> QED
    BY <1>1, <1>2, <2>1
<1>3. CASE UNCHANGED <<pc, target>> /\ asked \subseteq asked'
  BY <1>3 DEF AskedInv
<1>4. ASSUME NEW j \in Jobs, QuietJob(j) PROVE AskedInv'
  <2>1. CASE Preflight(j)
    <3>1. \E p \in {"refused", "commit", "stop"} : pc' = [pc EXCEPT ![j] = p]
      BY <2>1 DEF Preflight, Goto
    <3>2. asked' = asked /\ \A d \in Callers \ {j} : target'[d] = target[d]
      BY <2>1 DEF Preflight, TypeOK
    <3> QED
      BY <1>2, <3>1, <3>2 DEF Callers, Waits
  <2>2. CASE CommitConflict(j) \/ CommitRefused(j)
    BY <1>2, <2>2 DEF CommitConflict, CommitRefused, Goto, Callers, Waits
  <2>3. CASE Signal(j)
    BY <1>3, <2>3 DEF Signal, callerVars
  <2> QED
    BY <1>4, <2>1, <2>2, <2>3 DEF QuietJob
<1>5. ASSUME NEW j \in Jobs, LoudJob(j) PROVE AskedInv'
  <2>1. UNCHANGED <<target, asked>>
    BY <1>5 DEF LoudJob, CommitOutOfMemory, Commit, CreateTask, CreateFails, Undo, MarkRunning,
                FinishJob, callerVars
  <2>2. pc' = pc \/ \E p \in Past : pc' = [pc EXCEPT ![j] = p]
    BY <1>5 DEF LoudJob, CommitOutOfMemory, Commit, CreateTask, CreateFails, Undo, MarkRunning,
                FinishJob, callerVars, Goto, Past
  <2> QED
    BY <1>2, <1>3, <2>1, <2>2 DEF Callers, Past, Waits
<1>6. ASSUME NEW c \in Consoles, QuietConsole(c) PROVE AskedInv'
  <2>1. asked' = asked /\ c \in Callers
    BY <1>6 DEF QuietConsole, ConsoleCall, StopJob, StopAllJobs, WaitSettle, StopNext, Callers
  <2>2. CASE StopJob(c) \/ StopAllJobs(c)
    <3>1. /\ \E p \in {"stop", "stopping"} : pc' = [pc EXCEPT ![c] = p]
          /\ \A d \in Callers \ {c} : target'[d] = target[d]
      BY <2>2 DEF StopJob, StopAllJobs, Goto, TypeOK
    <3> QED
      BY <1>2, <2>1, <3>1 DEF Waits
  <2>3. CASE StopNext(c)
    <3>1. PICK t \in todo[c] :
            \/ Goto(c, "stop") /\ target' = [target EXCEPT ![c] = t]
            \/ /\ Goto(c, IF todo[c] = {t} THEN "returned" ELSE "stopping")
               /\ UNCHANGED target
      BY <2>3 DEF StopNext
    <3>2. /\ \E p \in {"stop", "stopping", "returned"} : pc' = [pc EXCEPT ![c] = p]
          /\ \A d \in Callers \ {c} : target'[d] = target[d]
      BY <3>1 DEF Goto, TypeOK
    <3> QED
      BY <1>2, <2>1, <3>2 DEF Waits
  <2>4. CASE WaitSettle(c)
    <3>1. PICK i \in Slots : target' = [target EXCEPT ![c] = Target(i, FALSE)]
      BY <2>4 DEF WaitSettle
    <3>2. target'[c].stop = FALSE /\ \A d \in Callers \ {c} : target'[d] = target[d]
      BY <2>1, <3>1 DEF TypeOK, Target
    <3> QED
      BY <1>1, <2>1, <2>4, <3>2 DEF WaitSettle, Goto
  <2> QED
    BY <1>6, <2>2, <2>3, <2>4 DEF QuietConsole, ConsoleCall
<1>7. ASSUME NEW c \in Callers, StopAndWait(c) PROVE AskedInv'
  <2>1. asked \subseteq asked'
    BY <1>7, QuietHistory
  <2>2. CASE \E terminal \in BOOLEAN : Resume(c, terminal)
    <3>1. /\ \E p \in {"preflight", "refused", "stopping", "returned"} : pc' = [pc EXCEPT ![c] = p]
          /\ target' = [target EXCEPT ![c] = NoTarget]
      BY <2>2, ResumeEffect
    <3> QED
      BY <1>2, <2>1, <3>1 DEF TypeOK, Waits
  <2>3. CASE StopSlot(c) /\ Goto(c, "check") /\ target' = target
    <3>1. target'[c].job \in asked'
      BY <2>3 DEF StopSlot
    <3> QED
      BY <1>1, <2>1, <2>3, <3>1 DEF Goto
  <2>4. CASE /\ pc[c] \in Waits \ {"stop"} /\ target' = target
             /\ \E p \in {"wait", "recheck"} : pc' = [pc EXCEPT ![c] = p]
    <3>1. target'[c].stop => target'[c].job \in asked'
      BY <2>1, <2>4 DEF AskedInv
    <3> QED
      BY <1>1, <2>1, <2>4, <3>1
  <2>5. CASE StopSlot(c)
    BY <2>2, <2>3, <2>5 DEF StopSlot
  <2>6. CASE CheckTerminal(c)
    BY <2>2, <2>4, <2>6 DEF CheckTerminal, Answer, Goto, Waits
  <2>7. CASE Woken(c) \/ WaitExpires(c)
    BY <2>4, <2>7 DEF Woken, WaitExpires, Goto, Waits
  <2>8. CASE RecheckTerminal(c)
    BY <2>2, <2>8 DEF RecheckTerminal, Answer, Used, Terminal
  <2> QED
    BY <1>7, <2>5, <2>6, <2>7, <2>8 DEF StopAndWait
<1>8. CASE UNCHANGED vars
  BY <1>3, <1>8 DEF vars, callerVars
<1> QED
  BY <1>4, <1>5, <1>6, <1>7, <1>8 DEF Next, SubmitStep, QuietJob, QuietConsole, LoudJob

\* The table of slots with its tasks and semaphores is the service of JobService: admission
\* in two sections is one look at all jobs at work, a script runs at most once, and a stop
\* that returned ESP_OK is about a job that somebody asked to stop and that is over for good.
THEOREM LuaAsyncImplementsJobService == Spec => ImplementsJobService
<1>1. Init => StartedInv /\ AskedInv
  BY DEF Init, StartedInv, AskedInv, Waits, Callers
<1>2. Init => Service!JInit
  BY DEF Init, Service!JInit, Phase, Callers
<1>3. IInv /\ IInv' /\ StartedInv /\ AskedInv /\ [Next]_vars => StartedInv' /\ AskedInv'
  BY StartedStep, AskedStep DEF ServiceInv
<1>4. ServiceInv /\ [Next]_vars => [Service!JNext]_Service!jvars
  <2> SUFFICES ASSUME ServiceInv, [Next]_vars PROVE [Service!JNext]_Service!jvars
    OBVIOUS
  <2>1. CASE UNCHANGED vars
    BY <2>1 DEF vars, callerVars, Service!jvars, Phase
  <2>2. ASSUME NEW j \in Jobs, SubmitStep(j) \/ FinishJob(j) \/ Signal(j)
        PROVE  [Service!JNext]_Service!jvars
    <3>1. QuietJob(j) \/ LoudJob(j)
      BY <2>2 DEF SubmitStep, QuietJob, LoudJob
    <3> QED
      BY <3>1, QuietJobServes, LoudJobServes
  <2>3. ASSUME NEW c \in Consoles, ConsoleCall(c) \/ StopNext(c)
        PROVE  [Service!JNext]_Service!jvars
    BY <2>3, QuietConsoleServes DEF QuietConsole
  <2>4. ASSUME NEW c \in Callers, StopAndWait(c) PROVE [Service!JNext]_Service!jvars
    BY <2>4, StopServes
  <2> QED
    BY <2>1, <2>2, <2>3, <2>4 DEF Next
<1> QED
  BY <1>1, <1>2, <1>3, <1>4, Invariance, PTL
     DEF Spec, ServiceInv, ImplementsJobService, Service!JobSpec

=============================================================================
