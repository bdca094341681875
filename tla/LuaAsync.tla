------------------------------ MODULE LuaAsync ------------------------------
(***************************************************************************)
(* The asynchronous jobs of the Lua capability (components/                *)
(* claw_capabilities/cap_lua/src/cap_lua_async.c): submitters put scripts  *)
(* in a table of job slots, each script runs in a task of its own, and     *)
(* submitters with replace, the stop calls and wait_settle wait for a slot *)
(* to become terminal on the slot's binary semaphore.                      *)
(*                                                                         *)
(* A section under s_job_lock is one step; the lock's own timeout of       *)
(* 1000 ms is left out.  The initial state is the one cap_lua_async_start  *)
(* leaves.  Every job is submitted by one call, and every console makes    *)
(* one call.  A slot's finished_at is left out: any terminal slot may be   *)
(* the oldest, as seconds may tie and the clock may be set.  Only reports  *)
(* to the user tell done, failed and timed out apart.                      *)
(***************************************************************************)
EXTENDS Naturals, FiniteSets, FiniteSetsExt

CONSTANTS
  Jobs,           \* the scripts submitted
  Name,           \* the name of each, NoLabel when it has none
  Exclusive,      \* the exclusive group of each, NoLabel when it has none
  NoLabel,        \* the empty name or group
  Replace,        \* the jobs submitted with replace
  Consoles,       \* the calls that stop or wait for jobs
  Call,           \* which of them each may be: "stop_job", "stop_all", "settle"
  NoJob,          \* no job
  MaxJobs,        \* CAP_LUA_ASYNC_MAX_JOBS
  MaxConcurrent,  \* CAP_LUA_ASYNC_MAX_CONCURRENT
  HeapCanFail     \* whether memory may run out

ASSUME LuaAsyncAssumption ==
  /\ NoJob \notin Jobs
  /\ Jobs \subseteq DOMAIN Name /\ Jobs \subseteq DOMAIN Exclusive
  /\ Replace \subseteq Jobs
  /\ Jobs \cap Consoles = {} /\ Consoles \subseteq DOMAIN Call
  /\ MaxJobs \in Nat \ {0} /\ MaxConcurrent \in Nat \ {0}
  /\ HeapCanFail \in BOOLEAN

Callers == Jobs \cup Consoles
Slots   == 1 .. MaxJobs
TerminalStatus == {"over", "stopped"}  \* over: CAP_LUA_JOB_DONE, _FAILED or _TIMEOUT

VARIABLES
  slots,      \* s_jobs: the job of each slot, its status, its stop flag
  sem,        \* s_slot_terminal_sem: whether each has been given
  running,    \* s_running_jobs
  pc,         \* where each caller is
  retried,    \* the submitters on their second attempt
  target,     \* what each caller stops, or only waits for
  todo,       \* what stop_all_jobs has still to stop
  slotOf,     \* ctx->slot of each job
  task,       \* where the task of each job is
  \* history
  asked,      \* the jobs somebody asked to stop
  confirmed   \* the jobs whose stop returned ESP_OK

callerVars == <<pc, retried, target, todo>>
vars == <<slots, sem, running, callerVars, slotOf, task, asked, confirmed>>

\* memset: the first value of cap_lua_job_status_t is CAP_LUA_JOB_QUEUED.
EmptySlot == [job |-> NoJob, status |-> "queued", stop |-> FALSE]

NoTarget == [slot |-> 1, job |-> NoJob, stop |-> FALSE]

\* The job in slot i, to be stopped or only waited for
Target(i, stop) == [slot |-> i, job |-> slots[i].job, stop |-> stop]

Init ==
  /\ slots = [i \in Slots |-> EmptySlot]
  /\ sem = [i \in Slots |-> FALSE]
  /\ running = 0
  /\ pc = [c \in Callers |-> "new"]
  /\ retried = {}
  /\ target = [c \in Callers |-> NoTarget]
  /\ todo = [c \in Consoles |-> {}]
  /\ slotOf = [j \in Jobs |-> 1]
  /\ task = [j \in Jobs |-> "none"]
  /\ asked = {} /\ confirmed = {}

-----------------------------------------------------------------------------
(* The table of jobs.                                                      *)

Used(i)     == slots[i].job # NoJob
Terminal(i) == slots[i].status \in TerminalStatus

\* Mutant: a job counts as active when its status says that it runs.
ActiveWhenRunning(i) == Used(i) /\ slots[i].status = "running"

Active(i) == Used(i) /\ ~Terminal(i)

\* find_active_by_name_locked and find_active_by_exclusive_locked
Holders(label, j) == {i \in Slots : Active(i) /\ label[j] # NoLabel
                                   /\ label[slots[i].job] = label[j]}

\* The slot that stands in the way of job j; a clash of names goes first.
Conflict(j) ==
  IF Holders(Name, j) # {} THEN Holders(Name, j) ELSE Holders(Exclusive, j)

\* Mutant: the oldest slot is taken, whatever its job is doing.
ReusableAny ==
  LET free == {i \in Slots : ~Used(i)}
  IN IF free # {} THEN {Min(free)} ELSE Slots

\* find_reusable_slot_locked
Reusable ==
  LET free == {i \in Slots : ~Used(i)}
  IN IF free # {} THEN {Min(free)} ELSE {i \in Slots : Terminal(i)}

-----------------------------------------------------------------------------
(* cap_lua_stop_slot_and_wait, for whoever calls it.                       *)

Goto(c, place) == pc' = [pc EXCEPT ![c] = place]

\* Where a caller goes on when it has waited enough: a submitter looks again when the
\* slot is terminal and gives up when it is not; stop_all_jobs turns to its next job.
Resume(c, terminal) ==
  /\ Goto(c, CASE c \in Jobs /\ terminal  -> "preflight"
               [] c \in Jobs /\ ~terminal -> "refused"
               [] c \in Consoles /\ todo[c] # {} -> "stopping"
               [] OTHER -> "returned")
  /\ target' = [target EXCEPT ![c] = NoTarget]

\* Mutant: the slot is stopped without a look at the job's id.
StopSlotUnchecked(c) ==
  LET i == target[c].slot
  IN /\ pc[c] = "stop"
     /\ asked' = asked \cup {target[c].job}
     /\ IF Active(i)
          THEN /\ slots' = [slots EXCEPT ![i].stop = TRUE]
               /\ Goto(c, "check")
               /\ UNCHANGED <<target, confirmed>>
          ELSE /\ confirmed' = confirmed \cup {target[c].job}
               /\ Resume(c, TRUE)
               /\ UNCHANGED slots
     /\ UNCHANGED <<sem, running, retried, todo, slotOf, task>>

\* The flag is raised if the slot still holds the job and the job is not terminal.
StopSlot(c) ==
  LET i == target[c].slot
      mine == Used(i) /\ slots[i].job = target[c].job
  IN /\ pc[c] = "stop"
     /\ asked' = asked \cup {target[c].job}
     /\ IF mine /\ Active(i)
          THEN /\ slots' = [slots EXCEPT ![i].stop = TRUE]
               /\ Goto(c, "check")
               /\ UNCHANGED <<target, confirmed>>
          ELSE /\ confirmed' = IF mine THEN confirmed \cup {target[c].job} ELSE confirmed
               /\ Resume(c, TRUE)
               /\ UNCHANGED slots
     /\ UNCHANGED <<sem, running, retried, todo, slotOf, task>>

\* cap_lua_slot_is_terminal answers; it looks at the slot and not at the job.
Answer(c, terminal) ==
  /\ Resume(c, terminal)
  /\ confirmed' = IF terminal /\ target[c].stop THEN confirmed \cup {target[c].job}
                                                ELSE confirmed

\* cap_lua_wait_for_terminal: the first look
CheckTerminal(c) ==
  LET i == target[c].slot
      terminal == ~Used(i) \/ Terminal(i)
  IN /\ pc[c] = "check"
     /\ IF terminal THEN Answer(c, TRUE) ELSE Goto(c, "wait") /\ UNCHANGED <<target, confirmed>>
     /\ UNCHANGED <<slots, sem, running, retried, todo, slotOf, task, asked>>

\* Mutant: whoever gets the semaphore takes the slot to be terminal.
WokenIsTerminal(c) ==
  /\ pc[c] = "wait"
  /\ sem[target[c].slot]
  /\ sem' = [sem EXCEPT ![target[c].slot] = FALSE]
  /\ Answer(c, TRUE)
  /\ UNCHANGED <<slots, running, retried, todo, slotOf, task, asked>>

\* The semaphore was given and one waiter gets it.
Woken(c) ==
  /\ pc[c] = "wait"
  /\ sem[target[c].slot]
  /\ sem' = [sem EXCEPT ![target[c].slot] = FALSE]
  /\ Goto(c, "recheck")
  /\ UNCHANGED <<slots, running, retried, target, todo, slotOf, task, asked, confirmed>>

\* Mutant: the wait has no timeout once the job's script is over.
WaitExpiresWhileRunning(c) ==
  /\ pc[c] = "wait"
  /\ target[c].job \in Jobs /\ task[target[c].job] = "running"
  /\ Goto(c, "recheck")
  /\ UNCHANGED <<slots, sem, running, retried, target, todo, slotOf, task, asked, confirmed>>

\* The wait ends after wait_ms.
WaitExpires(c) ==
  /\ pc[c] = "wait"
  /\ Goto(c, "recheck")
  /\ UNCHANGED <<slots, sem, running, retried, target, todo, slotOf, task, asked, confirmed>>

\* The second look decides.
RecheckTerminal(c) ==
  LET i == target[c].slot
  IN /\ pc[c] = "recheck"
     /\ Answer(c, ~Used(i) \/ Terminal(i))
     /\ UNCHANGED <<slots, sem, running, retried, todo, slotOf, task, asked>>

StopAndWait(c) ==
  \/ StopSlot(c)
  \/ CheckTerminal(c)
  \/ Woken(c)
  \/ WaitExpires(c)
  \/ RecheckTerminal(c)

-----------------------------------------------------------------------------
(* cap_lua_async_submit.                                                   *)

\* The first section under the lock: is there a conflict, is there room?
Preflight(j) ==
  /\ pc[j] \in {"new", "preflight"}
  /\ IF Conflict(j) = {}
       THEN /\ Goto(j, IF running >= MaxConcurrent THEN "refused" ELSE "commit")
            /\ UNCHANGED target
       ELSE IF j \in Replace
              THEN /\ target' = [target EXCEPT ![j] = Target(Min(Conflict(j)), TRUE)]
                   /\ Goto(j, "stop")
              ELSE Goto(j, "refused") /\ UNCHANGED target
  /\ UNCHANGED <<slots, sem, running, retried, todo, slotOf, task, asked, confirmed>>

\* The second section: the conflict is looked for again before a slot is taken.  Only the
\* first attempt that finds one is made again.
CommitConflict(j) ==
  /\ pc[j] = "commit"
  /\ running < MaxConcurrent
  /\ Conflict(j) # {}
  /\ Goto(j, IF j \in retried THEN "refused" ELSE "preflight")
  /\ retried' = retried \cup {j}
  /\ UNCHANGED <<slots, sem, running, target, todo, slotOf, task, asked, confirmed>>

\* There is no room any more, no slot, or no memory for ctx.
CommitRefused(j) ==
  /\ pc[j] = "commit"
  /\ \/ HeapCanFail
     \/ running >= MaxConcurrent
     \/ Conflict(j) = {} /\ Reusable = {}
  /\ Goto(j, "refused")
  /\ UNCHANGED <<slots, sem, running, retried, target, todo, slotOf, task, asked, confirmed>>

\* The slot's old record is gone and its semaphore drained.
ClearAndDrain(i, record) ==
  /\ slots' = [slots EXCEPT ![i] = record]
  /\ sem' = [sem EXCEPT ![i] = FALSE]

\* There is no memory for the copy of args_json, after the slot was cleared.
CommitOutOfMemory(j) ==
  /\ HeapCanFail
  /\ pc[j] = "commit"
  /\ running < MaxConcurrent
  /\ Conflict(j) = {}
  /\ \E i \in Reusable : ClearAndDrain(i, EmptySlot)
  /\ Goto(j, "refused")
  /\ UNCHANGED <<running, retried, target, todo, slotOf, task, asked, confirmed>>

\* Mutant: the limit is left to the first section.
CommitUnbounded(j) ==
  /\ pc[j] = "commit"
  /\ Conflict(j) = {}
  /\ \E i \in Reusable :
       /\ ClearAndDrain(i, [job |-> j, status |-> "queued", stop |-> FALSE])
       /\ slotOf' = [slotOf EXCEPT ![j] = i]
  /\ running' = running + 1
  /\ Goto(j, "create")
  /\ UNCHANGED <<retried, target, todo, task, asked, confirmed>>

Commit(j) ==
  /\ pc[j] = "commit"
  /\ running < MaxConcurrent
  /\ Conflict(j) = {}
  /\ \E i \in Reusable :
       /\ ClearAndDrain(i, [job |-> j, status |-> "queued", stop |-> FALSE])
       /\ slotOf' = [slotOf EXCEPT ![j] = i]
  /\ running' = running + 1
  /\ Goto(j, "create")
  /\ UNCHANGED <<retried, target, todo, task, asked, confirmed>>

\* claw_task_create, outside the lock
CreateTask(j) ==
  /\ pc[j] = "create"
  /\ Goto(j, "mark")
  /\ task' = [task EXCEPT ![j] = "running"]
  /\ UNCHANGED <<slots, sem, running, retried, target, todo, slotOf, asked, confirmed>>

\* claw_task_create fails
CreateFails(j) ==
  /\ HeapCanFail
  /\ pc[j] = "create"
  /\ Goto(j, "undo")
  /\ UNCHANGED <<slots, sem, running, retried, target, todo, slotOf, task, asked, confirmed>>

\* Mutant: the failed submission goes on counting as a running job.
UndoKeepingCount(j) ==
  /\ pc[j] = "undo"
  /\ slots' = [slots EXCEPT ![slotOf[j]] = EmptySlot]
  /\ Goto(j, "refused")
  /\ UNCHANGED <<sem, running, retried, target, todo, slotOf, task, asked, confirmed>>

\* Mutant: a submission whose task could not be created is made again.
UndoAndRetry(j) ==
  /\ pc[j] = "undo"
  /\ slots' = [slots EXCEPT ![slotOf[j]] = EmptySlot]
  /\ running' = running - 1
  /\ Goto(j, "preflight")
  /\ UNCHANGED <<sem, retried, target, todo, slotOf, task, asked, confirmed>>

\* The slot is cleared again under the lock.
Undo(j) ==
  /\ pc[j] = "undo"
  /\ slots' = [slots EXCEPT ![slotOf[j]] = EmptySlot]
  /\ running' = running - 1
  /\ Goto(j, "refused")
  /\ UNCHANGED <<sem, retried, target, todo, slotOf, task, asked, confirmed>>

\* The slot's status becomes CAP_LUA_JOB_RUNNING, whatever the slot holds by now.
MarkRunning(j) ==
  /\ pc[j] = "mark"
  /\ slots' = [slots EXCEPT ![slotOf[j]].status = "running"]
  /\ Goto(j, "accepted")
  /\ UNCHANGED <<sem, running, retried, target, todo, slotOf, task, asked, confirmed>>

SubmitStep(j) ==
  \/ Preflight(j)
  \/ CommitConflict(j)
  \/ CommitRefused(j)
  \/ CommitOutOfMemory(j)
  \/ Commit(j)
  \/ CreateTask(j)
  \/ CreateFails(j)
  \/ Undo(j)
  \/ MarkRunning(j)

-----------------------------------------------------------------------------
(* cap_lua_job_task.                                                       *)

\* The script is over and cap_lua_finish_job enters the result.
FinishJob(j) ==
  LET i == slotOf[j]
  IN /\ task[j] = "running"
     /\ IF slots[i].job = j
          THEN /\ slots' = [slots EXCEPT ![i].status = IF slots[i].stop THEN "stopped"
                                                                       ELSE "over"]
               /\ task' = [task EXCEPT ![j] = "signal"]
          ELSE task' = [task EXCEPT ![j] = "ended"] /\ UNCHANGED slots
     /\ running' = IF running > 0 THEN running - 1 ELSE 0
     /\ UNCHANGED <<sem, callerVars, slotOf, asked, confirmed>>

\* The semaphore is given after the lock: the slot may hold another job by then.
Signal(j) ==
  /\ task[j] = "signal"
  /\ sem' = [sem EXCEPT ![slotOf[j]] = TRUE]
  /\ task' = [task EXCEPT ![j] = "ended"]
  /\ UNCHANGED <<slots, running, callerVars, slotOf, asked, confirmed>>

-----------------------------------------------------------------------------
(* The stop calls and wait_settle.                                         *)

\* cap_lua_async_stop_job finds the job, by its id or by its name.
StopJob(c) ==
  /\ pc[c] = "new" /\ "stop_job" \in Call[c]
  /\ \E i \in Slots : Used(i) /\ target' = [target EXCEPT ![c] = Target(i, TRUE)]
  /\ Goto(c, "stop")
  /\ UNCHANGED <<slots, sem, running, retried, todo, slotOf, task, asked, confirmed>>

\* cap_lua_async_stop_all_jobs, for one exclusive group or for all jobs, notes them.
StopAllJobs(c) ==
  /\ pc[c] = "new" /\ "stop_all" \in Call[c]
  /\ \E group \in {NoLabel} \cup {Exclusive[j] : j \in Jobs} :
       todo' = [todo EXCEPT ![c] =
                  {Target(i, TRUE) : i \in {s \in Slots :
                     Active(s) /\ (group = NoLabel \/ Exclusive[slots[s].job] = group)}}]
  /\ todo'[c] # {}
  /\ Goto(c, "stopping")
  /\ UNCHANGED <<slots, sem, running, retried, target, slotOf, task, asked, confirmed>>

\* It takes the next of them, and passes over a slot that holds another job by now.
StopNext(c) ==
  /\ pc[c] = "stopping"
  /\ \E t \in todo[c] :
       /\ \A other \in todo[c] : t.slot <= other.slot
       /\ todo' = [todo EXCEPT ![c] = @ \ {t}]
       /\ IF slots[t.slot].job = t.job
            THEN Goto(c, "stop") /\ target' = [target EXCEPT ![c] = t]
            ELSE /\ Goto(c, IF todo[c] = {t} THEN "returned" ELSE "stopping")
                 /\ UNCHANGED target
  /\ UNCHANGED <<slots, sem, running, retried, slotOf, task, asked, confirmed>>

\* cap_lua_async_wait_settle waits for a job on the same semaphore.
WaitSettle(c) ==
  /\ pc[c] = "new" /\ "settle" \in Call[c]
  /\ \E i \in Slots : Active(i) /\ target' = [target EXCEPT ![c] = Target(i, FALSE)]
  /\ Goto(c, "check")
  /\ UNCHANGED <<slots, sem, running, retried, todo, slotOf, task, asked, confirmed>>

ConsoleCall(c) ==
  \/ StopJob(c)
  \/ StopAllJobs(c)
  \/ WaitSettle(c)

-----------------------------------------------------------------------------
Next ==
  \/ \E j \in Jobs : SubmitStep(j) \/ FinishJob(j) \/ Signal(j)
  \/ \E c \in Consoles : ConsoleCall(c) \/ StopNext(c)
  \/ \E c \in Callers : StopAndWait(c)

Spec == Init /\ [][Next]_vars

\* Every caller that is inside a call runs on, and its wait ends after wait_ms.  A script
\* may run for ever.
Fairness ==
  /\ \A j \in Jobs : WF_vars(pc[j] # "new" /\ SubmitStep(j)) /\ WF_vars(Signal(j))
  /\ \A c \in Consoles : WF_vars(StopNext(c))
  /\ \A c \in Callers : WF_vars(StopAndWait(c))

FairSpec == Spec /\ Fairness

-----------------------------------------------------------------------------
(* Properties.                                                             *)

Places == {"new", "preflight", "stop", "check", "wait", "recheck", "commit", "create",
           "undo", "mark", "stopping", "accepted", "refused", "returned"}
Targets == [slot : Slots, job : Jobs \cup {NoJob}, stop : BOOLEAN]

\* Every variable keeps to the values its C counterpart can hold; s_running_jobs never
\* passes CAP_LUA_ASYNC_MAX_CONCURRENT, though it is read in one section and counted up in
\* another.
TypeOK ==
  /\ slots \in [Slots -> [job : Jobs \cup {NoJob}, stop : BOOLEAN,
                          status : TerminalStatus \cup {"queued", "running"}]]
  /\ sem \in [Slots -> BOOLEAN]
  /\ running \in 0 .. MaxConcurrent
  /\ pc \in [Callers -> Places]
  /\ retried \subseteq Jobs
  /\ target \in [Callers -> Targets]
  /\ todo \in [Consoles -> SUBSET Targets]
  /\ slotOf \in [Jobs -> Slots]
  /\ task \in [Jobs -> {"none", "running", "signal", "ended"}]
  /\ asked \subseteq Jobs /\ confirmed \subseteq Jobs

Live(j) == task[j] = "running"

\* Two scripts that run at the same time differ in name and in exclusive group: neither
\* the gap between the two sections of submit nor a takeover with replace lets a second
\* one in.
OneOfAKind ==
  \A j, k \in Jobs : (j # k /\ Live(j) /\ Live(k)) =>
    /\ Name[j] # Name[k] \/ Name[j] = NoLabel
    /\ Exclusive[j] # Exclusive[k] \/ Exclusive[j] = NoLabel

\* s_running_jobs counts the scripts that run and the submissions about to create a task:
\* no failed submission and no finished job is counted for ever.
RunningCountExact ==
  running = Cardinality({j \in Jobs : Live(j) \/ pc[j] \in {"create", "undo"}})

\* A stop that returned ESP_OK means that the script runs no more, whatever happened to
\* the slot and to its semaphore while the caller waited.
StopConfirmedMeansGone == \A j \in confirmed : ~Live(j)

\* The stop flag a script polls lies in a slot that is used again and again: it is raised
\* only for a job that somebody asked to stop.
StopHitsItsJob == \A i \in Slots : slots[i].stop => slots[i].job \in asked

\* A script that runs can be listed and stopped: its slot is still its own, and active.
LiveJobIsListed == \A j \in Jobs : Live(j) => slots[slotOf[j]].job = j /\ Active(slotOf[j])

\* Every call returns: no loop of replace and no wait on a semaphore that another waiter
\* has taken keeps a caller for ever.
EveryCallReturns ==
  \A c \in Callers : pc[c] # "new" ~> pc[c] \in {"accepted", "refused", "returned"}

-----------------------------------------------------------------------------
(* What the jobs are to those who submit and stop them.                    *)

\* Where a job is in the terms of JobService
Phase(j) ==
  CASE task[j] = "running"            -> "running"
    [] task[j] \in {"signal", "ended"} -> "over"
    [] pc[j] \in {"create", "undo"}    -> "admitted"
    [] pc[j] = "refused"               -> "refused"
    [] OTHER                           -> "submitted"

Service == INSTANCE JobService WITH phase <- [j \in Jobs |-> Phase(j)]

\* Admission takes two sections and a retry, and a stop waits on the semaphore of a slot
\* that may pass to another job: seen from outside, a job is admitted in one step that
\* looks at all that are at work, runs at most once, is never asked to stop before it was
\* admitted, and a stop that returned ESP_OK is about a job that is over for good.
ImplementsJobService == Service!JobSpec

=============================================================================
