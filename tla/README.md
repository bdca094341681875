# A TLA+ model of nano-claw

nano-claw (`src/nano-claw`) is an agent for ESP32 boards: messages come in from chat
services, timers and a console, rules decide what to do with them, an LLM is asked, its
tool calls are run, and answers go back. The firmware is C on FreeRTOS: a few tasks that
share queues, mutexes and tables of fixed size. This directory models the parts where
those tasks meet. `neon-claw` is a second product; its copies of all files modelled here are
byte-identical, so the models hold for it too. `openclaw-src` is imported upstream code that
is no part of the firmware.

Paths below are relative to `src/nano-claw/components`.

## 1. The system

### Parts, state and operations

| Part | State it keeps | Operations | Tasks that touch it |
|---|---|---|---|
| agent core, `claw_modules/claw_core` | request queue, response queue, list of answers set aside, `response_lock`, the request in flight and its abort flag, registries of providers and observers | init, start, submit, cancel, receive, receive_for, the worker loop | console REPL, ask_once, router, its own worker |
| event router, `claw_modules/claw_event_router` | event queue, table of pending events, rules, `started` / `task_handle` / `stop_requested` | publish, cancel, purge, rule CRUD and reload, start, stop, the router task | chat gateways, scheduler, core worker, its own task |
| Lua async jobs, `claw_capabilities/cap_lua/src/cap_lua_async.c` | table of job slots, a binary semaphore per slot, count of running jobs | submit (with conflict and replace), stop_job, stop_all_jobs, wait_settle, list, the job tasks | any capability caller, one task per job |
| capability registry, `claw_modules/claw_cap` | groups with a life-cycle state, descriptors, count of calls in progress, visible groups | register, unregister (drains), enable, disable, call | core worker, router, console |
| scheduler, `claw_capabilities/cap_scheduler` | entries with next fire time, runtime state, two JSON files, task state | add, update, remove, enable, disable, pause, resume, trigger, time_sync, fire loop, start, stop | its own task, callers of the capability |
| memory, `claw_modules/claw_memory` | session files, long-term records and their index | append turn, load, store, recall, forget | core worker |
| skills, `claw_modules/claw_skill` | catalogue, activation list of each session | activate, deactivate, reload | core worker, console |
| cron, hooks, pairing, heartbeat | small tables under a mutex | add, cancel, fire; register, run; generate, verify, cleanup | nothing in the repository calls them yet |
| chat gateways `cap_im_*` | sockets and tokens | poll or receive, publish an event, send a message | own tasks |
| tools, managers, Lua runtime | none of their own that matters here | files, time, web, MCP, console, sessions | core worker |
| application `basic_demo` | settings | boot order, console commands | main task, console |

How they interact: a gateway or the scheduler *publishes* an event; the router task takes
it and, for a `run_agent` action, *submits* a request to the core with
`PUBLISH_OUT_MESSAGE | SKIP_RESPONSE_QUEUE`; the core's worker *calls* capabilities
through the registry, hands the turn to memory and publishes an `out_message` event, which
the router sends to a gateway. The console submits too, and then receives the answer from
the response queue.

### What is hard about it

The hazards are listed one by one, at their lines, in `PROJECT.json`. The kinds:

- *interleaving*: two receivers of one response queue, of which each may dequeue the
  other's answer; an event tracked, taken and cancelled by three tasks; a job that is over
  before its submitter has marked it as running;
- *stale state*: a slot reused between a decision and its effect, an abort flag left over
  from the request before, a rule array freed under the loop that walks it;
- *resource bounds*: queues of one to eight places, a table exactly as long as the queue,
  the count of concurrent jobs;
- *blocking in circles*: the worker on a full response queue, the router publishing into
  the queue only it drains, router and worker waiting for each other;
- *timeouts*: a caller gives up and meets its late answer with the next request; a
  semaphore is given after its slot has passed to another job;
- *failures*: no memory for an answer set aside, no task for a job already entered;
- *resets*: a file emptied before it is written, a firing published before it is stored, a
  clock that survives a reset or does not;
- *half-done work*: a start that fails after some of its callbacks, an unload that times out,
  a command whose second write fails.

### What makes each part correct

- core: no answer is lost, duplicated or overlooked; the lock never leaks; a cancel hits
  the request it names and no other; what is stored, reported and returned agree; an
  accepted request is answered.
- router: the pending table mirrors the events that wait; a confirmed cancel is honoured;
  one router task at a time; the router never blocks for good on its own queue.
- Lua jobs: at most one script per name and per group; the running count is exact; a
  confirmed stop is true; a stop flag never reaches another job; calls return.
- registry: a group's capabilities are all there or all gone; calls are counted exactly
  although slots pass to other groups; no callback of an unload runs with a call inside the
  group; a group marked as started is up; nothing runs on without its group; an unload
  without a timeout returns.
- scheduler: nothing fires before the clock sync it needs; no planned time fires twice, across
  a reset either; a pause holds and a resume ends it; flash agrees with memory unless a save
  failed; a reset forgets one run at most; the device boots after any reset.
- router and core together: neither keeps the other waiting for good; a cancelled message
  gets no answer.
- rules and rule store (not modelled): first match consumes; a reload is all or nothing; a
  reset leaves the old rules or the new ones.

## 2. Modules

```
AgentService  <--implements--  ClawCore   <--- MCClawCore         (TLC)
                                          <--- ClawCoreProofs     (TLAPS)
                                                 ^ extends
                                               CoreServiceProofs  (TLAPS)
EventRouter   <--- MCEventRouter                                  (TLC)
     ^        <--- EventRouterProofs                              (TLAPS)
     | extends, and implements
AgentLoop     <--- MCAgentLoop                                    (TLC)
              <--- AgentLoopProofs, over EventRouterProofs        (TLAPS)
JobService    <--implements--  LuaAsync   <--- MCLuaAsync, LuaAsyncProofs
CapService    <--implements--  ClawCap    <--- MCClawCap,  ClawCapProofs
Scheduler     <--- MCScheduler, SchedulerProofs
SlotLemmas    the least of a set of numbers, for four of the modules of proofs
```

`PROJECT.json` maps every definition to its lines. A step stands for the code between two
points where another task can interfere: a queue operation, a critical section, a callback.
Definitions marked `Mutant:` are altered copies of an action of the module, with a bug a
later edit might bring in; no specification uses them. Each checked property has one that
breaks it.

### AgentService

The core as its users see it: a line of accepted requests, one of which runs at a time;
each is answered once, is `cancelled` only if somebody asked for that while it ran, and its
answer goes back at most once (or is lost when memory runs out, or is not handed back for
requests with `SKIP_RESPONSE_QUEUE`).

### ClawCore

| Variable | In `claw_core.c` |
|---|---|
| `boot`, `providers`, `observers` | `s_core.initialized` / `started`, `context_provider_count`, `completion_observer_count` |
| `requestQ`, `responseQ`, `pending`, `lock` | `request_queue`, `response_queue`, `pending_head..pending_tail`, holder of `response_lock` |
| `inflight`, `abort` | `inflight_request_id`, `inflight_abort` |
| `wpc`, `cur`, `iteration`, `reply`, `err` | the worker's place in `claw_core_task` and its locals |
| `cpc`, `want`, `asked` | the callers' place in `submit` / `receive_for` and their arguments |
| `fate`, `result`, `armed`, `turns`, `observed` | history: what became of each request, its answer, confirmed cancels, turns stored, requests reported |

The actions follow a request: `Submit`, `Accepted` or `Refused` (`xQueueSend` with a
timeout); the worker takes it, enters it as in flight, collects context, calls the LLM,
runs tools and goes round until a text, an error, an abort or `max_tool_iterations`;
`CompleteRequest` stores the turn and calls the observers; `FinishRequest` clears the
in-flight id and decides whether the answer is a cancellation; the answer is published or
pushed, which blocks on a full queue; `CallReceive`, `ReceivePending`, `LockResponses`,
`ReceiveMatch`, `ReceiveOther` and `ReceiveTimeout` are `receive_for`. `CancelRequest` may
come at any point. A client is a console (`Callers`, receives what it asked for; those in
`AnyCallers` receive any answer) or a router (`Routers`). Prompt assembly, JSON and the
LLM's text are abstracted to the four kinds of answer the code tells apart: `text`,
`empty`, `failed`, `cancelled`.

### EventRouter

The table of pending events, the queue, the router task with its recursive mutex, `emit_event`
actions that publish from inside the router task, cancel, purge, start and stop. Which rules
match is left open: any event a rule may see can have any of the modelled actions. An event
may have no id (ticks have none); then it is queued without a table slot.
The model starts where `claw_event_router_init` ends; `app_claw.c:420` starts the router.
Stop, cancel and purge have no callers in the repository and are modelled as calls any task
may make. An event for the agent is submitted to the core from inside the router task, with
or without success; what the core does with it is the subject of `AgentLoop`.

### AgentLoop

Router and core at work on each other. It extends `EventRouter` and adds the core as the
router sees it: the request queue, the worker, what the worker publishes (`Outputs`: the
notes of its rounds and then the answer, any of which may be left out) and the capabilities
of `cap_router_mgr`, which take the router's mutex in the worker's task. The router waits in
`claw_core_submit` with its mutex held until there is room or `core_submit_timeout_ms` is
over; the worker waits in `claw_event_router_publish` for the mutex and then for a place in
the event queue, of which it gives up the latter after 1000 ms. What keeps the circle from
closing are these two timeouts, and the mutants take them away. A request goes by the event
it was made for, and each event reaches the agent once.

| Variable | In the code |
|---|---|
| `asked` | events for which `execute_agent_action` or the default route has called submit |
| `requestQ`, `job` | `request_queue` of `claw_core.c`, the request the worker has taken |
| `wpc`, `said` | the worker's place in `claw_core_task`: thinking, publishing its `said`-th output, managing rules |
| `served` | history: requests the worker is done with |

### JobService

The asynchronous jobs as those see them who submit and stop them, without slots, semaphores
or the lock: where each job is (`phase`), who was asked to stop and of whom a stop was
confirmed. A job is admitted in one step, only while fewer than `MaxConcurrent` are at work
and none of them shares its name or exclusive group, runs once, and a stop is confirmed only
of a job that somebody asked to stop and that is over for good.

### LuaAsync

Submit is a preflight (conflict, concurrency limit), with replace a stop of the job in the
way and one more attempt, then a commit that looks again and takes a slot, the creation of
the task, and a final section that marks the job as running. A job's task enters its result
in one section and gives the slot's semaphore after it, which is why a signal may reach the
slot's next job. Stop calls wait on the semaphore, then look again. Left out: the 1000 ms
timeout of the module's own lock (no one waits inside it), the contents of scripts, and
`finished_at`; any terminal slot may be the oldest. A script that ended by itself is `over`,
whether it was done, failed or timed out: only reports to the user tell these apart.

`Phase` maps a job to `JobService`. A submitter that takes a slot is admitted, until its task
exists or could not be created; retries of a submit with replace stay `submitted`.

### CapService

The registry as its callers and the callbacks of its groups see it, without slots and counts:
what each group is (`out`, `open`, `closed`, `draining`, `leaving`), the capability each call
is in, and which parts are up. Calls are taken by open groups only and stay in their
capability until they return; a group that began to drain opens no more; its last stop
callbacks run, and it goes, with no call inside; nothing of it is up when it is gone. Two
promises one might expect are not made, because the code does not make them: a call may
come while the group's start callbacks still run, or have failed (`REGISTERED` takes calls, 449),
and a call may be inside while `claw_cap_disable_group` runs the stop callbacks.

### ClawCap

The registry: groups of capabilities are registered, enabled, disabled, swept by `start_all`
and `stop_all`, and unregistered, while other tasks are inside capabilities.

| Variable | In `claw_cap.c` |
|---|---|
| `started` | `s_runtime.started` |
| `group` | `group_slots`: id and life-cycle state of the group in each slot |
| `cap` | `descriptor_slots`: the capability, the slot of its group, `active_calls` |
| `pc`, `at`, `next` | the managing task's place, the group it works on, the callback it runs next |
| `sweep`, `todo` | whether it is in `claw_cap_start_all` or `_stop_all`, and the slots still ahead |
| `timed` | whether the unload has a timeout |
| `in` | the slot each calling task has counted itself into |
| `live` | history: the callbacks that are up |

Each section under `s_runtime.mutex` is a step and so is each callback, which runs outside
it. One task at a time manages the registry: `app_claw.c` at boot and the console later are the
only callers of these functions. `Status` maps a group to `CapService`. Calls come from any
task. A capability's state is its group's, since every section that writes one writes the other.
`claw_cap_call` finds a descriptor and counts itself in (`Enter`), runs it outside the mutex,
and counts itself out by slot index (`Leave`), whatever the slot holds by then.
The lists of groups visible to the
LLM only refuse calls and are left out.

### Scheduler

One table of entries, the task that fires what is due, the commands, the time sync, the
definitions file and the run-time state in NVS, and resets.

| Variable | In `cap_scheduler*.c` and `cap_time.c` |
|---|---|
| `entries`, `timeValid` | `s_cap_scheduler.entries`, `.time_valid` |
| `lock` | the holder of the mutex |
| `task` | the fire loop: asleep, waiting for the mutex with the time it has read, or firing what is due |
| `cmd` | one command of a user and one of the service (boot, later the sync): its place between reading the clock, changing memory, writing the file and writing NVS |
| `file`, `blob` | `schedules.json`, torn or not; the run-time state |
| `now`, `reached`, `up` | the clock, the latest right time so far, whether the device runs |
| `wish`, `plan`, `early`, `stale` | history: the last pause or resume, the last planned time fired, early firings, saves that failed |

What runs under the mutex is cut where it publishes and where it writes to flash: there a
reset makes a difference. `NextFire` and `Refresh` are `cap_scheduler_compute_next_fire` and
`cap_scheduler_refresh_entry_locked`; a cron expression is the set of minutes it matches.
A reset keeps the clock or sets it back; the file and NVS stay as they are, and a reset
between `fopen` and the end of the write leaves a torn file. `last_success_ms`,
`missed_count` and `last_error_code` are only reported.

## 3. What TLC checks

| Run | Instance | Shows |
|---|---|---|
| `core_safety` | two callers, one of which takes any answer, three requests, an observer, queues of two and one, failing allocations, timeouts, cancels anywhere; 871 k states | every bound is kept; an open request is in exactly one place; no lock leak; no answer overlooked; no cancel leaks to another request; stored turns, reports and answers agree; ClawCore implements AgentService |
| `core_liveness` | two callers and a router, patient callers; 289 k states | every accepted request is answered, though the worker blocks on a queue of one |
| `core_wedge` | a caller that gives up twice, and a router | *violated*: the worker blocks for good behind answers nobody fetches |
| `router_loop` | router and core: a message, a tick and an emitted event, all for the agent, an answer; queues of one, two stops; 104 k states | the table is exact; cancels are honoured and get no answer; one router task; events and requests move on |
| `router_table` | three tasks, table as long as the queue | *violated*: a queued event loses its slot |
| `lua_jobs` | four jobs, one of which replaces another of its name, three slots, two at a time; 1.13 M states | the limit holds; one script of a kind; exact count; a running script owns its slot; LuaAsync implements JobService |
| `lua_stop` | a job, its replacement (by group) and a stop, stop-all or settle call over one slot; 16 k states | a confirmed stop is true; flags hit their job; all calls return |
| `lua_states` | one job | *violated*: a job that is over goes back to running |
| `cap_calls` | three groups, two of which share a capability, two calls, failing callbacks; 110 k states | groups are complete or gone; counts are exact; no call in an unload; a started group is up; nothing outlives its group; unloads return; ClawCap implements CapService |
| `sched_plans` | an entry of any of four kinds, all nine commands, two of them given, a reset, an SNTP sync, failing publishes and saves; 5.9 M states | nothing early; no time twice; pauses hold; flash agrees; one run at risk |
| `sched_resume` | pause and resume | *violated*: a resumed entry stays paused |
| `sched_boot` | add and remove, a reset | *violated*: a torn file makes every later boot fail |

All passing runs but `cap_calls` set `CHECK_DEADLOCK FALSE`: each client, event, job or
command acts a bounded number of times, after which the modelled tasks wait for more, as the
real ones do. In `cap_calls` groups and calls come and go for ever, and deadlock is checked.

### Bounds, and why they are enough

- Queues of one or two places: the interesting case is the full queue, and a queue of two is
  enough to tell the head from the tail. The application configures four.
- Two callers: the response path has one holder of the lock and one that waits; a third
  waits like the second. One caller makes two requests so that its second can meet the late
  answer to its first.
- One or two tool rounds: the first round that may go on and the one that may not.
- The router's table has room for every event that can wait at once in `router_loop` and is
  as long as the queue in `router_table`, as in the source. The properties of the table hold
  for tables with room only; the proofs state that as a hypothesis.
- `router_loop`: three events for the agent, of which the core's queue takes one and the worker
  another while the router waits with the third; events of the router's own (`OwnEvents`),
  which no rule sees, are left out of the instance for its size.
- Three job slots and four jobs: a slot must be reused; a limit of two below three jobs that
  do not clash can be hit. Two of them are interchangeable, hence the SYMMETRY. One slot in
  `lua_stop` makes every signal late for somebody.
- Two stops of the router: one that overlaps a start, and one after it. `EventsMoveOn` is
  stated for behaviours without a stop; with a stop the events that wait stay in the queue, as in the code.
- Registry: two groups that share a capability cannot be loaded together and take each
  other's slots in turn, the third is of another name; one group has two members, so that a
  start can fail between them. Two calls: an unload must wait for both, and a count of two
  differs from a flag.
- Scheduler: one id, whose entry may be of any of four kinds (once, free interval, interval
  with a start and an end, cron); what entries share is the mutex and the two stores, and the
  commands contend for those already. The clock runs to 5 and is valid from 3: before,
  around and after the sync, with two planned times of the anchored interval. Two commands
  (what one leaves behind, another meets) and one reset, which may come between any two
  steps. Time passes only while the mutex is free: whoever holds it has read the clock
  before, so that time passing under the mutex may as well pass after. SNTP never sets a
  time earlier than one that has been right before.
- `stop_all_jobs` with two targets was checked once on a larger instance (three jobs and a
  console, 12.6 M states, all safety properties of `LuaAsync` held); it takes too long to
  be one of the runs.

### Fairness, and why the code justifies it

Weak fairness only: a FreeRTOS task that is not blocked is eventually scheduled.

- core: boot goes on (`app_claw_start` calls init and start), the worker runs, a task inside
  submit or receive runs on. Nobody has to submit or to cancel, and a timeout need not expire.
- router: boot starts it, the router task runs, a publisher blocked on a full queue gets in
  or times out. Publishing, cancelling and stopping are never forced.
- Lua: a caller inside a call runs on and its wait ends after `wait_ms`; a finished job
  gives its semaphore. A script may run for ever, and nobody has to submit or stop.
- router with core: the router task, the worker and the tasks inside publish run on, and a
  wait on a full queue ends with room or with its timeout. Nobody has to stop or to cancel.
- registry: the managing task goes on with a command it has begun, and a capability's execute
  function returns. No command and no call has to be made.
- scheduler: none; its properties are safety properties.

`core_liveness` assumes patient callers (`Impatient = FALSE`); `core_wedge` shows what
impatient ones do.

### What the code does otherwise than its documents say

1. `core_wedge`: `push_response` (`claw_core.c:318`) waits with `portMAX_DELAY`; only
   `receive_for` drains the queue, so answers whose callers timed out can block the worker for good,
   and with it the requests of the router, which do not use that queue at all.
2. `router_table`: the assertion at `claw_event_router.c:46` takes a table as long as the
   queue to be enough; an event is tracked before it has a place in the queue, so blocked
   publishers need slots as well.
3. `lua_states`: `cap_lua_async.c:691` sets `RUNNING` after the task was created, whatever
   the task has done by then; a short script stays "running" for ever, and keeps its slot, name and group.
4. `sched_resume`: `cap_scheduler_resume` (`cap_scheduler.c:1068`) leaves the change to a
   refresh that returns at once for a paused entry (356-358); `cap-scheduler.mdx:50` calls it
   "Resume a specific schedule item". What ends a pause is another command: enable, disable
   or a trigger.
5. `sched_boot`: the definitions file is emptied before it is written
   (`cap_scheduler_store.c:361`), also at every boot; after a reset in between it cannot be parsed
   (804-808), `app_claw_start` fails and `main.c:236` aborts, on every boot.
   `cap-scheduler.mdx:34` promises that the device resumes correctly after a reboot.

Not a run of its own: `claw-core.mdx:98` says an observer gets a summary "after each
request"; `claw_core.c:1260` calls observers for final texts only, and so does `ClawCore`.

## 4. What TLAPS proves

### ClawCoreProofs

`ClawCoreProofs` proves, for every number of clients, requests, queue places, tool rounds,
providers and observers, from `ClawCoreAssumption` alone:

| Theorem | Property |
|---|---|
| `TypeCorrect` | `TypeOK` |
| `CancelledIsOnDemand` | `CancelledOnlyOnDemand` |
| `TurnIsBeforeReply` | `TurnBeforeReply` |
| `LockIsHeldWhileReceiving` | `LockHeldWhileReceiving` |
| `AnswersAreNotOverlooked` | `NoAnswerOverlooked` |

`ClawCoreAssumption` says that callers and routers are different tasks, that queue lengths
and the round limit are positive, and that the special ids are no request's id. `claw_core_init`
replaces zero lengths and a zero round limit by defaults (1362-1368); request id 0 means none.

The inductive invariant `IInv` is the conjunction of the five properties and of two more:

- `WorkerInv` ties the worker's place to the in-flight id and the abort flag: the flag is
  set only while the request it belongs to is in flight and was named in a confirmed cancel.
  Without it "cancelled" could come from a flag of the request before. It also says that
  past `complete` a text has its turn stored, without which `TurnBeforeReply` is not preserved when
  the answer is entered.
- `ClientInv` says that a client past `Submit` has a current request, so that what
  it sends and waits for is a request's id.

`NoAnswerOverlooked` is preserved because only the holder of `response_lock` adds to the
pending list, and the holder adds only answers that are not its own; hence it needs
`LockHeldWhileReceiving`, and cannot be proved by itself.
Each step lemma takes one conjunct through all actions; `IInvStep` puts them together, and
the theorems follow by temporal logic.

### CoreServiceProofs

Over `ClawCoreProofs`, for the same constants:

| Theorem | Property |
|---|---|
| `RequestsAreInOnePlace` | `OpenRequestInOnePlace` |
| `ReportedAnswersStand` | `ReportedAnswerStands` |
| `CoreImplementsService` | `ImplementsService` |

`ServiceInv` adds to `IInv` what a request's way needs. `PlaceInv` says where it is with
"has" and "holds nothing twice" in place of the counting of `OpenRequestInOnePlace`: what an
`xQueueSend`, a receive or a removal from the pending list does to these is a fact about
indices. `AskedInv`: a request is sent once, so that appending it keeps its queue free of
repetitions. `FreshInv`: no answer exists while it waits or is worked on. `ReportInv`: what
the observers were told is still in the worker's hands or has become the result. `RouteInv`:
the worker publishes silent requests only. With these each step maps to a step of
`AgentService` under `Phase`, or leaves it alone.

### EventRouterProofs

For any events, table, queue and number of stops:

| Theorem | Property | Under |
|---|---|---|
| `TypeCorrect` | `TypeOK` | |
| `RouterTaskIsAlone` | `OneRouterTask` | |
| `TableStaysExact` | `TableIsExact` | `IdsDiffer`, `TableHasRoom` |
| `CancelsAreHonoured` | `CancelHonoured` | `IdsDiffer`, `TableHasRoom` |

The hypotheses are those the code needs: `router_table` shows what happens without room, and
ids have millisecond resolution (`claw_event_router.c:1804`). `IInv` consists of `TypeOK`,
`OneRouterTask` and three parts: `EmittingInv` (one action at a time publishes from inside the
rules), `QueueInv` (the queue holds the queued events, each once) and `EventInv` (what the
router's place says of the event it works on). `TableInv` adds `TableIsExact`, that no two
slots hold one event, and `ArmedInv`: a confirmed cancel is a flag in the slot of an event
that still waits. The heart is a pigeonhole: while fewer events wait than there are slots, a
slot is free, so tracking an event never evicts one.

### AgentLoopProofs

`LoopImplementsRouter`: every step of router and core together is a step of `EventRouter` or
leaves its variables alone, so the router's theorems hold with the core at work
(`LoopTypeCorrect`, `LoopTableExact`). `CancelledStaysUnanswered`: the core says nothing about
a message whose cancel was confirmed, under `OutputsDiffer` (no two requests publish one event
object). Its invariant `CoreInv` says that whatever the core has or has said was processed by
the router; with `CancelHonoured` that excludes cancelled messages.

### LuaAsyncProofs

For any jobs, names, groups, consoles, slots and limit, from `LuaAsyncAssumption`:

| Theorem | Property |
|---|---|
| `TypeCorrect` | `TypeOK` (with the limit of `s_running_jobs`) |
| `ScriptsDiffer` | `OneOfAKind` |
| `RunningIsCounted` | `RunningCountExact` |
| `RunningIsListed` | `LiveJobIsListed` |
| `StoppedIsGone` | `StopConfirmedMeansGone` |
| `FlagHitsItsJob` | `StopHitsItsJob` |
| `LuaAsyncImplementsJobService` | `ImplementsJobService` |

None of them is inductive alone. The jobs that count as running are `Busy`: those whose script
runs and those between taking a slot and having a task. `SlotInv` says that each of them is in
its slot, which is not terminal, and that a job is in no slot but its own: so the search for
a conflict, which looks at slots, sees every job that counts. `TargetInv` says that whatever a
stop is about to do was decided on a job that had already taken the slot in question: as a
job takes one slot in its life, a slot that is free, terminal or another's means that the
job is over, which is why a stop may look at the slot and not at the job. Steps fall into *quiet*
ones, which leave the jobs where they are (one lemma for all), and *loud* ones, a lemma each.

For the refinement `ServiceInv` adds to this `StartedInv` (a submitter that has created its
task has a job that ran, so `Phase` may look at the task alone) and `AskedInv` (whoever waits
for a job's end has asked that job to stop, whatever its slot holds now). `AtWorkIsBusy`
says that the jobs at work in `JobService` are those `RunningCountExact` and `OneOfAKind` are
about, which makes the critical section of `Commit` one `Admit`; every other step moves one job
or none (`JobMoves`, `QuietJobServes`, `StopServes`).

### ClawCapProofs

For any groups, capabilities and calls, from `ClawCapAssumption`:

| Theorem | Property |
|---|---|
| `TypeCorrect` | `TypeOK` |
| `MembersStayComplete` | `MembersComplete` |
| `CountsAreExact` | `ActiveCallsExact` |
| `UnloadWaits` | `NoCallInUnloading` |
| `StartIsComplete` | `StartedIsUp` |
| `NothingIsLeft` | `NothingOutlivesItsGroup` |
| `RegistryImplementsCapService` | `ImplementsCapService` |

The invariant is their conjunction with `ManagerInv` (the state of a group goes with the
managing task's place) and `CallbackInv` (in a start the callbacks before the next one have
run, in an unload those after it have been stopped). Counts are exact *because* unloads wait:
a slot that a call is in is not cleared, so that leaving by index finds the slot it entered.
Registering needs a pigeonhole: a group that is not loaded finds a free group slot.

The refinement follows from that invariant. `StatusIs` and `InsideIs` read the state of the
service off the slots: a group is in one slot at most, and a call is inside a capability of the
group whose slot its own descriptor slot names. `StatusBecomes` says that writing the state of
one slot moves one group and no other; `ClearServes` that clearing a group's slots takes the
capability from under no call, as `NoCallInUnloading` leaves none in them.

### SchedulerProofs

For any ids, definitions, commands, times and resets, from `SchedulerAssumption`:

| Theorem | Property |
|---|---|
| `TypeCorrect` | `TypeOK` |
| `NothingFiresEarly` | `NothingEarly` |
| `PausesHold` | `PauseHolds` |
| `FlashIsMemory` | `FlashAgrees` |
| `OneRunIsAtRisk` | `OneRunAtRisk` |
| `NoTimeFiredTwice` | `NoTimeTwice`, if `CronGoesOn` |

The properties look at states in which nobody has the mutex; the invariant says what is true
in between. `ControlInv`: who has the mutex, and that what the task has yet to fire is present
and due. `FlashInv`: what a client with the mutex has saved so far and what it would roll back
to when a save fails. `EarlyInv`: without a valid clock all entries wait, those a client would
put back included. `RunInv`: of what is still to be fired in this round, no run is at risk yet.
`PauseInv`: a pause is in memory unless that is being loaded or changed, and in flash as long
as a load could bring the entry back, which is why a reset between saving the definitions and
saving the state does not lose it. `CountInv`: memory, file and rollback are all within
`max_items`.

`NoTimeFiredTwice` needs three more parts. `ClockInv`: a clock that counts as valid is right,
nobody works with a time to come, and no entry was fired for one, so a sync, which counts on
from the right time, cannot go back behind a firing. `SoundInv`: every plan in memory, in
flash, in a command or set aside goes on, and nothing was last fired after the bound of the
clock. `TwiceInv`: an entry that is not paused waits for a time after the last one it was fired
for, an entry in error included, and what a client would put back has not been compared with
earlier firings since its command began. The lemmas `NextFireLater`, `RefreshLater`,
`PublishedLater`, `SyncedLater` and `LoadedLater` say for each operator that the next time lies
after its anchor. The hypothesis `CronGoesOn` says that a cron plan has a time after any the
clock can show. The code fails to find one only when no minute matches within a year
(`cap_scheduler_parser.c`); then `cap_scheduler_refresh_entry_locked` puts the entry into error
and leaves `next_fire_ms`, the fire loop, which skips paused entries only
(`cap_scheduler.c:535`), still finds the entry due at every tick, and when the task wakes within
one tick of the planned time it fires that time again. `Epoch` is taken to be more than 1, the
time the clock starts with: `CAP_TIME_MIN_VALID_EPOCH` is years after it.

`SlotLemmas` holds a fact four of these modules use: the least element of a nonempty set of
numbers, which the searches for a free slot and for the next time return, is in the set.

### Only model-checked

All liveness (`EveryRequestServed`, `EventsMoveOn`, `RequestsMoveOn`, `EveryCallReturns`,
`UnloadReturns`), as `ENABLED` and the temporal rules that fairness needs are out of the
prover's reach. Every other property of a passing run is a theorem above. No module declares a RECURSIVE operator, so all of them
can be proved about.

## 5. Not modelled

- Networks, files and parsers (`cap_im_*`, `cap_web_search`, `cap_mcp_*`, `cap_files`, the LLM
  back ends): I/O with no shared state; to the modelled parts they are publishers, or calls
  that succeed or fail.
- Placeholder capabilities (`cap_event_bus`, `cap_ratelimit`, ...): nothing calls them.
- Real time: timeouts are choices. That `receive_for` may wait for the lock beyond its own
  timeout (`claw_core.c:1607`) can therefore not be stated.
- The rules and their file: which rules match is open in `EventRouter`. That an action may
  reload the rules inside the loop that walks them (`claw_event_router.c:1056`), that a reset
  may come between removing and renaming the rules file (1011), and that two writers
  of rules may overwrite each other are listed as hazards or in the plan.
- Events that share an id: the instances and the theorems take ids to differ.
- Scheduler: `cap_scheduler_stop`, which nothing calls, and the snapshots, which only read.
- Core: prompts, the LLM back ends and JSON; `claw_core_call_cap` only forwards.
- Registry: the lists of visible groups.
- `cap_cron`, `cap_pairing`, `cap_hooks`, `cap_heartbeat`: small tables under one mutex that
  nothing in the repository fills.
- Memory and skills: file formats and lists touched by one task at a time.

Most lines of the repository are drivers, protocol clients, Lua bindings and user
interfaces, twice (nano-claw and neon-claw), and upstream desktop and mobile code; the share
of all lines that the map can name is small for that reason. Of the files with shared
state, `claw_cap.c`, `cap_lua_async.c`, `cap_scheduler*.c`, the queue half of
`claw_event_router.c` and the request half of `claw_core.c` are modelled.

## 6. Plan

Done: `AgentService`, `ClawCore`, `EventRouter`, `AgentLoop`, `JobService`, `LuaAsync`,
`CapService`, `ClawCap`, `Scheduler`, and the modules of proofs.

1. `RuleStore`: the rule calls read the file, change it and write it back without the mutex
   around the three (`claw_event_router.c:1011-1056` and the callers in `cap_router_mgr.c`
   and the console): lost updates, a reload inside the rule loop, a reset between remove and
   rename.
2. Events that share an id, as two entries fired in one tick may.
3. Start and stop of the scheduler's task, once something calls them.
