----------------------------- MODULE Scheduler -----------------------------
(***************************************************************************)
(* The scheduler (components/claw_capabilities/cap_scheduler): entries     *)
(* that publish an event at their time, a task that fires what is due,     *)
(* commands that change entries, a definitions file and a blob of run-time *)
(* state, the clock that SNTP sets (cap_time.c), and resets.               *)
(*                                                                         *)
(* What runs under the scheduler's mutex is cut where it publishes and     *)
(* where it writes to flash, so that the clock goes on and a reset may     *)
(* come between.  The user stands for every task that gives commands, one  *)
(* at a time; the service is the main task at boot and cap_time's task     *)
(* later.  Entries are kept by id, not by index: the index only orders the *)
(* events of one firing.  last_success_ms, missed_count and                *)
(* last_error_code are only reported and are left out.                     *)
(***************************************************************************)
EXTENDS Integers, FiniteSets, FiniteSetsExt

CONSTANTS
  Ids,             \* the ids of entries
  Items,           \* the definitions users may give: kind, start, interval, end, max, times
  Shipped,         \* the definitions, or NoEntry, that the file may hold at first
  Ops,             \* the commands users give
  NoEntry,         \* what an id without an entry has
  MaxItems,        \* max_items
  Tick,            \* tick_ms
  Epoch,           \* CAP_TIME_MIN_VALID_EPOCH: the clock is not valid before
  MaxTime,         \* bound: the clock's last value
  MaxCommands,     \* bound: how many commands users give
  MaxResets,       \* bound: how often the device is reset
  PublishCanFail,  \* whether the router's queue may be full
  SaveCanFail      \* whether writes to flash may fail

\* What cap_scheduler_validate_item lets through
Definitions ==
  {item \in [kind : {"once", "interval", "cron"}, enabled : BOOLEAN, start : Int,
             interval : Int, end : Int, max : Nat, times : SUBSET Nat] :
     /\ item.kind = "once" => item.start > 0
     /\ item.kind = "interval" => item.interval > 0}

\* Run-time state as it is saved, and entries: an item with its run-time state
Statuses    == {"scheduled", "paused", "completed", "error", "disabled"}
RunTimeType == [status : Statuses, next : Int, last : Nat, runs : Nat]
EntryType   == [item : Definitions, status : Statuses, next : Int, last : Nat, runs : Nat]

ASSUME SchedulerAssumption ==
  /\ IsFiniteSet(Ids)
  /\ Items \subseteq Definitions /\ Shipped \subseteq Definitions \cup {NoEntry}
  /\ NoEntry \notin Ids /\ NoEntry \notin Definitions
  /\ NoEntry \notin RunTimeType /\ NoEntry \notin EntryType
  /\ MaxItems \in Nat \ {0} /\ Tick \in Nat \ {0} /\ Epoch \in Nat \ {0, 1}
  /\ MaxTime \in Nat /\ Epoch <= MaxTime
  /\ MaxCommands \in Nat /\ MaxResets \in Nat
  /\ PublishCanFail \in BOOLEAN /\ SaveCanFail \in BOOLEAN
  /\ Ops \subseteq {"add", "update", "remove", "enable", "disable", "pause", "resume",
                    "trigger", "reload"}

Clients == {"user", "service"}

VARIABLES
  now,        \* the clock
  reached,    \* the latest right time there has been: SNTP never sets an earlier one
  up,         \* whether the device is "booting", "running" or "dead" (the boot failed)
  entries,    \* s_cap_scheduler.entries, by id
  timeValid,  \* s_cap_scheduler.time_valid
  lock,       \* who has the mutex: "free", "task" or a client
  task,       \* the scheduler's task: its place, the time it read, the entries to fire
  cmd,        \* each client's command: its place, arguments, the time it read, the old entry
  file,       \* the definitions file: its items by id, and whether it is torn
  blob,       \* the run-time state in NVS, by id; NoEntry when there is none
  commands, resets,  \* how many there have been
  \* history
  wish,       \* what the last pause or resume of an entry asked for
  plan,       \* the planned time an entry was last fired for, since its last command, or
              \* since a reload of a saved state that does not know of it
  early,      \* the entries in their plan that were fired before the sync they need
  stale       \* what the last save failed for: "defs", "state"

history == <<wish, plan, early, stale>>
vars == <<now, reached, up, entries, timeValid, lock, task, cmd, file, blob, commands, resets, history>>

-----------------------------------------------------------------------------
(* When an entry fires next (cap_scheduler_parser.c).                      *)

Never  == -1
Failed == -2  \* no matching minute within a year

\* The first time of a series at start, start + interval, ... that lies after anchor
After(start, interval, anchor) ==
  IF anchor < start THEN start
                    ELSE start + (((anchor - start) \div interval) + 1) * interval

\* The switch of cap_scheduler_compute_next_fire.  A cron expression is the set of the
\* minutes that match it.
NextOfKind(item, anchor) ==
  CASE item.kind = "once" -> IF anchor >= item.start THEN Never ELSE item.start
    [] item.kind = "interval" /\ item.start > 0 -> After(item.start, item.interval, anchor)
    [] item.kind = "interval" /\ item.start <= 0 -> anchor + item.interval
    [] item.kind = "cron" ->
         LET times == {t \in item.times : t > anchor}
         IN IF times = {} THEN Failed ELSE Min(times)

NextFire(item, runs, anchor) ==
  LET t == NextOfKind(item, anchor)
  IN IF \/ ~item.enabled
        \/ item.max > 0 /\ runs >= item.max
        \/ t > 0 /\ item.end > 0 /\ t > item.end
       THEN Never ELSE t

\* cap_scheduler_item_requires_valid_time
NeedsTime(item) == ~(item.kind = "interval" /\ item.start <= 0 /\ item.end <= 0)

\* Mutant: the clock is trusted before it is valid.
RefreshUntimed(e, anchor, valid) ==
  LET t == NextFire(e.item, e.runs, anchor)
  IN CASE ~e.item.enabled -> [e EXCEPT !.status = "disabled", !.next = Never]
       [] e.item.enabled /\ e.status = "paused" -> e
       [] OTHER ->
            CASE t = Failed -> [e EXCEPT !.status = "error"]
              [] t = Never  -> [e EXCEPT !.status = "completed", !.next = Never]
              [] OTHER      -> [e EXCEPT !.status = "scheduled", !.next = t]

\* cap_scheduler_refresh_entry_locked
Refresh(e, anchor, valid) ==
  LET t == NextFire(e.item, e.runs, anchor)
  IN CASE ~e.item.enabled -> [e EXCEPT !.status = "disabled", !.next = Never]
       [] e.item.enabled /\ e.status = "paused" -> e
       [] e.item.enabled /\ e.status # "paused" /\ ~valid /\ NeedsTime(e.item) ->
            [e EXCEPT !.status = "scheduled", !.next = Never]
       [] OTHER ->
            CASE t = Failed -> [e EXCEPT !.status = "error"]
              [] t = Never  -> [e EXCEPT !.status = "completed", !.next = Never]
              [] OTHER      -> [e EXCEPT !.status = "scheduled", !.next = t]

\* The time that goes with the event of an entry
Planned(e, immediate, t) == IF immediate \/ e.next <= 0 THEN t ELSE e.next

\* cap_scheduler_publish_entry_locked: what it makes of the entry
Published(e, immediate, t, sent) ==
  LET fired == [e EXCEPT !.status = "running", !.last = t]
      done  == [fired EXCEPT !.runs = @ + 1]
  IN CASE ~sent -> [fired EXCEPT !.status = "error"]
       [] sent /\ e.item.kind = "once" -> [done EXCEPT !.status = "completed", !.next = Never]
       [] sent /\ e.item.kind # "once" ->
            Refresh(done, IF immediate THEN t ELSE Planned(e, immediate, t), timeValid)

-----------------------------------------------------------------------------
(* What is kept in flash.                                                  *)

Present == {id \in Ids : entries[id] # NoEntry}

NewEntry(item) ==
  [item |-> item, status |-> IF item.enabled THEN "scheduled" ELSE "disabled",
   next |-> Never, last |-> 0, runs |-> 0]

\* cap_scheduler_entry_to_json without the item
RunTime(e) == [status |-> e.status, next |-> e.next, last |-> e.last, runs |-> e.runs]

ItemsOf(es)   == [id \in Ids |-> IF es[id] = NoEntry THEN NoEntry ELSE es[id].item]
RunTimeOf(es) == [id \in Ids |-> IF es[id] = NoEntry THEN NoEntry ELSE RunTime(es[id])]

NoBlob == [id \in Ids |-> NoEntry]

\* cap_scheduler_load_state
Merge(e, rt) ==
  IF rt = NoEntry THEN e
  ELSE [e EXCEPT !.status = rt.status, !.next = rt.next, !.last = rt.last, !.runs = rt.runs]

IdleCmd  == [pc |-> "idle", op |-> "none", id |-> NoEntry, item |-> NoEntry, at |-> 0,
             old |-> NoEntry]
BootCmd  == [IdleCmd EXCEPT !.pc = "wait", !.op = "boot"]
IdleTask == [pc |-> "asleep", at |-> -Tick, todo |-> {}]

Init ==
  /\ now = 1 /\ reached = Epoch
  /\ up = "booting"
  /\ entries = [id \in Ids |-> NoEntry]
  /\ timeValid = FALSE
  /\ lock = "free"
  /\ task = IdleTask
  /\ cmd = [c \in Clients |-> IF c = "service" THEN BootCmd ELSE IdleCmd]
  /\ file \in [items : [Ids -> Shipped], torn : {FALSE}]
  /\ Cardinality({id \in Ids : file.items[id] # NoEntry}) <= MaxItems
  /\ blob = NoBlob
  /\ commands = 0 /\ resets = 0
  /\ wish = [id \in Ids |-> "none"]
  /\ plan = [id \in Ids |-> 0]
  /\ early = {} /\ stale = {}

Goto(c, place) == cmd' = [cmd EXCEPT ![c].pc = place]

\* Mutant: a client keeps the mutex.
FinishLocked(c) ==
  /\ cmd' = [cmd EXCEPT ![c] = IdleCmd]
  /\ UNCHANGED lock
  /\ up' = "running"

\* A client is done: it gives the mutex back.  The boot ends with the services running.
Finish(c) ==
  /\ cmd' = [cmd EXCEPT ![c] = IdleCmd]
  /\ lock' = "free"
  /\ up' = "running"

-----------------------------------------------------------------------------
(* The scheduler's task (cap_scheduler_task).                              *)

\* The task sleeps for a tick.  cap_scheduler_fire_due_entries reads the clock before it
\* takes the mutex.
WakeUp ==
  /\ up = "running" /\ task.pc = "asleep" /\ now >= task.at + Tick
  /\ task' = [task EXCEPT !.pc = "ready", !.at = now]
  /\ UNCHANGED <<now, reached, up, entries, timeValid, lock, cmd, file, blob, commands, resets, history>>

Due(e, t) == /\ e.item.enabled
             /\ e.status # "paused"
             /\ 0 < e.next /\ e.next <= t

TakeLock ==
  /\ task.pc = "ready" /\ lock = "free"
  /\ LET due == {id \in Present : Due(entries[id], task.at)}
     IN IF due = {}
          THEN task' = [task EXCEPT !.pc = "asleep"] /\ UNCHANGED lock
          ELSE /\ task' = [task EXCEPT !.pc = "firing", !.todo = due]
               /\ lock' = "task"
  /\ UNCHANGED <<now, reached, up, entries, timeValid, cmd, file, blob, commands, resets, history>>

\* An entry that is more than a tick late is missed and goes on to its next time.
Miss(id) ==
  /\ task.pc = "firing" /\ id \in task.todo
  /\ task.at > entries[id].next + Tick
  /\ entries' = [entries EXCEPT ![id] = Refresh(@, task.at, timeValid)]
  /\ task' = [task EXCEPT !.todo = @ \ {id}]
  /\ UNCHANGED <<now, reached, up, timeValid, lock, cmd, file, blob, commands, resets, history>>

\* The others are published, which may take a second and fail.
Fire(id) ==
  LET e == entries[id]
  IN /\ task.pc = "firing" /\ id \in task.todo
     /\ task.at <= e.next + Tick
     /\ \E sent \in {TRUE} \cup {~PublishCanFail} :
          /\ entries' = [entries EXCEPT ![id] = Published(e, FALSE, task.at, sent)]
          /\ plan' = IF sent THEN [plan EXCEPT ![id] = Planned(e, FALSE, task.at)] ELSE plan
          /\ early' = IF sent /\ NeedsTime(e.item) /\ ~timeValid /\ e.status # "error"
                        THEN early \cup {id} ELSE early
     /\ task' = [task EXCEPT !.todo = @ \ {id}]
     /\ UNCHANGED <<now, reached, up, timeValid, lock, cmd, file, blob, commands, resets, wish, stale>>

\* Mutant: the state is saved by commands only.
FiredUnsaved ==
  /\ task.pc = "firing" /\ task.todo = {}
  /\ task' = [task EXCEPT !.pc = "asleep"]
  /\ lock' = "free"
  /\ UNCHANGED <<now, reached, up, entries, timeValid, cmd, file, blob, commands, resets, history>>

\* cap_scheduler_persist_runtime_state_locked, whose result is ignored
SaveFired ==
  /\ task.pc = "firing" /\ task.todo = {}
  /\ \/ blob' = RunTimeOf(entries) /\ stale' = stale \ {"state"}
     \/ SaveCanFail /\ blob' = blob /\ stale' = stale \cup {"state"}
  /\ task' = [task EXCEPT !.pc = "asleep"]
  /\ lock' = "free"
  /\ UNCHANGED <<now, reached, up, entries, timeValid, cmd, file, commands, resets, wish, plan, early>>

TaskStep == WakeUp \/ TakeLock \/ (\E id \in Ids : Miss(id) \/ Fire(id)) \/ SaveFired

-----------------------------------------------------------------------------
(* Commands.  Each reads the clock before it waits for the mutex, but for  *)
(* those that read it later: trigger, reload and the sync.                 *)

Begin(op, id, item) ==
  /\ up = "running" /\ cmd["user"].pc = "idle"
  /\ commands < MaxCommands
  /\ commands' = commands + 1
  /\ cmd' = [cmd EXCEPT !["user"] = [pc |-> "wait", op |-> op, id |-> id, item |-> item,
                                     at |-> now, old |-> NoEntry]]
  /\ UNCHANGED <<now, reached, up, entries, timeValid, lock, task, file, blob, resets, history>>

UserBegins ==
  \E op \in Ops :
    CASE op = "reload" -> Begin(op, NoEntry, NoEntry)
      [] op \in {"add", "update"} -> \E id \in Ids, item \in Items : Begin(op, id, item)
      [] OTHER -> \E id \in Ids : Begin(op, id, NoEntry)

EntryOps == {"add", "update", "remove", "enable", "disable", "pause", "resume"}

\* The id is taken or there is no room; there is no such entry.
Refuses(op, id) ==
  IF op = "add" THEN id \in Present \/ Cardinality(Present) >= MaxItems ELSE id \notin Present

\* Mutant: an update makes a new entry.
ChangedByRecreating(op, e, item, anchor) ==
  CASE op \in {"add", "update"} -> Refresh(NewEntry(item), anchor, timeValid)
    [] op = "remove"  -> NoEntry
    [] op = "enable"  -> Refresh([e EXCEPT !.item.enabled = TRUE, !.status = "scheduled"],
                                 anchor, timeValid)
    [] op = "disable" -> Refresh([e EXCEPT !.item.enabled = FALSE, !.status = "disabled"],
                                 anchor, timeValid)
    [] op = "pause"   -> [e EXCEPT !.status = "paused"]
    [] op = "resume"  -> Refresh(e, anchor, timeValid)

\* cap_scheduler_add, _update, _remove, _enable, _pause and _resume: what each makes of the
\* entry
Changed(op, e, item, anchor) ==
  CASE op = "add"     -> Refresh(NewEntry(item), anchor, timeValid)
    [] op = "update" /\ e.status = "paused" -> [e EXCEPT !.item = item]
    [] op = "update" /\ e.status # "paused" ->
         Refresh([e EXCEPT !.item = item], anchor, timeValid)
    [] op = "remove"  -> NoEntry
    [] op = "enable"  -> Refresh([e EXCEPT !.item.enabled = TRUE, !.status = "scheduled"],
                                 anchor, timeValid)
    [] op = "disable" -> Refresh([e EXCEPT !.item.enabled = FALSE, !.status = "disabled"],
                                 anchor, timeValid)
    [] op = "pause"   -> [e EXCEPT !.status = "paused"]
    [] op = "resume"  -> Refresh(e, anchor, timeValid)

\* The mutex is taken and the entry is changed in memory.  Nobody has paused a new entry.
Apply ==
  LET u == cmd["user"]
  IN /\ u.pc = "wait" /\ u.op \in EntryOps
     /\ lock = "free"
     /\ IF Refuses(u.op, u.id)
          THEN Finish("user") /\ UNCHANGED <<entries, plan, wish>>
          ELSE /\ lock' = "user"
               /\ entries' = [entries EXCEPT ![u.id] = Changed(u.op, @, u.item, u.at)]
               /\ plan' = [plan EXCEPT ![u.id] = 0]
               /\ wish' = IF u.op = "add" THEN [wish EXCEPT ![u.id] = "none"] ELSE wish
               /\ cmd' = [cmd EXCEPT !["user"].old = entries[u.id],
                    !["user"].pc = IF u.op \in {"pause", "resume"} THEN "state" ELSE "defs"]
               /\ UNCHANGED up
     /\ UNCHANGED <<now, reached, timeValid, task, file, blob, commands, resets, early, stale>>

\* cap_scheduler_trigger_now
Trigger ==
  LET u == cmd["user"]
  IN /\ u.pc = "wait" /\ u.op = "trigger"
     /\ lock = "free"
     /\ IF u.id \notin Present
          THEN Finish("user") /\ UNCHANGED <<entries, plan>>
          ELSE /\ lock' = "user"
               /\ \E sent \in {TRUE} \cup {~PublishCanFail} :
                    entries' = [entries EXCEPT ![u.id] = Published(@, TRUE, now, sent)]
               /\ plan' = [plan EXCEPT ![u.id] = 0]
               /\ Goto("user", "state")
               /\ UNCHANGED up
     /\ UNCHANGED <<now, reached, timeValid, task, file, blob, commands, resets, wish, early, stale>>

\* What the first sync after a boot makes of an entry: an interval that counted from the
\* boot counts anew.
Synced(e) ==
  LET rebased == IF ~timeValid /\ ~NeedsTime(e.item)
                   THEN [e EXCEPT !.last = 0, !.next = Never] ELSE e
  IN IF e.status = "paused" THEN rebased ELSE Refresh(rebased, now, TRUE)

\* cap_scheduler_handle_time_sync
Sync ==
  /\ cmd["service"].pc = "wait" /\ cmd["service"].op = "sync"
  /\ lock = "free"
  /\ lock' = "service"
  /\ timeValid' = TRUE
  /\ entries' = [id \in Ids |-> IF id \in Present THEN Synced(entries[id]) ELSE NoEntry]
  /\ Goto("service", "state")
  /\ UNCHANGED <<now, reached, up, task, file, blob, commands, resets, history>>

\* cap_scheduler_load_from_disk_locked, at boot and on reload: the definitions are read.
\* A file that cannot be parsed ends the boot, as app_claw_start must not fail.
Load(c) ==
  /\ cmd[c].pc = "wait" /\ cmd[c].op \in {"boot", "reload"}
  /\ lock = "free"
  /\ IF file.torn
       THEN IF c = "service"
              THEN up' = "dead" /\ UNCHANGED <<entries, lock, cmd>>
              ELSE Finish(c) /\ UNCHANGED entries
       ELSE /\ entries' = [id \in Ids |->
                 IF file.items[id] = NoEntry THEN NoEntry ELSE NewEntry(file.items[id])]
            /\ lock' = c
            /\ cmd' = [cmd EXCEPT ![c].pc = "defs", ![c].at = now]
            /\ UNCHANGED up
  /\ UNCHANGED <<now, reached, timeValid, task, file, blob, commands, resets, history>>

\* A reload forgets the firings that the saved state does not know of.
Recalled(c) ==
  /\ plan' = [id \in Ids |->
       IF c = "service" \/ (blob[id] # NoEntry /\ plan[id] <= blob[id].last) THEN plan[id] ELSE 0]

\* Mutant: the run-time state is taken over and not refreshed.
MergeOnly(c) ==
  /\ cmd[c].pc = "merge"
  /\ entries' = [id \in Ids |-> IF id \in Present THEN Merge(entries[id], blob[id]) ELSE NoEntry]
  /\ Recalled(c)
  /\ Goto(c, "state")
  /\ UNCHANGED <<now, reached, up, timeValid, lock, task, file, blob, commands, resets,
                 wish, early, stale>>

\* The run-time state is put on the definitions and all but paused entries are refreshed.
LoadState(c) ==
  /\ cmd[c].pc = "merge"
  /\ entries' = [id \in Ids |->
       IF id \notin Present THEN NoEntry
       ELSE LET e == Merge(entries[id], blob[id])
            IN IF e.status = "paused" THEN e
               ELSE Refresh(e, IF e.last > 0 THEN e.last ELSE cmd[c].at, timeValid)]
  /\ Recalled(c)
  /\ Goto(c, "state")
  /\ UNCHANGED <<now, reached, up, timeValid, lock, task, file, blob, commands, resets,
                 wish, early, stale>>

-----------------------------------------------------------------------------
(* Saving, with the mutex held.                                            *)

Loading(c) == cmd[c].op \in {"boot", "reload"}

\* A change that could not be saved is taken back and the command fails.
RollBack(c) ==
  /\ entries' = [entries EXCEPT ![cmd[c].id] = cmd[c].old]
  /\ Finish(c)

\* cap_scheduler_write_file opens the file with "wb", which empties it.
OpenDefs(c) ==
  /\ cmd[c].pc = "defs"
  /\ file' = [file EXCEPT !.torn = TRUE]
  /\ Goto(c, "write")
  /\ UNCHANGED <<now, reached, up, entries, timeValid, lock, task, blob, commands, resets, history>>

WriteDefs(c) ==
  /\ cmd[c].pc = "write"
  /\ file' = [items |-> ItemsOf(entries), torn |-> FALSE]
  /\ stale' = stale \ {"defs"}
  /\ Goto(c, IF Loading(c) THEN "merge" ELSE "state")
  /\ UNCHANGED <<now, reached, up, entries, timeValid, lock, task, blob, commands, resets,
                 wish, plan, early>>

\* The file cannot be opened, or not be written to its end.  Loading goes on without.
SaveDefsFails(c) ==
  /\ SaveCanFail
  /\ cmd[c].pc \in {"defs", "write"}
  /\ stale' = IF cmd[c].pc = "write" THEN stale \cup {"defs"} ELSE stale
  /\ IF Loading(c) THEN Goto(c, "merge") /\ UNCHANGED <<up, entries, lock>> ELSE RollBack(c)
  /\ UNCHANGED <<now, reached, timeValid, task, file, blob, commands, resets, wish, plan, early>>

\* What the user knows after a command that succeeded: an update leaves a pause alone.
WishAfter(op, old) ==
  CASE op = "pause"  -> "paused"
    [] op = "resume" -> "resumed"
    [] op = "update" -> old
    [] OTHER -> "none"

Wished(c) ==
  wish' = IF cmd[c].id = NoEntry THEN wish
          ELSE [wish EXCEPT ![cmd[c].id] = WishAfter(cmd[c].op, @)]

\* The last thing a client does is to save the run-time state; the boot goes on to sync
\* when the clock has outlived the reset (cap_time_sync_service_start).
Done(c) ==
  IF cmd[c].op = "boot" /\ now >= Epoch
    THEN /\ cmd' = [cmd EXCEPT ![c] = [IdleCmd EXCEPT !.pc = "wait", !.op = "sync"]]
         /\ lock' = "free"
         /\ UNCHANGED up
    ELSE Finish(c)

\* Mutant: a trigger or a sync is not saved.
SaveChangesOnly(c) ==
  /\ cmd[c].pc = "state"
  /\ blob' = IF cmd[c].op \in EntryOps \/ Loading(c) THEN RunTimeOf(entries) ELSE blob
  /\ stale' = stale \ {"state"}
  /\ Wished(c)
  /\ Done(c)
  /\ UNCHANGED <<now, reached, entries, timeValid, task, file, commands, resets, plan, early>>

SaveState(c) ==
  /\ cmd[c].pc = "state"
  /\ blob' = RunTimeOf(entries)
  /\ stale' = stale \ {"state"}
  /\ Wished(c)
  /\ Done(c)
  /\ UNCHANGED <<now, reached, entries, timeValid, task, file, commands, resets, plan, early>>

\* The old blob stays, or it is erased when what was written does not read back: the pauses
\* in it are lost then.  The definitions saved just before are not taken back.
SaveStateFails(c) ==
  /\ SaveCanFail
  /\ cmd[c].pc = "state"
  /\ \E erased \in BOOLEAN :
       /\ blob' = IF erased THEN NoBlob ELSE blob
       /\ wish' = [id \in Ids |-> IF erased \/ id = cmd[c].id THEN "none" ELSE wish[id]]
       /\ stale' = stale \cup
            (IF erased \/ cmd[c].op \notin EntryOps THEN {"state"} ELSE {}) \cup
            (IF cmd[c].op \in EntryOps \ {"pause", "resume"} THEN {"defs"} ELSE {})
  /\ IF cmd[c].op \in EntryOps THEN RollBack(c) ELSE Done(c) /\ UNCHANGED entries
  /\ UNCHANGED <<now, reached, timeValid, task, file, commands, resets, plan, early>>

ClientStep(c) == \/ Load(c) \/ OpenDefs(c) \/ WriteDefs(c) \/ SaveDefsFails(c) \/ LoadState(c)
                 \/ SaveState(c) \/ SaveStateFails(c)

-----------------------------------------------------------------------------
(* The clock and resets.                                                   *)

\* Time passes; the clock does not get valid by itself.  Whoever has the mutex read the clock
\* when he took it or before, so time that passes under the mutex may as well pass after.
Passes ==
  /\ lock = "free"
  /\ now < MaxTime /\ now + 1 # Epoch
  /\ now' = now + 1
  /\ reached' = IF now' >= reached THEN now' ELSE reached
  /\ UNCHANGED <<up, entries, timeValid, lock, task, cmd, file, blob, commands, resets, history>>

\* cap_time_sync_service_task: SNTP sets the clock and the scheduler is told.
SetClock ==
  /\ up = "running" /\ now < Epoch /\ cmd["service"].pc = "idle"
  /\ now' \in reached .. MaxTime
  /\ reached' = now'
  /\ cmd' = [cmd EXCEPT !["service"] = [IdleCmd EXCEPT !.pc = "wait", !.op = "sync"]]
  /\ UNCHANGED <<up, entries, timeValid, lock, task, file, blob, commands, resets, history>>

\* The device is reset; the clock survives unless the power was off.
Reset ==
  /\ up # "dead" /\ resets < MaxResets
  /\ resets' = resets + 1
  /\ now' \in {1, now}
  /\ up' = "booting"
  /\ entries' = [id \in Ids |-> NoEntry]
  /\ timeValid' = FALSE
  /\ lock' = "free"
  /\ task' = IdleTask
  /\ cmd' = [c \in Clients |-> IF c = "service" THEN BootCmd ELSE IdleCmd]
  /\ stale' = {}
  /\ UNCHANGED <<reached, file, blob, commands, wish, plan, early>>

Next == \/ TaskStep
        \/ UserBegins \/ Apply \/ Trigger \/ Sync
        \/ \E c \in Clients : ClientStep(c)
        \/ Passes \/ SetClock \/ Reset

Spec == Init /\ [][Next]_vars

-----------------------------------------------------------------------------
(* Properties.                                                             *)

\* The type of the state.  "running" is never left behind: an entry that was published gets
\* its new status before the mutex is given back.
TypeOK ==
  /\ \A id \in Present : entries[id] \in EntryType
  /\ Cardinality(Present) <= MaxItems
  /\ lock \in {"free", "task"} \cup Clients
  /\ lock = "task" <=> task.pc = "firing"
  /\ \A c \in Clients : lock = c <=> cmd[c].pc \in {"defs", "write", "merge", "state"}
  /\ up \in {"booting", "running", "dead"}

\* Entries that need the wall clock fire only when it has been synchronized since the boot,
\* although next_fire_ms outlives resets and the clock may be right before the sync.  One in
\* error keeps the time it had: a paused entry whose trigger failed may be one of them.
NothingEarly == early = {}

\* No time of a plan is fired twice, neither in one boot nor across a reset, as long as nobody
\* changes the entry: whoever fires, misses, syncs or loads an entry leaves it waiting for a
\* time after the last one it was fired for.  A paused entry is never due.  A cron plan whose
\* last time has been fired is left out: it goes into error with the time it had.
NoTimeTwice ==
  \A id \in Present :
    LET e == entries[id]
    IN NeedsTime(e.item) /\ e.status # "paused" /\ plan[id] > 0 =>
         \/ e.next = Never
         \/ e.next > plan[id]
         \/ e.item.kind = "cron" /\ \A t \in e.item.times : t <= plan[id]

\* A pause that returned ESP_OK holds, through syncs, reloads and resets, until the user
\* gives another command that ends it.
PauseHolds ==
  up = "running" /\ lock = "free" =>
    \A id \in Present : wish[id] = "paused" => entries[id].status = "paused"

\* What is in flash is what is in memory whenever the mutex is free, unless a save failed;
\* in particular a command that failed to save leaves no trace in memory.
FlashAgrees ==
  up = "running" /\ lock = "free" =>
    /\ "defs" \notin stale => ~file.torn /\ file.items = ItemsOf(entries)
    /\ "state" \notin stale => blob = RunTimeOf(entries)

\* A reset forgets one run of an entry at most, as the run-time state is saved after each
\* firing, unless that save failed.
OneRunAtRisk ==
  "state" \notin stale =>
    \A id \in Present : blob[id] # NoEntry => entries[id].runs <= blob[id].runs + 1

\* A resume that returned ESP_OK ends the pause.
ResumeTakesEffect ==
  up = "running" /\ lock = "free" =>
    \A id \in Present : wish[id] = "resumed" => entries[id].status # "paused"

\* The device comes up again after a reset.
BootSucceeds == up # "dead"
=============================================================================
