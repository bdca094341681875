--------------------------- MODULE SchedulerProofs ---------------------------
(***************************************************************************)
(* Proofs about Scheduler, for any ids, definitions, commands, times and   *)
(* numbers of resets.                                                      *)
(***************************************************************************)
EXTENDS Scheduler, FiniteSetTheorems, SlotLemmas, TLAPS

UserOps == {"add", "update", "remove", "enable", "disable", "pause", "resume", "trigger",
            "reload"}

Holding == {"defs", "write", "merge", "state"}

CmdType == [pc : {"idle", "wait"} \cup Holding, op : UserOps \cup {"none", "boot", "sync"},
            id : Ids \cup {NoEntry}, item : Definitions \cup {NoEntry}, at : Int,
            old : EntryType \cup {NoEntry}]

TaskType == [pc : {"asleep", "ready", "firing"}, at : Int, todo : SUBSET Ids]

\* The types of the state.
TypeInv ==
  /\ now \in Nat /\ reached \in Nat
  /\ up \in {"booting", "running", "dead"}
  /\ entries \in [Ids -> EntryType \cup {NoEntry}]
  /\ timeValid \in BOOLEAN
  /\ lock \in {"free", "task"} \cup Clients
  /\ task \in TaskType
  /\ task.pc # "asleep" => task.at \in Nat
  /\ cmd \in [Clients -> CmdType]
  /\ file \in [items : [Ids -> Definitions \cup {NoEntry}], torn : BOOLEAN]
  /\ blob \in [Ids -> RunTimeType \cup {NoEntry}]
  /\ wish \in [Ids -> {"none", "paused", "resumed"}]

\* An entry that the clock has not been set for is not due.
Waits(e) == NeedsTime(e.item) /\ e.status \notin {"error", "paused"} => e.next = Never

-----------------------------------------------------------------------------
(* What is done to one entry.                                              *)

\* The next time is a number.
LEMMA NextFireType ==
  ASSUME NEW item \in Definitions, NEW runs \in Nat, NEW anchor \in Int
  PROVE  NextFire(item, runs, anchor) \in Int
<1>1. CASE item.kind = "once"
  BY <1>1 DEF NextFire, NextOfKind, Never, Definitions
<1>2. CASE item.kind = "interval"
  <2>1. item.start \in Int /\ item.interval \in Int /\ item.interval > 0
    BY <1>2 DEF Definitions
  <2>2. After(item.start, item.interval, anchor) \in Int
    BY <2>1 DEF After
  <2> QED
    BY <1>2, <2>1, <2>2 DEF NextFire, NextOfKind, Never
<1>3. CASE item.kind = "cron"
  <2> DEFINE times == {t \in item.times : t > anchor}
  <2>1. times \in SUBSET Nat
    BY DEF Definitions
  <2>2. times # {} => Min(times) \in Nat
    <3> HIDE DEF times
    <3> QED
      BY <2>1, MinIsLeast
  <2>3. NextOfKind(item, anchor) \in Int
    BY <1>3, <2>2 DEF NextOfKind, Failed
  <2> QED
    BY <2>3 DEF NextFire, Never
<1> QED
  BY <1>1, <1>2, <1>3 DEF Definitions

\* Refreshing keeps all but the status and the next time, and leaves nothing due that
\* needs a clock that is not valid.
LEMMA RefreshFacts ==
  ASSUME NEW e \in [item : Definitions, status : Statuses \cup {"running"}, next : Int,
                    last : Nat, runs : Nat],
         NEW anchor \in Int, NEW valid \in BOOLEAN
  PROVE  LET r == Refresh(e, anchor, valid)
         IN  /\ r \in EntryType
             /\ r.item = e.item /\ r.runs = e.runs /\ r.last = e.last
             /\ ~valid => Waits(r)
<1> DEFINE t == NextFire(e.item, e.runs, anchor)
           r == Refresh(e, anchor, valid)
<1>1. t \in Int
  BY NextFireType
<1>2. \/ e.item.enabled /\ e.status = "paused" /\ r = e
      \/ r = [e EXCEPT !.status = "error"] /\ ~(~valid /\ NeedsTime(e.item))
      \/ \E s \in {"disabled", "scheduled", "completed"} :
            \/ r = [e EXCEPT !.status = s, !.next = Never]
            \/ r = [e EXCEPT !.status = s, !.next = t] /\ ~(~valid /\ NeedsTime(e.item))
  <2>1. CASE ~e.item.enabled
    BY <2>1 DEF Refresh
  <2>2. CASE e.item.enabled /\ e.status = "paused"
    BY <2>2 DEF Refresh
  <2>3. CASE e.item.enabled /\ e.status # "paused" /\ ~valid /\ NeedsTime(e.item)
    BY <2>3 DEF Refresh
  <2>4. CASE e.item.enabled /\ e.status # "paused" /\ ~(~valid /\ NeedsTime(e.item))
    <3>1. r = CASE t = Failed -> [e EXCEPT !.status = "error"]
                [] t = Never  -> [e EXCEPT !.status = "completed", !.next = Never]
                [] OTHER      -> [e EXCEPT !.status = "scheduled", !.next = t]
      BY <2>4 DEF Refresh
    <3>2. CASE t = Failed
      BY <2>4, <3>1, <3>2 DEF Failed, Never
    <3>3. CASE t = Never
      BY <2>4, <3>1, <3>3 DEF Failed, Never
    <3>4. CASE t # Failed /\ t # Never
      BY <2>4, <3>1, <3>4
    <3> QED
      BY <3>2, <3>3, <3>4
  <2> QED
    BY <2>1, <2>2, <2>3, <2>4
<1> HIDE DEF t, r
<1>3. ASSUME NEW s \in {"disabled", "scheduled", "completed"}, NEW n \in Int,
             r = [e EXCEPT !.status = s, !.next = n]
      PROVE  r \in EntryType /\ r.item = e.item /\ r.runs = e.runs /\ r.last = e.last
             /\ r.next = n
  BY <1>3 DEF EntryType, Statuses
<1>4. ASSUME r = [e EXCEPT !.status = "error"]
      PROVE  r \in EntryType /\ r.item = e.item /\ r.runs = e.runs /\ r.last = e.last
             /\ r.status = "error"
  BY <1>4 DEF EntryType, Statuses
<1>5. CASE r = e /\ e.status = "paused"
  BY <1>5 DEF EntryType, Statuses, Waits, r
<1>6. CASE r = [e EXCEPT !.status = "error"]
  BY <1>4, <1>6 DEF Waits, r
<1>7. ASSUME NEW s \in {"disabled", "scheduled", "completed"},
             r = [e EXCEPT !.status = s, !.next = Never]
      PROVE  r \in EntryType /\ r.item = e.item /\ r.runs = e.runs /\ r.last = e.last /\ Waits(r)
  <2>1. Never \in Int
    BY DEF Never
  <2> QED
    BY <2>1, <1>3, <1>7 DEF Waits
<1>8. ASSUME NEW s \in {"disabled", "scheduled", "completed"},
             r = [e EXCEPT !.status = s, !.next = t], ~(~valid /\ NeedsTime(e.item))
      PROVE  r \in EntryType /\ r.item = e.item /\ r.runs = e.runs /\ r.last = e.last
             /\ (~valid => Waits(r))
  BY <1>1, <1>3, <1>8 DEF Waits
<1> QED
  BY <1>2, <1>5, <1>6, <1>7, <1>8 DEF r

\* Publishing an entry counts one run at most.
LEMMA PublishedFacts ==
  ASSUME NEW e \in EntryType, NEW immediate \in BOOLEAN, NEW t \in Nat, NEW sent \in BOOLEAN,
         timeValid \in BOOLEAN
  PROVE  LET p == Published(e, immediate, t, sent)
         IN  /\ p \in EntryType
             /\ p.item = e.item /\ p.runs \in {e.runs, e.runs + 1}
             /\ ~timeValid => Waits(p)
<1> DEFINE p == Published(e, immediate, t, sent)
           fired == [e EXCEPT !.status = "running", !.last = t]
           done == [fired EXCEPT !.runs = @ + 1]
           anchor == IF immediate THEN t ELSE Planned(e, immediate, t)
           Open == [item : Definitions, status : Statuses \cup {"running"}, next : Int,
                    last : Nat, runs : Nat]
<1>0. fired \in Open /\ fired.item = e.item /\ fired.runs = e.runs
  BY DEF EntryType, Statuses
<1>1. /\ fired \in Open /\ fired.item = e.item /\ fired.runs = e.runs
      /\ done \in Open /\ done.item = e.item /\ done.runs = e.runs + 1
  <2> HIDE DEF fired
  <2>1. done = [fired EXCEPT !.runs = fired.runs + 1] /\ e.runs + 1 \in Nat
    BY DEF EntryType
  <2> QED
    BY <1>0, <2>1
<1>2. anchor \in Int
  BY DEF Planned, EntryType
<1>3. CASE ~sent
  <2>1. p = [fired EXCEPT !.status = "error"]
    BY <1>3 DEF Published
  <2> HIDE DEF p, fired
  <2>2. p \in EntryType /\ p.status = "error" /\ p.item = fired.item /\ p.runs = fired.runs
    BY <2>1, <1>1 DEF EntryType, Statuses
  <2> QED
    BY <2>2, <1>1 DEF Waits, p
<1>4. CASE sent /\ e.item.kind = "once"
  <2>1. p = [done EXCEPT !.status = "completed", !.next = Never]
    BY <1>4 DEF Published
  <2> HIDE DEF p, done, fired
  <2>2. Never \in Int
    BY DEF Never
  <2>3. p \in EntryType /\ p.next = Never /\ p.item = done.item /\ p.runs = done.runs
    BY <2>1, <2>2, <1>1 DEF EntryType, Statuses
  <2> QED
    BY <2>3, <1>1 DEF Waits, p
<1>5. CASE sent /\ e.item.kind # "once"
  <2>1. p = Refresh(done, anchor, timeValid)
    BY <1>5 DEF Published
  <2> HIDE DEF p, done, fired, anchor
  <2>2. /\ p \in EntryType /\ p.item = done.item /\ p.runs = done.runs
        /\ ~timeValid => Waits(p)
    BY <2>1, <1>1, <1>2, RefreshFacts
  <2> QED
    BY <2>2, <1>1 DEF p
<1> QED
  BY <1>3, <1>4, <1>5

\* A new entry is not due.
LEMMA NewEntryFacts ==
  ASSUME NEW item \in Definitions
  PROVE  /\ NewEntry(item) \in EntryType /\ NewEntry(item).item = item
         /\ NewEntry(item).runs = 0 /\ Waits(NewEntry(item))
<1>1. item.enabled \in BOOLEAN /\ Never \in Int
  BY DEF Definitions, Never
<1> QED
  BY <1>1 DEF NewEntry, EntryType, Statuses, Waits

\* What each command leaves alone.
LEMMA ChangedFacts ==
  ASSUME NEW op \in EntryOps, NEW e \in EntryType \cup {NoEntry}, NEW item \in Definitions \cup {NoEntry},
         NEW anchor \in Int, timeValid \in BOOLEAN,
         op # "add" => e \in EntryType, op \in {"add", "update"} => item \in Definitions
  PROVE  LET c == Changed(op, e, item, anchor)
         IN  /\ op = "remove" => c = NoEntry
             /\ op # "remove" => c \in EntryType
             /\ ~timeValid /\ op # "remove" /\ (op # "add" => Waits(e)) => Waits(c)
             /\ op \in {"pause", "resume"} => c.item = e.item
             /\ op = "pause" => c.status = "paused"
             /\ op = "update" /\ e.status = "paused" => c.status = "paused"
             /\ op = "add" => c.runs = 0
             /\ op \notin {"add", "remove"} => c.runs = e.runs
<1> DEFINE c == Changed(op, e, item, anchor)
           Open == [item : Definitions, status : Statuses \cup {"running"}, next : Int,
                    last : Nat, runs : Nat]
<1>0. EntryType \subseteq Open
  BY DEF EntryType, Statuses
<1>r. ASSUME NEW x \in EntryType
      PROVE  LET r == Refresh(x, anchor, timeValid)
             IN  r \in EntryType /\ r.item = x.item /\ r.runs = x.runs
                 /\ (~timeValid => Waits(r))
  BY <1>0, RefreshFacts
<1>1. CASE op = "add"
  <2>1. c = Refresh(NewEntry(item), anchor, timeValid)
    BY <1>1 DEF Changed
  <2> QED
    BY <1>1, <1>r, <2>1, NewEntryFacts
<1>2. CASE op = "update" /\ e.status = "paused"
  <2>1. c = [e EXCEPT !.item = item]
    BY <1>2 DEF Changed
  <2>2. c \in EntryType /\ c.status = "paused" /\ c.runs = e.runs
    BY <1>2, <2>1 DEF EntryType
  <2> QED
    BY <1>2, <2>2 DEF Waits
<1>3. CASE op = "update" /\ e.status # "paused"
  <2> DEFINE x == [e EXCEPT !.item = item]
  <2>1. c = Refresh(x, anchor, timeValid)
    BY <1>3 DEF Changed
  <2>2. x \in EntryType /\ x.runs = e.runs
    BY <1>3 DEF EntryType
  <2> HIDE DEF x
  <2> QED
    BY <1>3, <1>r, <2>1, <2>2
<1>4. CASE op = "remove"
  BY <1>4 DEF Changed
<1>5. CASE op \in {"enable", "disable"}
  <2>1. PICK b \in BOOLEAN, s \in {"scheduled", "disabled"} :
          c = Refresh([e EXCEPT !.item.enabled = b, !.status = s], anchor, timeValid)
    BY <1>5 DEF Changed
  <2> DEFINE x == [e EXCEPT !.item.enabled = b, !.status = s]
  <2>2. x = [e EXCEPT !.item = [e.item EXCEPT !.enabled = b], !.status = s]
    BY <1>5 DEF EntryType
  <2>3. [e.item EXCEPT !.enabled = b] \in Definitions
    <3>1. e.item \in Definitions
      BY <1>5 DEF EntryType
    <3> QED
      BY <3>1 DEF Definitions
  <2>4. x \in EntryType /\ x.runs = e.runs
    BY <1>5, <2>2, <2>3 DEF EntryType, Statuses
  <2> HIDE DEF x
  <2> QED
    BY <1>5, <1>r, <2>1, <2>4 DEF x
<1>6. CASE op = "pause"
  <2>1. c = [e EXCEPT !.status = "paused"]
    BY <1>6 DEF Changed
  <2>2. c \in EntryType /\ c.status = "paused" /\ c.runs = e.runs /\ c.item = e.item
    BY <1>6, <2>1 DEF EntryType, Statuses
  <2> QED
    BY <1>6, <2>2 DEF Waits
<1>7. CASE op = "resume"
  <2>1. c = Refresh(e, anchor, timeValid)
    BY <1>7 DEF Changed
  <2> QED
    BY <1>7, <1>r, <2>1
<1> QED
  BY <1>1, <1>2, <1>3, <1>4, <1>5, <1>6, <1>7 DEF EntryOps

\* A sync keeps pauses.
LEMMA SyncedFacts ==
  ASSUME NEW e \in EntryType, now \in Nat
  PROVE  /\ Synced(e) \in EntryType /\ Synced(e).item = e.item /\ Synced(e).runs = e.runs
         /\ e.status = "paused" => Synced(e).status = "paused"
<1> DEFINE x == IF ~timeValid /\ ~NeedsTime(e.item) THEN [e EXCEPT !.last = 0, !.next = Never]
                                                   ELSE e
<1>1. x \in EntryType /\ x.item = e.item /\ x.runs = e.runs /\ x.status = e.status
  <2>1. Never \in Int
    BY DEF Never
  <2>2. CASE x = e
    BY <2>2
  <2>3. CASE x = [e EXCEPT !.last = 0, !.next = Never]
    BY <2>1, <2>3 DEF EntryType
  <2> QED
    BY <2>2, <2>3
<1>2. Synced(e) = IF e.status = "paused" THEN x ELSE Refresh(x, now, TRUE)
  BY DEF Synced
<1> HIDE DEF x
<1>3. CASE e.status = "paused"
  BY <1>1, <1>2, <1>3
<1>4. CASE e.status # "paused"
  <2>1. x \in [item : Definitions, status : Statuses \cup {"running"}, next : Int,
               last : Nat, runs : Nat]
    BY <1>1 DEF EntryType, Statuses
  <2> DEFINE r == Refresh(x, now, TRUE)
  <2>2. TRUE \in BOOLEAN /\ now \in Int
    OBVIOUS
  <2>3. r \in EntryType /\ r.item = x.item /\ r.runs = x.runs
    BY <2>1, <2>2, RefreshFacts
  <2> QED
    BY <1>1, <1>2, <1>4, <2>3
<1> QED
  BY <1>3, <1>4

\* What loading the run-time state makes of a new entry
Loaded(e, rt, at) ==
  LET m == Merge(e, rt)
  IN IF m.status = "paused" THEN m
     ELSE Refresh(m, IF m.last > 0 THEN m.last ELSE at, timeValid)

\* The saved run-time state is taken over, and nothing becomes due without a valid clock.
LEMMA LoadedFacts ==
  ASSUME NEW e \in EntryType, NEW rt \in RunTimeType \cup {NoEntry}, NEW at \in Int,
         timeValid \in BOOLEAN, NoEntry \notin RunTimeType
  PROVE  LET l == Loaded(e, rt, at)
         IN  /\ l \in EntryType /\ l.item = e.item
             /\ l.runs = IF rt = NoEntry THEN e.runs ELSE rt.runs
             /\ rt # NoEntry /\ rt.status = "paused" => l.status = "paused"
             /\ ~timeValid => Waits(l)
<1> DEFINE m == Merge(e, rt)
           l == Loaded(e, rt, at)
<1>1. /\ m \in EntryType /\ m.item = e.item
      /\ m.runs = (IF rt = NoEntry THEN e.runs ELSE rt.runs)
      /\ rt # NoEntry => m.status = rt.status
  <2>1. CASE rt = NoEntry
    BY <2>1 DEF Merge
  <2>2. CASE rt # NoEntry
    <3>1. m = [e EXCEPT !.status = rt.status, !.next = rt.next, !.last = rt.last,
                        !.runs = rt.runs]
      BY <2>2 DEF Merge
    <3> QED
      BY <2>2, <3>1 DEF EntryType, RunTimeType
  <2> QED
    BY <2>1, <2>2
<1>2. l = IF m.status = "paused" THEN m
          ELSE Refresh(m, IF m.last > 0 THEN m.last ELSE at, timeValid)
  BY DEF Loaded
<1> HIDE DEF m, l
<1>3. CASE m.status = "paused"
  <2>1. l = m
    BY <1>2, <1>3
  <2> QED
    BY <1>1, <1>3, <2>1 DEF Waits, l
<1>4. CASE m.status # "paused"
  <2>1. m \in [item : Definitions, status : Statuses \cup {"running"}, next : Int,
               last : Nat, runs : Nat]
    BY <1>1 DEF EntryType, Statuses
  <2>2. (IF m.last > 0 THEN m.last ELSE at) \in Int
    BY <1>1 DEF EntryType
  <2>3. /\ l \in EntryType /\ l.item = m.item /\ l.runs = m.runs
        /\ ~timeValid => Waits(l)
    BY <1>2, <1>4, <2>1, <2>2, RefreshFacts
  <2> QED
    BY <1>1, <1>4, <2>3 DEF l
<1> QED
  BY <1>3, <1>4

-----------------------------------------------------------------------------
(* Who acts when.                                                          *)

\* A command's arguments, and the places it passes.
CommandOK(k) ==
  /\ k.op = "none" <=> k.pc = "idle"
  /\ k.op \in {"none", "boot", "sync", "reload"} => k.id = NoEntry
  /\ k.op \in EntryOps \cup {"trigger"} => k.id \in Ids
  /\ k.op \in {"add", "update"} => k.item \in Definitions
  /\ k.pc \in {"defs", "write"} =>
       k.op \in (EntryOps \ {"pause", "resume"}) \cup {"boot", "reload"}
  /\ k.pc = "merge" => k.op \in {"boot", "reload"}

\* The mutex is held by whoever is past taking it; before the services run, and when the
\* boot has failed, there is only the boot.
ControlInv ==
  /\ lock = "task" <=> task.pc = "firing"
  /\ task.pc = "firing" =>
       \A id \in task.todo : id \in Present /\ Due(entries[id], task.at)
  /\ \A c \in Clients : lock = c <=> cmd[c].pc \in Holding
  /\ \A c \in Clients : CommandOK(cmd[c])
  /\ cmd["user"].op \in UserOps \cup {"none"}
  /\ cmd["service"].op \in {"none", "boot", "sync"}
  /\ up # "running" => task.pc = "asleep" /\ cmd["user"].op = "none"
  /\ up = "running" => cmd["service"].op # "boot"
  /\ up = "booting" => cmd["service"].op # "none"
  /\ up = "dead" => lock = "free" /\ file.torn /\ cmd["service"].op = "boot"

\* The command of a client at a place.
LEMMA PlaceFacts ==
  ASSUME cmd \in [Clients -> CmdType], NEW c \in Clients,
         NEW place \in {"idle", "wait"} \cup Holding
  PROVE  LET g == [cmd EXCEPT ![c].pc = place]
         IN  /\ g \in [Clients -> CmdType]
             /\ g[c].pc = place /\ g[c].op = cmd[c].op /\ g[c].id = cmd[c].id
             /\ g[c].item = cmd[c].item /\ g[c].at = cmd[c].at /\ g[c].old = cmd[c].old
             /\ \A d \in Clients : d # c => g[d] = cmd[d]
<1> DEFINE k == [cmd[c] EXCEPT !.pc = place]
           g == [cmd EXCEPT ![c].pc = place]
<1>1. /\ k \in CmdType /\ k.pc = place /\ k.op = cmd[c].op /\ k.id = cmd[c].id
      /\ k.item = cmd[c].item /\ k.at = cmd[c].at /\ k.old = cmd[c].old
  <2>1. cmd[c] \in CmdType
    OBVIOUS
  <2> QED
    BY <2>1 DEF CmdType
<1>2. g = [cmd EXCEPT ![c] = k]
  OBVIOUS
<1> HIDE DEF k, g
<1>3. g \in [Clients -> CmdType] /\ g[c] = k /\ \A d \in Clients : d # c => g[d] = cmd[d]
  BY <1>1, <1>2
<1> QED
  BY <1>1, <1>3 DEF g

\* Clients that do nothing, and those that wait to boot or to sync.
LEMMA IdleFacts ==
  LET sync == [IdleCmd EXCEPT !.pc = "wait", !.op = "sync"]
  IN  /\ IdleCmd \in CmdType /\ CommandOK(IdleCmd)
      /\ IdleCmd.pc = "idle" /\ IdleCmd.op = "none" /\ IdleCmd.old = NoEntry
      /\ BootCmd \in CmdType /\ CommandOK(BootCmd)
      /\ BootCmd.pc = "wait" /\ BootCmd.op = "boot" /\ BootCmd.old = NoEntry
      /\ sync \in CmdType /\ CommandOK(sync)
      /\ sync.pc = "wait" /\ sync.op = "sync" /\ sync.old = NoEntry
<1>1. /\ IdleCmd \in CmdType /\ IdleCmd.pc = "idle" /\ IdleCmd.op = "none"
      /\ IdleCmd.id = NoEntry /\ IdleCmd.old = NoEntry
  BY DEF IdleCmd, CmdType
<1>2. ASSUME NEW op \in {"boot", "sync"}
      PROVE  LET k == [IdleCmd EXCEPT !.pc = "wait", !.op = op]
             IN  /\ k \in CmdType /\ k.pc = "wait" /\ k.op = op /\ k.id = NoEntry
                 /\ k.old = NoEntry /\ CommandOK(k)
  <2> DEFINE k == [IdleCmd EXCEPT !.pc = "wait", !.op = op]
  <2>1. k \in CmdType /\ k.pc = "wait" /\ k.op = op /\ k.id = NoEntry /\ k.old = NoEntry
    BY <1>1 DEF CmdType
  <2> QED
    BY <2>1 DEF CommandOK, EntryOps
<1> QED
  BY <1>1, <1>2 DEF CommandOK, EntryOps, BootCmd

\* A client that is done is idle, and the mutex free.
LEMMA FinishFacts ==
  ASSUME cmd \in [Clients -> CmdType], NEW c \in Clients, Finish(c)
  PROVE  /\ cmd' \in [Clients -> CmdType] /\ lock' = "free" /\ up' = "running"
         /\ cmd'[c] = IdleCmd /\ \A d \in Clients : d # c => cmd'[d] = cmd[d]
BY IdleFacts DEF Finish

\* So is one that has saved the run-time state, unless it still has to sync.
LEMMA DoneFacts ==
  ASSUME cmd \in [Clients -> CmdType], NEW c \in Clients, Done(c), now \in Nat
  PROVE  /\ cmd' \in [Clients -> CmdType] /\ lock' = "free"
         /\ \A d \in Clients : d # c => cmd'[d] = cmd[d]
         /\ \/ cmd'[c] = IdleCmd /\ up' = "running"
            \/ cmd[c].op = "boot" /\ up' = up
                 /\ cmd'[c] = [IdleCmd EXCEPT !.pc = "wait", !.op = "sync"]
<1>1. CASE cmd[c].op = "boot" /\ now >= Epoch
  BY <1>1, IdleFacts DEF Done
<1>2. CASE ~(cmd[c].op = "boot" /\ now >= Epoch)
  BY <1>2, FinishFacts DEF Done
<1> QED
  BY <1>1, <1>2

\* The first boot.
LEMMA InitTypes == Init => TypeInv /\ ControlInv
<1> SUFFICES ASSUME Init PROVE TypeInv /\ ControlInv
  OBVIOUS
<1> USE SchedulerAssumption DEF SchedulerAssumption, Init
<1>1. /\ cmd \in [Clients -> CmdType] /\ \A c \in Clients : CommandOK(cmd[c])
      /\ cmd["user"] = IdleCmd /\ cmd["service"] = BootCmd
  BY IdleFacts DEF Clients
<1>2. task \in TaskType /\ task.pc = "asleep"
  BY DEF IdleTask, TaskType
<1>3. file \in [items : [Ids -> Definitions \cup {NoEntry}], torn : BOOLEAN]
  <2>1. Shipped \subseteq Definitions \cup {NoEntry}
    OBVIOUS
  <2>2. [Ids -> Shipped] \subseteq [Ids -> Definitions \cup {NoEntry}]
    BY <2>1
  <2> QED
    BY <2>2
<1>4. TypeInv
  BY <1>1, <1>2, <1>3 DEF TypeInv, Clients, NoBlob
<1>5. ControlInv
  BY <1>1, <1>2, IdleFacts DEF ControlInv, Clients, Holding, UserOps
<1> QED
  BY <1>4, <1>5

\* Every step of the scheduler's task keeps the types.
LEMMA TaskTypes ==
  ASSUME TypeInv, ControlInv, TaskStep
  PROVE  TypeInv'
<1> USE DEF TypeInv
<1>1. CASE WakeUp
  <2>1. /\ task' = [task EXCEPT !.pc = "ready", !.at = now]
        /\ UNCHANGED <<now, reached, up, entries, timeValid, lock, cmd, file, blob, wish>>
    BY <1>1 DEF WakeUp, history
  <2>2. task' \in TaskType /\ task'.at = now
    <3>1. task \in TaskType /\ now \in Int
      OBVIOUS
    <3> HIDE DEF TypeInv
    <3> QED
      BY <2>1, <3>1 DEF TaskType
  <2> QED
    BY <2>1, <2>2
<1>2. CASE TakeLock
  <2>1. /\ UNCHANGED <<now, reached, up, entries, timeValid, cmd, file, blob, wish>>
        /\ lock' \in {lock, "task"}
        /\ task.pc = "ready"
    BY <1>2 DEF TakeLock, history
  <2>2. task' \in TaskType /\ task'.at = task.at
    <3>1. \/ task' = [task EXCEPT !.pc = "asleep"]
          \/ \E due \in SUBSET Ids : task' = [task EXCEPT !.pc = "firing", !.todo = due]
      <4> DEFINE due == {id \in Present : Due(entries[id], task.at)}
      <4>1. due \in SUBSET Ids
        BY DEF Present
      <4>2. \/ task' = [task EXCEPT !.pc = "asleep"]
            \/ task' = [task EXCEPT !.pc = "firing", !.todo = due]
        BY <1>2 DEF TakeLock
      <4> HIDE DEF due
      <4> QED
        BY <4>1, <4>2
    <3> QED
      BY <3>1 DEF TaskType
  <2> QED
    BY <2>1, <2>2
<1>3. ASSUME NEW id \in Ids, Miss(id) \/ Fire(id) PROVE TypeInv'
  <2>1. /\ task' = [task EXCEPT !.todo = task.todo \ {id}]
        /\ UNCHANGED <<now, reached, up, timeValid, lock, cmd, file, blob, wish>>
        /\ task.pc = "firing" /\ id \in task.todo
    BY <1>3 DEF Miss, Fire, history
  <2>2. /\ task' \in TaskType /\ task'.at = task.at /\ task.at \in Nat
    BY <2>1 DEF TaskType
  <2>3. entries[id] \in EntryType
    BY <2>1 DEF ControlInv, Present
  <2>4. entries' \in [Ids -> EntryType \cup {NoEntry}]
    <3>1. CASE Miss(id)
      <4> DEFINE r == Refresh(entries[id], task.at, timeValid)
      <4>1. entries[id] \in [item : Definitions, status : Statuses \cup {"running"}, next : Int,
                             last : Nat, runs : Nat]
        BY <2>3 DEF EntryType
      <4>2. r \in EntryType
        BY <2>2, <4>1, RefreshFacts
      <4>3. entries' = [entries EXCEPT ![id] = r]
        BY <3>1 DEF Miss
      <4> HIDE DEF r
      <4> QED
        BY <4>2, <4>3
    <3>2. CASE Fire(id)
      <4>1. PICK sent \in BOOLEAN :
              entries' = [entries EXCEPT ![id] = Published(entries[id], FALSE, task.at, sent)]
        BY <3>2, SchedulerAssumption DEF Fire, SchedulerAssumption
      <4>2. Published(entries[id], FALSE, task.at, sent) \in EntryType
        BY <2>2, <2>3, PublishedFacts
      <4> QED
        BY <4>1, <4>2
    <3> QED
      BY <1>3, <3>1, <3>2
  <2> QED
    BY <2>1, <2>2, <2>4
<1>4. CASE SaveFired
  <2>1. /\ task' = [task EXCEPT !.pc = "asleep"] /\ lock' = "free"
        /\ UNCHANGED <<now, reached, up, entries, timeValid, cmd, file, wish>>
        /\ blob' = RunTimeOf(entries) \/ blob' = blob
    BY <1>4 DEF SaveFired
  <2>2. task' \in TaskType /\ task'.pc = "asleep"
    BY <2>1 DEF TaskType
  <2>3. RunTimeOf(entries) \in [Ids -> RunTimeType \cup {NoEntry}]
    BY DEF RunTimeOf, RunTime, RunTimeType, EntryType
  <2> QED
    BY <2>1, <2>2, <2>3
<1> QED
  BY <1>1, <1>2, <1>3, <1>4 DEF TaskStep

\* The commands that users give have the arguments they need.
LEMMA BeginFacts ==
  ASSUME UserBegins
  PROVE  \E op \in UserOps, id \in Ids \cup {NoEntry}, item \in Definitions \cup {NoEntry} :
           /\ Begin(op, id, item)
           /\ op = "reload" => id = NoEntry
           /\ op # "reload" => id \in Ids
           /\ op \in {"add", "update"} => item \in Definitions
<1>0. Items \subseteq Definitions /\ Ops \subseteq UserOps
  BY SchedulerAssumption DEF SchedulerAssumption, UserOps
<1>1. PICK op \in Ops :
        CASE op = "reload" -> Begin(op, NoEntry, NoEntry)
          [] op \in {"add", "update"} -> \E id \in Ids, item \in Items : Begin(op, id, item)
          [] OTHER -> \E id \in Ids : Begin(op, id, NoEntry)
  BY DEF UserBegins
<1>2. CASE op = "reload"
  BY <1>0, <1>1, <1>2
<1>3. CASE op \in {"add", "update"}
  <2>1. PICK id \in Ids, item \in Items : Begin(op, id, item)
    BY <1>1, <1>3
  <2> QED
    BY <1>0, <1>3, <2>1
<1>4. CASE op \notin {"reload", "add", "update"}
  <2>1. PICK id \in Ids : Begin(op, id, NoEntry)
    BY <1>1, <1>4
  <2> QED
    BY <1>0, <1>4, <2>1
<1> QED
  BY <1>2, <1>3, <1>4

\* What a command does when it has got the mutex.
LEMMA ApplyFacts ==
  ASSUME TypeInv, ControlInv, Apply
  PROVE  LET u == cmd["user"]
         IN  /\ u.op \in EntryOps /\ u.pc = "wait" /\ u.id \in Ids /\ lock = "free"
             /\ up = "running"
             /\ UNCHANGED <<now, reached, timeValid, task, file, blob, early, stale>>
             /\ \/ Finish("user") /\ UNCHANGED <<entries, plan, wish>>
                \/ /\ ~Refuses(u.op, u.id)
                   /\ lock' = "user" /\ up' = up
                   /\ entries' = [entries EXCEPT ![u.id] = Changed(u.op, entries[u.id], u.item, u.at)]
                   /\ wish' = IF u.op = "add" THEN [wish EXCEPT ![u.id] = "none"] ELSE wish
                   /\ cmd' \in [Clients -> CmdType]
                   /\ cmd'["user"].old = entries[u.id] /\ cmd'["user"].op = u.op
                   /\ cmd'["user"].id = u.id /\ cmd'["user"].item = u.item
                   /\ cmd'["user"].pc = IF u.op \in {"pause", "resume"} THEN "state" ELSE "defs"
                   /\ cmd'["service"] = cmd["service"]
                   /\ u.op = "add" => entries[u.id] = NoEntry /\ u.item \in Definitions
                                      /\ Cardinality(Present) < MaxItems
                   /\ u.op = "update" => u.item \in Definitions
                   /\ u.op # "add" => entries[u.id] \in EntryType
<1> DEFINE u == cmd["user"]
           place == IF u.op \in {"pause", "resume"} THEN "state" ELSE "defs"
           old == entries[u.id]
           k == [u EXCEPT !.old = old, !.pc = place]
<1>1. /\ u.op \in EntryOps /\ u.pc = "wait" /\ lock = "free"
      /\ u \in CmdType /\ CommandOK(u) /\ "user" \in Clients
  BY DEF Apply, TypeInv, ControlInv, Clients
<1>2. u.id \in Ids /\ u.op # "none"
  BY <1>1 DEF CommandOK, EntryOps
<1>3. up = "running"
  BY <1>2 DEF ControlInv
<1>4. UNCHANGED <<now, reached, timeValid, task, file, blob, early, stale>>
  BY DEF Apply
<1>5. CASE Refuses(u.op, u.id)
  <2>1. Finish("user") /\ UNCHANGED <<entries, plan, wish>>
    BY <1>5 DEF Apply
  <2> QED
    BY <1>1, <1>2, <1>3, <1>4, <2>1
<1>6. CASE ~Refuses(u.op, u.id)
  <2>1. /\ lock' = "user" /\ up' = up
        /\ entries' = [entries EXCEPT ![u.id] = Changed(u.op, entries[u.id], u.item, u.at)]
        /\ wish' = IF u.op = "add" THEN [wish EXCEPT ![u.id] = "none"] ELSE wish
        /\ cmd' = [cmd EXCEPT !["user"].old = old, !["user"].pc = place]
    BY <1>6 DEF Apply
  <2>2. old \in EntryType \cup {NoEntry}
    BY <1>2 DEF TypeInv
  <2>3. /\ k \in CmdType /\ k.old = old /\ k.op = u.op /\ k.id = u.id /\ k.item = u.item
        /\ k.pc = place
    BY <1>1, <2>2 DEF CmdType, Holding
  <2>4. cmd \in [Clients -> CmdType] /\ cmd' = [cmd EXCEPT !["user"] = k]
    BY <2>1 DEF TypeInv
  <2> HIDE DEF k
  <2>5. cmd' \in [Clients -> CmdType] /\ cmd'["user"] = k /\ cmd'["service"] = cmd["service"]
    BY <2>3, <2>4 DEF Clients
  <2>6. /\ u.op = "add" => old = NoEntry /\ u.item \in Definitions
                           /\ Cardinality(Present) < MaxItems
        /\ u.op = "update" => u.item \in Definitions
        /\ u.op # "add" => old \in EntryType
    <3>1. Cardinality(Present) \in Nat /\ MaxItems \in Nat
      <4>1. IsFiniteSet(Ids) /\ Present \subseteq Ids
        BY SchedulerAssumption DEF SchedulerAssumption, Present
      <4> QED
        BY <4>1, FS_Subset, FS_CardinalityType, SchedulerAssumption DEF SchedulerAssumption
    <3>2. u.op \in {"add", "update"} => u.item \in Definitions
      BY <1>1 DEF CommandOK
    <3> QED
      BY <1>2, <1>6, <2>2, <3>1, <3>2 DEF Refuses, Present
  <2> QED
    BY <1>1, <1>2, <1>3, <1>4, <1>6, <2>1, <2>3, <2>5, <2>6
<1> QED
  BY <1>5, <1>6

\* What a trigger does.
LEMMA TriggerFacts ==
  ASSUME TypeInv, ControlInv, Trigger
  PROVE  LET u == cmd["user"]
         IN  /\ u.op = "trigger" /\ u.pc = "wait" /\ u.id \in Ids /\ lock = "free"
             /\ up = "running"
             /\ UNCHANGED <<now, reached, timeValid, task, file, blob, wish, early, stale>>
             /\ \/ Finish("user") /\ UNCHANGED <<entries, plan>>
                \/ /\ lock' = "user" /\ up' = up /\ u.id \in Present
                   /\ \E sent \in BOOLEAN :
                        entries' = [entries EXCEPT ![u.id] = Published(entries[u.id], TRUE, now, sent)]
                   /\ Goto("user", "state")
<1>1. /\ cmd["user"].op = "trigger" /\ cmd["user"].pc = "wait" /\ lock = "free"
      /\ CommandOK(cmd["user"])
  BY DEF Trigger, ControlInv, Clients
<1>2. cmd["user"].id \in Ids /\ up = "running"
  BY <1>1 DEF CommandOK, ControlInv
<1>3. UNCHANGED <<now, reached, timeValid, task, file, blob, wish, early, stale>>
  BY DEF Trigger
<1>4. CASE cmd["user"].id \notin Present
  BY <1>1, <1>2, <1>3, <1>4 DEF Trigger
<1>5. CASE cmd["user"].id \in Present
  <2>1. PICK sent \in {TRUE} \cup {~PublishCanFail} :
          entries' = [entries EXCEPT ![cmd["user"].id] =
                        Published(entries[cmd["user"].id], TRUE, now, sent)]
    BY <1>5 DEF Trigger
  <2>2. sent \in BOOLEAN
    BY SchedulerAssumption DEF SchedulerAssumption
  <2>3. lock' = "user" /\ up' = up /\ Goto("user", "state")
    BY <1>5 DEF Trigger
  <2> QED
    BY <1>1, <1>2, <1>3, <1>5, <2>1, <2>2, <2>3
<1> QED
  BY <1>4, <1>5

\* What a client does that reads the definitions.
LEMMA LoadFacts ==
  ASSUME TypeInv, ControlInv, NEW c \in Clients, Load(c)
  PROVE  /\ cmd[c].op \in {"boot", "reload"} /\ cmd[c].pc = "wait" /\ lock = "free"
         /\ UNCHANGED <<now, reached, timeValid, task, file, blob, wish, plan, early, stale>>
         /\ \/ c = "service" /\ up' = "dead" /\ file.torn /\ UNCHANGED <<entries, lock, cmd>>
            \/ c = "user" /\ Finish(c) /\ UNCHANGED entries
            \/ /\ ~file.torn
               /\ entries' = [id \in Ids |-> IF file.items[id] = NoEntry THEN NoEntry
                                             ELSE NewEntry(file.items[id])]
               /\ lock' = c /\ up' = up
               /\ cmd' \in [Clients -> CmdType]
               /\ cmd'[c].op = cmd[c].op /\ cmd'[c].id = cmd[c].id /\ cmd'[c].pc = "defs"
               /\ cmd'[c].old = cmd[c].old /\ cmd'[c].item = cmd[c].item
               /\ \A d \in Clients : d # c => cmd'[d] = cmd[d]
<1>1. /\ cmd[c].op \in {"boot", "reload"} /\ cmd[c].pc = "wait" /\ lock = "free"
      /\ UNCHANGED <<now, reached, timeValid, task, file, blob, wish, plan, early, stale>>
  BY DEF Load, history
<1>2. CASE file.torn
  BY <1>1, <1>2 DEF Load, Clients
<1>3. CASE ~file.torn
  <2> DEFINE k == [cmd[c] EXCEPT !.pc = "defs", !.at = now]
  <2>1. cmd[c] \in CmdType /\ now \in Int
    BY DEF TypeInv
  <2>2. k \in CmdType /\ k.op = cmd[c].op /\ k.id = cmd[c].id /\ k.pc = "defs"
        /\ k.old = cmd[c].old /\ k.item = cmd[c].item
    BY <2>1 DEF CmdType, Holding
  <2>3. cmd \in [Clients -> CmdType] /\ cmd' = [cmd EXCEPT ![c] = k]
    BY <1>3 DEF Load, TypeInv
  <2> HIDE DEF k
  <2>4. /\ cmd' \in [Clients -> CmdType] /\ cmd'[c] = k
        /\ \A d \in Clients : d # c => cmd'[d] = cmd[d]
    BY <2>2, <2>3
  <2>5. /\ entries' = [id \in Ids |-> IF file.items[id] = NoEntry THEN NoEntry
                                      ELSE NewEntry(file.items[id])]
        /\ lock' = c /\ up' = up
    BY <1>3 DEF Load
  <2> QED
    BY <1>1, <1>3, <2>2, <2>4, <2>5
<1> QED
  BY <1>2, <1>3

\* What a client makes of the entries when it loads the run-time state.
LEMMA LoadStateFacts ==
  ASSUME TypeInv, NEW c \in Clients, LoadState(c)
  PROVE  /\ cmd[c].pc = "merge" /\ Goto(c, "state")
         /\ UNCHANGED <<now, reached, up, timeValid, lock, task, file, blob, wish, early, stale>>
         /\ entries' \in [Ids -> EntryType \cup {NoEntry}]
         /\ \A id \in Ids : id \notin Present => entries'[id] = NoEntry
         /\ \A id \in Present : entries'[id] = Loaded(entries[id], blob[id], cmd[c].at)
<1>1. /\ cmd[c].pc = "merge" /\ Goto(c, "state")
      /\ UNCHANGED <<now, reached, up, timeValid, lock, task, file, blob, wish, early, stale>>
  BY DEF LoadState
<1>2. entries' = [id \in Ids |-> IF id \notin Present THEN NoEntry
                                 ELSE Loaded(entries[id], blob[id], cmd[c].at)]
  BY DEF LoadState, Loaded
<1>3. ASSUME NEW id \in Present PROVE Loaded(entries[id], blob[id], cmd[c].at) \in EntryType
  <2>1. /\ id \in Ids /\ entries[id] \in EntryType /\ blob[id] \in RunTimeType \cup {NoEntry}
        /\ cmd[c].at \in Int /\ timeValid \in BOOLEAN /\ NoEntry \notin RunTimeType
    BY SchedulerAssumption DEF SchedulerAssumption, TypeInv, Present, CmdType
  <2> QED
    BY <2>1, LoadedFacts
<1>4. Present \subseteq Ids
  BY DEF Present
<1> QED
  BY <1>1, <1>2, <1>3, <1>4

\* A change is taken back.
LEMMA RollBackFacts ==
  ASSUME TypeInv, NEW c \in Clients, RollBack(c)
  PROVE  /\ entries' = [entries EXCEPT ![cmd[c].id] = cmd[c].old]
         /\ entries' \in [Ids -> EntryType \cup {NoEntry}]
         /\ Finish(c)
<1>1. cmd[c].old \in EntryType \cup {NoEntry}
  BY DEF TypeInv, CmdType
<1> QED
  BY <1>1 DEF RollBack, TypeInv

\* Every step of a command, of loading and of saving keeps the types.
LEMMA CommandTypes ==
  ASSUME TypeInv, ControlInv,
         UserBegins \/ Apply \/ Trigger \/ Sync \/ \E c \in Clients : ClientStep(c)
  PROVE  TypeInv'
<1>0. /\ "user" \in Clients /\ "service" \in Clients
      /\ \A c \in Clients : cmd[c] \in CmdType
  BY DEF Clients, TypeInv
<1>p. Present \subseteq Ids /\ \A id \in Present : entries[id] \in EntryType
  BY DEF Present, TypeInv
<1>g. ASSUME NEW c \in Clients, NEW place \in {"wait"} \cup Holding, Goto(c, place)
      PROVE  cmd' \in [Clients -> CmdType]
  BY <1>g, PlaceFacts DEF Goto, TypeInv
<1>r. RunTimeOf(entries) \in [Ids -> RunTimeType \cup {NoEntry}]
  BY DEF TypeInv, RunTimeOf, RunTime, RunTimeType, EntryType
<1>f. ASSUME NEW c \in Clients, Finish(c)
      PROVE  /\ cmd' \in [Clients -> CmdType] /\ lock' \in {"free", "task"} \cup Clients
             /\ up' \in {"booting", "running", "dead"}
  BY <1>f, FinishFacts DEF TypeInv
<1>d. ASSUME NEW c \in Clients, Done(c)
      PROVE  /\ cmd' \in [Clients -> CmdType] /\ lock' \in {"free", "task"} \cup Clients
             /\ up' \in {"booting", "running", "dead"}
  BY <1>d, DoneFacts DEF TypeInv
<1>1. CASE UserBegins
  <2>1. PICK op \in UserOps, id \in Ids \cup {NoEntry}, item \in Definitions \cup {NoEntry} :
          Begin(op, id, item)
    BY <1>1, BeginFacts
  <2> DEFINE k == [pc |-> "wait", op |-> op, id |-> id, item |-> item, at |-> now, old |-> NoEntry]
  <2>2. cmd' = [cmd EXCEPT !["user"] = k]
        /\ UNCHANGED <<now, reached, up, entries, timeValid, lock, task, file, blob, wish>>
    BY <2>1 DEF Begin, history
  <2>3. k \in CmdType
    <3>1. now \in Int
      BY DEF TypeInv
    <3> QED
      BY <3>1 DEF CmdType
  <2> HIDE DEF k
  <2> QED
    BY <1>0, <2>2, <2>3 DEF TypeInv
<1>2. CASE Apply
  <2> DEFINE u == cmd["user"]
             e == Changed(u.op, entries[u.id], u.item, u.at)
  <2>1. CASE Finish("user") /\ UNCHANGED <<entries, plan, wish>>
    BY <1>0, <1>2, <1>f, <2>1, ApplyFacts DEF TypeInv
  <2>2. CASE ~(Finish("user") /\ UNCHANGED <<entries, plan, wish>>)
    <3>1. /\ lock' = "user" /\ up' = up /\ u.id \in Ids
          /\ entries' = [entries EXCEPT ![u.id] = e]
          /\ wish' = IF u.op = "add" THEN [wish EXCEPT ![u.id] = "none"] ELSE wish
          /\ cmd' \in [Clients -> CmdType]
          /\ UNCHANGED <<now, reached, timeValid, task, file, blob>>
      BY <1>2, <2>2, ApplyFacts
    <3>2. e \in EntryType \cup {NoEntry}
      <4>1. /\ u.op \in EntryOps /\ entries[u.id] \in EntryType \cup {NoEntry}
            /\ u.item \in Definitions \cup {NoEntry} /\ u.at \in Int
            /\ timeValid \in BOOLEAN
            /\ u.op # "add" => entries[u.id] \in EntryType
            /\ u.op \in {"add", "update"} => u.item \in Definitions
        BY <1>0, <1>2, <2>2, <3>1, ApplyFacts DEF TypeInv, CmdType
      <4> QED
        BY <4>1, ChangedFacts
    <3> HIDE DEF u, e
    <3>3. /\ entries' \in [Ids -> EntryType \cup {NoEntry}]
          /\ wish' \in [Ids -> {"none", "paused", "resumed"}]
      BY <3>1, <3>2 DEF TypeInv
    <3> QED
      BY <1>0, <3>1, <3>3 DEF TypeInv
  <2> QED
    BY <2>1, <2>2
<1>3. CASE Trigger
  <2> DEFINE id == cmd["user"].id
  <2>1. CASE Finish("user") /\ UNCHANGED <<entries, plan>>
    BY <1>0, <1>3, <1>f, <2>1, TriggerFacts DEF TypeInv
  <2>2. CASE ~(Finish("user") /\ UNCHANGED <<entries, plan>>)
    <3>1. PICK sent \in BOOLEAN :
            /\ lock' = "user" /\ up' = up /\ id \in Present
            /\ entries' = [entries EXCEPT ![id] = Published(entries[id], TRUE, now, sent)]
            /\ Goto("user", "state")
            /\ UNCHANGED <<now, reached, timeValid, task, file, blob, wish>>
      BY <1>3, <2>2, TriggerFacts
    <3>2. Published(entries[id], TRUE, now, sent) \in EntryType
      BY <1>p, <3>1, PublishedFacts DEF TypeInv
    <3>3. cmd' \in [Clients -> CmdType]
      BY <1>0, <1>g, <3>1 DEF Holding
    <3> QED
      BY <1>0, <3>1, <3>2, <3>3 DEF TypeInv
  <2> QED
    BY <2>1, <2>2
<1>4. CASE Sync
  <2>1. /\ lock' = "service" /\ timeValid' = TRUE /\ Goto("service", "state")
        /\ entries' = [id \in Ids |-> IF id \in Present THEN Synced(entries[id]) ELSE NoEntry]
        /\ UNCHANGED <<now, reached, up, task, file, blob, wish>>
    BY <1>4 DEF Sync, history
  <2>2. \A id \in Present : Synced(entries[id]) \in EntryType
    BY <1>p, SyncedFacts DEF TypeInv
  <2>3. cmd' \in [Clients -> CmdType]
    BY <1>0, <1>g, <2>1 DEF Holding
  <2> QED
    BY <1>0, <2>1, <2>2, <2>3 DEF TypeInv
<1>5. ASSUME NEW c \in Clients, Load(c) PROVE TypeInv'
  <2>1. CASE UNCHANGED entries
    BY <1>5, <1>f, <2>1, LoadFacts DEF TypeInv
  <2>2. CASE ~UNCHANGED entries
    <3>1. /\ entries' = [id \in Ids |-> IF file.items[id] = NoEntry THEN NoEntry
                                        ELSE NewEntry(file.items[id])]
          /\ lock' = c /\ up' = up /\ cmd' \in [Clients -> CmdType]
          /\ UNCHANGED <<now, reached, timeValid, task, file, blob, wish>>
      BY <1>5, <2>2, LoadFacts
    <3>2. entries' \in [Ids -> EntryType \cup {NoEntry}]
      <4>1. \A id \in Ids : file.items[id] \in Definitions \cup {NoEntry}
        BY DEF TypeInv
      <4> QED
        BY <3>1, <4>1, NewEntryFacts
    <3> QED
      BY <3>1, <3>2 DEF TypeInv
  <2> QED
    BY <2>1, <2>2
<1>6. ASSUME NEW c \in Clients, OpenDefs(c) PROVE TypeInv'
  <2>1. /\ file' = [file EXCEPT !.torn = TRUE] /\ Goto(c, "write")
        /\ UNCHANGED <<now, reached, up, entries, timeValid, lock, task, blob, wish>>
    BY <1>6 DEF OpenDefs, history
  <2>2. cmd' \in [Clients -> CmdType]
    BY <1>g, <2>1 DEF Holding
  <2>3. file' \in [items : [Ids -> Definitions \cup {NoEntry}], torn : BOOLEAN]
    BY <2>1 DEF TypeInv
  <2> QED
    BY <2>1, <2>2, <2>3 DEF TypeInv
<1>7. ASSUME NEW c \in Clients, WriteDefs(c) PROVE TypeInv'
  <2>1. /\ file' = [items |-> ItemsOf(entries), torn |-> FALSE]
        /\ Goto(c, IF Loading(c) THEN "merge" ELSE "state")
        /\ UNCHANGED <<now, reached, up, entries, timeValid, lock, task, blob, wish>>
    BY <1>7 DEF WriteDefs
  <2>2. cmd' \in [Clients -> CmdType]
    BY <1>g, <2>1 DEF Holding
  <2>3. ItemsOf(entries) \in [Ids -> Definitions \cup {NoEntry}]
    BY DEF ItemsOf, TypeInv, EntryType
  <2>4. file' \in [items : [Ids -> Definitions \cup {NoEntry}], torn : BOOLEAN]
    BY <2>1, <2>3
  <2> QED
    BY <2>1, <2>2, <2>4 DEF TypeInv
<1>8. ASSUME NEW c \in Clients, SaveDefsFails(c) PROVE TypeInv'
  <2>1. /\ \/ Goto(c, "merge") /\ UNCHANGED <<up, entries, lock>>
           \/ RollBack(c)
        /\ UNCHANGED <<now, reached, timeValid, task, file, blob, wish>>
    BY <1>8 DEF SaveDefsFails
  <2>2. CASE Goto(c, "merge") /\ UNCHANGED <<up, entries, lock>>
    <3>1. cmd' \in [Clients -> CmdType]
      BY <1>g, <2>2 DEF Holding
    <3> QED
      BY <2>1, <2>2, <3>1 DEF TypeInv
  <2>3. CASE RollBack(c)
    BY <1>f, <2>1, <2>3, RollBackFacts DEF TypeInv
  <2> QED
    BY <2>1, <2>2, <2>3
<1>9. ASSUME NEW c \in Clients, LoadState(c) PROVE TypeInv'
  <2>1. cmd' \in [Clients -> CmdType]
    BY <1>9, <1>g, LoadStateFacts DEF Holding
  <2> QED
    BY <1>9, <2>1, LoadStateFacts DEF TypeInv
<1>10. ASSUME NEW c \in Clients, SaveState(c) PROVE TypeInv'
  <2>1. /\ blob' = RunTimeOf(entries) /\ Wished(c) /\ Done(c)
        /\ UNCHANGED <<now, reached, entries, timeValid, task, file>>
    BY <1>10 DEF SaveState
  <2>2. wish' \in [Ids -> {"none", "paused", "resumed"}]
    <3>1. \A id \in Ids : WishAfter(cmd[c].op, wish[id]) \in {"none", "paused", "resumed"}
      BY DEF WishAfter, TypeInv
    <3>2. CASE cmd[c].id = NoEntry
      BY <2>1, <3>2 DEF Wished, TypeInv
    <3>3. CASE cmd[c].id # NoEntry
      <4>1. cmd[c].id \in Ids
        BY <1>0, <3>3 DEF CmdType
      <4>2. wish' = [wish EXCEPT ![cmd[c].id] = WishAfter(cmd[c].op, wish[cmd[c].id])]
        BY <2>1, <3>3 DEF Wished
      <4> QED
        BY <3>1, <4>1, <4>2 DEF TypeInv
    <3> QED
      BY <3>2, <3>3
  <2> QED
    BY <1>d, <1>r, <2>1, <2>2 DEF TypeInv
<1>11. ASSUME NEW c \in Clients, SaveStateFails(c) PROVE TypeInv'
  <2>1. PICK erased \in BOOLEAN :
          /\ blob' = IF erased THEN NoBlob ELSE blob
          /\ wish' = [id \in Ids |-> IF erased \/ id = cmd[c].id THEN "none" ELSE wish[id]]
    BY <1>11 DEF SaveStateFails
  <2>2. /\ RollBack(c) \/ (Done(c) /\ UNCHANGED entries)
        /\ UNCHANGED <<now, reached, timeValid, task, file>>
    BY <1>11 DEF SaveStateFails
  <2>3. blob' \in [Ids -> RunTimeType \cup {NoEntry}]
    BY <2>1 DEF NoBlob, TypeInv
  <2>4. wish' \in [Ids -> {"none", "paused", "resumed"}]
    BY <2>1 DEF TypeInv
  <2>5. CASE RollBack(c)
    BY <1>f, <2>2, <2>3, <2>4, <2>5, RollBackFacts DEF TypeInv
  <2>6. CASE Done(c) /\ UNCHANGED entries
    BY <1>d, <2>2, <2>3, <2>4, <2>6 DEF TypeInv
  <2> QED
    BY <2>2, <2>5, <2>6
<1> QED
  BY <1>1, <1>2, <1>3, <1>4, <1>5, <1>6, <1>7, <1>8, <1>9, <1>10, <1>11 DEF ClientStep

\* The task after a reset
LEMMA ResetTask == IdleTask \in TaskType /\ IdleTask.pc = "asleep"
<1>1. -Tick \in Int
  BY SchedulerAssumption DEF SchedulerAssumption
<1> DEFINE z == -Tick
<1>2. z \in Int
  BY <1>1
<1>3. IdleTask = [pc |-> "asleep", at |-> z, todo |-> {}]
  BY DEF IdleTask
<1> HIDE DEF z
<1> QED
  BY <1>2, <1>3 DEF TaskType

\* Every step keeps the types.
LEMMA TypeStep == TypeInv /\ ControlInv /\ [Next]_vars => TypeInv'
<1> SUFFICES ASSUME TypeInv, ControlInv, [Next]_vars PROVE TypeInv'
  OBVIOUS
<1>1. CASE TaskStep
  BY <1>1, TaskTypes
<1>2. CASE UserBegins \/ Apply \/ Trigger \/ Sync \/ \E c \in Clients : ClientStep(c)
  BY <1>2, CommandTypes
<1>3. CASE Passes
  BY <1>3 DEF Passes, history, TypeInv
<1>4. CASE SetClock
  <2> DEFINE sync == [IdleCmd EXCEPT !.pc = "wait", !.op = "sync"]
  <2>1. /\ now' \in reached .. MaxTime /\ reached' = now'
        /\ cmd' = [cmd EXCEPT !["service"] = sync]
        /\ UNCHANGED <<up, entries, timeValid, lock, task, file, blob, wish>>
    BY <1>4 DEF SetClock, history
  <2>2. now' \in Nat
    BY <2>1, SchedulerAssumption DEF SchedulerAssumption, TypeInv
  <2>3. sync \in CmdType
    BY IdleFacts
  <2> HIDE DEF sync
  <2> QED
    BY <2>1, <2>2, <2>3 DEF TypeInv, Clients
<1>5. CASE Reset
  <2>1. /\ now' \in {1, now} /\ up' = "booting" /\ entries' = [id \in Ids |-> NoEntry]
        /\ timeValid' = FALSE /\ lock' = "free" /\ task' = IdleTask
        /\ cmd' = [c \in Clients |-> IF c = "service" THEN BootCmd ELSE IdleCmd]
        /\ UNCHANGED <<reached, file, blob, wish>>
    BY <1>5 DEF Reset
  <2>2. task' \in TaskType /\ task'.pc = "asleep"
    BY <2>1, ResetTask
  <2>3. cmd' \in [Clients -> CmdType]
    BY <2>1, IdleFacts
  <2>4. entries' \in [Ids -> EntryType \cup {NoEntry}] /\ now' \in Nat
    BY <2>1 DEF TypeInv
  <2> QED
    BY <2>1, <2>2, <2>3, <2>4 DEF TypeInv
<1>6. CASE UNCHANGED vars
  BY <1>6 DEF vars, history, TypeInv
<1> QED
  BY <1>1, <1>2, <1>3, <1>4, <1>5, <1>6 DEF Next

-----------------------------------------------------------------------------
(* Who has the mutex.                                                      *)

\* A client goes on with the mutex, or has just taken it.
LEMMA GotoControl ==
  ASSUME TypeInv, ControlInv, NEW c \in Clients, cmd[c].op # "none", lock \in {"free", c},
         lock' = c, up' = up, up # "dead", task' = task, cmd' \in [Clients -> CmdType],
         cmd'[c].pc \in Holding, CommandOK(cmd'[c]), cmd'[c].op = cmd[c].op,
         \A d \in Clients : d # c => cmd'[d] = cmd[d]
  PROVE  ControlInv'
<1>1. task.pc # "firing" /\ c # "task" /\ c # "free" /\ \A d \in Clients : d # c => lock # d
  BY DEF ControlInv, Clients
<1>2. \A d \in Clients : lock' = d <=> cmd'[d].pc \in Holding
  BY <1>1 DEF ControlInv
<1>3. \A d \in Clients : CommandOK(cmd'[d]) /\ cmd'[d].op = cmd[d].op
  BY DEF ControlInv
<1> QED
  BY <1>1, <1>2, <1>3 DEF ControlInv, Clients

\* A client finishes, with or without having had the mutex.
LEMMA FinishControl ==
  ASSUME TypeInv, ControlInv, NEW c \in Clients, cmd[c].op # "none", lock \in {"free", c},
         cmd[c].pc \in Holding \/ c = "user", Finish(c), task' = task
  PROVE  ControlInv'
<1>1. task.pc # "firing" /\ c # "task" /\ c # "free" /\ \A d \in Clients : d # c => lock # d
  BY DEF ControlInv, Clients
<1>2. /\ lock' = "free" /\ up' = "running" /\ cmd'[c] = IdleCmd
      /\ \A d \in Clients : d # c => cmd'[d] = cmd[d]
  BY FinishFacts DEF TypeInv
<1>3. IdleCmd.pc = "idle" /\ IdleCmd.op = "none" /\ CommandOK(IdleCmd)
  BY IdleFacts
<1>4. \A d \in Clients : cmd'[d].pc \notin Holding /\ CommandOK(cmd'[d])
  BY <1>1, <1>2, <1>3 DEF ControlInv, Holding
<1>5. cmd'["service"].op # "boot"
  BY <1>2, <1>3 DEF ControlInv, Clients
<1>6. lock' # "task" /\ \A d \in Clients : lock' # d
  BY <1>2 DEF Clients
<1> QED
  BY <1>1, <1>2, <1>3, <1>4, <1>5, <1>6 DEF ControlInv, Clients

\* A client that has saved the run-time state finishes, or goes on to sync.
LEMMA DoneControl ==
  ASSUME TypeInv, ControlInv, NEW c \in Clients, cmd[c].op # "none", lock = c, Done(c), task' = task
  PROVE  ControlInv'
<1>1. CASE Finish(c)
  BY <1>1, FinishControl DEF ControlInv
<1>2. CASE ~Finish(c)
  <2> DEFINE sync == [IdleCmd EXCEPT !.pc = "wait", !.op = "sync"]
  <2>1. /\ cmd[c].op = "boot" /\ lock' = "free" /\ up' = up
        /\ cmd' = [cmd EXCEPT ![c] = sync]
    BY <1>2 DEF Done
  <2>2. sync.pc = "wait" /\ sync.op = "sync" /\ CommandOK(sync)
    BY IdleFacts
  <2> HIDE DEF sync
  <2>3. c = "service" /\ c # "task" /\ c # "free"
    BY <2>1 DEF ControlInv, Clients, UserOps
  <2>4. task.pc # "firing" /\ cmd["user"].pc \notin Holding /\ up # "dead"
    BY <2>3 DEF ControlInv, Clients
  <2>5. cmd'["service"] = sync /\ cmd'["user"] = cmd["user"]
    BY <2>1, <2>3 DEF TypeInv, Clients
  <2> QED
    BY <2>1, <2>2, <2>3, <2>4, <2>5 DEF ControlInv, Clients, Holding
<1> QED
  BY <1>1, <1>2

\* A client moves on to another place where it has the mutex.
LEMMA PlaceControl ==
  ASSUME TypeInv, ControlInv, NEW c \in Clients, NEW place \in Holding, Goto(c, place),
         cmd[c].op # "none", lock \in {"free", c}, lock' = c, up' = up, up # "dead", task' = task,
         place \in {"defs", "write"} => cmd[c].op \in (EntryOps \ {"pause", "resume"}) \cup {"boot", "reload"},
         place = "merge" => cmd[c].op \in {"boot", "reload"}
  PROVE  ControlInv'
<1>1. /\ cmd' \in [Clients -> CmdType] /\ cmd'[c].pc = place /\ cmd'[c].op = cmd[c].op
      /\ cmd'[c].id = cmd[c].id /\ cmd'[c].item = cmd[c].item
      /\ \A d \in Clients : d # c => cmd'[d] = cmd[d]
  BY PlaceFacts DEF Goto, TypeInv
<1>2. CommandOK(cmd[c])
  BY DEF ControlInv
<1>3. CommandOK(cmd'[c])
  BY <1>1, <1>2 DEF CommandOK, Holding
<1> QED
  BY <1>1, <1>3, GotoControl

\* Every step of the scheduler's task keeps the order.
LEMMA TaskControl ==
  ASSUME TypeInv, ControlInv, TaskStep
  PROVE  ControlInv'
<1>1. CASE WakeUp
  BY <1>1 DEF WakeUp, history, ControlInv, Present, Clients, TypeInv, TaskType
<1>2. CASE TakeLock
  <2> DEFINE due == {id \in Present : Due(entries[id], task.at)}
  <2>1. /\ task.pc = "ready" /\ lock = "free"
        /\ UNCHANGED <<now, reached, up, entries, timeValid, cmd, file, blob, wish>>
        /\ \/ task' = [task EXCEPT !.pc = "asleep"] /\ UNCHANGED lock
           \/ task' = [task EXCEPT !.pc = "firing", !.todo = due] /\ lock' = "task"
    BY <1>2 DEF TakeLock, history
  <2>2. up = "running" /\ \A c \in Clients : cmd[c].pc \notin Holding
    BY <2>1 DEF ControlInv, TypeInv, Clients
  <2>3. CASE task' = [task EXCEPT !.pc = "asleep"] /\ UNCHANGED lock
    <3>1. task'.pc = "asleep"
      BY <2>3 DEF TypeInv, TaskType
    <3> QED
      BY <2>1, <2>2, <2>3, <3>1 DEF ControlInv
  <2>4. CASE task' = [task EXCEPT !.pc = "firing", !.todo = due] /\ lock' = "task"
    <3>1. task'.pc = "firing" /\ task'.todo = due /\ task'.at = task.at
      <4> HIDE DEF due
      <4> QED
        BY <2>4 DEF TypeInv, TaskType
    <3>2. Present' = Present
      BY <2>1 DEF Present
    <3> QED
      BY <2>1, <2>2, <2>4, <3>1, <3>2 DEF ControlInv, Clients
  <2> QED
    BY <2>1, <2>3, <2>4
<1>3. ASSUME NEW id \in Ids, Miss(id) \/ Fire(id) PROVE ControlInv'
  <2>1. PICK e : entries' = [entries EXCEPT ![id] = e]
    BY <1>3 DEF Miss, Fire
  <2>2. /\ task.pc = "firing" /\ id \in task.todo
        /\ task' = [task EXCEPT !.todo = task.todo \ {id}]
        /\ UNCHANGED <<up, lock, cmd, file>>
    BY <1>3 DEF Miss, Fire
  <2>3. task'.pc = "firing" /\ task'.todo = task.todo \ {id} /\ task'.at = task.at
    BY <2>2 DEF TypeInv, TaskType
  <2>4. \A x \in task'.todo : x \in Present' /\ entries'[x] = entries[x]
    BY <2>1, <2>2, <2>3 DEF ControlInv, Present, TypeInv
  <2> QED
    BY <2>2, <2>3, <2>4 DEF ControlInv
<1>4. CASE SaveFired
  <2>1. /\ task.pc = "firing" /\ task' = [task EXCEPT !.pc = "asleep"] /\ lock' = "free"
        /\ UNCHANGED <<up, entries, cmd, file>>
    BY <1>4 DEF SaveFired
  <2>2. task'.pc = "asleep"
    BY <2>1 DEF TypeInv, TaskType
  <2>3. \A c \in Clients : cmd[c].pc \notin Holding /\ lock' # c
    BY <2>1 DEF ControlInv, Clients
  <2> QED
    BY <2>1, <2>2, <2>3 DEF ControlInv
<1> QED
  BY <1>1, <1>2, <1>3, <1>4 DEF TaskStep

\* Every step of a command, of loading and of saving does.
LEMMA CommandControl ==
  ASSUME TypeInv, ControlInv,
         UserBegins \/ Apply \/ Trigger \/ Sync \/ \E c \in Clients : ClientStep(c)
  PROVE  ControlInv'
<1>0. "user" \in Clients /\ "service" \in Clients
  BY DEF Clients
<1>h. ASSUME NEW c \in Clients, cmd[c].pc \in Holding
      PROVE  /\ lock = c /\ up # "dead" /\ cmd[c].op # "none" /\ CommandOK(cmd[c])
  BY <1>h DEF ControlInv, CommandOK, Clients, Holding
<1>1. CASE UserBegins
  <2>1. PICK op \in UserOps, id \in Ids \cup {NoEntry}, item \in Definitions \cup {NoEntry} :
          /\ Begin(op, id, item)
          /\ op = "reload" => id = NoEntry
          /\ op # "reload" => id \in Ids
          /\ op \in {"add", "update"} => item \in Definitions
    BY <1>1, BeginFacts
  <2> DEFINE k == [pc |-> "wait", op |-> op, id |-> id, item |-> item, at |-> now, old |-> NoEntry]
  <2>2. /\ up = "running" /\ cmd["user"].pc = "idle" /\ cmd' = [cmd EXCEPT !["user"] = k]
        /\ UNCHANGED <<up, entries, lock, task, file>>
    BY <2>1 DEF Begin, history
  <2>3. k.pc = "wait" /\ k.op = op /\ k.id = id /\ k.item = item
    OBVIOUS
  <2>4. CommandOK(k)
    BY <2>1, <2>3 DEF CommandOK, UserOps, EntryOps
  <2> HIDE DEF k
  <2>5. cmd'["user"] = k /\ cmd'["service"] = cmd["service"]
    BY <2>2, <1>0 DEF TypeInv
  <2>6. lock # "user"
    BY <1>0, <2>2 DEF ControlInv, Holding
  <2>7. Present' = Present
    BY <2>2 DEF Present
  <2> QED
    BY <2>2, <2>3, <2>4, <2>5, <2>6, <2>7 DEF ControlInv, Clients, Holding
<1>2. CASE Apply
  <2> DEFINE u == cmd["user"]
  <2>1. u.op \in EntryOps /\ lock = "free" /\ up = "running" /\ task' = task /\ u.op # "none"
    BY <1>2, ApplyFacts DEF EntryOps
  <2>2. CASE Finish("user")
    BY <1>0, <2>1, <2>2, FinishControl
  <2>3. CASE ~Finish("user")
    <3>1. /\ lock' = "user" /\ up' = up /\ cmd' \in [Clients -> CmdType]
          /\ cmd'["user"].op = u.op /\ cmd'["user"].id = u.id /\ cmd'["user"].item = u.item
          /\ cmd'["user"].pc = IF u.op \in {"pause", "resume"} THEN "state" ELSE "defs"
          /\ cmd'["service"] = cmd["service"]
      BY <1>2, <2>3, ApplyFacts
    <3>2. CommandOK(u)
      BY <1>0 DEF ControlInv
    <3>3. CommandOK(cmd'["user"]) /\ cmd'["user"].pc \in Holding
      BY <2>1, <3>1, <3>2 DEF CommandOK, Holding
    <3> HIDE DEF u
    <3> QED
      BY <1>0, <2>1, <3>1, <3>3, GotoControl DEF Clients, u
  <2> QED
    BY <2>2, <2>3
<1>3. CASE Trigger
  <2>1. /\ cmd["user"].op = "trigger" /\ lock = "free" /\ up = "running" /\ task' = task
        /\ Finish("user") \/ (lock' = "user" /\ up' = up /\ Goto("user", "state"))
    BY <1>3, TriggerFacts
  <2>2. CASE Finish("user")
    BY <1>0, <2>1, <2>2, FinishControl
  <2>3. CASE lock' = "user" /\ up' = up /\ Goto("user", "state")
    BY <1>0, <2>1, <2>3, PlaceControl DEF Holding
  <2> QED
    BY <2>1, <2>2, <2>3
<1>4. CASE Sync
  <2>1. /\ cmd["service"].op = "sync" /\ lock = "free" /\ lock' = "service" /\ up' = up
        /\ task' = task /\ Goto("service", "state")
    BY <1>4 DEF Sync
  <2>2. up # "dead"
    BY <2>1 DEF ControlInv
  <2> QED
    BY <1>0, <2>1, <2>2, PlaceControl DEF Holding
<1>5. ASSUME NEW c \in Clients, Load(c) PROVE ControlInv'
  <2>1. cmd[c].op \in {"boot", "reload"} /\ cmd[c].pc = "wait" /\ lock = "free" /\ task' = task /\ UNCHANGED file
    BY <1>5, LoadFacts
  <2>2. CASE c = "service" /\ up' = "dead" /\ file.torn /\ UNCHANGED <<entries, lock, cmd>>
    <3>1. cmd["service"].op = "boot" /\ up # "running"
      BY <1>0, <2>1, <2>2 DEF ControlInv
    <3>2. Present' = Present
      BY <2>2 DEF Present
    <3> QED
      BY <2>1, <2>2, <3>1, <3>2 DEF ControlInv
  <2>3. CASE c = "user" /\ Finish(c)
    BY <2>1, <2>3, FinishControl
  <2>4. CASE ~(c = "service" /\ up' = "dead" /\ file.torn /\ UNCHANGED <<entries, lock, cmd>>)
             /\ ~(c = "user" /\ Finish(c))
    <3>1. /\ lock' = c /\ up' = up /\ cmd' \in [Clients -> CmdType] /\ ~file.torn
          /\ cmd'[c].op = cmd[c].op /\ cmd'[c].id = cmd[c].id /\ cmd'[c].pc = "defs"
          /\ cmd'[c].item = cmd[c].item
          /\ \A d \in Clients : d # c => cmd'[d] = cmd[d]
      BY <1>5, <2>4, LoadFacts
    <3>2. CommandOK(cmd[c]) /\ up # "dead"
      BY <3>1 DEF ControlInv
    <3>3. CommandOK(cmd'[c])
      BY <2>1, <3>1, <3>2 DEF CommandOK
    <3> QED
      BY <2>1, <3>1, <3>2, <3>3, GotoControl DEF Holding
  <2> QED
    BY <2>2, <2>3, <2>4
<1>6. ASSUME NEW c \in Clients, OpenDefs(c) PROVE ControlInv'
  <2>1. cmd[c].pc = "defs" /\ Goto(c, "write") /\ UNCHANGED <<up, lock, task>>
    BY <1>6 DEF OpenDefs
  <2> QED
    BY <1>h, <2>1, PlaceControl DEF Holding, CommandOK
<1>7. ASSUME NEW c \in Clients, WriteDefs(c) PROVE ControlInv'
  <2>1. /\ cmd[c].pc = "write" /\ UNCHANGED <<up, lock, task>>
        /\ Goto(c, IF Loading(c) THEN "merge" ELSE "state")
    BY <1>7 DEF WriteDefs
  <2>2. CASE Loading(c)
    BY <1>h, <2>1, <2>2, PlaceControl DEF Holding, CommandOK, Loading
  <2>3. CASE ~Loading(c)
    BY <1>h, <2>1, <2>3, PlaceControl DEF Holding, CommandOK, Loading
  <2> QED
    BY <2>2, <2>3
<1>8. ASSUME NEW c \in Clients, SaveDefsFails(c) PROVE ControlInv'
  <2>1. /\ cmd[c].pc \in {"defs", "write"} /\ task' = task
        /\ \/ Loading(c) /\ Goto(c, "merge") /\ UNCHANGED <<up, entries, lock>>
           \/ RollBack(c)
    BY <1>8 DEF SaveDefsFails
  <2>2. CASE Loading(c) /\ Goto(c, "merge") /\ UNCHANGED <<up, entries, lock>>
    BY <1>h, <2>1, <2>2, PlaceControl DEF Holding, CommandOK, Loading
  <2>3. CASE RollBack(c)
    BY <1>h, <2>1, <2>3, FinishControl DEF Holding, RollBack
  <2> QED
    BY <2>1, <2>2, <2>3
<1>9. ASSUME NEW c \in Clients, LoadState(c) PROVE ControlInv'
  <2>1. cmd[c].pc = "merge" /\ Goto(c, "state") /\ UNCHANGED <<up, lock, task>>
    BY <1>9 DEF LoadState
  <2> QED
    BY <1>h, <2>1, PlaceControl DEF Holding, CommandOK
<1>10. ASSUME NEW c \in Clients, SaveState(c) PROVE ControlInv'
  <2>1. cmd[c].pc = "state" /\ Done(c) /\ task' = task
    BY <1>10 DEF SaveState
  <2> QED
    BY <1>h, <2>1, DoneControl DEF Holding
<1>11. ASSUME NEW c \in Clients, SaveStateFails(c) PROVE ControlInv'
  <2>1. cmd[c].pc = "state" /\ task' = task /\ (RollBack(c) \/ Done(c))
    BY <1>11 DEF SaveStateFails
  <2>2. CASE RollBack(c)
    BY <1>h, <2>1, <2>2, FinishControl DEF Holding, RollBack
  <2>3. CASE Done(c)
    BY <1>h, <2>1, <2>3, DoneControl DEF Holding
  <2> QED
    BY <2>1, <2>2, <2>3
<1> QED
  BY <1>1, <1>2, <1>3, <1>4, <1>5, <1>6, <1>7, <1>8, <1>9, <1>10, <1>11 DEF ClientStep

\* Every step keeps the order.
LEMMA ControlStep == TypeInv /\ ControlInv /\ [Next]_vars => ControlInv'
<1> SUFFICES ASSUME TypeInv, ControlInv, [Next]_vars PROVE ControlInv'
  OBVIOUS
<1>1. CASE TaskStep
  BY <1>1, TaskControl
<1>2. CASE UserBegins \/ Apply \/ Trigger \/ Sync \/ \E c \in Clients : ClientStep(c)
  BY <1>2, CommandControl
<1>3. CASE Passes
  BY <1>3 DEF Passes, history, ControlInv, Present
<1>4. CASE SetClock
  <2> DEFINE sync == [IdleCmd EXCEPT !.pc = "wait", !.op = "sync"]
  <2>1. /\ up = "running" /\ cmd["service"].pc = "idle"
        /\ cmd' = [cmd EXCEPT !["service"] = sync]
        /\ UNCHANGED <<up, entries, lock, task, file>>
    BY <1>4 DEF SetClock, history
  <2>2. sync.pc = "wait" /\ sync.op = "sync" /\ CommandOK(sync)
    BY IdleFacts
  <2> HIDE DEF sync
  <2>3. cmd'["service"] = sync /\ cmd'["user"] = cmd["user"] /\ lock # "service"
    BY <2>1 DEF TypeInv, Clients, ControlInv, Holding
  <2>4. Present' = Present
    BY <2>1 DEF Present
  <2> QED
    BY <2>1, <2>2, <2>3, <2>4 DEF ControlInv, Clients, Holding
<1>5. CASE Reset
  <2>1. /\ up' = "booting" /\ lock' = "free" /\ task' = IdleTask
        /\ cmd' = [c \in Clients |-> IF c = "service" THEN BootCmd ELSE IdleCmd]
    BY <1>5 DEF Reset
  <2>2. task'.pc = "asleep"
    BY <2>1, ResetTask
  <2>3. cmd'["user"] = IdleCmd /\ cmd'["service"] = BootCmd
    BY <2>1 DEF Clients
  <2> QED
    BY <2>1, <2>2, <2>3, IdleFacts DEF ControlInv, Clients, Holding
<1>6. CASE UNCHANGED vars
  BY <1>6 DEF vars, history, ControlInv, Present
<1> QED
  BY <1>1, <1>2, <1>3, <1>4, <1>5, <1>6 DEF Next

-----------------------------------------------------------------------------
(* Flash and memory.                                                       *)

DefsOK(es)  == "defs" \notin stale => ~file.torn /\ file.items = ItemsOf(es)
StateOK(es) == "state" \notin stale => blob = RunTimeOf(es)

\* What a client would take its change back to
OldEntries(c) == [entries EXCEPT ![cmd[c].id] = cmd[c].old]

\* What a client that has the mutex has saved, and would find when it takes its change back.
HeldFlash(c) ==
  /\ cmd[c].pc \in {"merge", "state"} => DefsOK(entries)
  /\ cmd[c].pc = "defs" /\ Loading(c) => ~file.torn /\ file.items = ItemsOf(entries)
  /\ cmd[c].op \in EntryOps => StateOK(OldEntries(c))
  /\ cmd[c].pc = "defs" /\ cmd[c].op \in EntryOps => DefsOK(OldEntries(c))
  /\ cmd[c].op \in {"pause", "resume"} => ItemsOf(OldEntries(c)) = ItemsOf(entries)

\* FlashAgrees, and what it comes from while somebody has the mutex.
FlashInv ==
  /\ up = "running" /\ lock = "free" => DefsOK(entries) /\ StateOK(entries)
  /\ up = "booting" /\ cmd["service"].op = "sync" => DefsOK(entries)
  /\ lock = "task" => DefsOK(entries)
  /\ \A c \in Clients : cmd[c].pc \in Holding => HeldFlash(c)

\* Entries with the same items
LEMMA SameItems ==
  ASSUME NEW es, NEW fs,
         \A id \in Ids : \/ es[id] = NoEntry /\ fs[id] = NoEntry
                         \/ es[id] # NoEntry /\ fs[id] # NoEntry /\ es[id].item = fs[id].item
  PROVE  ItemsOf(es) = ItemsOf(fs)
BY DEF ItemsOf

\* The three cases of who has the mutex after a step
LEMMA FlashHeld ==
  ASSUME ControlInv', NEW c \in Clients, lock' = c, HeldFlash(c)',
         up' = "booting" /\ cmd'["service"].op = "sync" => DefsOK(entries)'
  PROVE  FlashInv'
BY DEF FlashInv, ControlInv, Clients

\* When nobody has the mutex, all that is left to show is that flash agrees with memory.
LEMMA FlashFree ==
  ASSUME ControlInv', lock' = "free",
         up' = "running" => DefsOK(entries)' /\ StateOK(entries)',
         up' = "booting" /\ cmd'["service"].op = "sync" => DefsOK(entries)'
  PROVE  FlashInv'
BY DEF FlashInv, ControlInv, Clients

\* When the task has the mutex, only the definitions must agree: it saves the state last.
LEMMA FlashTask ==
  ASSUME ControlInv', lock' = "task", DefsOK(entries)'
  PROVE  FlashInv'
BY DEF FlashInv, ControlInv, Clients

\* Steps that change neither memory nor flash, nor who has the mutex
LEMMA FlashSame ==
  ASSUME FlashInv, UNCHANGED <<up, entries, lock, file, blob, stale>>,
         \A c \in Clients : cmd'[c] = cmd[c] \/ cmd'[c].pc \notin Holding,
         cmd'["service"].op = "sync" => cmd["service"].op = "sync" \/ up = "running"
  PROVE  FlashInv'
<1>1. DefsOK(entries)' = DefsOK(entries) /\ StateOK(entries)' = StateOK(entries)
  BY DEF DefsOK, StateOK
<1>2. ASSUME NEW c \in Clients, cmd'[c] = cmd[c]
      PROVE  HeldFlash(c)' = HeldFlash(c)
  <2>1. /\ DefsOK(OldEntries(c))' = DefsOK(OldEntries(c))
        /\ StateOK(OldEntries(c))' = StateOK(OldEntries(c))
    BY <1>2 DEF DefsOK, StateOK, OldEntries
  <2>2. ItemsOf(OldEntries(c))' = ItemsOf(OldEntries(c)) /\ ItemsOf(entries)' = ItemsOf(entries)
    BY <1>2 DEF OldEntries
  <2> QED
    BY <1>1, <1>2, <2>1, <2>2 DEF HeldFlash, Loading
<1> QED
  BY <1>1, <1>2 DEF FlashInv

\* The task changes no items, and saves the state when it is done.
LEMMA TaskFlash ==
  ASSUME TypeInv, ControlInv, ControlInv', FlashInv, TaskStep
  PROVE  FlashInv'
<1>1. CASE WakeUp
  <2>1. UNCHANGED <<up, entries, lock, cmd, file, blob, stale>>
    BY <1>1 DEF WakeUp, history
  <2> QED
    BY <2>1, FlashSame
<1>2. CASE TakeLock
  <2>1. /\ lock = "free" /\ lock' \in {"free", "task"} /\ up = "running"
        /\ UNCHANGED <<up, entries, cmd, file, blob, stale>>
    BY <1>2 DEF TakeLock, history, ControlInv
  <2>2. DefsOK(entries)' /\ StateOK(entries)'
    BY <2>1 DEF FlashInv, DefsOK, StateOK
  <2> QED
    BY <2>1, <2>2, FlashFree, FlashTask
<1>3. ASSUME NEW id \in Ids, Miss(id) \/ Fire(id) PROVE FlashInv'
  <2>1. /\ task.pc = "firing" /\ id \in task.todo /\ lock = "task" /\ id \in Present
        /\ UNCHANGED <<lock, file, stale, timeValid>> /\ task.at \in Nat /\ task.at \in Int
        /\ timeValid \in BOOLEAN /\ entries[id] \in EntryType
    <3>1. /\ task.pc = "firing" /\ id \in task.todo
          /\ UNCHANGED <<lock, file, stale, timeValid>>
      BY <1>3 DEF Miss, Fire, history
    <3>2. lock = "task" /\ id \in Present
      BY <3>1 DEF ControlInv
    <3>3. task.at \in Nat /\ timeValid \in BOOLEAN /\ entries[id] \in EntryType
      BY <3>1, <3>2 DEF TypeInv, Present
    <3> QED
      BY <3>1, <3>2, <3>3
  <2>2. PICK e \in EntryType : entries' = [entries EXCEPT ![id] = e] /\ e.item = entries[id].item
    <3>1. CASE Miss(id)
      <4> DEFINE r == Refresh(entries[id], task.at, timeValid)
      <4>1. entries[id] \in [item : Definitions, status : Statuses \cup {"running"}, next : Int,
                             last : Nat, runs : Nat]
        BY <2>1 DEF EntryType, Statuses
      <4>2. r \in EntryType /\ r.item = entries[id].item
        BY <2>1, <4>1, RefreshFacts
      <4>3. entries' = [entries EXCEPT ![id] = r]
        BY <3>1 DEF Miss
      <4> QED
        BY <4>2, <4>3
    <3>2. CASE Fire(id)
      <4>1. PICK sent \in BOOLEAN :
              entries' = [entries EXCEPT ![id] = Published(entries[id], FALSE, task.at, sent)]
        BY <3>2, SchedulerAssumption DEF Fire, SchedulerAssumption
      <4> DEFINE p == Published(entries[id], FALSE, task.at, sent)
      <4>2. p \in EntryType /\ p.item = entries[id].item
        BY <2>1, PublishedFacts
      <4> QED
        BY <4>1, <4>2
    <3> QED
      BY <1>3, <3>1, <3>2
  <2>3. ItemsOf(entries') = ItemsOf(entries)
    <3>1. e # NoEntry /\ entries[id] # NoEntry
      BY <2>1, SchedulerAssumption DEF SchedulerAssumption
    <3>2. \A x \in Ids : entries'[x] = (IF x = id THEN e ELSE entries[x])
      BY <2>2 DEF TypeInv
    <3>3. \A x \in Ids : \/ entries'[x] = NoEntry /\ entries[x] = NoEntry
                         \/ entries'[x] # NoEntry /\ entries[x] # NoEntry
                              /\ entries'[x].item = entries[x].item
      BY <2>2, <3>1, <3>2
    <3> QED
      BY <3>3, SameItems
  <2> QED
    BY <2>1, <2>3, FlashTask DEF FlashInv, DefsOK
<1>4. CASE SaveFired
  <2>1. /\ lock' = "free" /\ up = "running" /\ lock = "task"
        /\ UNCHANGED <<up, entries, cmd, file>>
        /\ \/ blob' = RunTimeOf(entries) /\ stale' = stale \ {"state"}
           \/ stale' = stale \cup {"state"}
    BY <1>4 DEF SaveFired, ControlInv
  <2>2. DefsOK(entries)' /\ StateOK(entries)'
    BY <2>1 DEF FlashInv, DefsOK, StateOK
  <2> QED
    BY <2>1, <2>2, FlashFree
<1> QED
  BY <1>1, <1>2, <1>3, <1>4 DEF TaskStep

\* A client that goes on with the mutex, with what it has kept
LEMMA FlashGoto ==
  ASSUME TypeInv, NEW c \in Clients, NEW place \in Holding, Goto(c, place)
  PROVE  /\ cmd'[c].pc = place /\ cmd'[c].op = cmd[c].op /\ cmd'[c].id = cmd[c].id
         /\ cmd'[c].old = cmd[c].old /\ cmd'["service"].op = cmd["service"].op
         /\ Loading(c)' = Loading(c)
         /\ UNCHANGED entries => OldEntries(c)' = OldEntries(c)
<1>1. /\ cmd'[c].pc = place /\ cmd'[c].op = cmd[c].op /\ cmd'[c].id = cmd[c].id
      /\ cmd'[c].old = cmd[c].old /\ \A d \in Clients : d # c => cmd'[d] = cmd[d]
  BY PlaceFacts DEF Goto, TypeInv
<1> QED
  BY <1>1 DEF Clients, Loading, OldEntries

\* A change is in memory before it is in flash, and the way back is kept.
LEMMA ApplyFlash ==
  ASSUME TypeInv, ControlInv, ControlInv', FlashInv, Apply
  PROVE  FlashInv'
<1> DEFINE u == cmd["user"]
           e == Changed(u.op, entries[u.id], u.item, u.at)
<1>0. /\ u.op \in EntryOps /\ u.id \in Ids /\ lock = "free" /\ up = "running"
      /\ UNCHANGED <<file, blob, stale>> /\ "user" \in Clients
  BY ApplyFacts DEF Clients
<1>1. DefsOK(entries) /\ StateOK(entries)
  BY <1>0 DEF FlashInv
<1>2. CASE Finish("user") /\ UNCHANGED <<entries, plan, wish>>
  <2>1. DefsOK(entries)' /\ StateOK(entries)' /\ lock' = "free" /\ up' = "running"
    BY <1>0, <1>1, <1>2 DEF DefsOK, StateOK, Finish
  <2> QED
    BY <2>1, FlashFree
<1>3. CASE ~(Finish("user") /\ UNCHANGED <<entries, plan, wish>>)
  <2>1. /\ lock' = "user" /\ up' = up
        /\ entries' = [entries EXCEPT ![u.id] = e]
        /\ cmd'["user"].old = entries[u.id] /\ cmd'["user"].op = u.op
        /\ cmd'["user"].id = u.id
        /\ cmd'["user"].pc = IF u.op \in {"pause", "resume"} THEN "state" ELSE "defs"
        /\ u.op # "add" => entries[u.id] \in EntryType
        /\ u.op \in {"add", "update"} => u.item \in Definitions
    BY <1>3, ApplyFacts
  <2>2. u.op \in {"pause", "resume"} => e \in EntryType /\ e.item = entries[u.id].item
    <3>1. /\ entries[u.id] \in EntryType \cup {NoEntry} /\ u.item \in Definitions \cup {NoEntry}
          /\ u.at \in Int /\ timeValid \in BOOLEAN
      BY <1>0 DEF TypeInv, CmdType
    <3> QED
      BY <1>0, <2>1, <3>1, ChangedFacts
  <2> HIDE DEF u, e
  <2>3. OldEntries("user")' = entries
    <3>1. OldEntries("user")' = [[entries EXCEPT ![u.id] = e] EXCEPT ![u.id] = entries[u.id]]
      BY <2>1 DEF OldEntries
    <3> QED
      BY <1>0, <3>1 DEF TypeInv
  <2>4. DefsOK(OldEntries("user"))' /\ StateOK(OldEntries("user"))'
    BY <1>0, <1>1, <2>3 DEF DefsOK, StateOK
  <2>5. CASE u.op \in {"pause", "resume"}
    <3>1. entries[u.id] \in EntryType /\ NoEntry \notin EntryType
      BY <2>1, <2>5, SchedulerAssumption DEF SchedulerAssumption
    <3>2. \A x \in Ids : \/ entries'[x] = NoEntry /\ entries[x] = NoEntry
                         \/ entries'[x] # NoEntry /\ entries[x] # NoEntry
                              /\ entries'[x].item = entries[x].item
      BY <1>0, <2>1, <2>2, <2>5, <3>1 DEF TypeInv
    <3>3. ItemsOf(entries') = ItemsOf(entries)
      BY <3>2, SameItems
    <3>4. DefsOK(entries)' /\ ItemsOf(OldEntries("user"))' = ItemsOf(entries)'
      BY <1>0, <1>1, <2>3, <3>3 DEF DefsOK
    <3>5. HeldFlash("user")'
      BY <2>1, <2>4, <2>5, <3>4 DEF HeldFlash, EntryOps
    <3> QED
      BY <1>0, <2>1, <3>4, <3>5, FlashHeld
  <2>6. CASE u.op \notin {"pause", "resume"}
    <3>1. HeldFlash("user")'
      BY <1>0, <2>1, <2>4, <2>6 DEF HeldFlash, EntryOps, Loading
    <3> QED
      BY <1>0, <2>1, <3>1, FlashHeld
  <2> QED
    BY <2>5, <2>6
<1> QED
  BY <1>2, <1>3

\* What a client that loads or is told of a sync makes of the entries has the items of the file.
LEMMA LoadFlash ==
  ASSUME TypeInv, ControlInv, ControlInv', FlashInv, NEW c \in Clients, Load(c)
  PROVE  FlashInv'
<1>1. /\ cmd[c].op \in {"boot", "reload"} /\ lock = "free" /\ UNCHANGED <<file, blob, stale>>
  BY LoadFacts
<1>2. CASE c = "service" /\ up' = "dead" /\ file.torn /\ UNCHANGED <<entries, lock, cmd>>
  BY <1>1, <1>2, FlashFree
<1>3. CASE c = "user" /\ Finish(c) /\ UNCHANGED entries
  <2>1. up = "running" /\ lock' = "free" /\ up' = "running"
    BY <1>1, <1>3 DEF ControlInv, Finish
  <2>2. DefsOK(entries)' /\ StateOK(entries)'
    BY <1>1, <1>3, <2>1 DEF FlashInv, DefsOK, StateOK
  <2> QED
    BY <2>1, <2>2, FlashFree
<1>4. CASE ~(c = "service" /\ up' = "dead" /\ file.torn /\ UNCHANGED <<entries, lock, cmd>>)
           /\ ~(c = "user" /\ Finish(c) /\ UNCHANGED entries)
  <2>1. /\ ~file.torn /\ lock' = c /\ up' = up
        /\ entries' = [id \in Ids |-> IF file.items[id] = NoEntry THEN NoEntry
                                      ELSE NewEntry(file.items[id])]
        /\ cmd'[c].op = cmd[c].op /\ cmd'[c].pc = "defs"
        /\ \A d \in Clients : d # c => cmd'[d] = cmd[d]
    BY <1>4, LoadFacts
  <2>2. ItemsOf(entries') = file.items
    <3>1. file.items \in [Ids -> Definitions \cup {NoEntry}]
      BY DEF TypeInv
    <3>2. \A item \in Definitions : NewEntry(item) \in EntryType /\ NewEntry(item).item = item
      BY NewEntryFacts
    <3>3. NoEntry \notin EntryType
      BY SchedulerAssumption DEF SchedulerAssumption
    <3>4. \A id \in Ids : (IF entries'[id] = NoEntry THEN NoEntry ELSE entries'[id].item) = file.items[id]
      <4> TAKE id \in Ids
      <4>1. CASE file.items[id] = NoEntry
        BY <2>1, <4>1
      <4>2. CASE file.items[id] # NoEntry
        BY <2>1, <3>1, <3>2, <3>3, <4>2
      <4> QED
        BY <4>1, <4>2
    <3> QED
      BY <3>1, <3>4 DEF ItemsOf
  <2>3. HeldFlash(c)'
    <3>1. cmd'[c].op \notin EntryOps
      BY <1>1, <2>1 DEF EntryOps
    <3> QED
      BY <1>1, <2>1, <2>2, <3>1 DEF HeldFlash, EntryOps
  <2>4. up' = "booting" => cmd'["service"].op # "sync"
    <3>1. CASE c = "service"
      BY <1>1, <2>1, <3>1
    <3>2. CASE c = "user"
      BY <1>1, <2>1, <3>2 DEF ControlInv, Clients
    <3> QED
      BY <3>1, <3>2 DEF Clients
  <2> QED
    BY <2>1, <2>3, <2>4, FlashHeld
<1> QED
  BY <1>2, <1>3, <1>4

\* Steps of the commands up to their saves
LEMMA CommandFlash ==
  ASSUME TypeInv, ControlInv, ControlInv', FlashInv, UserBegins \/ Trigger \/ Sync
  PROVE  FlashInv'
<1>0. "user" \in Clients /\ "service" \in Clients
  BY DEF Clients
<1>p. Present \subseteq Ids /\ \A id \in Present : entries[id] \in EntryType
  BY DEF Present, TypeInv
<1>n. NoEntry \notin EntryType
  BY SchedulerAssumption DEF SchedulerAssumption
<1>1. CASE UserBegins
  <2>1. PICK op, id, item : Begin(op, id, item)
    BY <1>1, BeginFacts
  <2>2. /\ UNCHANGED <<up, entries, lock, file, blob, stale>>
        /\ up = "running" /\ cmd["user"].pc = "idle"
        /\ cmd' = [cmd EXCEPT !["user"] = [pc |-> "wait", op |-> op, id |-> id, item |-> item,
                                           at |-> now, old |-> NoEntry]]
    BY <2>1 DEF Begin, history
  <2>3. cmd'["user"].pc = "wait" /\ cmd'["service"] = cmd["service"]
    BY <1>0, <2>2 DEF TypeInv
  <2>4. \A c \in Clients : cmd'[c] = cmd[c] \/ cmd'[c].pc \notin Holding
    BY <2>3 DEF Clients, Holding
  <2> QED
    BY <2>2, <2>4, FlashSame
<1>2. CASE Trigger
  <2> DEFINE id == cmd["user"].id
  <2>1. /\ lock = "free" /\ up = "running" /\ cmd["user"].op = "trigger"
        /\ UNCHANGED <<file, blob, stale>>
    BY <1>2, TriggerFacts
  <2>2. DefsOK(entries) /\ StateOK(entries)
    BY <2>1 DEF FlashInv
  <2>3. CASE Finish("user") /\ UNCHANGED <<entries, plan>>
    <3>1. DefsOK(entries)' /\ StateOK(entries)' /\ lock' = "free" /\ up' = "running"
      BY <2>1, <2>2, <2>3 DEF DefsOK, StateOK, Finish
    <3> QED
      BY <3>1, FlashFree
  <2>4. CASE ~(Finish("user") /\ UNCHANGED <<entries, plan>>)
    <3>1. PICK sent \in BOOLEAN :
            /\ lock' = "user" /\ up' = up /\ id \in Present
            /\ entries' = [entries EXCEPT ![id] = Published(entries[id], TRUE, now, sent)]
            /\ Goto("user", "state")
      BY <1>2, <2>4, TriggerFacts
    <3> DEFINE p == Published(entries[id], TRUE, now, sent)
    <3>2. p \in EntryType /\ p.item = entries[id].item
      <4>1. now \in Nat /\ timeValid \in BOOLEAN /\ TRUE \in BOOLEAN
        BY DEF TypeInv
      <4>2. entries[id] \in EntryType
        BY <1>p, <3>1
      <4> QED
        BY <4>1, <4>2, PublishedFacts
    <3> HIDE DEF p
    <3>3. \A x \in Ids : \/ entries'[x] = NoEntry /\ entries[x] = NoEntry
                         \/ entries'[x] # NoEntry /\ entries[x] # NoEntry
                              /\ entries'[x].item = entries[x].item
      <4>1. entries'[id] = p /\ \A x \in Ids : x # id => entries'[x] = entries[x]
        BY <1>p, <3>1 DEF TypeInv, p
      <4>2. id \in Ids /\ entries[id] # NoEntry /\ entries'[id] # NoEntry
        BY <1>p, <1>n, <3>1, <3>2, <4>1
      <4> QED
        BY <3>2, <4>1, <4>2
    <3>4. ItemsOf(entries') = ItemsOf(entries)
      BY <3>3, SameItems
    <3>5. cmd'["user"].pc = "state" /\ cmd'["user"].op = "trigger"
      BY <1>0, <2>1, <3>1, FlashGoto DEF Holding
    <3>6. DefsOK(entries)'
      BY <2>1, <2>2, <3>4 DEF DefsOK
    <3>7. HeldFlash("user")'
      BY <3>5, <3>6 DEF HeldFlash, EntryOps
    <3> QED
      BY <1>0, <3>1, <3>6, <3>7, FlashHeld
  <2> QED
    BY <2>3, <2>4
<1>3. CASE Sync
  <2>1. /\ cmd["service"].op = "sync" /\ lock = "free" /\ lock' = "service"
        /\ Goto("service", "state") /\ UNCHANGED <<up, file, blob, stale>>
        /\ entries' = [id \in Ids |-> IF id \in Present THEN Synced(entries[id]) ELSE NoEntry]
    BY <1>3 DEF Sync, history
  <2>2. up \in {"booting", "running"}
    BY <2>1 DEF TypeInv, ControlInv
  <2>3. DefsOK(entries)
    BY <2>1, <2>2 DEF FlashInv
  <2>4. \A id \in Present : Synced(entries[id]) \in EntryType
                            /\ Synced(entries[id]).item = entries[id].item
    BY <1>p, SyncedFacts DEF TypeInv
  <2>5. \A x \in Ids : \/ entries'[x] = NoEntry /\ entries[x] = NoEntry
                       \/ entries'[x] # NoEntry /\ entries[x] # NoEntry
                            /\ entries'[x].item = entries[x].item
    BY <1>n, <2>1, <2>4 DEF Present
  <2>6. ItemsOf(entries') = ItemsOf(entries)
    BY <2>5, SameItems
  <2>7. cmd'["service"].pc = "state" /\ cmd'["service"].op = "sync"
    BY <1>0, <2>1, FlashGoto DEF Holding
  <2>8. DefsOK(entries)'
    BY <2>1, <2>3, <2>6 DEF DefsOK
  <2>9. HeldFlash("service")'
    BY <2>7, <2>8 DEF HeldFlash, EntryOps
  <2> QED
    BY <1>0, <2>1, <2>8, <2>9, FlashHeld
<1> QED
  BY <1>1, <1>2, <1>3

\* Saving, and taking back what could not be saved
LEMMA SaveFlash ==
  ASSUME TypeInv, ControlInv, ControlInv', FlashInv, NEW c \in Clients,
         \/ OpenDefs(c) \/ WriteDefs(c) \/ SaveDefsFails(c) \/ LoadState(c)
         \/ SaveState(c) \/ SaveStateFails(c)
  PROVE  FlashInv'
<1>1. cmd[c].pc \in Holding
  BY DEF OpenDefs, WriteDefs, SaveDefsFails, LoadState, SaveState, SaveStateFails, Holding
<1>2. lock = c /\ HeldFlash(c) /\ CommandOK(cmd[c]) /\ up \in {"booting", "running"}
  BY <1>1 DEF ControlInv, FlashInv, TypeInv, Clients
<1>3. cmd[c].pc # "state" => ~(up = "booting" /\ cmd["service"].op = "sync")
  <2>1. CASE c = "service"
    BY <1>1, <1>2, <2>1 DEF CommandOK, EntryOps, Holding
  <2>2. CASE c = "user"
    BY <1>1, <1>2, <2>2 DEF ControlInv, CommandOK, Holding
  <2> QED
    BY <2>1, <2>2 DEF Clients
<1>g. ASSUME NEW place \in Holding, Goto(c, place)
      PROVE  /\ cmd'[c].pc = place /\ cmd'[c].op = cmd[c].op
             /\ cmd'["service"].op = cmd["service"].op
             /\ UNCHANGED entries => OldEntries(c)' = OldEntries(c)
             /\ Loading(c)' = Loading(c)
  BY <1>g, FlashGoto
<1>4. CASE OpenDefs(c)
  <2>1. /\ cmd[c].pc = "defs" /\ Goto(c, "write") /\ UNCHANGED <<up, lock, entries, blob, stale>>
    BY <1>4 DEF OpenDefs, history
  <2>2. HeldFlash(c)'
    BY <1>2, <1>g, <2>1 DEF HeldFlash, CommandOK, EntryOps, StateOK, Holding
  <2> QED
    BY <1>2, <1>3, <1>g, <2>1, <2>2, FlashHeld DEF Holding
<1>5. CASE WriteDefs(c)
  <2>1. /\ cmd[c].pc = "write" /\ UNCHANGED <<up, lock, entries, blob>>
        /\ Goto(c, IF Loading(c) THEN "merge" ELSE "state")
        /\ file' = [items |-> ItemsOf(entries), torn |-> FALSE]
        /\ stale' = stale \ {"defs"}
    BY <1>5 DEF WriteDefs
  <2>2. DefsOK(entries)'
    BY <2>1 DEF DefsOK
  <2>3. PICK place \in {"merge", "state"} : Goto(c, place)
    BY <2>1
  <2>4. cmd[c].op \notin {"pause", "resume"}
    BY <1>2, <2>1 DEF CommandOK, EntryOps
  <2>5. HeldFlash(c)'
    BY <1>2, <1>g, <2>1, <2>2, <2>3, <2>4 DEF HeldFlash, StateOK, Holding
  <2> QED
    BY <1>2, <2>1, <2>2, <2>5, FlashHeld
<1>6. CASE SaveDefsFails(c)
  <2>1. /\ cmd[c].pc \in {"defs", "write"} /\ UNCHANGED <<file, blob>>
        /\ stale' = IF cmd[c].pc = "write" THEN stale \cup {"defs"} ELSE stale
        /\ IF Loading(c) THEN Goto(c, "merge") /\ UNCHANGED <<up, entries, lock>> ELSE RollBack(c)
    BY <1>6 DEF SaveDefsFails
  <2>2. CASE Loading(c)
    <3>1. Goto(c, "merge") /\ UNCHANGED <<up, entries, lock>>
      BY <2>1, <2>2
    <3>2. DefsOK(entries)'
      BY <1>2, <2>1, <2>2, <3>1 DEF HeldFlash, DefsOK
    <3>3. cmd[c].op \notin EntryOps
      BY <2>2 DEF Loading, EntryOps
    <3>4. HeldFlash(c)'
      BY <1>g, <3>1, <3>2, <3>3 DEF HeldFlash, Holding, EntryOps
    <3> QED
      BY <1>2, <3>1, <3>2, <3>4, FlashHeld
  <2>3. CASE ~Loading(c)
    <3>1. RollBack(c) /\ cmd[c].op \in EntryOps
      BY <1>2, <2>1, <2>3 DEF CommandOK, Loading
    <3>2. entries' = OldEntries(c) /\ lock' = "free" /\ up' = "running"
      BY <3>1 DEF RollBack, OldEntries, Finish
    <3>3. DefsOK(entries)' /\ StateOK(entries)'
      BY <1>2, <2>1, <3>1, <3>2 DEF HeldFlash, DefsOK, StateOK
    <3> QED
      BY <3>2, <3>3, FlashFree
  <2> QED
    BY <2>2, <2>3
<1>7. CASE LoadState(c)
  <2>1. /\ cmd[c].pc = "merge" /\ Goto(c, "state") /\ UNCHANGED <<up, timeValid, lock, file, blob, stale>>
        /\ \A id \in Ids : id \notin Present => entries'[id] = NoEntry
        /\ \A id \in Present : entries'[id] = Loaded(entries[id], blob[id], cmd[c].at)
    BY <1>7, LoadStateFacts
  <2>2. \A id \in Present : /\ Loaded(entries[id], blob[id], cmd[c].at) \in EntryType
                            /\ Loaded(entries[id], blob[id], cmd[c].at).item = entries[id].item
    <3> TAKE id \in Present
    <3>1. /\ id \in Ids /\ entries[id] \in EntryType /\ blob[id] \in RunTimeType \cup {NoEntry}
          /\ cmd[c].at \in Int /\ timeValid \in BOOLEAN /\ NoEntry \notin RunTimeType
      BY SchedulerAssumption DEF SchedulerAssumption, TypeInv, Present, CmdType
    <3> QED
      BY <3>1, LoadedFacts
  <2>3. NoEntry \notin EntryType
    BY SchedulerAssumption DEF SchedulerAssumption
  <2>4. \A x \in Ids : \/ entries'[x] = NoEntry /\ entries[x] = NoEntry
                       \/ entries'[x] # NoEntry /\ entries[x] # NoEntry
                            /\ entries'[x].item = entries[x].item
    BY <2>1, <2>2, <2>3 DEF Present
  <2>5. ItemsOf(entries') = ItemsOf(entries)
    BY <2>4, SameItems
  <2>6. DefsOK(entries)'
    BY <1>2, <2>1, <2>5 DEF HeldFlash, DefsOK
  <2>7. cmd[c].op \notin EntryOps
    BY <1>2, <2>1 DEF CommandOK, EntryOps
  <2>8. HeldFlash(c)'
    BY <1>g, <2>1, <2>6, <2>7 DEF HeldFlash, EntryOps, Holding
  <2> QED
    BY <1>2, <2>1, <2>6, <2>8, FlashHeld
<1>8. CASE SaveState(c)
  <2>1. /\ cmd[c].pc = "state" /\ blob' = RunTimeOf(entries) /\ stale' = stale \ {"state"} /\ Done(c)
        /\ UNCHANGED <<entries, file>>
    BY <1>8 DEF SaveState
  <2>2. DefsOK(entries)' /\ StateOK(entries)'
    BY <1>2, <2>1 DEF HeldFlash, DefsOK, StateOK
  <2>3. lock' = "free"
    BY <2>1, DoneFacts DEF TypeInv
  <2> QED
    BY <2>2, <2>3, FlashFree
<1>9. CASE SaveStateFails(c)
  <2>1. PICK erased \in BOOLEAN :
          /\ blob' = IF erased THEN NoBlob ELSE blob
          /\ stale' = stale \cup
               (IF erased \/ cmd[c].op \notin EntryOps THEN {"state"} ELSE {}) \cup
               (IF cmd[c].op \in EntryOps \ {"pause", "resume"} THEN {"defs"} ELSE {})
    BY <1>9 DEF SaveStateFails
  <2>2. /\ cmd[c].pc = "state" /\ UNCHANGED file
        /\ IF cmd[c].op \in EntryOps THEN RollBack(c) ELSE Done(c) /\ UNCHANGED entries
    BY <1>9 DEF SaveStateFails
  <2>3. CASE cmd[c].op \in EntryOps
    <3>1. entries' = OldEntries(c) /\ lock' = "free"
      BY <2>2, <2>3 DEF RollBack, OldEntries, Finish
    <3>2. StateOK(entries)'
      <4>1. CASE erased
        BY <2>1, <4>1 DEF StateOK
      <4>2. CASE ~erased
        BY <1>2, <2>1, <2>3, <3>1, <4>2 DEF StateOK, HeldFlash
      <4> QED
        BY <4>1, <4>2
    <3>3. DefsOK(entries)'
      <4>1. CASE cmd[c].op \in {"pause", "resume"}
        <5>1. DefsOK(entries) /\ ItemsOf(OldEntries(c)) = ItemsOf(entries)
          BY <1>2, <2>2, <4>1 DEF HeldFlash
        <5> QED
          BY <2>1, <2>2, <3>1, <5>1 DEF DefsOK
      <4>2. CASE cmd[c].op \notin {"pause", "resume"}
        BY <2>1, <2>3, <4>2 DEF DefsOK
      <4> QED
        BY <4>1, <4>2
    <3> QED
      BY <3>1, <3>2, <3>3, FlashFree
  <2>4. CASE cmd[c].op \notin EntryOps
    <3>1. DefsOK(entries)' /\ StateOK(entries)'
      BY <1>2, <2>1, <2>2, <2>4 DEF HeldFlash, DefsOK, StateOK
    <3>2. lock' = "free"
      BY <2>2, <2>4, DoneFacts DEF TypeInv
    <3> QED
      BY <3>1, <3>2, FlashFree
  <2> QED
    BY <2>3, <2>4
<1> QED
  BY <1>4, <1>5, <1>6, <1>7, <1>8, <1>9

\* Every step keeps flash and memory together.
LEMMA FlashStep ==
  TypeInv /\ ControlInv /\ ControlInv' /\ FlashInv /\ [Next]_vars => FlashInv'
<1> SUFFICES ASSUME TypeInv, ControlInv, ControlInv', FlashInv, [Next]_vars PROVE FlashInv'
  OBVIOUS
<1>1. CASE TaskStep
  BY <1>1, TaskFlash
<1>2. CASE UserBegins \/ Apply \/ Trigger \/ Sync \/ \E c \in Clients : ClientStep(c)
  BY <1>2, CommandFlash, ApplyFlash, LoadFlash, SaveFlash DEF ClientStep
<1>3. CASE Passes
  BY <1>3, FlashSame DEF Passes, history
<1>4. CASE SetClock
  <2> DEFINE sync == [IdleCmd EXCEPT !.pc = "wait", !.op = "sync"]
  <2>1. /\ up = "running" /\ cmd' = [cmd EXCEPT !["service"] = sync]
        /\ UNCHANGED <<up, entries, lock, file, blob, stale>>
    BY <1>4 DEF SetClock, history
  <2>2. sync.pc = "wait"
    BY IdleFacts
  <2> HIDE DEF sync
  <2>3. \A c \in Clients : cmd'[c] = cmd[c] \/ cmd'[c].pc \notin Holding
    BY <2>1, <2>2 DEF TypeInv, Clients, Holding
  <2> QED
    BY <2>1, <2>3, FlashSame
<1>5. CASE Reset
  <2>1. /\ up' = "booting" /\ lock' = "free"
        /\ cmd' = [c \in Clients |-> IF c = "service" THEN BootCmd ELSE IdleCmd]
    BY <1>5 DEF Reset
  <2>2. cmd'["service"].op = "boot"
    BY <2>1, IdleFacts DEF Clients
  <2> QED
    BY <2>1, <2>2, FlashFree
<1>6. CASE UNCHANGED vars
  BY <1>6, FlashSame DEF vars, history
<1> QED
  BY <1>1, <1>2, <1>3, <1>4, <1>5, <1>6 DEF Next

-----------------------------------------------------------------------------
(* Nothing fires before the sync it needs.                                 *)

\* Without a valid clock, entries in memory wait for it, and so do those that a client
\* would put back.
MemoryWaits == \A id \in Present : Waits(entries[id])

OldWaits(c) ==
  cmd[c].pc \in Holding /\ cmd[c].op \in EntryOps /\ cmd[c].old # NoEntry => Waits(cmd[c].old)

EarlyInv ==
  /\ early = {}
  /\ ~timeValid => MemoryWaits /\ \A c \in Clients : OldWaits(c)

\* Clients that keep what they would put back
LEMMA OldKept ==
  ASSUME NEW c \in Clients, OldWaits(c),
         \/ cmd'[c].pc \notin Holding
         \/ cmd'[c].op \notin EntryOps
         \/ cmd[c].pc \in Holding /\ cmd'[c].op = cmd[c].op /\ cmd'[c].old = cmd[c].old
  PROVE  OldWaits(c)'
BY DEF OldWaits

\* A client that moves keeps it, and the other one does.
LEMMA GotoOld ==
  ASSUME TypeInv, \A d \in Clients : OldWaits(d), NEW c \in Clients, NEW place \in Holding,
         Goto(c, place), cmd[c].pc \in Holding \/ cmd[c].op \notin EntryOps
  PROVE  \A d \in Clients : OldWaits(d)'
<1>1. /\ cmd'[c].op = cmd[c].op /\ cmd'[c].old = cmd[c].old
      /\ \A d \in Clients : d # c => cmd'[d] = cmd[d]
  BY PlaceFacts DEF Goto, TypeInv
<1> QED
  BY <1>1 DEF OldWaits

\* A client that is done has nothing left that it would put back.
LEMMA FinishOld ==
  ASSUME TypeInv, \A d \in Clients : OldWaits(d), NEW c \in Clients,
         Finish(c) \/ Done(c)
  PROVE  \A d \in Clients : OldWaits(d)'
<1>1. cmd'[c].pc \notin Holding /\ \A d \in Clients : d # c => cmd'[d] = cmd[d]
  <2>1. CASE Finish(c)
    BY <2>1, FinishFacts, IdleFacts DEF TypeInv, Holding
  <2>2. CASE Done(c)
    BY <2>2, DoneFacts, IdleFacts DEF TypeInv, Holding
  <2> QED
    BY <2>1, <2>2
<1> QED
  BY <1>1 DEF OldWaits

\* Steps that leave the entries alone
LEMMA EarlySame ==
  ASSUME EarlyInv, UNCHANGED <<entries, early, timeValid>>,
         (\A d \in Clients : OldWaits(d)) => \A d \in Clients : OldWaits(d)'
  PROVE  EarlyInv'
<1>1. MemoryWaits' <=> MemoryWaits
  BY DEF MemoryWaits, Present
<1> QED
  BY <1>1 DEF EarlyInv

\* What the task fires, it fires with a valid clock.
LEMMA TaskEarly ==
  ASSUME TypeInv, ControlInv, EarlyInv, TaskStep
  PROVE  EarlyInv'
<1>1. CASE WakeUp \/ TakeLock \/ SaveFired
  <2>1. UNCHANGED <<entries, early, timeValid, cmd>>
    BY <1>1 DEF WakeUp, TakeLock, SaveFired, history
  <2> QED
    BY <2>1, EarlySame DEF OldWaits
<1>2. ASSUME NEW id \in Ids, Miss(id) \/ Fire(id) PROVE EarlyInv'
  <2> DEFINE e == entries[id]
  <2>1. /\ task.pc = "firing" /\ id \in task.todo /\ UNCHANGED <<timeValid, cmd>>
        /\ id \in Present /\ Due(e, task.at)
    BY <1>2 DEF Miss, Fire, history, ControlInv
  <2>2. e \in EntryType /\ timeValid \in BOOLEAN /\ task.at \in Nat /\ task.at \in Int
    <3>1. task.at \in Nat
      BY <2>1 DEF TypeInv
    <3> QED
      BY <2>1, <3>1 DEF TypeInv, Present
  <2>3. PICK f \in EntryType : entries' = [entries EXCEPT ![id] = f] /\ (~timeValid => Waits(f))
    <3>1. CASE Miss(id)
      <4>1. e \in [item : Definitions, status : Statuses \cup {"running"}, next : Int,
                   last : Nat, runs : Nat]
        BY <2>2 DEF EntryType, Statuses
      <4> DEFINE r == Refresh(e, task.at, timeValid)
      <4>2. r \in EntryType /\ (~timeValid => Waits(r))
        BY <2>2, <4>1, RefreshFacts
      <4>3. entries' = [entries EXCEPT ![id] = r]
        BY <3>1 DEF Miss
      <4> QED
        BY <4>2, <4>3
    <3>2. CASE Fire(id)
      <4>1. PICK sent \in BOOLEAN :
              entries' = [entries EXCEPT ![id] = Published(e, FALSE, task.at, sent)]
        BY <3>2, SchedulerAssumption DEF Fire, SchedulerAssumption
      <4> DEFINE p == Published(e, FALSE, task.at, sent)
      <4>2. p \in EntryType /\ (~timeValid => Waits(p))
        BY <2>2, PublishedFacts
      <4> QED
        BY <4>1, <4>2
    <3> QED
      BY <1>2, <3>1, <3>2
  <2>4. early' = {}
    <3>1. CASE Miss(id)
      BY <3>1 DEF Miss, history, EarlyInv
    <3>2. CASE Fire(id)
      <4>1. PICK sent \in BOOLEAN :
              early' = IF sent /\ NeedsTime(e.item) /\ ~timeValid /\ e.status # "error"
                         THEN early \cup {id} ELSE early
        BY <3>2, SchedulerAssumption DEF Fire, SchedulerAssumption
      <4>2. ~(NeedsTime(e.item) /\ ~timeValid /\ e.status # "error")
        BY <2>1 DEF EarlyInv, MemoryWaits, Waits, Due, Never
      <4> QED
        BY <4>1, <4>2 DEF EarlyInv
    <3> QED
      BY <1>2, <3>1, <3>2
  <2> HIDE DEF e
  <2>5. ~timeValid => MemoryWaits'
    BY <2>1, <2>3 DEF EarlyInv, MemoryWaits, Present, TypeInv
  <2> QED
    BY <2>1, <2>4, <2>5 DEF EarlyInv, OldWaits
<1> QED
  BY <1>1, <1>2 DEF TaskStep

\* No command and no load makes an entry due before the clock is valid.
LEMMA CommandEarly ==
  ASSUME TypeInv, ControlInv, EarlyInv, Apply \/ Trigger \/ Sync
  PROVE  EarlyInv'
<1>0. "user" \in Clients /\ "service" \in Clients
  BY DEF Clients
<1>p. Present \subseteq Ids /\ \A id \in Present : entries[id] \in EntryType
  BY DEF Present, TypeInv
<1>1. CASE Apply
  <2> DEFINE u == cmd["user"]
             e == Changed(u.op, entries[u.id], u.item, u.at)
  <2>1. /\ u.op \in EntryOps /\ u.id \in Ids /\ UNCHANGED <<timeValid, early>>
    BY <1>1, ApplyFacts
  <2>2. CASE Finish("user") /\ UNCHANGED <<entries, plan, wish>>
    BY <1>0, <2>1, <2>2, FinishOld, EarlySame
  <2>3. CASE ~(Finish("user") /\ UNCHANGED <<entries, plan, wish>>)
    <3>1. /\ entries' = [entries EXCEPT ![u.id] = e]
          /\ cmd'["user"].old = entries[u.id] /\ cmd'["service"] = cmd["service"]
          /\ u.op # "add" => entries[u.id] \in EntryType
          /\ u.op \in {"add", "update"} => u.item \in Definitions
      BY <1>1, <2>3, ApplyFacts
    <3>2. ~timeValid /\ u.op # "add" => Waits(entries[u.id])
      <4>1. NoEntry \notin EntryType
        BY SchedulerAssumption DEF SchedulerAssumption
      <4> QED
        BY <2>1, <3>1, <4>1 DEF EarlyInv, MemoryWaits, Present
    <3>3. ~timeValid => e = NoEntry \/ Waits(e)
      <4>1. /\ entries[u.id] \in EntryType \cup {NoEntry} /\ u.item \in Definitions \cup {NoEntry}
            /\ u.at \in Int /\ timeValid \in BOOLEAN
        BY <1>0, <2>1 DEF TypeInv, CmdType
      <4> QED
        BY <2>1, <3>1, <3>2, <4>1, ChangedFacts
    <3> HIDE DEF u, e
    <3>4. ~timeValid => MemoryWaits'
      BY <2>1, <3>1, <3>3 DEF EarlyInv, MemoryWaits, Present, TypeInv
    <3>5. ~timeValid => OldWaits("user")' /\ OldWaits("service")'
      <4>1. ~timeValid /\ entries[u.id] # NoEntry => Waits(entries[u.id])
        BY <2>1 DEF EarlyInv, MemoryWaits, Present
      <4> QED
        BY <1>0, <3>1, <4>1 DEF EarlyInv, OldWaits
    <3> QED
      BY <2>1, <3>4, <3>5 DEF EarlyInv, Clients
  <2> QED
    BY <2>2, <2>3
<1>2. CASE Trigger
  <2> DEFINE id == cmd["user"].id
  <2>1. cmd["user"].op = "trigger" /\ UNCHANGED <<timeValid, early>>
    BY <1>2, TriggerFacts
  <2>2. CASE Finish("user") /\ UNCHANGED <<entries, plan>>
    BY <1>0, <2>1, <2>2, FinishOld, EarlySame
  <2>3. CASE ~(Finish("user") /\ UNCHANGED <<entries, plan>>)
    <3>1. PICK sent \in BOOLEAN :
            /\ id \in Present /\ Goto("user", "state")
            /\ entries' = [entries EXCEPT ![id] = Published(entries[id], TRUE, now, sent)]
      BY <1>2, <2>3, TriggerFacts
    <3> DEFINE p == Published(entries[id], TRUE, now, sent)
    <3>2. ~timeValid => Waits(p)
      <4>1. now \in Nat /\ timeValid \in BOOLEAN /\ TRUE \in BOOLEAN
        BY DEF TypeInv
      <4>2. entries[id] \in EntryType
        BY <1>p, <3>1
      <4> QED
        BY <4>1, <4>2, PublishedFacts
    <3>3. ~timeValid => \A c \in Clients : OldWaits(c)'
      BY <1>0, <2>1, <3>1, GotoOld DEF EarlyInv, Holding, EntryOps
    <3> HIDE DEF p, id
    <3>4. ~timeValid => MemoryWaits'
      BY <1>p, <3>1, <3>2 DEF EarlyInv, MemoryWaits, Present, TypeInv, p
    <3> QED
      BY <2>1, <3>3, <3>4 DEF EarlyInv
  <2> QED
    BY <2>2, <2>3
<1>3. CASE Sync
  BY <1>3 DEF Sync, history, EarlyInv
<1> QED
  BY <1>1, <1>2, <1>3

\* A client's steps leave nothing due that waits for the clock.
LEMMA ClientEarly ==
  ASSUME TypeInv, ControlInv, EarlyInv, NEW c \in Clients, ClientStep(c)
  PROVE  EarlyInv'
<1>p. Present \subseteq Ids /\ \A id \in Present : entries[id] \in EntryType
  BY DEF Present, TypeInv
<1>1. CASE Load(c)
  <2>1. /\ cmd[c].op \in {"boot", "reload"} /\ cmd[c].pc = "wait"
        /\ UNCHANGED <<timeValid, file, early>>
    BY <1>1, LoadFacts
  <2>2. CASE UNCHANGED entries /\ (UNCHANGED cmd \/ Finish(c))
    BY <2>1, <2>2, EarlySame, FinishOld DEF OldWaits
  <2>3. CASE ~(UNCHANGED entries /\ (UNCHANGED cmd \/ Finish(c)))
    <3>1. /\ entries' = [id \in Ids |-> IF file.items[id] = NoEntry THEN NoEntry
                                        ELSE NewEntry(file.items[id])]
          /\ cmd'[c].op = cmd[c].op /\ \A d \in Clients : d # c => cmd'[d] = cmd[d]
      BY <1>1, <2>3, LoadFacts
    <3>2. ~timeValid => \A d \in Clients : OldWaits(d)'
      BY <2>1, <3>1 DEF EarlyInv, OldWaits, EntryOps
    <3>3. MemoryWaits'
      <4>1. \A id \in Ids : file.items[id] \in Definitions \cup {NoEntry}
        BY DEF TypeInv
      <4>2. \A item \in Definitions : Waits(NewEntry(item))
        BY NewEntryFacts
      <4> QED
        BY <3>1, <4>1, <4>2 DEF MemoryWaits, Present
    <3> QED
      BY <2>1, <3>2, <3>3 DEF EarlyInv
  <2> QED
    BY <2>2, <2>3
<1>2. CASE OpenDefs(c) \/ WriteDefs(c) \/ (SaveDefsFails(c) /\ Loading(c))
  <2>1. /\ UNCHANGED <<entries, early, timeValid>> /\ cmd[c].pc \in Holding
        /\ \E place \in Holding : Goto(c, place)
    BY <1>2 DEF OpenDefs, WriteDefs, SaveDefsFails, history, Holding
  <2> QED
    BY <2>1, GotoOld, EarlySame
<1>3. ASSUME RollBack(c), UNCHANGED <<early, timeValid>>, cmd[c].pc \in Holding, cmd[c].op \in EntryOps
      PROVE  EarlyInv'
  <2>1. /\ entries' = [entries EXCEPT ![cmd[c].id] = cmd[c].old] /\ Finish(c)
        /\ ~timeValid => cmd[c].old = NoEntry \/ Waits(cmd[c].old)
    BY <1>3 DEF RollBack, EarlyInv, OldWaits
  <2> DEFINE id == cmd[c].id
             old == cmd[c].old
  <2> HIDE DEF id, old
  <2>2. ~timeValid => MemoryWaits'
    BY <2>1 DEF EarlyInv, MemoryWaits, Present, TypeInv, id, old
  <2>3. ~timeValid => \A d \in Clients : OldWaits(d)'
    BY <2>1, FinishOld DEF EarlyInv
  <2> QED
    BY <1>3, <2>2, <2>3 DEF EarlyInv
<1>4. CASE SaveDefsFails(c) /\ ~Loading(c)
  <2>1. RollBack(c) /\ UNCHANGED <<early, timeValid>> /\ cmd[c].pc \in {"defs", "write"}
    BY <1>4 DEF SaveDefsFails
  <2>2. cmd[c].op \in EntryOps
    BY <1>4, <2>1 DEF ControlInv, CommandOK, Loading
  <2> QED
    BY <1>3, <2>1, <2>2 DEF Holding
<1>5. CASE LoadState(c)
  <2>1. /\ cmd[c].pc = "merge" /\ Goto(c, "state") /\ UNCHANGED <<timeValid, early>>
        /\ \A id \in Ids : id \notin Present => entries'[id] = NoEntry
        /\ \A id \in Present : entries'[id] = Loaded(entries[id], blob[id], cmd[c].at)
    BY <1>5, LoadStateFacts
  <2>2. ASSUME NEW id \in Present, ~timeValid
        PROVE  Waits(Loaded(entries[id], blob[id], cmd[c].at))
    <3>1. /\ id \in Ids /\ entries[id] \in EntryType /\ blob[id] \in RunTimeType \cup {NoEntry}
          /\ cmd[c].at \in Int /\ timeValid \in BOOLEAN /\ NoEntry \notin RunTimeType
      BY SchedulerAssumption DEF SchedulerAssumption, TypeInv, Present, CmdType
    <3>2. Waits(entries[id])
      BY <2>2 DEF EarlyInv, MemoryWaits
    <3> QED
      BY <2>2, <3>1, <3>2, LoadedFacts
  <2>3. ~timeValid => MemoryWaits'
    BY <2>1, <2>2 DEF MemoryWaits, Present
  <2>4. ~timeValid => \A d \in Clients : OldWaits(d)'
    BY <2>1, GotoOld DEF EarlyInv, Holding
  <2> QED
    BY <2>1, <2>3, <2>4 DEF EarlyInv
<1>6. CASE SaveState(c)
  BY <1>6, FinishOld, EarlySame DEF SaveState
<1>7. CASE SaveStateFails(c)
  <2>1. /\ UNCHANGED <<timeValid, early>> /\ cmd[c].pc = "state"
        /\ IF cmd[c].op \in EntryOps THEN RollBack(c) ELSE Done(c) /\ UNCHANGED entries
    BY <1>7 DEF SaveStateFails
  <2>2. CASE cmd[c].op \in EntryOps
    BY <1>3, <2>1, <2>2 DEF Holding
  <2>3. CASE cmd[c].op \notin EntryOps
    BY <2>1, <2>3, FinishOld, EarlySame
  <2> QED
    BY <2>2, <2>3
<1> QED
  BY <1>1, <1>2, <1>4, <1>5, <1>6, <1>7 DEF ClientStep

\* Every step keeps what waits for the clock waiting.
LEMMA EarlyStep == TypeInv /\ ControlInv /\ EarlyInv /\ [Next]_vars => EarlyInv'
<1> SUFFICES ASSUME TypeInv, ControlInv, EarlyInv, [Next]_vars PROVE EarlyInv'
  OBVIOUS
<1>1. CASE UserBegins
  <2>1. PICK op, id, item : Begin(op, id, item)
    BY <1>1, BeginFacts
  <2>2. /\ UNCHANGED <<entries, early, timeValid>>
        /\ cmd' = [cmd EXCEPT !["user"] = [pc |-> "wait", op |-> op, id |-> id, item |-> item,
                                           at |-> now, old |-> NoEntry]]
    BY <2>1 DEF Begin, history
  <2>3. cmd'["user"].pc = "wait" /\ cmd'["service"] = cmd["service"]
    BY <2>2 DEF TypeInv, Clients
  <2> QED
    BY <2>2, <2>3, EarlySame DEF OldWaits, Clients, Holding
<1>2. CASE Passes
  BY <1>2, EarlySame DEF Passes, history, OldWaits
<1>3. CASE SetClock
  <2> DEFINE sync == [IdleCmd EXCEPT !.pc = "wait", !.op = "sync"]
  <2>1. /\ cmd' = [cmd EXCEPT !["service"] = sync] /\ UNCHANGED <<entries, early, timeValid>>
    BY <1>3 DEF SetClock, history
  <2>2. sync.pc = "wait"
    BY IdleFacts
  <2> HIDE DEF sync
  <2>3. cmd'["service"].pc = "wait" /\ cmd'["user"] = cmd["user"]
    BY <2>1, <2>2 DEF TypeInv, Clients
  <2> QED
    BY <2>1, <2>3, EarlySame DEF OldWaits, Clients, Holding
<1>4. CASE Reset
  <2>1. /\ early' = early /\ entries' = [id \in Ids |-> NoEntry]
        /\ cmd' = [c \in Clients |-> IF c = "service" THEN BootCmd ELSE IdleCmd]
    BY <1>4 DEF Reset
  <2>2. \A c \in Clients : cmd'[c].pc \notin Holding
    BY <2>1, IdleFacts DEF Holding
  <2> QED
    BY <2>1, <2>2 DEF EarlyInv, MemoryWaits, OldWaits, Present
<1>5. CASE UNCHANGED vars
  BY <1>5, EarlySame DEF vars, history, OldWaits
<1> QED
  BY <1>1, <1>2, <1>3, <1>4, <1>5, TaskEarly, CommandEarly, ClientEarly DEF Next

-----------------------------------------------------------------------------
(* A reset forgets one run at most.                                        *)

\* OneRunAtRisk, and that none is at risk of what the task still has to fire.
RunInv ==
  "state" \notin stale =>
    /\ \A id \in Present : blob[id] # NoEntry => entries[id].runs <= blob[id].runs + 1
    /\ task.pc = "firing" =>
         \A id \in task.todo : blob[id] # NoEntry => entries[id].runs <= blob[id].runs

\* What is saved has the runs of what is in memory.
LEMMA SavedRuns ==
  ASSUME StateOK(entries), "state" \notin stale, NEW id \in Present, blob[id] # NoEntry
  PROVE  blob[id].runs = entries[id].runs
<1>1. blob[id] = RunTime(entries[id])
  BY DEF StateOK, RunTimeOf, Present
<1> QED
  BY <1>1 DEF RunTime

\* After a save nothing is at risk.
LEMMA RunSaved ==
  ASSUME TypeInv', ControlInv', StateOK(entries)'
  PROVE  RunInv'
<1> SUFFICES ASSUME "state" \notin stale' PROVE RunInv'
  BY DEF RunInv
<1>1. blob' = RunTimeOf(entries')
  BY DEF StateOK
<1>2. \A id \in Present' : blob'[id] # NoEntry => blob'[id].runs = entries'[id].runs
  BY <1>1 DEF RunTimeOf, RunTime, Present
<1>3. \A id \in Present' : entries'[id].runs \in Nat
  BY DEF TypeInv, EntryType, Present
<1>4. \A id \in Present' : blob'[id] # NoEntry => entries'[id].runs <= blob'[id].runs
                                                 /\ entries'[id].runs <= blob'[id].runs + 1
  BY <1>2, <1>3
<1>5. task'.pc = "firing" => \A id \in task'.todo : id \in Present'
  BY DEF ControlInv
<1> QED
  BY <1>4, <1>5 DEF RunInv

\* When a client or the task is done, FlashInv says so.
LEMMA RunFree ==
  ASSUME TypeInv', ControlInv', FlashInv', lock' = "free", up' = "running"
  PROVE  RunInv'
BY RunSaved DEF FlashInv

\* Steps of a client that count no run
LEMMA RunKept ==
  ASSUME RunInv, task'.pc # "firing", UNCHANGED blob, "state" \in stale => "state" \in stale',
         \A id \in Present' : blob[id] # NoEntry =>
              id \in Present /\ entries'[id].runs = entries[id].runs
  PROVE  RunInv'
BY DEF RunInv

\* Steps that touch none of it
LEMMA RunSame ==
  ASSUME RunInv, UNCHANGED <<entries, blob, stale, task>>
  PROVE  RunInv'
BY DEF RunInv, Present

\* The task counts one run of each entry.
LEMMA TaskRun ==
  ASSUME TypeInv, ControlInv, FlashInv, TypeInv', ControlInv', FlashInv', RunInv, TaskStep
  PROVE  RunInv'
<1>1. CASE WakeUp
  <2>1. task.pc # "firing" /\ task'.pc # "firing" /\ UNCHANGED <<entries, blob, stale>>
    BY <1>1 DEF WakeUp, history, TypeInv, TaskType
  <2> QED
    BY <2>1, RunKept DEF Present
<1>2. CASE TakeLock
  <2>1. lock = "free" /\ up = "running" /\ UNCHANGED <<entries, blob, stale>>
    BY <1>2 DEF TakeLock, history, ControlInv
  <2> QED
    BY <2>1, RunSaved DEF FlashInv, StateOK
<1>3. ASSUME NEW id \in Ids, Miss(id) \/ Fire(id) PROVE RunInv'
  <2> DEFINE e == entries[id]
  <2>1. /\ task.pc = "firing" /\ id \in task.todo /\ UNCHANGED <<timeValid, blob, stale>>
        /\ id \in Present /\ task' = [task EXCEPT !.todo = task.todo \ {id}]
    BY <1>3 DEF Miss, Fire, history, ControlInv
  <2>2. e \in EntryType /\ timeValid \in BOOLEAN /\ task.at \in Nat /\ task.at \in Int
    <3>1. task.at \in Nat
      BY <2>1 DEF TypeInv
    <3> QED
      BY <2>1, <3>1 DEF TypeInv, Present
  <2>3. PICK f \in EntryType : entries' = [entries EXCEPT ![id] = f] /\ f.runs \in {e.runs, e.runs + 1}
    <3>1. CASE Miss(id)
      <4>1. e \in [item : Definitions, status : Statuses \cup {"running"}, next : Int,
                   last : Nat, runs : Nat]
        BY <2>2 DEF EntryType, Statuses
      <4> DEFINE r == Refresh(e, task.at, timeValid)
      <4>2. r \in EntryType /\ r.runs = e.runs
        BY <2>2, <4>1, RefreshFacts
      <4>3. entries' = [entries EXCEPT ![id] = r]
        BY <3>1 DEF Miss
      <4> QED
        BY <4>2, <4>3
    <3>2. CASE Fire(id)
      <4>1. PICK sent \in BOOLEAN :
              entries' = [entries EXCEPT ![id] = Published(e, FALSE, task.at, sent)]
        BY <3>2, SchedulerAssumption DEF Fire, SchedulerAssumption
      <4> DEFINE p == Published(e, FALSE, task.at, sent)
      <4>2. p \in EntryType /\ p.runs \in {e.runs, e.runs + 1}
        BY <2>2, PublishedFacts
      <4> QED
        BY <4>1, <4>2
    <3> QED
      BY <1>3, <3>1, <3>2
  <2>4. e.runs \in Nat /\ (blob[id] # NoEntry => blob[id].runs \in Nat)
    BY <2>2 DEF EntryType, TypeInv, RunTimeType
  <2>5. task'.todo = task.todo \ {id}
    BY <2>1 DEF TypeInv, TaskType
  <2> HIDE DEF e
  <2>6. entries'[id] = f /\ \A x \in Ids : x # id => entries'[x] = entries[x]
    BY <2>3 DEF TypeInv
  <2>7. \A x \in Present' : x \in Ids /\ (x # id => x \in Present)
    BY <2>6 DEF Present
  <2>8. "state" \notin stale /\ blob[id] # NoEntry => e.runs <= blob[id].runs
    BY <2>1 DEF RunInv, e
  <2>9. "state" \notin stale /\ blob[id] # NoEntry => f.runs <= blob[id].runs + 1
    BY <2>3, <2>4, <2>8
  <2>10. \A x \in task'.todo : x \in Ids /\ x # id /\ x \in task.todo
    BY <2>5 DEF TypeInv, TaskType
  <2> QED
    BY <2>1, <2>6, <2>7, <2>9, <2>10 DEF RunInv
<1>4. CASE SaveFired
  <2>1. lock' = "free" /\ up' = "running"
    BY <1>4 DEF SaveFired, ControlInv
  <2> QED
    BY <2>1, RunFree
<1> QED
  BY <1>1, <1>2, <1>3, <1>4 DEF TaskStep

\* Every step keeps the runs that are saved close to those in memory.
LEMMA RunStep ==
  TypeInv /\ ControlInv /\ FlashInv /\ TypeInv' /\ ControlInv' /\ FlashInv' /\ RunInv /\ [Next]_vars
    => RunInv'
<1> SUFFICES ASSUME TypeInv, ControlInv, FlashInv, TypeInv', ControlInv', FlashInv', RunInv, [Next]_vars
             PROVE  RunInv'
  OBVIOUS
<1>0. "user" \in Clients /\ "service" \in Clients
  BY DEF Clients
<1>p. Present \subseteq Ids /\ \A id \in Present : entries[id] \in EntryType
  BY DEF Present, TypeInv
<1>b. \A id \in Ids : blob[id] # NoEntry => blob[id].runs \in Nat
  BY DEF TypeInv, RunTimeType
<1>e. \A id \in Present : entries[id].runs \in Nat
  BY <1>p DEF EntryType
<1>n. NoEntry \notin EntryType
  BY SchedulerAssumption DEF SchedulerAssumption
<1>1. CASE Apply
  <2> DEFINE u == cmd["user"]
             e == Changed(u.op, entries[u.id], u.item, u.at)
  <2>1. /\ u.op \in EntryOps /\ u.id \in Ids /\ lock = "free" /\ up = "running"
        /\ UNCHANGED <<task, blob, stale>>
    BY <1>1, ApplyFacts
  <2>2. CASE Finish("user") /\ UNCHANGED <<entries, plan, wish>>
    BY <2>1, <2>2, RunSame
  <2>3. CASE ~(Finish("user") /\ UNCHANGED <<entries, plan, wish>>)
    <3>1. /\ entries' = [entries EXCEPT ![u.id] = e]
          /\ u.op # "add" => entries[u.id] \in EntryType
          /\ u.op = "add" => entries[u.id] = NoEntry
          /\ u.op \in {"add", "update"} => u.item \in Definitions
      BY <1>1, <2>3, ApplyFacts
    <3>2. /\ u.op = "remove" => e = NoEntry
          /\ u.op # "remove" => e \in EntryType
          /\ u.op = "add" => e.runs = 0
          /\ u.op \notin {"add", "remove"} => e.runs = entries[u.id].runs
      <4> DEFINE op == u.op
                 old == entries[u.id]
                 item == u.item
                 at == u.at
      <4>1. /\ old \in EntryType \cup {NoEntry} /\ item \in Definitions \cup {NoEntry}
            /\ at \in Int /\ timeValid \in BOOLEAN
        BY <1>0, <2>1 DEF TypeInv, CmdType
      <4>2. e = Changed(op, old, item, at)
        OBVIOUS
      <4>3. op \in EntryOps /\ (op # "add" => old \in EntryType)
            /\ (op \in {"add", "update"} => item \in Definitions)
        BY <2>1, <3>1
      <4> HIDE DEF e, op, old, item, at
      <4>4. LET c == Changed(op, old, item, at)
            IN  /\ op = "remove" => c = NoEntry
                /\ op # "remove" => c \in EntryType
                /\ op = "add" => c.runs = 0
                /\ op \notin {"add", "remove"} => c.runs = old.runs
        BY <4>1, <4>3, ChangedFacts
      <4> QED
        BY <4>2, <4>4 DEF op, old
    <3>3. task'.pc # "firing" /\ StateOK(entries)
      BY <2>1 DEF ControlInv, FlashInv
    <3> HIDE DEF u, e
    <3>4. entries'[u.id] = e /\ \A x \in Ids : x # u.id => entries'[x] = entries[x]
      BY <2>1, <3>1 DEF TypeInv
    <3>5. ASSUME NEW x \in Present', blob[x] # NoEntry, "state" \notin stale
          PROVE  entries'[x].runs <= blob[x].runs + 1
      <4>0. x \in Ids
        BY DEF Present
      <4>1. CASE x # u.id
        BY <1>b, <1>e, <3>4, <3>5, <4>0, <4>1, SavedRuns, <3>3 DEF Present
      <4>2. CASE x = u.id /\ u.op = "add"
        BY <1>b, <3>2, <3>4, <3>5, <4>0, <4>2
      <4>3. CASE x = u.id /\ u.op # "add"
        <5>1. entries[x] \in EntryType /\ entries'[x].runs = entries[x].runs /\ x \in Present
          BY <1>n, <3>1, <3>2, <3>4, <4>0, <4>3 DEF Present
        <5> QED
          BY <1>b, <1>e, <3>3, <3>5, <4>0, <5>1, SavedRuns
      <4> QED
        BY <4>1, <4>2, <4>3
    <3> QED
      BY <2>1, <3>3, <3>5 DEF RunInv
  <2> QED
    BY <2>2, <2>3
<1>2. CASE Trigger
  <2> DEFINE id == cmd["user"].id
  <2>1. /\ lock = "free" /\ up = "running" /\ UNCHANGED <<task, blob, stale>>
    BY <1>2, TriggerFacts
  <2>2. CASE Finish("user") /\ UNCHANGED <<entries, plan>>
    BY <2>1, <2>2, RunSame
  <2>3. CASE ~(Finish("user") /\ UNCHANGED <<entries, plan>>)
    <3>1. PICK sent \in BOOLEAN :
            /\ id \in Present
            /\ entries' = [entries EXCEPT ![id] = Published(entries[id], TRUE, now, sent)]
      BY <1>2, <2>3, TriggerFacts
    <3> DEFINE p == Published(entries[id], TRUE, now, sent)
    <3>2. p.runs \in {entries[id].runs, entries[id].runs + 1}
      <4>1. now \in Nat /\ timeValid \in BOOLEAN /\ TRUE \in BOOLEAN
        BY DEF TypeInv
      <4>2. entries[id] \in EntryType
        BY <1>p, <3>1
      <4> QED
        BY <4>1, <4>2, PublishedFacts
    <3>3. task'.pc # "firing" /\ StateOK(entries)
      BY <2>1 DEF ControlInv, FlashInv
    <3> HIDE DEF id, p
    <3>4. entries'[id] = p /\ \A x \in Ids : x # id => entries'[x] = entries[x]
      BY <1>p, <3>1 DEF TypeInv, p
    <3>5. ASSUME NEW x \in Present', blob[x] # NoEntry, "state" \notin stale
          PROVE  entries'[x].runs <= blob[x].runs + 1
      <4>1. x \in Ids /\ x \in Present
        BY <3>1, <3>4 DEF Present
      <4>2. blob[x].runs = entries[x].runs /\ entries[x].runs \in Nat
        BY <1>e, <3>3, <3>5, <4>1, SavedRuns
      <4>3. entries'[x].runs \in {entries[x].runs, entries[x].runs + 1}
        BY <3>2, <3>4, <4>1
      <4> QED
        BY <4>2, <4>3
    <3> QED
      BY <2>1, <3>3, <3>5 DEF RunInv
  <2> QED
    BY <2>2, <2>3
<1>3. CASE Sync
  <2>1. /\ lock = "free" /\ UNCHANGED <<task, blob, stale>>
        /\ entries' = [id \in Ids |-> IF id \in Present THEN Synced(entries[id]) ELSE NoEntry]
    BY <1>3 DEF Sync, history
  <2>2. task'.pc # "firing" /\ \A id \in Present : Synced(entries[id]).runs = entries[id].runs
    BY <1>p, <2>1, SyncedFacts DEF TypeInv, ControlInv
  <2>3. \A id \in Present' : id \in Present /\ entries'[id].runs = entries[id].runs
    BY <2>1, <2>2 DEF Present
  <2> QED
    BY <2>1, <2>2, <2>3, RunKept
<1>4. ASSUME NEW c \in Clients, Load(c) PROVE RunInv'
  <2>1. lock = "free" /\ UNCHANGED <<task, file, blob, stale>>
    BY <1>4, LoadFacts
  <2>2. CASE UNCHANGED entries
    BY <2>1, <2>2, RunSame
  <2>3. CASE ~UNCHANGED entries
    <3>1. entries' = [id \in Ids |-> IF file.items[id] = NoEntry THEN NoEntry
                                      ELSE NewEntry(file.items[id])]
      BY <1>4, <2>3, LoadFacts
    <3>2. \A id \in Present' : id \in Ids /\ entries'[id].runs = 0
      <4>1. \A id \in Ids : file.items[id] \in Definitions \cup {NoEntry}
        BY DEF TypeInv
      <4>2. \A item \in Definitions : NewEntry(item).runs = 0
        BY NewEntryFacts
      <4> QED
        BY <3>1, <4>1, <4>2 DEF Present
    <3>3. task'.pc # "firing"
      BY <2>1 DEF ControlInv
    <3>4. \A id \in Present' : blob[id] # NoEntry => entries'[id].runs <= blob[id].runs + 1
      BY <1>b, <3>2
    <3> QED
      BY <2>1, <3>3, <3>4 DEF RunInv
  <2> QED
    BY <2>2, <2>3
<1>5. ASSUME NEW c \in Clients,
             OpenDefs(c) \/ WriteDefs(c) \/ SaveDefsFails(c) \/ LoadState(c) \/ SaveState(c) \/ SaveStateFails(c)
      PROVE  RunInv'
  <2>1. task'.pc # "firing" /\ UNCHANGED task
    BY <1>5 DEF OpenDefs, WriteDefs, SaveDefsFails, LoadState, SaveState, SaveStateFails,
                ControlInv, Clients, Holding
  <2>f. Finish(c) => lock' = "free" /\ up' = "running"
    BY DEF Finish
  <2>2. CASE OpenDefs(c) \/ WriteDefs(c)
    <3>1. UNCHANGED <<entries, blob>> /\ ("state" \in stale => "state" \in stale')
      BY <2>2 DEF OpenDefs, WriteDefs, history
    <3> QED
      BY <2>1, <3>1, RunKept DEF Present
  <2>3. CASE SaveDefsFails(c)
    <3>1. /\ UNCHANGED blob /\ ("state" \in stale => "state" \in stale')
          /\ UNCHANGED entries \/ RollBack(c)
      BY <2>3 DEF SaveDefsFails
    <3>2. CASE UNCHANGED entries
      BY <2>1, <3>1, <3>2, RunKept DEF Present
    <3>3. CASE RollBack(c)
      BY <2>f, <3>3, RunFree DEF RollBack
    <3> QED
      BY <3>1, <3>2, <3>3
  <2>4. CASE LoadState(c)
    <3>1. /\ UNCHANGED <<blob, stale>>
          /\ \A id \in Ids : id \notin Present => entries'[id] = NoEntry
          /\ \A id \in Present : entries'[id] = Loaded(entries[id], blob[id], cmd[c].at)
      BY <2>4, LoadStateFacts
    <3>2. ASSUME NEW id \in Present, blob[id] # NoEntry
          PROVE  Loaded(entries[id], blob[id], cmd[c].at).runs = blob[id].runs
      <4>1. /\ id \in Ids /\ entries[id] \in EntryType /\ blob[id] \in RunTimeType \cup {NoEntry}
            /\ cmd[c].at \in Int /\ timeValid \in BOOLEAN /\ NoEntry \notin RunTimeType
        BY SchedulerAssumption DEF SchedulerAssumption, TypeInv, Present, CmdType
      <4> QED
        BY <3>2, <4>1, LoadedFacts
    <3>3. \A id \in Present' : id \in Present
      BY <3>1 DEF Present
    <3>4. \A id \in Present' : blob[id] # NoEntry => entries'[id].runs = blob[id].runs
      BY <3>1, <3>2, <3>3
    <3>5. ASSUME NEW id \in Present', blob[id] # NoEntry
          PROVE  entries'[id].runs <= blob[id].runs + 1
      <4>1. entries'[id].runs = blob[id].runs
        BY <3>4, <3>5
      <4>2. blob[id].runs \in Nat
        BY <1>b, <1>p, <3>3, <3>5
      <4> QED
        BY <4>1, <4>2
    <3> QED
      BY <2>1, <3>1, <3>5 DEF RunInv
  <2>5. CASE SaveState(c)
    BY <2>5, RunSaved DEF SaveState, StateOK
  <2>6. CASE SaveStateFails(c)
    <3>1. CASE RollBack(c)
      BY <2>f, <3>1, RunFree DEF RollBack
    <3>2. CASE ~RollBack(c)
      BY <2>6, <3>2 DEF SaveStateFails, RunInv
    <3> QED
      BY <3>1, <3>2
  <2> QED
    BY <1>5, <2>2, <2>3, <2>4, <2>5, <2>6
<1>6. CASE UserBegins
  <2>1. PICK op, id, item : Begin(op, id, item)
    BY <1>6, BeginFacts
  <2> QED
    BY <2>1, RunSame DEF Begin, history
<1>7. CASE Passes \/ SetClock
  BY <1>7, RunSame DEF Passes, SetClock, history
<1>8. CASE Reset
  <2>1. task'.pc # "firing" /\ entries' = [id \in Ids |-> NoEntry]
    BY <1>8, ResetTask DEF Reset
  <2> QED
    BY <2>1 DEF RunInv, Present
<1>9. CASE UNCHANGED vars
  BY <1>9, RunSame DEF vars, history
<1> QED
  BY <1>1, <1>2, <1>3, <1>4, <1>5, <1>6, <1>7, <1>8, <1>9, TaskRun DEF Next, ClientStep

-----------------------------------------------------------------------------
(* A pause holds.                                                          *)

\* The user's command that has the mutex is about this entry.
Mine(id) == cmd["user"].pc \in Holding /\ cmd["user"].id = id

LoadsNow  == \E c \in Clients : cmd[c].pc \in {"defs", "write", "merge"} /\ Loading(c)
BootWaits == cmd["service"].op = "boot" /\ cmd["service"].pc = "wait"

Saved(id) == blob[id] # NoEntry /\ blob[id].status = "paused"

\* Where the pause of an entry is kept: in memory, unless that is being loaded or changed;
\* and in flash as long as a load could bring the entry back.
PausedAt(id) ==
  LET u == cmd["user"]
  IN  /\ Mine(id) /\ u.op \in EntryOps \ {"add"} => u.old # NoEntry
      /\ Mine(id) /\ u.op = "pause" => id \in Present /\ entries[id].status = "paused"
      /\ Mine(id) /\ u.op = "add" => wish[id] # "paused"
      /\ wish[id] = "paused" =>
           /\ Mine(id) /\ u.op \in EntryOps => u.old.status = "paused"
           /\ id \in Present => \/ entries[id].status = "paused"
                                \/ LoadsNow
                                \/ Mine(id) /\ u.op \notin {"pause", "update"}
           /\ id \in Present \/ file.items[id] # NoEntry \/ (Mine(id) /\ u.op \in EntryOps) =>
                Saved(id)
           /\ file.items[id] # NoEntry =>
                \/ id \in Present
                \/ BootWaits
                \/ Mine(id) /\ u.op = "remove" /\ u.pc \in {"defs", "write"}

PauseInv == \A id \in Ids : PausedAt(id)

\* While no client has the mutex, none changes or loads anything.
LEMMA NobodyHolds ==
  ASSUME ControlInv, lock \in {"free", "task"}
  PROVE  ~LoadsNow /\ \A id \in Ids : ~Mine(id)
BY DEF ControlInv, LoadsNow, Mine, Clients, Holding

\* The client that has it is the only one.
LEMMA OneHolds ==
  ASSUME TypeInv, ControlInv, NEW c \in Clients, cmd[c].pc \in Holding
  PROVE  /\ LoadsNow <=> cmd[c].pc \in {"defs", "write", "merge"} /\ Loading(c)
         /\ \A id \in Ids : Mine(id) <=> c = "user" /\ cmd[c].id = id
         /\ ~BootWaits
         /\ c = "service" => cmd[c].op \notin EntryOps \cup {"trigger"} /\ cmd[c].id = NoEntry
         /\ Loading(c) => \A id \in Ids : ~Mine(id)
<1>0. "user" \in Clients /\ "service" \in Clients /\ NoEntry \notin Ids
  BY SchedulerAssumption DEF SchedulerAssumption, Clients
<1>1. lock = c /\ \A d \in Clients : d # c => cmd[d].pc \notin Holding
  BY DEF ControlInv
<1>2. LoadsNow <=> cmd[c].pc \in {"defs", "write", "merge"} /\ Loading(c)
  BY <1>1 DEF LoadsNow, Holding
<1>3. \A id \in Ids : Mine(id) <=> c = "user" /\ cmd[c].id = id
  BY <1>0, <1>1 DEF Mine, Clients
<1>4. ~BootWaits
  <2>1. CASE c = "service"
    BY <2>1 DEF BootWaits, Holding
  <2>2. CASE c = "user"
    BY <2>2 DEF BootWaits, Holding, ControlInv, CommandOK
  <2> QED
    BY <2>1, <2>2 DEF Clients
<1>5. c = "service" => cmd[c].op \notin EntryOps \cup {"trigger"} /\ cmd[c].id = NoEntry
  BY DEF ControlInv, EntryOps, CommandOK
<1>6. Loading(c) => \A id \in Ids : ~Mine(id)
  BY <1>0, <1>3 DEF Loading, ControlInv, CommandOK
<1> QED
  BY <1>2, <1>3, <1>4, <1>5, <1>6

\* A step after which nobody works on the entry
LEMMA PauseRest ==
  ASSUME NEW id \in Ids, ~Mine(id)',
         wish'[id] = "paused" =>
           /\ entries'[id] # NoEntry => entries'[id].status = "paused"
           /\ entries'[id] # NoEntry \/ file'.items[id] # NoEntry => Saved(id)'
           /\ file'.items[id] # NoEntry => entries'[id] # NoEntry \/ BootWaits'
  PROVE  PausedAt(id)'
BY DEF PausedAt, Present

\* A step that leaves the entry and what works on it alone
LEMMA PauseKept ==
  ASSUME NEW id \in Ids, PausedAt(id), entries'[id] = entries[id], blob'[id] = blob[id],
         file'.items[id] = file.items[id], wish'[id] = wish[id],
         LoadsNow => LoadsNow', BootWaits => BootWaits',
         (~Mine(id) /\ ~Mine(id)') \/ cmd'["user"] = cmd["user"]
  PROVE  PausedAt(id)'
BY DEF PausedAt, Present, Saved, Mine

\* What is due is not paused, so that the task ends no pause.
LEMMA TaskPause ==
  ASSUME TypeInv, ControlInv, ControlInv', PauseInv, TaskStep, NEW id \in Ids
  PROVE  PausedAt(id)'
<1>0. PausedAt(id)
  BY DEF PauseInv
<1>1. CASE WakeUp \/ TakeLock
  <2>1. UNCHANGED <<entries, blob, file, wish, cmd>>
    BY <1>1 DEF WakeUp, TakeLock, history
  <2> QED
    BY <1>0, <2>1, PauseKept DEF LoadsNow, Loading, BootWaits
<1>2. ASSUME NEW x \in Ids, Miss(x) \/ Fire(x) PROVE PausedAt(id)'
  <2>1. /\ task.pc = "firing" /\ x \in task.todo /\ UNCHANGED <<blob, file, wish, cmd>>
        /\ \A y \in Ids : y # x => entries'[y] = entries[y]
    BY <1>2 DEF Miss, Fire, history, TypeInv
  <2>2. x \in Present /\ entries[x].status # "paused" /\ lock = "task"
    BY <2>1 DEF ControlInv, Due
  <2>3. ~LoadsNow /\ ~Mine(id)
    BY <2>2, NobodyHolds
  <2>4. ~Mine(id)'
    BY <2>1, <2>3 DEF Mine
  <2>5. CASE id = x
    <3>1. wish'[id] # "paused"
      BY <1>0, <2>1, <2>2, <2>3, <2>5 DEF PausedAt
    <3> QED
      BY <2>4, <3>1, PauseRest
  <2>6. CASE id # x
    BY <1>0, <2>1, <2>3, <2>4, <2>6, PauseKept DEF BootWaits
  <2> QED
    BY <2>5, <2>6
<1>3. CASE SaveFired
  <2>1. /\ task.pc = "firing" /\ UNCHANGED <<entries, file, wish, cmd>>
        /\ blob' = RunTimeOf(entries) \/ blob' = blob
    BY <1>3 DEF SaveFired
  <2>2. lock = "task" /\ ~BootWaits
    BY <2>1 DEF ControlInv, BootWaits
  <2>3. ~LoadsNow /\ ~Mine(id) /\ ~Mine(id)'
    BY <2>1, <2>2, NobodyHolds DEF Mine
  <2>4. wish[id] = "paused" =>
          /\ id \in Present => entries[id].status = "paused"
          /\ id \in Present => Saved(id)
          /\ file.items[id] # NoEntry => id \in Present
    BY <1>0, <2>2, <2>3 DEF PausedAt
  <2>5. wish[id] = "paused" /\ id \in Present => Saved(id)'
    <3>1. NoEntry \notin RunTimeType /\ RunTimeOf(entries) \in [Ids -> RunTimeType \cup {NoEntry}]
      BY SchedulerAssumption DEF SchedulerAssumption, TypeInv, RunTimeOf, RunTime, RunTimeType, EntryType
    <3>2. CASE blob' = RunTimeOf(entries)
      <4>1. id \in Present => blob'[id] = RunTime(entries[id]) /\ RunTime(entries[id]) \in RunTimeType
        BY <3>2 DEF RunTimeOf, Present, TypeInv, RunTime, RunTimeType, EntryType
      <4>2. id \in Present => blob'[id].status = entries[id].status /\ blob'[id] # NoEntry
        BY <3>1, <4>1 DEF RunTime
      <4> QED
        BY <2>4, <4>2 DEF Saved
    <3>3. CASE blob' = blob
      BY <2>4, <3>3 DEF Saved
    <3> QED
      BY <2>1, <3>2, <3>3
  <2> QED
    BY <2>1, <2>3, <2>4, <2>5, PauseRest DEF Present
<1> QED
  BY <1>1, <1>2, <1>3 DEF TaskStep

\* A command changes its own entry: a pause pauses it, an update leaves it paused.
LEMMA ApplyPause ==
  ASSUME TypeInv, ControlInv, ControlInv', PauseInv, Apply, NEW id \in Ids
  PROVE  PausedAt(id)'
<1> DEFINE u == cmd["user"]
           e == Changed(u.op, entries[u.id], u.item, u.at)
<1>0. PausedAt(id)
  BY DEF PauseInv
<1>1. /\ u.op \in EntryOps /\ u.id \in Ids /\ lock = "free" /\ up = "running" /\ u.pc = "wait"
      /\ UNCHANGED <<file, blob>>
  BY ApplyFacts
<1>2. ~LoadsNow /\ ~Mine(id) /\ ~BootWaits
  BY <1>1, NobodyHolds DEF ControlInv, BootWaits
<1>3. CASE Finish("user") /\ UNCHANGED <<entries, plan, wish>>
  <2>1. ~Mine(id)'
    BY <1>3, FinishFacts, IdleFacts DEF Mine, Holding, TypeInv, Clients
  <2> QED
    BY <1>0, <1>1, <1>2, <1>3, <2>1, PauseKept
<1>4. CASE ~(Finish("user") /\ UNCHANGED <<entries, plan, wish>>)
  <2>1. /\ lock' = "user"
        /\ entries' = [entries EXCEPT ![u.id] = e]
        /\ wish' = IF u.op = "add" THEN [wish EXCEPT ![u.id] = "none"] ELSE wish
        /\ cmd'["user"].old = entries[u.id] /\ cmd'["user"].op = u.op
        /\ cmd'["user"].id = u.id
        /\ cmd'["user"].pc = IF u.op \in {"pause", "resume"} THEN "state" ELSE "defs"
        /\ cmd'["service"] = cmd["service"]
        /\ u.op # "add" => entries[u.id] \in EntryType
        /\ u.op \in {"add", "update"} => u.item \in Definitions
    BY <1>4, ApplyFacts
  <2>2. /\ u.op = "remove" => e = NoEntry
        /\ u.op # "remove" => e \in EntryType
        /\ u.op = "pause" => e.status = "paused"
        /\ u.op = "update" /\ entries[u.id].status = "paused" => e.status = "paused"
    <3> DEFINE op == u.op
               old == entries[u.id]
               item == u.item
               at == u.at
    <3>1. /\ old \in EntryType \cup {NoEntry} /\ item \in Definitions \cup {NoEntry}
          /\ at \in Int /\ timeValid \in BOOLEAN
      BY <1>1 DEF TypeInv, CmdType, Clients
    <3>2. e = Changed(op, old, item, at)
      OBVIOUS
    <3>3. op \in EntryOps /\ (op # "add" => old \in EntryType)
          /\ (op \in {"add", "update"} => item \in Definitions)
      BY <1>1, <2>1
    <3> HIDE DEF e, op, old, item, at
    <3>4. /\ op = "remove" => e = NoEntry
          /\ op # "remove" => e \in EntryType
          /\ op = "pause" => e.status = "paused"
          /\ op = "update" /\ old.status = "paused" => e.status = "paused"
      BY <3>1, <3>2, <3>3, ChangedFacts
    <3> QED
      BY <3>4 DEF op, old
  <2> HIDE DEF u, e
  <2>3. NoEntry \notin EntryType
    BY SchedulerAssumption DEF SchedulerAssumption
  <2>4. entries'[u.id] = e /\ \A x \in Ids : x # u.id => entries'[x] = entries[x]
    BY <1>1, <2>1 DEF TypeInv
  <2>5. CASE id # u.id
    <3>1. wish'[id] = wish[id]
      BY <2>1, <2>5 DEF TypeInv
    <3>2. ~Mine(id)'
      BY <2>1, <2>5 DEF Mine
    <3> QED
      BY <1>0, <1>1, <1>2, <2>4, <2>5, <3>1, <3>2, PauseKept
  <2>6. CASE id = u.id /\ u.op = "add"
    <3>1. wish'[id] = "none"
      BY <1>1, <2>1, <2>6 DEF TypeInv
    <3> QED
      BY <2>1, <2>6, <3>1 DEF PausedAt
  <2>7. CASE id = u.id /\ u.op # "add"
    <3>1. /\ wish' = wish /\ id \in Present /\ entries[id] # NoEntry
          /\ cmd'["user"].old = entries[id] /\ Mine(id)'
      BY <1>1, <2>1, <2>3, <2>7 DEF Present, Mine, Holding
    <3>2. wish[id] = "paused" => entries[id].status = "paused" /\ Saved(id)
      BY <1>0, <1>2, <3>1 DEF PausedAt
    <3>3. wish[id] = "paused" => Saved(id)'
      BY <1>1, <3>2 DEF Saved
    <3>4. u.op # "remove" => id \in Present'
      BY <2>2, <2>3, <2>4, <2>7 DEF Present
    <3>5. u.op = "remove" => cmd'["user"].pc = "defs"
      BY <2>1
    <3>6. u.op = "pause" => entries'[id].status = "paused"
      BY <2>2, <2>4, <2>7
    <3>7. u.op = "update" /\ wish[id] = "paused" => entries'[id].status = "paused"
      BY <2>2, <2>4, <2>7, <3>2
    <3> QED
      BY <2>1, <2>7, <3>1, <3>2, <3>3, <3>4, <3>5, <3>6, <3>7 DEF PausedAt
  <2> QED
    BY <2>5, <2>6, <2>7
<1> QED
  BY <1>3, <1>4

\* A trigger and a sync
LEMMA CommandPause ==
  ASSUME TypeInv, ControlInv, ControlInv', PauseInv, UserBegins \/ Trigger \/ Sync, NEW id \in Ids
  PROVE  PausedAt(id)'
<1>0. PausedAt(id)
  BY DEF PauseInv
<1>p. Present \subseteq Ids /\ \A x \in Present : entries[x] \in EntryType
  BY DEF Present, TypeInv
<1>n. NoEntry \notin EntryType /\ NoEntry \notin Ids
  BY SchedulerAssumption DEF SchedulerAssumption
<1>1. CASE UserBegins
  <2>1. PICK op, i, item : Begin(op, i, item)
    BY <1>1, BeginFacts
  <2>2. /\ UNCHANGED <<entries, file, blob, wish>> /\ cmd["user"].pc = "idle"
        /\ cmd' = [cmd EXCEPT !["user"] = [pc |-> "wait", op |-> op, id |-> i, item |-> item,
                                           at |-> now, old |-> NoEntry]]
    BY <2>1 DEF Begin, history
  <2>3. cmd'["user"].pc = "wait" /\ cmd'["service"] = cmd["service"]
    BY <2>2 DEF TypeInv, Clients
  <2>4. ~Mine(id) /\ ~Mine(id)'
    BY <2>2, <2>3 DEF Mine, Holding
  <2>5. LoadsNow => LoadsNow'
    BY <2>2, <2>3 DEF LoadsNow, Loading, Clients
  <2> QED
    BY <1>0, <2>2, <2>3, <2>4, <2>5, PauseKept DEF BootWaits
<1>2. CASE Trigger
  <2> DEFINE u == cmd["user"]
  <2>1. /\ u.op = "trigger" /\ u.id \in Ids /\ lock = "free" /\ up = "running"
        /\ UNCHANGED <<file, blob, wish>>
    BY <1>2, TriggerFacts
  <2>2. ~LoadsNow /\ ~Mine(id) /\ ~BootWaits
    BY <2>1, NobodyHolds DEF ControlInv, BootWaits
  <2>3. CASE Finish("user") /\ UNCHANGED <<entries, plan>>
    <3>1. ~Mine(id)'
      BY <2>3, FinishFacts, IdleFacts DEF Mine, Holding, TypeInv, Clients
    <3> QED
      BY <1>0, <2>1, <2>2, <2>3, <3>1, PauseKept
  <2>4. CASE ~(Finish("user") /\ UNCHANGED <<entries, plan>>)
    <3>1. PICK sent \in BOOLEAN :
            /\ u.id \in Present /\ Goto("user", "state")
            /\ entries' = [entries EXCEPT ![u.id] = Published(entries[u.id], TRUE, now, sent)]
      BY <1>2, <2>4, TriggerFacts
    <3> DEFINE p == Published(entries[u.id], TRUE, now, sent)
    <3>2. p \in EntryType
      <4>1. now \in Nat /\ timeValid \in BOOLEAN /\ TRUE \in BOOLEAN
        BY DEF TypeInv
      <4>2. entries[u.id] \in EntryType
        BY <1>p, <3>1
      <4> QED
        BY <4>1, <4>2, PublishedFacts
    <3>3. cmd'["user"].pc = "state" /\ cmd'["user"].op = "trigger" /\ cmd'["user"].id = u.id
      BY <2>1, <3>1, PlaceFacts DEF Goto, TypeInv, Holding, Clients
    <3> HIDE DEF p, u
    <3>4. entries'[u.id] = p /\ \A x \in Ids : x # u.id => entries'[x] = entries[x]
      BY <2>1, <3>1 DEF TypeInv, p
    <3>5. CASE id = u.id
      <4>1. id \in Present /\ id \in Present'
        BY <1>n, <3>1, <3>2, <3>4, <3>5 DEF Present
      <4>2. wish[id] = "paused" => Saved(id)
        BY <1>0, <4>1 DEF PausedAt
      <4>3. Mine(id)' /\ (Saved(id) => Saved(id)')
        BY <2>1, <3>3, <3>5 DEF Mine, Holding, Saved
      <4> QED
        BY <2>1, <3>3, <4>1, <4>2, <4>3 DEF PausedAt, EntryOps
    <3>6. CASE id # u.id
      <4>1. ~Mine(id)'
        BY <3>3, <3>6 DEF Mine
      <4> QED
        BY <1>0, <2>1, <2>2, <3>4, <3>6, <4>1, PauseKept
    <3> QED
      BY <3>5, <3>6
  <2> QED
    BY <2>3, <2>4
<1>3. CASE Sync
  <2>1. /\ cmd["service"].op = "sync" /\ lock = "free" /\ Goto("service", "state")
        /\ UNCHANGED <<file, blob, wish>>
        /\ entries' = [x \in Ids |-> IF x \in Present THEN Synced(entries[x]) ELSE NoEntry]
    BY <1>3 DEF Sync, history
  <2>2. ~LoadsNow /\ ~Mine(id) /\ ~BootWaits
    BY <2>1, NobodyHolds DEF BootWaits
  <2>3. ~Mine(id)'
    <3>1. cmd'["user"] = cmd["user"]
      BY <2>1, PlaceFacts DEF Goto, TypeInv, Holding, Clients
    <3> QED
      BY <2>2, <3>1 DEF Mine
  <2>4. id \in Present => /\ Synced(entries[id]) \in EntryType
                          /\ entries[id].status = "paused" => Synced(entries[id]).status = "paused"
    BY <1>p, SyncedFacts DEF TypeInv
  <2>5. /\ id \in Present => entries'[id] = Synced(entries[id]) /\ entries'[id] # NoEntry
        /\ id \notin Present => entries'[id] = NoEntry
    BY <1>n, <2>1, <2>4
  <2>6. wish[id] = "paused" =>
          /\ id \in Present => entries[id].status = "paused"
          /\ id \in Present \/ file.items[id] # NoEntry => Saved(id)
          /\ file.items[id] # NoEntry => id \in Present
    BY <1>0, <2>2 DEF PausedAt
  <2>7. Saved(id) => Saved(id)'
    BY <2>1 DEF Saved
  <2> QED
    BY <2>1, <2>3, <2>4, <2>5, <2>6, <2>7, PauseRest
<1> QED
  BY <1>1, <1>2, <1>3

\* Loading: what the file brings back has its pause in flash.
LEMMA LoadPause ==
  ASSUME TypeInv, ControlInv, ControlInv', PauseInv, NEW c \in Clients, Load(c) \/ LoadState(c),
         NEW id \in Ids
  PROVE  PausedAt(id)'
<1>0. PausedAt(id) /\ NoEntry \notin Ids /\ NoEntry \notin EntryType
  BY SchedulerAssumption DEF SchedulerAssumption, PauseInv
<1>1. CASE Load(c)
  <2>1. /\ cmd[c].op \in {"boot", "reload"} /\ cmd[c].pc = "wait" /\ lock = "free"
        /\ UNCHANGED <<file, blob, wish>>
    BY <1>1, LoadFacts
  <2>2. ~LoadsNow /\ ~Mine(id)
    BY <2>1, NobodyHolds
  <2>3. CASE c = "service" /\ UNCHANGED <<entries, cmd>>
    BY <1>0, <2>1, <2>2, <2>3, PauseKept DEF BootWaits
  <2>4. CASE c = "user" /\ Finish(c) /\ UNCHANGED entries
    <3>1. ~Mine(id)' /\ cmd'["service"] = cmd["service"]
      BY <2>4, FinishFacts, IdleFacts DEF Mine, Holding, TypeInv, Clients
    <3> QED
      BY <1>0, <2>1, <2>2, <2>4, <3>1, PauseKept DEF BootWaits
  <2>5. CASE ~(c = "service" /\ UNCHANGED <<entries, cmd>>) /\ ~(c = "user" /\ Finish(c) /\ UNCHANGED entries)
    <3>1. /\ entries' = [x \in Ids |-> IF file.items[x] = NoEntry THEN NoEntry
                                       ELSE NewEntry(file.items[x])]
          /\ cmd'[c].op = cmd[c].op /\ cmd'[c].id = cmd[c].id /\ cmd'[c].pc = "defs"
          /\ \A d \in Clients : d # c => cmd'[d] = cmd[d]
      BY <1>1, <2>5, LoadFacts
    <3>2. LoadsNow'
      BY <2>1, <3>1 DEF LoadsNow, Loading
    <3>3. ~Mine(id)'
      <4>1. CASE c = "user"
        BY <1>0, <2>1, <3>1, <4>1 DEF Mine, ControlInv, CommandOK
      <4>2. CASE c = "service"
        BY <2>2, <3>1, <4>2 DEF Mine, Clients
      <4> QED
        BY <4>1, <4>2 DEF Clients
    <3>4. file.items[id] # NoEntry <=> id \in Present'
      <4>1. file.items[id] \in Definitions \cup {NoEntry}
        BY DEF TypeInv
      <4>2. \A item \in Definitions : NewEntry(item) \in EntryType
        BY NewEntryFacts
      <4> QED
        BY <1>0, <3>1, <4>1, <4>2 DEF Present
    <3>5. wish[id] = "paused" /\ file.items[id] # NoEntry => Saved(id)
      BY <1>0 DEF PausedAt
    <3>6. Saved(id) => Saved(id)'
      BY <2>1 DEF Saved
    <3> QED
      BY <2>1, <3>2, <3>3, <3>4, <3>5, <3>6 DEF PausedAt
  <2> QED
    BY <2>3, <2>4, <2>5
<1>2. CASE LoadState(c)
  <2>1. /\ cmd[c].pc = "merge" /\ Goto(c, "state") /\ UNCHANGED <<timeValid, file, blob, wish>>
        /\ entries' \in [Ids -> EntryType \cup {NoEntry}]
        /\ \A x \in Ids : x \notin Present => entries'[x] = NoEntry
        /\ \A x \in Present : entries'[x] = Loaded(entries[x], blob[x], cmd[c].at)
    BY <1>2, LoadStateFacts
  <2>2. Loading(c) /\ cmd[c].pc \in Holding
    BY <2>1 DEF ControlInv, CommandOK, Loading, Holding
  <2>3. ~Mine(id) /\ ~BootWaits
    BY <2>2, OneHolds
  <2>4. ~Mine(id)'
    <3>1. cmd'[c].id = cmd[c].id /\ \A d \in Clients : d # c => cmd'[d] = cmd[d]
      BY <2>1, PlaceFacts DEF Goto, TypeInv, Holding
    <3>2. CASE c = "user"
      BY <1>0, <2>2, <3>1, <3>2 DEF Mine, Loading, ControlInv, CommandOK
    <3>3. CASE c = "service"
      BY <2>3, <3>1, <3>3 DEF Mine, Clients
    <3> QED
      BY <3>2, <3>3 DEF Clients
  <2>5. wish[id] = "paused" =>
          /\ id \in Present \/ file.items[id] # NoEntry => Saved(id)
          /\ file.items[id] # NoEntry => id \in Present
    BY <1>0, <2>3 DEF PausedAt
  <2>6. ASSUME id \in Present
        PROVE  /\ Loaded(entries[id], blob[id], cmd[c].at) \in EntryType
               /\ Saved(id) => Loaded(entries[id], blob[id], cmd[c].at).status = "paused"
    <3>1. /\ entries[id] \in EntryType /\ blob[id] \in RunTimeType \cup {NoEntry}
          /\ cmd[c].at \in Int /\ timeValid \in BOOLEAN /\ NoEntry \notin RunTimeType
      BY <2>6, SchedulerAssumption DEF SchedulerAssumption, TypeInv, Present, CmdType
    <3> QED
      BY <3>1, LoadedFacts DEF Saved
  <2>7. Saved(id) => Saved(id)'
    BY <2>1 DEF Saved
  <2> QED
    BY <1>0, <2>1, <2>4, <2>5, <2>6, <2>7, PauseRest
<1> QED
  BY <1>1, <1>2

\* Saving the definitions
LEMMA DefsPause ==
  ASSUME TypeInv, ControlInv, ControlInv', PauseInv, NEW c \in Clients,
         OpenDefs(c) \/ WriteDefs(c) \/ SaveDefsFails(c), NEW id \in Ids
  PROVE  PausedAt(id)'
<1>0. PausedAt(id) /\ NoEntry \notin EntryType /\ "user" \in Clients
  BY SchedulerAssumption DEF SchedulerAssumption, PauseInv, Clients
<1>1. cmd[c].pc \in {"defs", "write"} /\ cmd[c].pc \in Holding
  BY DEF OpenDefs, WriteDefs, SaveDefsFails, Holding
<1>2. /\ LoadsNow <=> Loading(c)
      /\ Mine(id) <=> c = "user" /\ cmd[c].id = id
      /\ ~BootWaits
      /\ c = "service" => cmd[c].op \notin EntryOps \cup {"trigger"}
      /\ Loading(c) => ~Mine(id)
  BY <1>1, OneHolds
<1>g. ASSUME NEW place \in Holding, Goto(c, place)
      PROVE  /\ Mine(id)' <=> Mine(id)
             /\ cmd'[c].pc = place /\ cmd'[c].op = cmd[c].op /\ cmd'[c].old = cmd[c].old
             /\ cmd'["user"].op = cmd["user"].op /\ cmd'["user"].old = cmd["user"].old
             /\ Loading(c)' <=> Loading(c)
  <2>1. /\ cmd'[c].pc = place /\ cmd'[c].op = cmd[c].op /\ cmd'[c].old = cmd[c].old
        /\ cmd'[c].id = cmd[c].id /\ \A d \in Clients : d # c => cmd'[d] = cmd[d]
    BY <1>g, PlaceFacts DEF Goto, TypeInv
  <2> QED
    BY <1>0, <1>1, <2>1 DEF Mine, Loading, Clients
<1>3. CASE OpenDefs(c)
  <2>1. /\ Goto(c, "write") /\ UNCHANGED <<entries, blob, wish>>
        /\ file' = [file EXCEPT !.torn = TRUE]
    BY <1>3 DEF OpenDefs, history
  <2>2. file'.items = file.items
    BY <2>1 DEF TypeInv
  <2>3. LoadsNow => LoadsNow'
    BY <1>2, <1>g, <2>1 DEF LoadsNow, Holding
  <2>4. Mine(id) => cmd'["user"].pc = "write"
    BY <1>2, <1>g, <2>1 DEF Holding
  <2> QED
    BY <1>0, <1>2, <1>g, <2>1, <2>2, <2>3, <2>4 DEF PausedAt, Present, Saved, Holding
<1>4. CASE WriteDefs(c)
  <2>1. /\ Goto(c, IF Loading(c) THEN "merge" ELSE "state") /\ UNCHANGED <<entries, blob, wish>>
        /\ file' = [items |-> ItemsOf(entries), torn |-> FALSE]
    BY <1>4 DEF WriteDefs
  <2>2. file'.items[id] # NoEntry => id \in Present
    BY <2>1 DEF ItemsOf, Present
  <2>3. PICK place \in {"merge", "state"} : Goto(c, place) /\ (Loading(c) => place = "merge")
    BY <2>1
  <2>4. LoadsNow => LoadsNow'
    BY <1>2, <1>g, <2>3 DEF LoadsNow, Holding
  <2> QED
    BY <1>0, <1>g, <2>1, <2>2, <2>3, <2>4 DEF PausedAt, Present, Saved, Holding
<1>5. CASE SaveDefsFails(c)
  <2>1. /\ UNCHANGED <<file, blob, wish>>
        /\ IF Loading(c) THEN Goto(c, "merge") /\ UNCHANGED entries ELSE RollBack(c)
    BY <1>5 DEF SaveDefsFails
  <2>2. CASE Loading(c)
    <3>1. Goto(c, "merge") /\ UNCHANGED entries
      BY <2>1, <2>2
    <3>2. LoadsNow'
      BY <1>g, <2>2, <3>1 DEF LoadsNow, Holding
    <3>3. ~Mine(id) /\ ~Mine(id)'
      BY <1>2, <1>g, <2>2, <3>1 DEF Holding
    <3> QED
      BY <1>0, <1>2, <2>1, <3>1, <3>2, <3>3, PauseKept
  <2>3. CASE ~Loading(c)
    <3>1. RollBack(c) /\ cmd[c].op \in EntryOps /\ cmd[c].id \in Ids
      BY <1>1, <2>1, <2>3 DEF ControlInv, CommandOK, Loading
    <3>2. c = "user" /\ ~LoadsNow
      BY <1>2, <2>3, <3>1 DEF Clients
    <3>3. entries' = [entries EXCEPT ![cmd[c].id] = cmd[c].old] /\ ~Mine(id)'
      BY <3>1, <3>2, FinishFacts, IdleFacts DEF RollBack, Mine, Holding, TypeInv
    <3> DEFINE u == cmd["user"]
    <3> HIDE DEF u
    <3>4. entries' = [entries EXCEPT ![u.id] = u.old] /\ u.op \in EntryOps /\ u.id \in Ids
      BY <3>1, <3>2, <3>3 DEF u
    <3>5. CASE id = u.id
      <4>1. Mine(id) /\ entries'[id] = u.old
        BY <1>2, <3>2, <3>4, <3>5 DEF u, TypeInv
      <4>2. wish[id] = "paused" => u.old # NoEntry /\ u.old.status = "paused" /\ Saved(id)
        BY <1>0, <3>4, <4>1 DEF PausedAt, u
      <4> QED
        BY <2>1, <3>3, <4>1, <4>2, PauseRest DEF Saved
    <3>6. CASE id # u.id
      <4>1. ~Mine(id) /\ entries'[id] = entries[id]
        BY <1>2, <3>4, <3>6 DEF u, TypeInv
      <4> QED
        BY <1>0, <1>2, <2>1, <3>2, <3>3, <4>1, PauseKept
    <3> QED
      BY <3>5, <3>6
  <2> QED
    BY <2>2, <2>3
<1> QED
  BY <1>3, <1>4, <1>5

\* Saving the run-time state
LEMMA StatePause ==
  ASSUME TypeInv, ControlInv, ControlInv', PauseInv, NEW c \in Clients,
         SaveState(c) \/ SaveStateFails(c), NEW id \in Ids
  PROVE  PausedAt(id)'
<1>0. /\ PausedAt(id) /\ NoEntry \notin EntryType /\ NoEntry \notin RunTimeType
      /\ "user" \in Clients /\ NoEntry \notin Ids
  BY SchedulerAssumption DEF SchedulerAssumption, PauseInv, Clients
<1>1. cmd[c].pc = "state" /\ cmd[c].pc \in Holding
  BY DEF SaveState, SaveStateFails, Holding
<1>2. /\ ~LoadsNow /\ ~BootWaits
      /\ Mine(id) <=> c = "user" /\ cmd[c].id = id
      /\ c = "service" => cmd[c].id = NoEntry
  BY <1>1, OneHolds
<1>f. Finish(c) \/ Done(c) => ~Mine(id)'
  <2>1. Finish(c) \/ Done(c) => cmd'[c].pc \notin Holding /\ \A d \in Clients : d # c => cmd'[d] = cmd[d]
    BY FinishFacts, DoneFacts, IdleFacts DEF TypeInv, Holding
  <2>2. c # "user" => cmd["user"].pc \notin Holding
    BY <1>1 DEF ControlInv, Clients
  <2> QED
    BY <1>0, <2>1, <2>2 DEF Mine
<1>3. CASE SaveState(c)
  <2>1. /\ blob' = RunTimeOf(entries) /\ Wished(c) /\ Done(c) /\ UNCHANGED <<entries, file>>
    BY <1>3 DEF SaveState
  <2>2. id \in Present => blob'[id] # NoEntry /\ blob'[id].status = entries[id].status
    <3>1. id \in Present => blob'[id] = RunTime(entries[id]) /\ RunTime(entries[id]) \in RunTimeType
      BY <2>1 DEF RunTimeOf, Present, TypeInv, RunTime, RunTimeType, EntryType
    <3> QED
      BY <1>0, <3>1 DEF RunTime
  <2>3. wish'[id] = "paused" =>
          /\ id \in Present => entries[id].status = "paused"
          /\ file.items[id] # NoEntry => id \in Present
    <3>1. CASE cmd[c].id = id
      <4>1. /\ wish'[id] = WishAfter(cmd[c].op, wish[id]) /\ Mine(id) /\ c = "user"
        BY <1>0, <1>2, <2>1, <3>1 DEF Wished, TypeInv, Clients
      <4>2. CASE cmd[c].op = "pause"
        BY <1>0, <4>1, <4>2 DEF PausedAt
      <4>3. CASE cmd[c].op = "update"
        <5>1. wish'[id] = wish[id]
          BY <4>1, <4>3 DEF WishAfter
        <5> QED
          BY <1>0, <1>2, <4>1, <4>3, <5>1 DEF PausedAt
      <4>4. CASE cmd[c].op \notin {"pause", "update"}
        BY <4>1, <4>4 DEF WishAfter
      <4> QED
        BY <4>2, <4>3, <4>4
    <3>2. CASE cmd[c].id # id
      <4>1. wish'[id] = wish[id] /\ ~Mine(id)
        BY <1>2, <2>1, <3>2 DEF Wished, TypeInv
      <4> QED
        BY <1>0, <1>2, <4>1 DEF PausedAt
    <3> QED
      BY <3>1, <3>2
  <2> QED
    BY <1>f, <2>1, <2>2, <2>3, PauseRest DEF Saved, Present
<1>4. CASE SaveStateFails(c)
  <2>1. PICK erased \in BOOLEAN :
          /\ blob' = IF erased THEN NoBlob ELSE blob
          /\ wish' = [x \in Ids |-> IF erased \/ x = cmd[c].id THEN "none" ELSE wish[x]]
    BY <1>4 DEF SaveStateFails
  <2>2. /\ UNCHANGED file
        /\ RollBack(c) \/ (Done(c) /\ UNCHANGED entries)
    BY <1>4 DEF SaveStateFails
  <2>3. ~Mine(id)'
    BY <1>f, <2>2 DEF RollBack
  <2>4. CASE erased \/ id = cmd[c].id
    BY <2>1, <2>3, <2>4, PauseRest
  <2>5. CASE ~erased /\ id # cmd[c].id
    <3>1. blob' = blob /\ wish'[id] = wish[id] /\ ~Mine(id) /\ entries'[id] = entries[id]
      BY <1>2, <2>1, <2>2, <2>5 DEF RollBack, TypeInv
    <3> QED
      BY <1>0, <1>2, <2>2, <2>3, <3>1, PauseKept
  <2> QED
    BY <2>4, <2>5
<1> QED
  BY <1>3, <1>4

\* Every step keeps the pauses.
LEMMA PauseStep ==
  TypeInv /\ ControlInv /\ ControlInv' /\ PauseInv /\ [Next]_vars => PauseInv'
<1> SUFFICES ASSUME TypeInv, ControlInv, ControlInv', PauseInv, [Next]_vars, NEW id \in Ids
             PROVE  PausedAt(id)'
  BY DEF PauseInv
<1>0. PausedAt(id)
  BY DEF PauseInv
<1>1. CASE Passes
  <2>1. UNCHANGED <<entries, blob, file, wish, cmd>>
    BY <1>1 DEF Passes, history
  <2> QED
    BY <1>0, <2>1, PauseKept DEF LoadsNow, Loading, BootWaits
<1>2. CASE SetClock
  <2> DEFINE sync == [IdleCmd EXCEPT !.pc = "wait", !.op = "sync"]
  <2>1. /\ cmd["service"].pc = "idle" /\ cmd' = [cmd EXCEPT !["service"] = sync]
        /\ UNCHANGED <<entries, blob, file, wish>>
    BY <1>2 DEF SetClock, history
  <2> HIDE DEF sync
  <2>2. cmd'["user"] = cmd["user"]
    BY <2>1 DEF TypeInv, Clients
  <2>3. ~BootWaits /\ (LoadsNow => LoadsNow')
    BY <2>1, <2>2 DEF BootWaits, LoadsNow, Loading, Clients
  <2> QED
    BY <1>0, <2>1, <2>2, <2>3, PauseKept
<1>3. CASE Reset
  <2>1. /\ entries' = [x \in Ids |-> NoEntry] /\ UNCHANGED <<file, blob, wish>>
        /\ cmd' = [c \in Clients |-> IF c = "service" THEN BootCmd ELSE IdleCmd]
    BY <1>3 DEF Reset
  <2>2. cmd'["service"] = BootCmd /\ cmd'["user"] = IdleCmd
    BY <2>1 DEF Clients
  <2>3. BootWaits' /\ ~Mine(id)'
    BY <2>2, IdleFacts DEF BootWaits, Mine, Holding
  <2>4. wish[id] = "paused" /\ file.items[id] # NoEntry => Saved(id)
    BY <1>0 DEF PausedAt
  <2>5. Saved(id) => Saved(id)'
    BY <2>1 DEF Saved
  <2> QED
    BY <2>1, <2>3, <2>4, <2>5, PauseRest
<1>4. CASE UNCHANGED vars
  <2>1. UNCHANGED <<entries, blob, file, wish, cmd>>
    BY <1>4 DEF vars, history
  <2> QED
    BY <1>0, <2>1, PauseKept DEF LoadsNow, Loading, BootWaits
<1> QED
  BY <1>1, <1>2, <1>3, <1>4, TaskPause, ApplyPause, CommandPause, LoadPause, DefsPause, StatePause
     DEF Next, ClientStep

-----------------------------------------------------------------------------
(* There are never more entries than there is room for.                    *)

PresentIn(es) == {id \in Ids : es[id] # NoEntry}

Few(S) == Cardinality(S) <= MaxItems

\* There is room for the entries in memory, for those of the file, and for what a client
\* would go back to.
CountInv ==
  /\ Few(PresentIn(entries))
  /\ Few(PresentIn(file.items))
  /\ \A c \in Clients : cmd[c].pc \in Holding /\ cmd[c].op \in EntryOps =>
       Few(PresentIn(OldEntries(c)))

\* Part of a set that there is room for fits too.
LEMMA FewerIsFew ==
  ASSUME NEW S \in SUBSET Ids, NEW T \in SUBSET Ids, S \subseteq T, Few(T)
  PROVE  Few(S)
<1>1. IsFiniteSet(Ids) /\ MaxItems \in Nat
  BY SchedulerAssumption DEF SchedulerAssumption
<1>2. IsFiniteSet(T)
  BY <1>1, FS_Subset
<1>3. Cardinality(S) <= Cardinality(T) /\ Cardinality(S) \in Nat /\ Cardinality(T) \in Nat
  BY <1>2, FS_Subset, FS_CardinalityType
<1> QED
  BY <1>1, <1>3 DEF Few

\* Entries that change keep their ids.
LEMMA FewKept ==
  ASSUME NEW es, NEW fs, Few(PresentIn(es)), \A id \in Ids : es[id] = NoEntry => fs[id] = NoEntry
  PROVE  Few(PresentIn(fs))
<1>1. PresentIn(fs) \subseteq PresentIn(es) /\ PresentIn(fs) \in SUBSET Ids /\ PresentIn(es) \in SUBSET Ids
  BY DEF PresentIn
<1> QED
  BY <1>1, FewerIsFew

\* Steps of the commands and of loading
LEMMA CommandCount ==
  ASSUME TypeInv, ControlInv, ControlInv', CountInv,
         Apply \/ Trigger \/ Sync \/ \E c \in Clients : Load(c)
  PROVE  CountInv'
<1>0. "user" \in Clients /\ "service" \in Clients
  BY DEF Clients
<1>s. ASSUME Few(PresentIn(entries))', UNCHANGED file,
             \A c \in Clients : cmd'[c].pc \notin Holding \/ cmd'[c].op \notin EntryOps
      PROVE  CountInv'
  BY <1>s DEF CountInv
<1>h. lock = "free" => \A c \in Clients : cmd[c].pc \notin Holding
  BY DEF ControlInv, Clients
<1>f. ASSUME NEW c \in Clients, Finish(c), lock = "free"
      PROVE  \A d \in Clients : cmd'[d].pc \notin Holding
  BY <1>f, <1>h, FinishFacts, IdleFacts DEF TypeInv, Holding
<1>1. CASE Apply
  <2> DEFINE u == cmd["user"]
             e == Changed(u.op, entries[u.id], u.item, u.at)
  <2>1. u.op \in EntryOps /\ u.id \in Ids /\ lock = "free" /\ UNCHANGED file
    BY <1>1, ApplyFacts
  <2>2. CASE Finish("user") /\ UNCHANGED <<entries, plan, wish>>
    BY <1>0, <1>f, <1>s, <2>1, <2>2 DEF CountInv
  <2>3. CASE ~(Finish("user") /\ UNCHANGED <<entries, plan, wish>>)
    <3>1. /\ entries' = [entries EXCEPT ![u.id] = e]
          /\ cmd'["user"].old = entries[u.id] /\ cmd'["user"].id = u.id
          /\ cmd'["service"] = cmd["service"]
          /\ u.op = "add" => entries[u.id] = NoEntry /\ Cardinality(Present) < MaxItems
          /\ u.op # "add" => entries[u.id] \in EntryType
      BY <1>1, <2>3, ApplyFacts
    <3> HIDE DEF u, e
    <3>2. OldEntries("user")' = entries
      <4>1. OldEntries("user")' = [[entries EXCEPT ![u.id] = e] EXCEPT ![u.id] = entries[u.id]]
        BY <3>1 DEF OldEntries
      <4> QED
        BY <2>1, <4>1 DEF TypeInv
    <3>3. Few(PresentIn(entries'))
      <4>1. CASE u.op = "add"
        <5>1. PresentIn(entries') \subseteq Present \cup {u.id}
          BY <2>1, <3>1 DEF PresentIn, Present, TypeInv
        <5>2. u.id \notin Present /\ IsFiniteSet(Present) /\ MaxItems \in Nat
          <6>1. IsFiniteSet(Ids) /\ MaxItems \in Nat
            BY SchedulerAssumption DEF SchedulerAssumption
          <6> QED
            BY <3>1, <4>1, <6>1, FS_Subset DEF Present
        <5>3. Cardinality(Present \cup {u.id}) = Cardinality(Present) + 1
              /\ Cardinality(Present) \in Nat
          BY <5>2, FS_AddElement, FS_CardinalityType
        <5>4. Few(Present \cup {u.id})
          BY <3>1, <4>1, <5>2, <5>3 DEF Few
        <5>5. Present \cup {u.id} \in SUBSET Ids /\ PresentIn(entries') \in SUBSET Ids
          BY <2>1 DEF Present, PresentIn
        <5> QED
          BY <5>1, <5>4, <5>5, FewerIsFew
      <4>2. CASE u.op # "add"
        <5>1. \A id \in Ids : entries[id] = NoEntry => entries'[id] = NoEntry
          <6>1. entries[u.id] # NoEntry
            BY <3>1, <4>2, SchedulerAssumption DEF SchedulerAssumption
          <6> QED
            BY <3>1, <6>1 DEF TypeInv
        <5> QED
          BY <5>1, FewKept DEF CountInv
      <4> QED
        BY <4>1, <4>2
    <3>4. cmd'["service"].pc \notin Holding
      BY <1>0, <1>h, <2>1, <3>1
    <3>5. Few(PresentIn(OldEntries("user")))'
      BY <3>2 DEF CountInv, PresentIn, Few
    <3>6. Few(PresentIn(entries))' /\ Few(PresentIn(file.items))'
      BY <2>1, <3>3 DEF CountInv, PresentIn, Few
    <3> QED
      BY <3>4, <3>5, <3>6 DEF CountInv, Clients
  <2> QED
    BY <2>2, <2>3
<1>g. ASSUME NEW c \in Clients, Goto(c, "state"), lock = "free", cmd[c].op \notin EntryOps
      PROVE  \A d \in Clients : cmd'[d].pc \notin Holding \/ cmd'[d].op \notin EntryOps
  BY <1>g, <1>h, PlaceFacts DEF Goto, TypeInv, Holding
<1>2. CASE Trigger
  <2>1. cmd["user"].op = "trigger" /\ lock = "free" /\ UNCHANGED file
    BY <1>2, TriggerFacts
  <2>2. CASE Finish("user") /\ UNCHANGED <<entries, plan>>
    BY <1>0, <1>f, <1>s, <2>1, <2>2 DEF CountInv
  <2>3. CASE ~(Finish("user") /\ UNCHANGED <<entries, plan>>)
    <3>1. PICK sent \in BOOLEAN :
            /\ cmd["user"].id \in Present /\ Goto("user", "state")
            /\ entries' = [entries EXCEPT ![cmd["user"].id] = Published(entries[cmd["user"].id], TRUE, now, sent)]
      BY <1>2, <2>3, TriggerFacts
    <3>2. \A id \in Ids : entries[id] = NoEntry => entries'[id] = NoEntry
      BY <3>1 DEF TypeInv, Present
    <3>3. Few(PresentIn(entries'))
      BY <3>2, FewKept DEF CountInv
    <3>4. \A d \in Clients : cmd'[d].pc \notin Holding \/ cmd'[d].op \notin EntryOps
      BY <1>0, <1>g, <2>1, <3>1 DEF EntryOps
    <3> QED
      BY <1>s, <2>1, <3>3, <3>4
  <2> QED
    BY <2>2, <2>3
<1>3. CASE Sync
  <2>1. /\ cmd["service"].op = "sync" /\ lock = "free" /\ Goto("service", "state") /\ UNCHANGED file
        /\ entries' = [id \in Ids |-> IF id \in Present THEN Synced(entries[id]) ELSE NoEntry]
    BY <1>3 DEF Sync
  <2>2. Few(PresentIn(entries'))
    BY <2>1, FewKept DEF CountInv, Present
  <2>3. \A d \in Clients : cmd'[d].pc \notin Holding \/ cmd'[d].op \notin EntryOps
    BY <1>0, <1>g, <2>1 DEF EntryOps
  <2> QED
    BY <1>s, <2>1, <2>2, <2>3
<1>4. ASSUME NEW c \in Clients, Load(c) PROVE CountInv'
  <2>1. cmd[c].op \in {"boot", "reload"} /\ lock = "free" /\ UNCHANGED file
    BY <1>4, LoadFacts
  <2>2. CASE UNCHANGED entries /\ (UNCHANGED cmd \/ Finish(c))
    BY <1>f, <1>h, <1>s, <2>1, <2>2 DEF CountInv
  <2>3. CASE ~(UNCHANGED entries /\ (UNCHANGED cmd \/ Finish(c)))
    <3>1. /\ entries' = [id \in Ids |-> IF file.items[id] = NoEntry THEN NoEntry
                                        ELSE NewEntry(file.items[id])]
          /\ cmd'[c].op = cmd[c].op /\ \A d \in Clients : d # c => cmd'[d] = cmd[d]
      BY <1>4, <2>3, LoadFacts
    <3>2. \A id \in Ids : file.items[id] = NoEntry => entries'[id] = NoEntry
      BY <3>1
    <3>3. Few(PresentIn(entries'))
      BY <3>2, FewKept DEF CountInv
    <3>4. \A d \in Clients : cmd'[d].pc \notin Holding \/ cmd'[d].op \notin EntryOps
      BY <1>h, <2>1, <3>1 DEF EntryOps
    <3> QED
      BY <1>s, <2>1, <3>3, <3>4
  <2> QED
    BY <2>2, <2>3
<1> QED
  BY <1>1, <1>2, <1>3, <1>4

\* Steps of a client that has the mutex
LEMMA SaveCount ==
  ASSUME TypeInv, ControlInv, ControlInv', CountInv, NEW c \in Clients,
         \/ OpenDefs(c) \/ WriteDefs(c) \/ SaveDefsFails(c) \/ LoadState(c)
         \/ SaveState(c) \/ SaveStateFails(c)
  PROVE  CountInv'
<1>1. cmd[c].pc \in Holding
  BY DEF OpenDefs, WriteDefs, SaveDefsFails, LoadState, SaveState, SaveStateFails, Holding
<1>2. CommandOK(cmd[c]) /\ \A d \in Clients : d # c => cmd[d].pc \notin Holding
  BY <1>1 DEF ControlInv
<1>g. ASSUME NEW place \in Holding, Goto(c, place)
      PROVE  /\ \A d \in Clients : d # c => cmd'[d].pc \notin Holding
             /\ cmd'[c].op = cmd[c].op
             /\ UNCHANGED entries => OldEntries(c)' = OldEntries(c)
  <2>1. cmd'[c].op = cmd[c].op /\ cmd'[c].id = cmd[c].id /\ cmd'[c].old = cmd[c].old
        /\ \A d \in Clients : d # c => cmd'[d] = cmd[d]
    BY <1>g, PlaceFacts DEF Goto, TypeInv
  <2> QED
    BY <1>2, <2>1 DEF OldEntries
<1>d. Finish(c) \/ Done(c) => \A d \in Clients : cmd'[d].pc \notin Holding
  <2>1. cmd \in [Clients -> CmdType] /\ now \in Nat
    BY DEF TypeInv
  <2>2. ASSUME NEW k, cmd'[c] = k, k.pc \notin Holding, \A d \in Clients : d # c => cmd'[d] = cmd[d]
        PROVE  \A d \in Clients : cmd'[d].pc \notin Holding
    BY <1>2, <2>2
  <2>3. IdleCmd.pc \notin Holding
    BY IdleFacts DEF Holding
  <2>4. CASE Finish(c)
    BY <2>1, <2>2, <2>3, <2>4, FinishFacts
  <2>5. CASE Done(c)
    <3> DEFINE sync == [IdleCmd EXCEPT !.pc = "wait", !.op = "sync"]
    <3>1. sync.pc \notin Holding
      BY IdleFacts DEF Holding
    <3>2. /\ \A d \in Clients : d # c => cmd'[d] = cmd[d]
          /\ cmd'[c] = IdleCmd \/ cmd'[c] = sync
      BY <2>1, <2>5, DoneFacts
    <3> HIDE DEF sync
    <3> QED
      BY <2>2, <2>3, <3>1, <3>2
  <2> QED
    BY <2>4, <2>5
<1>m. ASSUME NEW place \in Holding, Goto(c, place), UNCHANGED entries, Few(PresentIn(file.items))'
      PROVE  CountInv'
  <2>1. Few(PresentIn(entries))' /\ (cmd'[c].op \in EntryOps => Few(PresentIn(OldEntries(c)))')
    BY <1>1, <1>g, <1>m DEF CountInv, Few, PresentIn
  <2> QED
    BY <1>g, <1>m, <2>1 DEF CountInv
<1>r. ASSUME RollBack(c), cmd[c].op \in EntryOps, UNCHANGED file
      PROVE  CountInv'
  <2>1. entries' = OldEntries(c) /\ Finish(c)
    BY <1>r DEF RollBack, OldEntries
  <2>2. Few(PresentIn(entries'))
    BY <1>1, <1>r, <2>1 DEF CountInv
  <2> QED
    BY <1>d, <1>r, <2>1, <2>2 DEF CountInv
<1>3. CASE OpenDefs(c)
  <2>1. Goto(c, "write") /\ UNCHANGED entries /\ file'.items = file.items
    BY <1>3 DEF OpenDefs, TypeInv
  <2> QED
    BY <1>m, <2>1 DEF CountInv, Holding
<1>4. CASE WriteDefs(c)
  <2>1. /\ Goto(c, IF Loading(c) THEN "merge" ELSE "state") /\ UNCHANGED entries
        /\ file'.items = ItemsOf(entries)
    BY <1>4 DEF WriteDefs
  <2>2. PICK place \in Holding : Goto(c, place)
    BY <2>1 DEF Holding
  <2>3. Few(PresentIn(ItemsOf(entries)))
    BY FewKept DEF CountInv, ItemsOf
  <2> QED
    BY <1>m, <2>1, <2>2, <2>3
<1>5. CASE SaveDefsFails(c)
  <2>1. /\ UNCHANGED file /\ cmd[c].pc \in {"defs", "write"}
        /\ IF Loading(c) THEN Goto(c, "merge") /\ UNCHANGED entries ELSE RollBack(c)
    BY <1>5 DEF SaveDefsFails
  <2>2. CASE Loading(c)
    BY <1>m, <2>1, <2>2 DEF CountInv, Holding
  <2>3. CASE ~Loading(c)
    BY <1>2, <1>r, <2>1, <2>3 DEF CommandOK, Loading
  <2> QED
    BY <2>2, <2>3
<1>6. CASE LoadState(c)
  <2>1. /\ cmd[c].pc = "merge" /\ Goto(c, "state") /\ UNCHANGED file
        /\ \A id \in Ids : id \notin Present => entries'[id] = NoEntry
    BY <1>6, LoadStateFacts
  <2>2. Few(PresentIn(entries'))
    BY <2>1, FewKept DEF CountInv, Present
  <2>3. cmd'[c].op \notin EntryOps
    BY <1>2, <1>g, <2>1 DEF CommandOK, EntryOps, Holding
  <2> QED
    BY <1>g, <2>1, <2>2, <2>3 DEF CountInv, Holding
<1>7. CASE SaveState(c)
  BY <1>d, <1>7 DEF SaveState, CountInv
<1>8. CASE SaveStateFails(c)
  <2>1. /\ UNCHANGED file
        /\ IF cmd[c].op \in EntryOps THEN RollBack(c) ELSE Done(c) /\ UNCHANGED entries
    BY <1>8 DEF SaveStateFails
  <2>2. CASE cmd[c].op \in EntryOps
    BY <1>r, <2>1, <2>2
  <2>3. CASE cmd[c].op \notin EntryOps
    BY <1>d, <2>1, <2>3 DEF CountInv
  <2> QED
    BY <2>2, <2>3
<1> QED
  BY <1>3, <1>4, <1>5, <1>6, <1>7, <1>8

\* Every step keeps the number of entries in its bound.
LEMMA CountStep ==
  TypeInv /\ ControlInv /\ ControlInv' /\ CountInv /\ [Next]_vars => CountInv'
<1> SUFFICES ASSUME TypeInv, ControlInv, ControlInv', CountInv, [Next]_vars PROVE CountInv'
  OBVIOUS
<1>s. ASSUME UNCHANGED <<entries, file>>,
             \A c \in Clients : cmd'[c] = cmd[c] \/ cmd'[c].pc \notin Holding
      PROVE  CountInv'
  <2>1. \A c \in Clients : cmd'[c] = cmd[c] => OldEntries(c)' = OldEntries(c)
    BY <1>s DEF OldEntries
  <2>2. \A c \in Clients : cmd'[c] = cmd[c] /\ cmd[c].pc \in Holding /\ cmd[c].op \in EntryOps =>
          Few(PresentIn(OldEntries(c)))'
    BY <2>1 DEF CountInv, Few, PresentIn
  <2> QED
    BY <1>s, <2>2 DEF CountInv
<1>1. CASE TaskStep
  <2>1. CASE WakeUp \/ TakeLock \/ SaveFired
    BY <1>s, <2>1 DEF WakeUp, TakeLock, SaveFired, history
  <2>2. ASSUME NEW x \in Ids, Miss(x) \/ Fire(x) PROVE CountInv'
    <3>1. /\ task.pc = "firing" /\ x \in task.todo /\ UNCHANGED <<file, cmd>>
          /\ \A y \in Ids : y # x => entries'[y] = entries[y]
      BY <2>2 DEF Miss, Fire, TypeInv
    <3>2. entries[x] # NoEntry /\ \A c \in Clients : cmd[c].pc \notin Holding
      BY <3>1 DEF ControlInv, Present, Clients
    <3>3. Few(PresentIn(entries'))
      <4>1. \A y \in Ids : entries[y] = NoEntry => entries'[y] = NoEntry
        BY <3>1, <3>2
      <4> QED
        BY <4>1, FewKept DEF CountInv
    <3> QED
      BY <3>1, <3>2, <3>3 DEF CountInv
  <2> QED
    BY <1>1, <2>1, <2>2 DEF TaskStep
<1>2. CASE UserBegins
  <2>1. PICK op, id, item : Begin(op, id, item)
    BY <1>2, BeginFacts
  <2>2. /\ UNCHANGED <<entries, file>>
        /\ cmd' = [cmd EXCEPT !["user"] = [pc |-> "wait", op |-> op, id |-> id, item |-> item,
                                           at |-> now, old |-> NoEntry]]
    BY <2>1 DEF Begin, history
  <2>3. cmd'["user"].pc = "wait" /\ cmd'["service"] = cmd["service"]
    BY <2>2 DEF TypeInv, Clients
  <2> QED
    BY <1>s, <2>2, <2>3 DEF Clients, Holding
<1>3. CASE Passes
  BY <1>s, <1>3 DEF Passes, history
<1>4. CASE SetClock
  <2> DEFINE sync == [IdleCmd EXCEPT !.pc = "wait", !.op = "sync"]
  <2>1. /\ cmd' = [cmd EXCEPT !["service"] = sync] /\ UNCHANGED <<entries, file>>
    BY <1>4 DEF SetClock, history
  <2>2. sync.pc = "wait"
    BY IdleFacts
  <2> HIDE DEF sync
  <2>3. cmd'["service"].pc = "wait" /\ cmd'["user"] = cmd["user"]
    BY <2>1, <2>2 DEF TypeInv, Clients
  <2> QED
    BY <1>s, <2>1, <2>3 DEF Clients, Holding
<1>5. CASE Reset
  <2>1. /\ entries' = [id \in Ids |-> NoEntry] /\ UNCHANGED file
        /\ cmd' = [c \in Clients |-> IF c = "service" THEN BootCmd ELSE IdleCmd]
    BY <1>5 DEF Reset
  <2>2. \A c \in Clients : cmd'[c].pc \notin Holding
    BY <2>1, IdleFacts DEF Holding
  <2>3. Few(PresentIn(entries'))
    BY <2>1, FewKept DEF CountInv
  <2> QED
    BY <2>1, <2>2, <2>3 DEF CountInv
<1>6. CASE UNCHANGED vars
  BY <1>s, <1>6 DEF vars, history
<1> QED
  BY <1>1, <1>2, <1>3, <1>4, <1>5, <1>6, CommandCount, SaveCount DEF Next, ClientStep

-----------------------------------------------------------------------------
(* The theorems.                                                           *)

IInv == TypeInv /\ ControlInv /\ FlashInv /\ EarlyInv /\ RunInv /\ PauseInv /\ CountInv

\* The invariant holds at the first boot.
LEMMA IInvInit == Init => IInv
<1> SUFFICES ASSUME Init PROVE IInv
  OBVIOUS
<1>0. TypeInv /\ ControlInv
  BY InitTypes
<1>1. /\ up = "booting" /\ lock = "free" /\ entries = [id \in Ids |-> NoEntry]
      /\ early = {} /\ wish = [id \in Ids |-> "none"]
      /\ cmd = [c \in Clients |-> IF c = "service" THEN BootCmd ELSE IdleCmd]
      /\ Cardinality({id \in Ids : file.items[id] # NoEntry}) <= MaxItems
  BY DEF Init
<1>2. task.pc = "asleep" /\ Present = {}
  BY <1>1, ResetTask DEF Init, Present
<1>3. cmd["service"].op = "boot" /\ \A c \in Clients : cmd[c].pc \notin Holding
  BY <1>1, IdleFacts DEF Holding, Clients
<1>4. FlashInv
  BY <1>1, <1>3 DEF FlashInv
<1>5. EarlyInv
  BY <1>1, <1>2, <1>3 DEF EarlyInv, MemoryWaits, OldWaits
<1>6. RunInv
  BY <1>2 DEF RunInv
<1>7. PauseInv
  BY <1>1, <1>3 DEF PauseInv, PausedAt, Mine, Clients
<1>8. CountInv
  <2>1. Few(PresentIn(file.items))
    BY <1>1 DEF Few, PresentIn
  <2>2. Few(PresentIn(entries))
    BY <1>1, <2>1, FewKept
  <2> QED
    BY <1>3, <2>1, <2>2 DEF CountInv
<1> QED
  BY <1>0, <1>4, <1>5, <1>6, <1>7, <1>8 DEF IInv

\* Every step preserves it.
LEMMA IInvStep == IInv /\ [Next]_vars => IInv'
<1> SUFFICES ASSUME IInv, [Next]_vars PROVE IInv'
  OBVIOUS
<1>1. TypeInv' /\ ControlInv'
  BY TypeStep, ControlStep DEF IInv
<1>2. FlashInv' /\ EarlyInv' /\ PauseInv' /\ CountInv'
  BY <1>1, FlashStep, EarlyStep, PauseStep, CountStep DEF IInv
<1>3. RunInv'
  BY <1>1, <1>2, RunStep DEF IInv
<1> QED
  BY <1>1, <1>2, <1>3 DEF IInv

\* The invariant holds in every reachable state.
LEMMA IInvHolds == Spec => []IInv
<1>1. Init => IInv
  BY IInvInit
<1>2. IInv /\ [Next]_vars => IInv'
  BY IInvStep
<1> QED
  BY <1>1, <1>2, PTL DEF Spec

\* Entries keep their type and their number its bound, through commands, loads, firings,
\* syncs and resets; a client or the task has the mutex exactly at the places that say so.
THEOREM TypeCorrect == Spec => []TypeOK
<1>1. IInv => TypeOK
  <2> SUFFICES ASSUME IInv PROVE TypeOK
    OBVIOUS
  <2>1. \A id \in Present : entries[id] \in EntryType
    BY DEF IInv, TypeInv, Present
  <2>2. Cardinality(Present) <= MaxItems
    BY DEF IInv, CountInv, Few, PresentIn, Present
  <2>3. lock \in {"free", "task"} \cup Clients /\ up \in {"booting", "running", "dead"}
    BY DEF IInv, TypeInv
  <2>4. /\ lock = "task" <=> task.pc = "firing"
        /\ \A c \in Clients : lock = c <=> cmd[c].pc \in {"defs", "write", "merge", "state"}
    BY DEF IInv, ControlInv, Holding
  <2> QED
    BY <2>1, <2>2, <2>3, <2>4 DEF TypeOK
<1> QED
  BY <1>1, IInvHolds, PTL

\* An entry that needs the wall clock is not fired before the sync that follows each boot.
THEOREM NothingFiresEarly == Spec => []NothingEarly
<1>1. IInv => NothingEarly
  BY DEF IInv, EarlyInv, NothingEarly
<1> QED
  BY <1>1, IInvHolds, PTL

\* A pause that returned ESP_OK holds until a command ends it.
THEOREM PausesHold == Spec => []PauseHolds
<1>1. IInv => PauseHolds
  <2> SUFFICES ASSUME IInv, up = "running", lock = "free", NEW id \in Present, wish[id] = "paused"
               PROVE  entries[id].status = "paused"
    BY DEF PauseHolds
  <2>1. ~LoadsNow /\ ~Mine(id)
    BY NobodyHolds DEF IInv, Present
  <2> QED
    BY <2>1 DEF IInv, PauseInv, PausedAt, Present
<1> QED
  BY <1>1, IInvHolds, PTL

\* Whenever the mutex is free, the definitions and the run-time state in flash are those in
\* memory, unless a save failed.
THEOREM FlashIsMemory == Spec => []FlashAgrees
<1>1. IInv => FlashAgrees
  BY DEF IInv, FlashInv, FlashAgrees, DefsOK, StateOK
<1> QED
  BY <1>1, IInvHolds, PTL

\* The runs in flash are at most one behind those in memory, unless a save failed.
THEOREM OneRunIsAtRisk == Spec => []OneRunAtRisk
<1>1. IInv => OneRunAtRisk
  BY DEF IInv, RunInv, OneRunAtRisk
<1> QED
  BY <1>1, IInvHolds, PTL

-----------------------------------------------------------------------------
(* Plans that go on: what each operator makes of the next time.            *)

\* There is a further time, however late it is.
GoesOn(item) == item.kind = "cron" => \A t \in 0 .. MaxTime : \E u \in item.times : u > t

CronGoesOn == \A item \in (Items \cup Shipped) \ {NoEntry} : GoesOn(item)

\* What is asked of an entry: its plan goes on, and it was not fired in the future.
Sound(e) == GoesOn(e.item) /\ e.last <= MaxTime

\* The clock is right or early, and a clock that counts as valid is right.
ClockRight ==
  /\ now <= reached /\ Epoch <= reached /\ reached <= MaxTime
  /\ now >= Epoch => now = reached
  /\ timeValid => now >= Epoch
  /\ cmd["service"].op = "sync" => now >= Epoch
  /\ cmd["service"].op = "boot" => ~timeValid

\* Nobody works with a time to come, and no entry was fired for one.
TimesPast ==
  /\ task.at <= now
  /\ \A c \in Clients : cmd[c].at \in 0 .. MaxTime
  /\ plan \in [Ids -> Int] /\ \A id \in Ids : plan[id] <= reached

ClockInv == ClockRight /\ TimesPast

\* The plans of all that is in memory, in flash or in a command go on.
SoundInv ==
  /\ \A id \in Present : Sound(entries[id])
  /\ \A id \in Ids : file.items[id] # NoEntry => GoesOn(file.items[id])
  /\ \A id \in Ids : blob[id] # NoEntry => blob[id].last <= MaxTime
  /\ \A c \in Clients : cmd[c].item # NoEntry => GoesOn(cmd[c].item)
  /\ \A c \in Clients : cmd[c].pc \in Holding /\ cmd[c].op \in EntryOps /\ cmd[c].old # NoEntry =>
       Sound(cmd[c].old)

\* An entry that was fired for a time waits for a later one or for none.
Beyond(e, t) == NeedsTime(e.item) /\ e.status # "paused" /\ t > 0 => e.next = Never \/ e.next > t

\* What a client would put back is not compared with earlier plans.
TwiceInv ==
  /\ \A id \in Present : Beyond(entries[id], plan[id])
  /\ \A c \in Clients : cmd[c].pc \in Holding /\ cmd[c].op \in EntryOps => plan[cmd[c].id] = 0

\* A series goes on after the anchor.
LEMMA AfterIsLater ==
  ASSUME NEW start \in Int, NEW interval \in Int, interval > 0, NEW anchor \in Int
  PROVE  After(start, interval, anchor) > anchor
<1>1. CASE anchor < start
  BY <1>1 DEF After
<1>2. CASE anchor >= start
  <2> DEFINE a == anchor - start
             q == a \div interval
             r == a % interval
  <2>1. a \in Nat /\ q \in Int /\ r \in Int /\ a = interval * q + r /\ r < interval
    BY <1>2
  <2>2. After(start, interval, anchor) = start + (q + 1) * interval
    BY <1>2 DEF After
  <2>3. (q + 1) * interval = interval * q + interval
    <3> HIDE DEF q
    <3> QED
      BY <2>1
  <2>4. interval * q \in Int
    BY <2>1
  <2> HIDE DEF q, r
  <2> QED
    BY <2>1, <2>2, <2>3, <2>4
<1> QED
  BY <1>1, <1>2

\* The next time of a plan that goes on lies after the anchor.
LEMMA NextFireLater ==
  ASSUME NEW item \in Definitions, NEW runs \in Nat, NEW anchor \in 0 .. MaxTime,
         GoesOn(item), NeedsTime(item)
  PROVE  LET t == NextFire(item, runs, anchor)
         IN  t # Failed /\ (t = Never \/ t > anchor)
<1> DEFINE t == NextFire(item, runs, anchor)
           k == NextOfKind(item, anchor)
<1>0. anchor \in Nat /\ MaxTime \in Nat
  BY SchedulerAssumption DEF SchedulerAssumption
<1>1. ASSUME k = Never \/ (k \in Int /\ k > anchor)
      PROVE  t # Failed /\ (t = Never \/ t > anchor)
  BY <1>0, <1>1 DEF NextFire, Never, Failed
<1>2. CASE item.kind = "once"
  <2>1. item.start \in Int
    BY DEF Definitions
  <2> QED
    BY <1>0, <1>1, <1>2, <2>1 DEF NextOfKind
<1>3. CASE item.kind = "interval"
  <2>1. item.start \in Int /\ item.interval \in Int /\ item.interval > 0
    BY <1>3 DEF Definitions
  <2>2. CASE item.start > 0
    <3>1. k = After(item.start, item.interval, anchor)
      <4>1. ~(item.start <= 0)
        BY <2>1, <2>2
      <4> QED
        BY <1>3, <2>2, <4>1 DEF NextOfKind
    <3>2. After(item.start, item.interval, anchor) > anchor
      BY <1>0, <2>1, AfterIsLater
    <3>3. k \in Int
      BY <1>0, <2>1, <3>1 DEF After
    <3> QED
      BY <1>1, <3>1, <3>2, <3>3
  <2>3. CASE ~(item.start > 0)
    <3>1. k = anchor + item.interval
      <4>1. item.start <= 0
        BY <2>1, <2>3
      <4> QED
        BY <1>3, <4>1, <2>3 DEF NextOfKind
    <3> QED
      BY <1>0, <1>1, <2>1, <3>1
  <2> QED
    BY <2>2, <2>3
<1>4. CASE item.kind = "cron"
  <2> DEFINE times == {u \in item.times : u > anchor}
  <2>1. times \in SUBSET Nat
    BY DEF Definitions
  <2>2. times # {}
    BY <1>4 DEF GoesOn
  <2>3. k = Min(times)
    BY <1>4, <2>2 DEF NextOfKind
  <2>4. Min(times) \in times
    <3> HIDE DEF times
    <3> QED
      BY <2>1, <2>2, MinIsLeast
  <2> QED
    BY <1>0, <1>1, <2>1, <2>3, <2>4
<1> QED
  BY <1>2, <1>3, <1>4 DEF Definitions

\* An entry that may be running.
Open == [item : Definitions, status : Statuses \cup {"running"}, next : Int, last : Nat, runs : Nat]

\* Refreshing an entry whose plan goes on makes it wait for a time after the anchor, or for
\* none without a valid clock, unless it is paused.
LEMMA RefreshLater ==
  ASSUME NEW e \in Open, NEW anchor \in 0 .. MaxTime, NEW valid \in BOOLEAN,
         GoesOn(e.item), NeedsTime(e.item)
  PROVE  LET r == Refresh(e, anchor, valid)
         IN  r.status # "paused" => r.next = Never \/ (valid /\ r.next > anchor)
<1> DEFINE t == NextFire(e.item, e.runs, anchor)
           r == Refresh(e, anchor, valid)
<1>1. t # Failed /\ (t = Never \/ t > anchor)
  BY NextFireLater DEF Open
<1>2. CASE ~e.item.enabled
  BY <1>2 DEF Refresh, Open
<1>3. CASE e.item.enabled /\ e.status = "paused"
  BY <1>3 DEF Refresh
<1>4. CASE e.item.enabled /\ e.status # "paused" /\ ~valid
  BY <1>4 DEF Refresh, Open
<1>5. CASE e.item.enabled /\ e.status # "paused" /\ valid
  <2>1. r = IF t = Never THEN [e EXCEPT !.status = "completed", !.next = Never]
                         ELSE [e EXCEPT !.status = "scheduled", !.next = t]
    BY <1>1, <1>5 DEF Refresh
  <2> HIDE DEF t, r
  <2>2. r.next = t
    BY <2>1 DEF Open
  <2> QED
    BY <1>1, <1>5, <2>2 DEF r
<1> QED
  BY <1>2, <1>3, <1>4, <1>5

\* A fired entry keeps its next time or waits for one after the one it was fired for.
LEMMA PublishedLater ==
  ASSUME NEW e \in EntryType, NEW immediate \in BOOLEAN, NEW t \in 0 .. MaxTime,
         NEW sent \in BOOLEAN, timeValid \in BOOLEAN, GoesOn(e.item)
  PROVE  LET p == Published(e, immediate, t, sent)
         IN  /\ p.item = e.item /\ p.last = t
             /\ ~sent => p.next = e.next
             /\ sent /\ NeedsTime(e.item) /\ Planned(e, immediate, t) \in 0 .. MaxTime =>
                  Beyond(p, Planned(e, immediate, t))
<1> DEFINE p == Published(e, immediate, t, sent)
           fired == [e EXCEPT !.status = "running", !.last = t]
           done == [fired EXCEPT !.runs = @ + 1]
           anchor == IF immediate THEN t ELSE Planned(e, immediate, t)
<1>0. t \in Nat
  BY SchedulerAssumption DEF SchedulerAssumption
<1>1. fired \in Open /\ fired.item = e.item /\ fired.last = t /\ fired.next = e.next
  BY <1>0 DEF EntryType, Open
<1>2. done \in Open /\ done.item = e.item /\ done.last = t
  <2> HIDE DEF fired
  <2>1. done = [fired EXCEPT !.runs = fired.runs + 1] /\ fired.runs + 1 \in Nat
    BY <1>1 DEF Open
  <2> QED
    BY <1>1, <2>1 DEF Open
<1>3. CASE ~sent
  <2>1. p = [fired EXCEPT !.status = "error"]
    BY <1>3 DEF Published
  <2> HIDE DEF p, fired
  <2>2. p.item = fired.item /\ p.last = fired.last /\ p.next = fired.next
    BY <1>1, <2>1 DEF Open
  <2> QED
    BY <1>1, <1>3, <2>2 DEF p
<1>4. CASE sent /\ e.item.kind = "once"
  <2>1. p = [done EXCEPT !.status = "completed", !.next = Never]
    BY <1>4 DEF Published
  <2> HIDE DEF p, done
  <2>2. p.item = done.item /\ p.last = done.last /\ p.next = Never
    BY <1>2, <2>1 DEF Open
  <2> QED
    BY <1>2, <1>4, <2>2 DEF p, Beyond
<1>5. CASE sent /\ e.item.kind # "once"
  <2>1. p = Refresh(done, anchor, timeValid)
    BY <1>5 DEF Published
  <2>2. anchor \in Int /\ anchor = Planned(e, immediate, t)
    BY <1>0 DEF Planned, EntryType
  <2> HIDE DEF p, done, anchor
  <2>3. p.item = done.item /\ p.last = done.last
    BY <1>2, <2>1, <2>2, RefreshFacts DEF Open
  <2>4. ASSUME NeedsTime(e.item), anchor \in 0 .. MaxTime
        PROVE  p.status # "paused" => p.next = Never \/ p.next > anchor
    BY <1>2, <2>1, <2>4, RefreshLater
  <2> QED
    BY <1>2, <1>5, <2>2, <2>3, <2>4 DEF p, Beyond
<1> QED
  BY <1>3, <1>4, <1>5

\* Firing a sound entry keeps it sound.
LEMMA PublishedSound ==
  ASSUME NEW e \in EntryType, NEW immediate \in BOOLEAN, NEW t \in 0 .. MaxTime,
         NEW sent \in BOOLEAN, timeValid \in BOOLEAN, Sound(e)
  PROVE  Sound(Published(e, immediate, t, sent))
<1>1. MaxTime \in Nat /\ GoesOn(e.item)
  BY SchedulerAssumption DEF SchedulerAssumption, Sound
<1>2. /\ Published(e, immediate, t, sent).item = e.item
      /\ Published(e, immediate, t, sent).last = t
  BY <1>1, PublishedLater
<1> QED
  BY <1>1, <1>2 DEF Sound

\* Refreshing keeps a sound entry sound.
LEMMA RefreshSound ==
  ASSUME NEW e \in EntryType, NEW anchor \in Int, NEW valid \in BOOLEAN, Sound(e)
  PROVE  Sound(Refresh(e, anchor, valid))
<1>1. e \in Open
  BY DEF EntryType, Open
<1>2. Refresh(e, anchor, valid).item = e.item /\ Refresh(e, anchor, valid).last = e.last
  BY <1>1, RefreshFacts DEF Open
<1> QED
  BY <1>2 DEF Sound

\* A new entry is sound and waits for no time.
LEMMA NewEntrySound ==
  ASSUME NEW item \in Definitions, GoesOn(item)
  PROVE  Sound(NewEntry(item)) /\ NewEntry(item).next = Never
<1>1. MaxTime \in Nat
  BY SchedulerAssumption DEF SchedulerAssumption
<1> QED
  BY <1>1 DEF Sound, NewEntry

\* What commands make of a sound entry is sound.
LEMMA ChangedSound ==
  ASSUME NEW op \in EntryOps \ {"remove"}, NEW e \in EntryType \cup {NoEntry},
         NEW item \in Definitions \cup {NoEntry}, NEW anchor \in Int, timeValid \in BOOLEAN,
         op # "add" => e \in EntryType /\ Sound(e),
         op \in {"add", "update"} => item \in Definitions /\ GoesOn(item)
  PROVE  Sound(Changed(op, e, item, anchor))
<1> DEFINE c == Changed(op, e, item, anchor)
<1>1. CASE op = "add"
  <2>1. c = Refresh(NewEntry(item), anchor, timeValid)
    BY <1>1 DEF Changed
  <2> QED
    BY <1>1, <2>1, NewEntryFacts, NewEntrySound, RefreshSound
<1>2. CASE op = "update"
  <2> DEFINE x == [e EXCEPT !.item = item]
  <2>1. c = IF e.status = "paused" THEN x ELSE Refresh(x, anchor, timeValid)
    BY <1>2 DEF Changed
  <2>2. x \in EntryType /\ Sound(x)
    BY <1>2 DEF EntryType, Sound
  <2> HIDE DEF x
  <2>3. Sound(Refresh(x, anchor, timeValid))
    BY <2>2, RefreshSound
  <2> QED
    BY <2>1, <2>2, <2>3
<1>3. CASE op \in {"enable", "disable"}
  <2>1. PICK b \in BOOLEAN, s \in {"scheduled", "disabled"} :
          c = Refresh([e EXCEPT !.item.enabled = b, !.status = s], anchor, timeValid)
    BY <1>3 DEF Changed
  <2> DEFINE i == [e.item EXCEPT !.enabled = b]
             x == [e EXCEPT !.item.enabled = b, !.status = s]
  <2>2. x = [e EXCEPT !.item = i, !.status = s]
    BY <1>3 DEF EntryType
  <2>3. i \in Definitions /\ i.kind = e.item.kind /\ i.times = e.item.times
    <3>1. e.item \in Definitions
      BY <1>3 DEF EntryType
    <3> QED
      BY <3>1 DEF Definitions
  <2> HIDE DEF i
  <2>4. x \in EntryType /\ x.item = i /\ x.last = e.last
    BY <1>3, <2>2, <2>3 DEF EntryType, Statuses
  <2>5. x \in EntryType /\ Sound(x)
    BY <1>3, <2>3, <2>4 DEF Sound, GoesOn
  <2> HIDE DEF x
  <2>6. Sound(Refresh(x, anchor, timeValid))
    BY <2>5, RefreshSound
  <2> QED
    BY <2>1, <2>6 DEF x
<1>4. CASE op = "pause"
  <2>1. c = [e EXCEPT !.status = "paused"]
    BY <1>4 DEF Changed
  <2>2. c.item = e.item /\ c.last = e.last
    BY <1>4, <2>1 DEF EntryType
  <2> QED
    BY <1>4, <2>2 DEF Sound
<1>5. CASE op = "resume"
  <2>1. c = Refresh(e, anchor, timeValid)
    BY <1>5 DEF Changed
  <2> QED
    BY <1>5, <2>1, RefreshSound
<1> QED
  BY <1>1, <1>2, <1>3, <1>4, <1>5 DEF EntryOps

\* A sync makes entries wait for a time to come.
LEMMA SyncedLater ==
  ASSUME NEW e \in EntryType, now \in 0 .. MaxTime, Sound(e)
  PROVE  /\ Sound(Synced(e)) /\ Synced(e).item = e.item
         /\ NeedsTime(e.item) /\ Synced(e).status # "paused" =>
              Synced(e).next = Never \/ Synced(e).next > now
<1> DEFINE x == IF ~timeValid /\ ~NeedsTime(e.item) THEN [e EXCEPT !.last = 0, !.next = Never]
                                                   ELSE e
           r == Refresh(x, now, TRUE)
<1>0. MaxTime \in Nat /\ now \in Nat
  BY SchedulerAssumption DEF SchedulerAssumption
<1>1. x \in EntryType /\ x.item = e.item /\ x.status = e.status /\ Sound(x)
  <2>1. Never \in Int
    BY DEF Never
  <2>2. x = e \/ x = [e EXCEPT !.last = 0, !.next = Never]
    OBVIOUS
  <2> HIDE DEF x
  <2>3. CASE x = [e EXCEPT !.last = 0, !.next = Never]
    <3> DEFINE n == Never
    <3>1. n \in Int /\ x = [e EXCEPT !.last = 0, !.next = n]
      BY <2>1, <2>3
    <3> HIDE DEF n
    <3>2. x \in EntryType /\ x.item = e.item /\ x.status = e.status /\ x.last = 0
      BY <3>1 DEF EntryType
    <3> QED
      BY <1>0, <3>2 DEF Sound
  <2> QED
    BY <2>2, <2>3
<1>2. Synced(e) = IF e.status = "paused" THEN x ELSE r
  BY DEF Synced
<1>3. Synced(e).item = e.item
  BY <1>0, SyncedFacts
<1> HIDE DEF x
<1>4. x \in Open
  BY <1>1 DEF EntryType, Open
<1>5. Sound(r)
  <2>1. now \in Int /\ TRUE \in BOOLEAN
    BY <1>0
  <2> QED
    BY <1>1, <2>1, RefreshSound
<1>6. ASSUME NeedsTime(e.item) PROVE r.status # "paused" => r.next = Never \/ r.next > now
  BY <1>1, <1>4, <1>6, RefreshLater DEF Sound
<1> HIDE DEF r
<1> QED
  BY <1>1, <1>2, <1>3, <1>5, <1>6

\* Loading makes entries wait for a time after the one at which they were last fired, or for
\* none without a valid clock.
LEMMA LoadedLater ==
  ASSUME NEW e \in EntryType, NEW rt \in RunTimeType \cup {NoEntry}, NEW at \in 0 .. MaxTime,
         timeValid \in BOOLEAN, Sound(e), rt # NoEntry => rt.last <= MaxTime
  PROVE  LET l == Loaded(e, rt, at)
         IN  /\ Sound(l) /\ l.item = e.item
             /\ NeedsTime(e.item) /\ l.status # "paused" =>
                  /\ ~timeValid => l.next = Never
                  /\ rt # NoEntry /\ rt.last > 0 => l.next = Never \/ l.next > rt.last
<1> DEFINE m == Merge(e, rt)
           l == Loaded(e, rt, at)
           anchor == IF m.last > 0 THEN m.last ELSE at
<1>0. MaxTime \in Nat /\ NoEntry \notin RunTimeType
  BY SchedulerAssumption DEF SchedulerAssumption
<1>1. /\ m \in EntryType /\ m.item = e.item /\ Sound(m)
      /\ rt # NoEntry => m.last = rt.last
  <2>1. CASE rt = NoEntry
    BY <2>1 DEF Merge
  <2>2. CASE rt # NoEntry
    <3>1. m = [e EXCEPT !.status = rt.status, !.next = rt.next, !.last = rt.last,
                        !.runs = rt.runs]
      BY <2>2 DEF Merge
    <3> QED
      BY <1>0, <2>2, <3>1 DEF EntryType, RunTimeType, Sound
  <2> QED
    BY <2>1, <2>2
<1>2. l = IF m.status = "paused" THEN m ELSE Refresh(m, anchor, timeValid)
  BY DEF Loaded
<1>3. anchor \in 0 .. MaxTime
  BY <1>0, <1>1 DEF EntryType, Sound
<1>4. rt # NoEntry /\ rt.last > 0 => anchor = rt.last
  BY <1>1
<1>5. m \in Open
  BY <1>1 DEF EntryType, Open
<1> HIDE DEF m, l, anchor
<1>6. CASE m.status = "paused"
  BY <1>1, <1>2, <1>6 DEF l
<1>7. CASE m.status # "paused"
  <2>1. l = Refresh(m, anchor, timeValid)
    BY <1>2, <1>7
  <2>2. Sound(l) /\ l.item = m.item
    BY <1>0, <1>1, <1>3, <1>5, <2>1, RefreshSound, RefreshFacts DEF Open
  <2>3. ASSUME NeedsTime(e.item), l.status # "paused"
        PROVE  l.next = Never \/ (timeValid /\ l.next > anchor)
    BY <1>1, <1>3, <1>5, <2>1, <2>3, RefreshLater DEF Sound
  <2> QED
    BY <1>1, <1>4, <2>2, <2>3 DEF l
<1> QED
  BY <1>6, <1>7

-----------------------------------------------------------------------------
(* The clock.                                                              *)

\* What a step may make of a client's command: the time it read and its definition, and
\* when the service is told to sync.
Follows(c) ==
  /\ cmd'[c].at \in {cmd[c].at, now, 0}
  /\ cmd'[c].item \in {cmd[c].item, NoEntry} \cup Items
  /\ c = "service" => \/ cmd'[c].op \in {cmd[c].op, "none"}
                      \/ cmd'[c].op = "sync" /\ now' >= Epoch
                      \/ Reset

\* Commands that stay, move on or end.
LEMMA FollowsOn ==
  ASSUME TypeInv, NEW c \in Clients, now' = now,
         \/ UNCHANGED cmd \/ Finish(c) \/ Done(c)
         \/ \E place \in {"idle", "wait"} \cup Holding : Goto(c, place)
  PROVE  \A d \in Clients : Follows(d)
<1> USE DEF Follows
<1>i. IdleCmd.at = 0 /\ IdleCmd.item = NoEntry /\ IdleCmd.op = "none"
  BY DEF IdleCmd
<1>1. CASE UNCHANGED cmd
  BY <1>1
<1>2. CASE Finish(c)
  BY <1>2, <1>i, FinishFacts DEF TypeInv
<1>3. CASE Done(c)
  <2> DEFINE sync == [IdleCmd EXCEPT !.pc = "wait", !.op = "sync"]
  <2>1. CASE cmd[c].op = "boot" /\ now >= Epoch
    <3>1. cmd' = [cmd EXCEPT ![c] = sync]
      BY <1>3, <2>1 DEF Done
    <3>2. sync.at = 0 /\ sync.item = NoEntry /\ sync.op = "sync"
      BY DEF IdleCmd
    <3> HIDE DEF sync
    <3>3. cmd'[c] = sync /\ \A d \in Clients : d # c => cmd'[d] = cmd[d]
      BY <3>1 DEF TypeInv
    <3> QED
      BY <2>1, <3>2, <3>3
  <2>2. CASE ~(cmd[c].op = "boot" /\ now >= Epoch)
    BY <1>2, <1>3, <2>2 DEF Done
  <2> QED
    BY <2>1, <2>2
<1>4. ASSUME NEW place \in {"idle", "wait"} \cup Holding, Goto(c, place)
      PROVE  \A d \in Clients : Follows(d)
  <2>1. /\ cmd'[c].at = cmd[c].at /\ cmd'[c].item = cmd[c].item /\ cmd'[c].op = cmd[c].op
        /\ \A d \in Clients : d # c => cmd'[d] = cmd[d]
    BY <1>4, PlaceFacts DEF Goto, TypeInv
  <2> QED
    BY <2>1
<1> QED
  BY <1>1, <1>2, <1>3, <1>4

\* Every step of a client that has the mutex moves on or ends its command.
LEMMA SavesFollow ==
  ASSUME TypeInv, NEW c \in Clients,
         \/ OpenDefs(c) \/ WriteDefs(c) \/ SaveDefsFails(c) \/ LoadState(c)
         \/ SaveState(c) \/ SaveStateFails(c)
  PROVE  /\ UNCHANGED <<now, reached, timeValid, task>>
         /\ \A d \in Clients : Follows(d)
<1>1. UNCHANGED <<now, reached, timeValid, task>>
  BY DEF OpenDefs, WriteDefs, SaveDefsFails, LoadState, SaveState, SaveStateFails, history
<1>2. \/ Finish(c) \/ Done(c) \/ Goto(c, "write") \/ Goto(c, "merge") \/ Goto(c, "state")
  BY DEF OpenDefs, WriteDefs, SaveDefsFails, LoadState, SaveState, SaveStateFails, RollBack
<1>3. {"write", "merge", "state"} \subseteq Holding
  BY DEF Holding
<1> QED
  BY <1>1, <1>2, <1>3, FollowsOn

\* Every step makes of the commands what it may.
LEMMA StepFollows ==
  ASSUME TypeInv, ControlInv, Epoch <= reached, [Next]_vars
  PROVE  \A c \in Clients : Follows(c)
<1>0. "user" \in Clients /\ "service" \in Clients /\ \A c \in Clients : cmd[c] \in CmdType
  BY DEF Clients, TypeInv
<1>1. CASE TaskStep \/ Passes \/ UNCHANGED vars
  <2>1. UNCHANGED cmd
    BY <1>1 DEF TaskStep, WakeUp, TakeLock, Miss, Fire, SaveFired, Passes, vars
  <2> QED
    BY <2>1 DEF Follows
<1>2. CASE UserBegins
  <2>1. \E op, id : \E item \in Items \cup {NoEntry} : Begin(op, id, item)
    <3>1. PICK op \in Ops :
            CASE op = "reload" -> Begin(op, NoEntry, NoEntry)
              [] op \in {"add", "update"} -> \E id \in Ids, item \in Items : Begin(op, id, item)
              [] OTHER -> \E id \in Ids : Begin(op, id, NoEntry)
      BY <1>2 DEF UserBegins
    <3>2. CASE op = "reload"
      BY <3>1, <3>2
    <3>3. CASE op \in {"add", "update"}
      BY <3>1, <3>3
    <3>4. CASE op \notin {"reload", "add", "update"}
      BY <3>1, <3>4
    <3> QED
      BY <3>2, <3>3, <3>4
  <2>2. PICK op, id : \E item \in Items \cup {NoEntry} : Begin(op, id, item)
    BY <2>1
  <2>3. PICK item \in Items \cup {NoEntry} : Begin(op, id, item)
    BY <2>2
  <2> DEFINE k == [pc |-> "wait", op |-> op, id |-> id, item |-> item, at |-> now, old |-> NoEntry]
  <2>4. cmd' = [cmd EXCEPT !["user"] = k]
    BY <2>3 DEF Begin
  <2>5. k.at = now /\ k.item = item
    OBVIOUS
  <2> HIDE DEF k
  <2>6. cmd'["user"] = k /\ cmd'["service"] = cmd["service"]
    BY <2>4 DEF TypeInv, Clients
  <2> QED
    BY <2>5, <2>6 DEF Follows, Clients
<1>3. CASE Apply
  <2>1. CASE Finish("user")
    BY <1>0, <1>3, <2>1, FollowsOn, ApplyFacts
  <2>2. CASE ~Finish("user")
    <3>1. /\ cmd'["user"].item = cmd["user"].item /\ cmd'["service"] = cmd["service"]
      BY <1>3, <2>2, ApplyFacts
    <3>2. PICK old, place : cmd' = [cmd EXCEPT !["user"].old = old, !["user"].pc = place]
      <4> DEFINE place == IF cmd["user"].op \in {"pause", "resume"} THEN "state" ELSE "defs"
      <4>1. cmd' = [cmd EXCEPT !["user"].old = entries[cmd["user"].id], !["user"].pc = place]
        BY <1>3, <2>2 DEF Apply
      <4> HIDE DEF place
      <4> QED
        BY <4>1
    <3>3. cmd'["user"].at = cmd["user"].at
      <4> DEFINE k == [cmd["user"] EXCEPT !.old = old, !.pc = place]
      <4>1. cmd' = [cmd EXCEPT !["user"] = k]
        BY <3>2
      <4>2. k.at = cmd["user"].at
        BY <1>0 DEF CmdType
      <4> HIDE DEF k
      <4> QED
        BY <1>0, <4>1, <4>2 DEF TypeInv
    <3> QED
      BY <3>1, <3>3 DEF Follows, Clients
  <2> QED
    BY <2>1, <2>2
<1>4. CASE Trigger
  BY <1>0, <1>4, FollowsOn, TriggerFacts DEF Holding
<1>5. CASE Sync
  <2>1. Goto("service", "state") /\ now' = now
    BY <1>5 DEF Sync
  <2> QED
    BY <1>0, <2>1, FollowsOn DEF Holding
<1>6. ASSUME NEW c \in Clients, Load(c) PROVE \A d \in Clients : Follows(d)
  <2>1. now' = now
    BY <1>6, LoadFacts
  <2>2. CASE UNCHANGED cmd \/ Finish(c)
    BY <2>1, <2>2, FollowsOn
  <2>3. CASE ~(UNCHANGED cmd \/ Finish(c))
    <3>1. /\ cmd'[c].op = cmd[c].op /\ cmd'[c].item = cmd[c].item
          /\ \A d \in Clients : d # c => cmd'[d] = cmd[d]
      BY <1>6, <2>3, LoadFacts
    <3>2. cmd' = [cmd EXCEPT ![c].pc = "defs", ![c].at = now]
      BY <1>6, <2>3 DEF Load
    <3>3. cmd'[c].at = now
      <4> DEFINE k == [cmd[c] EXCEPT !.pc = "defs", !.at = now]
      <4>1. cmd' = [cmd EXCEPT ![c] = k]
        BY <3>2
      <4>2. k.at = now
        BY <1>0 DEF CmdType
      <4> HIDE DEF k
      <4> QED
        BY <1>0, <4>1, <4>2 DEF TypeInv
    <3> QED
      BY <3>1, <3>3 DEF Follows
  <2> QED
    BY <2>2, <2>3
<1>7. CASE SetClock
  <2> DEFINE sync == [IdleCmd EXCEPT !.pc = "wait", !.op = "sync"]
  <2>1. cmd' = [cmd EXCEPT !["service"] = sync] /\ now' >= Epoch
    <3>1. reached \in Nat /\ MaxTime \in Nat /\ Epoch \in Nat
      BY SchedulerAssumption DEF TypeInv, SchedulerAssumption
    <3> QED
      BY <1>7, <3>1 DEF SetClock
  <2>2. sync.at = 0 /\ sync.item = NoEntry /\ sync.op = "sync"
    BY DEF IdleCmd
  <2> HIDE DEF sync
  <2>3. cmd'["service"] = sync /\ cmd'["user"] = cmd["user"]
    BY <2>1 DEF TypeInv, Clients
  <2> QED
    BY <2>1, <2>2, <2>3 DEF Follows, Clients
<1>8. CASE Reset
  <2>1. cmd' = [c \in Clients |-> IF c = "service" THEN BootCmd ELSE IdleCmd]
    BY <1>8 DEF Reset
  <2>2. BootCmd.at = 0 /\ BootCmd.item = NoEntry /\ IdleCmd.at = 0 /\ IdleCmd.item = NoEntry
    BY DEF BootCmd, IdleCmd
  <2> QED
    BY <1>8, <2>1, <2>2 DEF Follows
<1>9. ASSUME NEW c \in Clients, ClientStep(c) PROVE \A d \in Clients : Follows(d)
  BY <1>6, <1>9, SavesFollow DEF ClientStep
<1> QED
  BY <1>1, <1>2, <1>3, <1>4, <1>5, <1>7, <1>8, <1>9 DEF Next

\* At the first boot.
LEMMA ClockInit == Init => ClockInv
<1> SUFFICES ASSUME Init PROVE ClockInv
  OBVIOUS
<1>0. /\ Epoch \in Nat \ {0, 1} /\ MaxTime \in Nat /\ Tick \in Nat \ {0} /\ Epoch <= MaxTime
  BY SchedulerAssumption DEF SchedulerAssumption
<1>1. /\ now = 1 /\ reached = Epoch /\ timeValid = FALSE /\ task = IdleTask
      /\ cmd = [c \in Clients |-> IF c = "service" THEN BootCmd ELSE IdleCmd]
      /\ plan = [id \in Ids |-> 0]
  BY DEF Init
<1>2. BootCmd.at = 0 /\ IdleCmd.at = 0 /\ BootCmd.op = "boot"
  BY DEF BootCmd, IdleCmd
<1>3. ClockRight
  BY <1>0, <1>1, <1>2 DEF ClockRight, Clients
<1>4. task.at <= now
  BY <1>0, <1>1 DEF IdleTask
<1>5. \A c \in Clients : cmd[c].at \in 0 .. MaxTime
  BY <1>0, <1>1, <1>2
<1>6. plan \in [Ids -> Int] /\ \A id \in Ids : plan[id] <= reached
  BY <1>0, <1>1
<1> QED
  BY <1>3, <1>4, <1>5, <1>6 DEF ClockInv, TimesPast

\* Every step keeps the clock right or early.
LEMMA ClockRightStep ==
  TypeInv /\ ControlInv /\ ClockInv /\ [Next]_vars => ClockRight' /\ reached <= reached'
<1> SUFFICES ASSUME TypeInv, ControlInv, ClockInv, [Next]_vars
             PROVE  ClockRight' /\ reached <= reached'
  OBVIOUS
<1>0. /\ Epoch \in Nat \ {0, 1} /\ MaxTime \in Nat /\ now \in Nat /\ reached \in Nat
  BY SchedulerAssumption DEF SchedulerAssumption, TypeInv
<1>1. ClockRight
  BY DEF ClockInv
<1>2. \/ cmd'["service"].op \in {cmd["service"].op, "none"}
      \/ cmd'["service"].op = "sync" /\ now' >= Epoch
      \/ Reset
  BY <1>1, StepFollows DEF Follows, Clients, ClockRight
<1>3. ASSUME UNCHANGED <<now, reached, timeValid>>, ~Reset
      PROVE  ClockRight' /\ reached <= reached'
  BY <1>0, <1>1, <1>2, <1>3 DEF ClockRight
<1>r. ASSUME Reset
      PROVE  ClockRight' /\ reached <= reached'
  <2>1. /\ now' \in {1, now} /\ reached' = reached /\ timeValid' = FALSE
        /\ cmd' = [c \in Clients |-> IF c = "service" THEN BootCmd ELSE IdleCmd]
    BY <1>r DEF Reset
  <2>2. cmd'["service"].op = "boot"
    BY <2>1, IdleFacts DEF Clients
  <2> QED
    BY <1>0, <1>1, <2>1, <2>2 DEF ClockRight
<1>4. CASE TaskStep \/ UserBegins \/ UNCHANGED vars
  <2>1. UNCHANGED <<now, reached, timeValid>>
    <3>1. CASE UserBegins
      BY <3>1, BeginFacts DEF Begin
    <3> QED
      BY <1>4, <3>1 DEF TaskStep, WakeUp, TakeLock, Miss, Fire, SaveFired, vars
  <2> QED
    BY <1>3, <1>r, <2>1
<1>5. CASE Apply \/ Trigger
  <2>1. UNCHANGED <<now, reached, timeValid>>
    BY <1>5, ApplyFacts, TriggerFacts
  <2> QED
    BY <1>3, <1>r, <2>1
<1>6. CASE Sync
  <2>1. /\ cmd["service"].op = "sync" /\ Goto("service", "state") /\ timeValid' = TRUE
        /\ UNCHANGED <<now, reached>>
    BY <1>6 DEF Sync
  <2>2. cmd'["service"].op = "sync"
    BY <2>1, PlaceFacts DEF Goto, TypeInv, Clients, Holding
  <2> QED
    BY <1>0, <1>1, <2>1, <2>2 DEF ClockRight
<1>7. ASSUME NEW c \in Clients, ClientStep(c)
      PROVE  ClockRight' /\ reached <= reached'
  <2>1. UNCHANGED <<now, reached, timeValid>>
    BY <1>7, LoadFacts, SavesFollow DEF ClientStep
  <2> QED
    BY <1>3, <1>r, <2>1
<1>8. CASE Passes
  <2>1. /\ now < MaxTime /\ now + 1 # Epoch /\ now' = now + 1
        /\ reached' = (IF now' >= reached THEN now' ELSE reached)
        /\ UNCHANGED <<timeValid, cmd>>
    BY <1>8 DEF Passes
  <2> QED
    BY <1>0, <1>1, <2>1 DEF ClockRight
<1>9. CASE SetClock
  <2>1. /\ now < Epoch /\ now' \in reached .. MaxTime /\ reached' = now' /\ timeValid' = timeValid
        /\ up = "running" /\ cmd["service"].pc = "idle"
        /\ cmd' = [cmd EXCEPT !["service"] = [IdleCmd EXCEPT !.pc = "wait", !.op = "sync"]]
    BY <1>9 DEF SetClock
  <2>2. cmd'["service"].op = "sync"
    BY <2>1, IdleFacts DEF TypeInv, Clients
  <2> QED
    BY <1>0, <1>1, <2>1, <2>2 DEF ClockRight
<1> QED
  BY <1>4, <1>5, <1>6, <1>7, <1>8, <1>9, <1>r DEF Next

\* An entry that is due is fired for the time it waits for, which has come.
LEMMA FirePlan ==
  ASSUME TypeInv, ControlInv, ClockInv, NEW id \in Ids, Fire(id)
  PROVE  /\ id \in Present /\ entries[id] \in EntryType /\ entries[id].status # "paused"
         /\ 0 < entries[id].next /\ entries[id].next <= task.at /\ entries[id].next <= reached
         /\ task.at \in 0 .. MaxTime
         /\ \E sent \in BOOLEAN :
              /\ entries' = [entries EXCEPT ![id] = Published(entries[id], FALSE, task.at, sent)]
              /\ plan' = IF sent THEN [plan EXCEPT ![id] = entries[id].next] ELSE plan
         /\ UNCHANGED <<now, reached, timeValid, lock, cmd, file, blob>>
<1> DEFINE e == entries[id]
<1>1. /\ task.pc = "firing" /\ id \in task.todo
      /\ UNCHANGED <<now, reached, timeValid, lock, cmd, file, blob>>
  BY DEF Fire
<1>2. id \in Present /\ Due(e, task.at)
  BY <1>1 DEF ControlInv
<1>3. e \in EntryType /\ e.next \in Int
  BY <1>2 DEF TypeInv, Present, EntryType
<1>4. task.at \in Nat /\ now \in Nat /\ reached \in Nat /\ MaxTime \in Nat
  BY <1>1, SchedulerAssumption DEF TypeInv, SchedulerAssumption
<1>5. 0 < e.next /\ e.next <= task.at /\ e.status # "paused"
  BY <1>2 DEF Due
<1>6. task.at <= now /\ now <= reached /\ reached <= MaxTime
  BY DEF ClockInv, ClockRight, TimesPast
<1>7. Planned(e, FALSE, task.at) = e.next
  BY <1>3, <1>5 DEF Planned
<1>8. PICK sent \in BOOLEAN :
        /\ entries' = [entries EXCEPT ![id] = Published(e, FALSE, task.at, sent)]
        /\ plan' = IF sent THEN [plan EXCEPT ![id] = Planned(e, FALSE, task.at)] ELSE plan
  BY SchedulerAssumption DEF Fire, SchedulerAssumption
<1>9. \E s \in BOOLEAN :
        /\ entries' = [entries EXCEPT ![id] = Published(e, FALSE, task.at, s)]
        /\ plan' = IF s THEN [plan EXCEPT ![id] = e.next] ELSE plan
  BY <1>7, <1>8
<1>10. e.next <= reached /\ task.at \in 0 .. MaxTime
  BY <1>3, <1>4, <1>5, <1>6
<1> QED
  BY <1>1, <1>2, <1>3, <1>5, <1>9, <1>10

\* What a step makes of the times that entries were last fired for.
LEMMA PlanFacts ==
  ASSUME TypeInv, ControlInv, ClockInv, [Next]_vars
  PROVE  /\ plan' \in [Ids -> Int]
         /\ \A id \in Ids : plan'[id] \in {plan[id], 0} \/ (Fire(id) /\ plan'[id] = entries[id].next)
<1>0. plan \in [Ids -> Int]
  BY DEF ClockInv, TimesPast
<1>1. CASE UNCHANGED plan
  BY <1>0, <1>1
<1>2. ASSUME NEW id \in Ids, plan' = [plan EXCEPT ![id] = 0]
      PROVE  plan' \in [Ids -> Int] /\ \A x \in Ids : plan'[x] \in {plan[x], 0}
  BY <1>0, <1>2
<1>3. CASE TaskStep
  <2>1. CASE WakeUp \/ TakeLock \/ SaveFired \/ \E id \in Ids : Miss(id)
    BY <1>1, <2>1 DEF WakeUp, TakeLock, SaveFired, Miss, history
  <2>2. ASSUME NEW id \in Ids, Fire(id)
        PROVE  plan' = plan \/ (plan' \in [Ids -> Int] /\ \A x \in Ids :
                                  IF x = id THEN plan'[x] = entries[x].next ELSE plan'[x] = plan[x])
    <3>1. entries[id].next \in Int /\ (plan' = plan \/ plan' = [plan EXCEPT ![id] = entries[id].next])
      BY <2>2, FirePlan DEF EntryType
    <3> QED
      BY <1>0, <3>1
  <2> QED
    BY <1>1, <1>3, <2>1, <2>2 DEF TaskStep
<1>4. CASE UserBegins \/ Sync \/ Passes \/ SetClock \/ Reset \/ UNCHANGED vars
  <2>1. UNCHANGED plan
    <3>1. CASE UserBegins
      BY <3>1, BeginFacts DEF Begin, history
    <3> QED
      BY <1>4, <3>1 DEF Sync, Passes, SetClock, Reset, vars, history
  <2> QED
    BY <1>1, <2>1
<1>5. CASE Apply
  <2>1. cmd["user"].id \in Ids /\ (plan' = plan \/ plan' = [plan EXCEPT ![cmd["user"].id] = 0])
    BY <1>5, ApplyFacts DEF Apply
  <2> QED
    BY <1>1, <1>2, <2>1
<1>6. CASE Trigger
  <2>1. cmd["user"].id \in Ids /\ (plan' = plan \/ plan' = [plan EXCEPT ![cmd["user"].id] = 0])
    BY <1>6, TriggerFacts DEF Trigger
  <2> QED
    BY <1>1, <1>2, <2>1
<1>7. ASSUME NEW c \in Clients, LoadState(c)
      PROVE  plan' \in [Ids -> Int] /\ \A x \in Ids : plan'[x] \in {plan[x], 0}
  BY <1>0, <1>7 DEF LoadState, Recalled
<1>8. ASSUME NEW c \in Clients, ClientStep(c), ~LoadState(c) PROVE UNCHANGED plan
  BY <1>8 DEF ClientStep, Load, OpenDefs, WriteDefs, SaveDefsFails, SaveState, SaveStateFails, history
<1> QED
  BY <1>1, <1>3, <1>4, <1>5, <1>6, <1>7, <1>8 DEF Next

\* Every step keeps the times in the past.
LEMMA TimesPastStep ==
  TypeInv /\ ControlInv /\ ClockInv /\ [Next]_vars => TimesPast'
<1> SUFFICES ASSUME TypeInv, ControlInv, ClockInv, [Next]_vars PROVE TimesPast'
  OBVIOUS
<1>0. /\ Epoch \in Nat \ {0, 1} /\ MaxTime \in Nat /\ now \in Nat /\ reached \in Nat
      /\ reached' \in Nat /\ task.at \in Int /\ Tick \in Nat \ {0}
  BY TypeStep, SchedulerAssumption DEF SchedulerAssumption, TypeInv, TaskType
<1>1. ClockRight /\ TimesPast /\ reached <= reached'
  BY ClockRightStep DEF ClockInv
<1>2. \A c \in Clients : cmd'[c].at \in 0 .. MaxTime
  <2>1. now \in 0 .. MaxTime /\ Epoch <= reached
    BY <1>0, <1>1 DEF ClockRight
  <2> QED
    BY <1>0, <1>1, <2>1, StepFollows DEF TimesPast, Follows
<1>3. plan' \in [Ids -> Int] /\ \A id \in Ids : plan'[id] <= reached'
  <2>1. plan' \in [Ids -> Int] /\ plan \in [Ids -> Int]
    BY <1>1, PlanFacts DEF TimesPast
  <2>2. ASSUME NEW id \in Ids PROVE plan'[id] <= reached
    <3>1. CASE plan'[id] \in {plan[id], 0}
      BY <1>0, <1>1, <3>1 DEF TimesPast
    <3>2. CASE Fire(id) /\ plan'[id] = entries[id].next
      BY <3>2, FirePlan
    <3> QED
      BY <3>1, <3>2, PlanFacts
  <2> QED
    BY <1>0, <1>1, <2>1, <2>2
<1>4. task'.at <= now'
  <2>1. CASE WakeUp
    <3>1. task' = [task EXCEPT !.pc = "ready", !.at = now] /\ now' = now
      BY <2>1 DEF WakeUp
    <3>2. task'.at = now
      <4>1. task \in TaskType
        BY DEF TypeInv
      <4> QED
        BY <3>1, <4>1 DEF TaskType
    <3> QED
      BY <1>0, <3>1, <3>2
  <2>2. CASE Reset
    <3>1. task' = IdleTask /\ now' \in {1, now}
      BY <2>2 DEF Reset
    <3>2. task'.at = -Tick
      BY <3>1 DEF IdleTask
    <3> QED
      BY <1>0, <3>1, <3>2
  <2>3. ASSUME task'.at = task.at, now' \in {now, now + 1} \/ (now' >= reached /\ now' \in Int)
        PROVE  task'.at <= now'
    BY <1>0, <1>1, <2>3 DEF TimesPast, ClockRight
  <2>4. CASE TaskStep /\ ~WakeUp
    <3>1. now' = now /\ task \in TaskType
      BY <2>4 DEF TaskStep, TakeLock, Miss, Fire, SaveFired, TypeInv
    <3>2. task'.at = task.at
      <4>1. CASE TakeLock
        BY <3>1, <4>1 DEF TakeLock, TaskType
      <4>2. CASE SaveFired
        BY <3>1, <4>2 DEF SaveFired, TaskType
      <4>3. ASSUME NEW id \in Ids, Miss(id) \/ Fire(id) PROVE task'.at = task.at
        BY <3>1, <4>3 DEF Miss, Fire, TaskType
      <4> QED
        BY <2>4, <4>1, <4>2, <4>3 DEF TaskStep
    <3> QED
      BY <2>3, <3>1, <3>2
  <2>5. CASE UserBegins \/ Apply \/ Trigger \/ Sync \/ (\E c \in Clients : ClientStep(c))
             \/ Passes \/ SetClock \/ UNCHANGED vars
    <3>1. task' = task
      <4>1. CASE UserBegins
        BY <4>1, BeginFacts DEF Begin
      <4>2. CASE \E c \in Clients : ClientStep(c)
        BY <4>2, LoadFacts, SavesFollow DEF ClientStep
      <4> QED
        BY <2>5, <4>1, <4>2, ApplyFacts, TriggerFacts DEF Sync, Passes, SetClock, vars
    <3>2. now' \in {now, now + 1} \/ (now' >= reached /\ now' \in Int)
      <4>1. CASE UserBegins
        BY <4>1, BeginFacts DEF Begin
      <4>2. CASE \E c \in Clients : ClientStep(c)
        BY <4>2, LoadFacts, SavesFollow DEF ClientStep
      <4>3. CASE SetClock
        BY <1>0, <4>3 DEF SetClock
      <4> QED
        BY <2>5, <4>1, <4>2, <4>3, ApplyFacts, TriggerFacts DEF Sync, Passes, vars
    <3> QED
      BY <2>3, <3>1, <3>2
  <2> QED
    BY <2>1, <2>2, <2>4, <2>5 DEF Next
<1> QED
  BY <1>2, <1>3, <1>4 DEF TimesPast

-----------------------------------------------------------------------------
(* What a client would put back.                                           *)

\* A client that could put an entry back could put back the same one before.
OldStays(c) ==
  \/ cmd'[c].pc \notin Holding
  \/ cmd'[c].op \notin EntryOps
  \/ /\ cmd[c].pc \in Holding
     /\ cmd'[c].op = cmd[c].op /\ cmd'[c].old = cmd[c].old /\ cmd'[c].id = cmd[c].id

\* Commands that stay, move on or end
LEMMA StaysOn ==
  ASSUME TypeInv, NEW c \in Clients,
         \/ UNCHANGED cmd \/ Finish(c) \/ Done(c)
         \/ /\ \E place \in {"idle", "wait"} \cup Holding : Goto(c, place)
            /\ cmd[c].pc \in Holding \/ cmd[c].op \notin EntryOps
  PROVE  \A d \in Clients : OldStays(d)
<1> USE DEF OldStays
<1>1. CASE UNCHANGED cmd
  BY <1>1
<1>2. CASE Finish(c) \/ Done(c)
  <2>1. cmd'[c].pc \notin Holding /\ \A d \in Clients : d # c => cmd'[d] = cmd[d]
    BY <1>2, FinishFacts, DoneFacts, IdleFacts DEF TypeInv, Holding
  <2> QED
    BY <2>1
<1>3. ASSUME NEW place \in {"idle", "wait"} \cup Holding, Goto(c, place),
             cmd[c].pc \in Holding \/ cmd[c].op \notin EntryOps
      PROVE  \A d \in Clients : OldStays(d)
  <2>1. /\ cmd'[c].op = cmd[c].op /\ cmd'[c].old = cmd[c].old /\ cmd'[c].id = cmd[c].id
        /\ \A d \in Clients : d # c => cmd'[d] = cmd[d]
    BY <1>3, PlaceFacts DEF Goto, TypeInv
  <2> QED
    BY <1>3, <2>1
<1> QED
  BY <1>1, <1>2, <1>3

\* Only taking the mutex for a command sets an entry aside.
LEMMA StepStays ==
  ASSUME TypeInv, ControlInv, [Next]_vars, ~Apply
  PROVE  \A c \in Clients : OldStays(c)
<1>0. "user" \in Clients /\ "service" \in Clients
  BY DEF Clients
<1>1. CASE TaskStep \/ Passes \/ UNCHANGED vars
  <2>1. UNCHANGED cmd
    BY <1>1 DEF TaskStep, WakeUp, TakeLock, Miss, Fire, SaveFired, Passes, vars
  <2> QED
    BY <2>1 DEF OldStays
<1>2. CASE UserBegins
  <2>1. PICK op, id, item : Begin(op, id, item)
    BY <1>2, BeginFacts
  <2>2. cmd'["user"].pc = "wait" /\ cmd'["service"] = cmd["service"]
    BY <2>1 DEF Begin, TypeInv, Clients
  <2> QED
    BY <2>2 DEF OldStays, Clients, Holding
<1>3. CASE Trigger
  <2>1. cmd["user"].op = "trigger" /\ (Finish("user") \/ Goto("user", "state"))
    BY <1>3, TriggerFacts
  <2> QED
    BY <1>0, <2>1, StaysOn DEF Holding, EntryOps
<1>4. CASE Sync
  <2>1. cmd["service"].op = "sync" /\ Goto("service", "state")
    BY <1>4 DEF Sync
  <2> QED
    BY <1>0, <2>1, StaysOn DEF Holding, EntryOps
<1>5. ASSUME NEW c \in Clients, Load(c) PROVE \A d \in Clients : OldStays(d)
  <2>1. CASE UNCHANGED cmd \/ Finish(c)
    BY <2>1, StaysOn
  <2>2. CASE ~(UNCHANGED cmd \/ Finish(c))
    <3>1. /\ cmd'[c].op = cmd[c].op /\ cmd[c].op \in {"boot", "reload"}
          /\ \A d \in Clients : d # c => cmd'[d] = cmd[d]
      BY <1>5, <2>2, LoadFacts
    <3> QED
      BY <3>1 DEF OldStays, EntryOps
  <2> QED
    BY <2>1, <2>2
<1>6. ASSUME NEW c \in Clients, \/ OpenDefs(c) \/ WriteDefs(c) \/ SaveDefsFails(c) \/ LoadState(c)
                                \/ SaveState(c) \/ SaveStateFails(c)
      PROVE  \A d \in Clients : OldStays(d)
  <2>1. cmd[c].pc \in Holding
    BY <1>6 DEF OpenDefs, WriteDefs, SaveDefsFails, LoadState, SaveState, SaveStateFails, Holding
  <2>2. \/ Finish(c) \/ Done(c) \/ Goto(c, "write") \/ Goto(c, "merge") \/ Goto(c, "state")
    BY <1>6 DEF OpenDefs, WriteDefs, SaveDefsFails, LoadState, SaveState, SaveStateFails, RollBack
  <2> QED
    BY <2>1, <2>2, StaysOn DEF Holding
<1>7. CASE SetClock
  <2>1. cmd' = [cmd EXCEPT !["service"] = [IdleCmd EXCEPT !.pc = "wait", !.op = "sync"]]
    BY <1>7 DEF SetClock
  <2>2. cmd'["service"].op = "sync" /\ cmd'["user"] = cmd["user"]
    BY <2>1, IdleFacts DEF TypeInv, Clients
  <2> QED
    BY <2>2 DEF OldStays, Clients, EntryOps
<1>8. CASE Reset
  <2>1. cmd' = [c \in Clients |-> IF c = "service" THEN BootCmd ELSE IdleCmd]
    BY <1>8 DEF Reset
  <2> QED
    BY <2>1, IdleFacts DEF OldStays, Holding
<1>9. ASSUME NEW c \in Clients, ClientStep(c) PROVE \A d \in Clients : OldStays(d)
  BY <1>5, <1>6, <1>9 DEF ClientStep
<1> QED
  BY <1>1, <1>2, <1>3, <1>4, <1>7, <1>8, <1>9 DEF Next

-----------------------------------------------------------------------------
(* Plans that go on.                                                       *)

\* Entries and definitions stay sound, whoever keeps them.
LEMMA SoundStep ==
  ASSUME CronGoesOn
  PROVE  TypeInv /\ ControlInv /\ ClockInv /\ SoundInv /\ [Next]_vars => SoundInv'
<1> SUFFICES ASSUME TypeInv, ControlInv, ClockInv, SoundInv, [Next]_vars PROVE SoundInv'
  OBVIOUS
<1>0. /\ MaxTime \in Nat /\ now \in Nat /\ now \in 0 .. MaxTime /\ timeValid \in BOOLEAN
      /\ NoEntry \notin Definitions /\ NoEntry \notin EntryType /\ NoEntry \notin RunTimeType
      /\ Items \subseteq Definitions
  <2>1. MaxTime \in Nat /\ now \in Nat /\ reached \in Nat
    BY SchedulerAssumption DEF SchedulerAssumption, TypeInv
  <2> QED
    BY <2>1, SchedulerAssumption DEF SchedulerAssumption, TypeInv, ClockInv, ClockRight
<1>p. Present \subseteq Ids /\ \A id \in Present : entries[id] \in EntryType /\ Sound(entries[id])
  BY DEF Present, TypeInv, SoundInv
<1>c. "user" \in Clients /\ "service" \in Clients /\ \A c \in Clients : cmd[c] \in CmdType
  BY DEF Clients, TypeInv
<1>i. \A c \in Clients : cmd'[c].item # NoEntry => GoesOn(cmd'[c].item)
  <2>1. Epoch <= reached /\ \A item \in Items : item # NoEntry /\ GoesOn(item)
    BY <1>0 DEF ClockInv, ClockRight, CronGoesOn
  <2> QED
    BY <2>1, StepFollows DEF Follows, SoundInv
<1>o. ASSUME \A c \in Clients : OldStays(c)
      PROVE  \A c \in Clients : cmd'[c].pc \in Holding /\ cmd'[c].op \in EntryOps
               /\ cmd'[c].old # NoEntry => Sound(cmd'[c].old)
  BY <1>o DEF OldStays, SoundInv
<1>m. ASSUME \A id \in Present' : Sound(entries'[id]), UNCHANGED <<file, blob>>, ~Apply
      PROVE  SoundInv'
  BY <1>i, <1>m, <1>o, StepStays DEF SoundInv
<1>u. ASSUME UNCHANGED entries PROVE \A id \in Present' : Sound(entries'[id])
  BY <1>u, <1>p DEF Present
<1>b. \A id \in Ids : RunTimeOf(entries)[id] # NoEntry => RunTimeOf(entries)[id].last <= MaxTime
  BY <1>p DEF RunTimeOf, RunTime, Present, Sound
<1>1. CASE ~Apply /\ (WakeUp \/ TakeLock \/ UserBegins \/ Passes \/ SetClock \/ UNCHANGED vars)
  <2>1. UNCHANGED <<entries, file, blob>>
    <3>1. CASE UserBegins
      BY <3>1, BeginFacts DEF Begin
    <3> QED
      BY <1>1, <3>1 DEF WakeUp, TakeLock, Passes, SetClock, vars
  <2> QED
    BY <1>m, <1>u, <1>1, <2>1
<1>2. ASSUME ~Apply, NEW x \in Ids, Miss(x) \/ Fire(x) PROVE SoundInv'
  <2>1. /\ UNCHANGED <<file, blob>> /\ x \in Present /\ task.at \in Nat
    BY <1>2 DEF Miss, Fire, history, ControlInv, TypeInv
  <2>2. \E f \in EntryType : Sound(f) /\ entries' = [entries EXCEPT ![x] = f]
    <3>1. CASE Miss(x)
      <4> DEFINE r == Refresh(entries[x], task.at, timeValid)
      <4>1. r \in EntryType /\ Sound(r)
        <5>1. entries[x] \in [item : Definitions, status : Statuses \cup {"running"},
                              next : Int, last : Nat, runs : Nat]
          BY <1>p, <2>1 DEF EntryType
        <5> QED
          BY <1>0, <1>p, <2>1, <5>1, RefreshFacts, RefreshSound
      <4>2. entries' = [entries EXCEPT ![x] = r]
        BY <3>1 DEF Miss
      <4> QED
        BY <4>1, <4>2
    <3>2. CASE Fire(x)
      <4>1. PICK sent \in BOOLEAN :
              entries' = [entries EXCEPT ![x] = Published(entries[x], FALSE, task.at, sent)]
        BY <3>2, FirePlan
      <4> DEFINE p == Published(entries[x], FALSE, task.at, sent)
      <4>2. task.at \in 0 .. MaxTime
        BY <3>2, FirePlan
      <4>3. p \in EntryType /\ Sound(p)
        <5>1. FALSE \in BOOLEAN
          OBVIOUS
        <5> QED
          BY <1>0, <1>p, <2>1, <4>2, <5>1, PublishedFacts, PublishedSound
      <4> QED
        BY <4>1, <4>3
    <3> QED
      BY <1>2, <3>1, <3>2
  <2>3. \A id \in Present' : Sound(entries'[id])
    BY <1>p, <2>1, <2>2 DEF Present, TypeInv
  <2> QED
    BY <1>2, <1>m, <2>1, <2>3
<1>3. CASE ~Apply /\ SaveFired
  <2>1. UNCHANGED <<entries, file>> /\ (blob' = blob \/ blob' = RunTimeOf(entries))
    BY <1>3 DEF SaveFired
  <2> QED
    BY <1>3, <1>b, <1>i, <1>o, <1>u, <2>1, StepStays DEF SoundInv
<1>4. CASE Apply
  <2> DEFINE u == cmd["user"]
             e == Changed(u.op, entries[u.id], u.item, u.at)
  <2>1. /\ u.op \in EntryOps /\ u.id \in Ids /\ UNCHANGED <<file, blob>>
    BY <1>4, ApplyFacts
  <2>2. CASE Finish("user") /\ UNCHANGED entries
    BY <1>c, <1>i, <1>o, <1>u, <2>1, <2>2, StaysOn DEF SoundInv
  <2>3. CASE ~(Finish("user") /\ UNCHANGED entries)
    <3>1. /\ entries' = [entries EXCEPT ![u.id] = e]
          /\ cmd'["user"].old = entries[u.id] /\ cmd'["service"] = cmd["service"]
          /\ u.op # "add" => entries[u.id] \in EntryType
          /\ u.op \in {"add", "update"} => u.item \in Definitions
      BY <1>4, <2>3, ApplyFacts
    <3>2. e = NoEntry \/ Sound(e)
      <4>1. /\ entries[u.id] \in EntryType \cup {NoEntry} /\ u.item \in Definitions \cup {NoEntry}
            /\ u.at \in Int
        BY <1>c, <2>1 DEF TypeInv, CmdType
      <4>2. u.op # "add" => Sound(entries[u.id])
        BY <1>0, <1>p, <2>1, <3>1 DEF Present
      <4>3. u.op \in {"add", "update"} => GoesOn(u.item)
        BY <1>0, <1>c, <3>1 DEF SoundInv
      <4>4. CASE u.op = "remove"
        BY <4>4 DEF Changed
      <4>5. CASE u.op # "remove"
        BY <1>0, <2>1, <3>1, <4>1, <4>2, <4>3, <4>5, ChangedSound
      <4> QED
        BY <4>4, <4>5
    <3> HIDE DEF e
    <3>3. \A id \in Present' : Sound(entries'[id])
      BY <1>p, <2>1, <3>1, <3>2 DEF Present, TypeInv
    <3>4. entries[u.id] # NoEntry => Sound(entries[u.id])
      BY <1>p, <2>1 DEF Present
    <3> QED
      BY <1>i, <2>1, <3>1, <3>3, <3>4 DEF SoundInv, Clients
  <2> QED
    BY <2>2, <2>3
<1>5. CASE ~Apply /\ Trigger
  <2> DEFINE id == cmd["user"].id
  <2>1. UNCHANGED <<file, blob>>
    BY <1>5, TriggerFacts
  <2>2. CASE UNCHANGED entries
    BY <1>5, <1>m, <1>u, <2>1, <2>2
  <2>3. CASE ~UNCHANGED entries
    <3>1. PICK sent \in BOOLEAN :
            /\ id \in Present
            /\ entries' = [entries EXCEPT ![id] = Published(entries[id], TRUE, now, sent)]
      BY <1>5, <2>3, TriggerFacts
    <3> DEFINE p == Published(entries[id], TRUE, now, sent)
    <3>2. Sound(p)
      <4>1. TRUE \in BOOLEAN
        OBVIOUS
      <4> QED
        BY <1>0, <1>p, <3>1, <4>1, PublishedSound
    <3> HIDE DEF p, id
    <3>3. \A x \in Present' : Sound(entries'[x])
      BY <1>p, <3>1, <3>2 DEF Present, TypeInv, p
    <3> QED
      BY <1>5, <1>m, <2>1, <3>3
  <2> QED
    BY <2>2, <2>3
<1>6. CASE ~Apply /\ Sync
  <2>1. /\ entries' = [id \in Ids |-> IF id \in Present THEN Synced(entries[id]) ELSE NoEntry]
        /\ UNCHANGED <<file, blob>>
    BY <1>6 DEF Sync
  <2>2. \A id \in Present : Sound(Synced(entries[id]))
    BY <1>0, <1>p, SyncedLater
  <2>3. \A id \in Present' : Sound(entries'[id])
    BY <2>1, <2>2 DEF Present
  <2> QED
    BY <1>6, <1>m, <2>1, <2>3
<1>7. ASSUME ~Apply, NEW c \in Clients, Load(c) PROVE SoundInv'
  <2>1. UNCHANGED <<file, blob>>
    BY <1>7, LoadFacts
  <2>2. CASE UNCHANGED entries
    BY <1>7, <1>m, <1>u, <2>1, <2>2
  <2>3. CASE ~UNCHANGED entries
    <3>1. entries' = [id \in Ids |-> IF file.items[id] = NoEntry THEN NoEntry
                                     ELSE NewEntry(file.items[id])]
      BY <1>7, <2>3, LoadFacts
    <3>2. \A id \in Ids : file.items[id] # NoEntry => Sound(NewEntry(file.items[id]))
      BY NewEntrySound DEF SoundInv, TypeInv
    <3>3. \A id \in Present' : Sound(entries'[id])
      BY <3>1, <3>2 DEF Present
    <3> QED
      BY <1>7, <1>m, <2>1, <3>3
  <2> QED
    BY <2>2, <2>3
<1>8. ASSUME ~Apply, NEW c \in Clients, LoadState(c) PROVE SoundInv'
  <2>1. /\ UNCHANGED <<file, blob>>
        /\ \A id \in Ids : id \notin Present => entries'[id] = NoEntry
        /\ \A id \in Present : entries'[id] = Loaded(entries[id], blob[id], cmd[c].at)
    BY <1>8, LoadStateFacts
  <2>2. ASSUME NEW id \in Present PROVE Sound(Loaded(entries[id], blob[id], cmd[c].at))
    <3>1. /\ blob[id] \in RunTimeType \cup {NoEntry} /\ cmd[c].at \in 0 .. MaxTime
          /\ blob[id] # NoEntry => blob[id].last <= MaxTime
      BY <1>p DEF TypeInv, ClockInv, TimesPast, SoundInv
    <3> QED
      BY <1>0, <1>p, <3>1, LoadedLater
  <2>3. \A id \in Present' : Sound(entries'[id])
    BY <2>1, <2>2 DEF Present
  <2> QED
    BY <1>8, <1>m, <2>1, <2>3
<1>9. ASSUME ~Apply, NEW c \in Clients,
             \/ OpenDefs(c) \/ WriteDefs(c) \/ SaveDefsFails(c) \/ SaveState(c) \/ SaveStateFails(c)
      PROVE  SoundInv'
  <2>1. cmd[c].pc \in Holding
    BY <1>9 DEF OpenDefs, WriteDefs, SaveDefsFails, SaveState, SaveStateFails, Holding
  <2>2. \A id \in Ids : file'.items[id] # NoEntry => GoesOn(file'.items[id])
    <3>1. file'.items = file.items \/ file'.items = ItemsOf(entries)
      BY <1>9 DEF OpenDefs, WriteDefs, SaveDefsFails, SaveState, SaveStateFails, history, TypeInv
    <3>2. \A id \in Ids : ItemsOf(entries)[id] # NoEntry => GoesOn(ItemsOf(entries)[id])
      BY <1>p DEF ItemsOf, Present, Sound
    <3> QED
      BY <3>1, <3>2 DEF SoundInv
  <2>3. \A id \in Ids : blob'[id] # NoEntry => blob'[id].last <= MaxTime
    <3>1. blob' = blob \/ blob' = RunTimeOf(entries) \/ blob' = NoBlob
      BY <1>9 DEF OpenDefs, WriteDefs, SaveDefsFails, SaveState, SaveStateFails, history
    <3>2. \A id \in Ids : NoBlob[id] = NoEntry
      BY DEF NoBlob
    <3> QED
      BY <1>b, <3>1, <3>2 DEF SoundInv
  <2>4. CASE UNCHANGED entries
    BY <1>9, <1>i, <1>o, <1>u, <2>2, <2>3, <2>4, StepStays DEF SoundInv
  <2>5. CASE ~UNCHANGED entries
    <3>1. RollBack(c) /\ cmd[c].op \in EntryOps
      <4>1. CASE SaveDefsFails(c)
        <5>1. RollBack(c) /\ ~Loading(c) /\ cmd[c].pc \in {"defs", "write"}
          BY <2>5, <4>1 DEF SaveDefsFails
        <5> QED
          BY <5>1 DEF ControlInv, CommandOK, Loading
      <4>2. CASE SaveStateFails(c)
        BY <2>5, <4>2 DEF SaveStateFails
      <4> QED
        BY <1>9, <2>5, <4>1, <4>2 DEF OpenDefs, WriteDefs, SaveState, history
    <3>2. entries' = [entries EXCEPT ![cmd[c].id] = cmd[c].old]
      BY <3>1 DEF RollBack
    <3>3. cmd[c].old # NoEntry => Sound(cmd[c].old)
      BY <2>1, <3>1 DEF SoundInv
    <3> DEFINE old == cmd[c].old
               k == cmd[c].id
    <3> HIDE DEF old, k
    <3>4. \A id \in Present' : Sound(entries'[id])
      BY <1>p, <3>2, <3>3 DEF Present, TypeInv, old, k
    <3> QED
      BY <1>9, <1>i, <1>o, <2>2, <2>3, <3>4, StepStays DEF SoundInv
  <2> QED
    BY <2>4, <2>5
<1>10. CASE ~Apply /\ Reset
  <2>1. entries' = [id \in Ids |-> NoEntry] /\ UNCHANGED <<file, blob>>
    BY <1>10 DEF Reset
  <2> QED
    BY <1>10, <1>m, <2>1 DEF Present
<1> QED
  BY <1>1, <1>2, <1>3, <1>4, <1>5, <1>6, <1>7, <1>8, <1>9, <1>10 DEF Next, TaskStep, ClientStep

-----------------------------------------------------------------------------
(* No time is fired twice.                                                 *)

\* What a client would put back stays uncompared.
LEMMA HoldersPlan ==
  ASSUME TypeInv, ControlInv, ClockInv, TwiceInv, [Next]_vars
  PROVE  \A c \in Clients : cmd'[c].pc \in Holding /\ cmd'[c].op \in EntryOps => plan'[cmd'[c].id] = 0
<1>0. plan \in [Ids -> Int]
  BY DEF ClockInv, TimesPast
<1>1. CASE Apply
  <2>1. CASE Finish("user")
    <3>1. cmd'["user"].pc \notin Holding /\ cmd'["service"] = cmd["service"]
      BY <2>1, FinishFacts, IdleFacts DEF TypeInv, Clients, Holding
    <3>2. cmd["service"].pc \notin Holding
      BY <1>1, ApplyFacts DEF ControlInv, Clients
    <3> QED
      BY <3>1, <3>2 DEF Clients
  <2>2. CASE ~Finish("user")
    <3>1. cmd'["user"].id = cmd["user"].id /\ cmd["user"].id \in Ids /\ lock = "free"
          /\ cmd'["service"] = cmd["service"]
      BY <1>1, <2>2, ApplyFacts
    <3>2. plan' = [plan EXCEPT ![cmd["user"].id] = 0]
      BY <1>1, <2>2 DEF Apply
    <3>3. cmd["service"].pc \notin Holding
      BY <3>1 DEF ControlInv, Clients
    <3> QED
      BY <1>0, <3>1, <3>2, <3>3 DEF Clients
  <2> QED
    BY <2>1, <2>2
<1>2. CASE ~Apply
  <2> SUFFICES ASSUME NEW c \in Clients, cmd'[c].pc \in Holding, cmd'[c].op \in EntryOps
               PROVE  plan'[cmd'[c].id] = 0
    OBVIOUS
  <2>1. /\ cmd[c].pc \in Holding /\ cmd[c].op \in EntryOps /\ cmd'[c].id = cmd[c].id
    BY <1>2, StepStays DEF OldStays
  <2>2. lock = c /\ task.pc # "firing" /\ cmd[c].id \in Ids
    BY <2>1 DEF ControlInv, CommandOK, Clients
  <2>3. plan[cmd[c].id] = 0
    BY <2>1 DEF TwiceInv
  <2>4. ~Fire(cmd[c].id)
    BY <2>2 DEF Fire
  <2> QED
    BY <2>1, <2>2, <2>3, <2>4, PlanFacts
<1> QED
  BY <1>1, <1>2

\* Firing leaves an entry that waits for a time after the one it was fired for.
LEMMA FireTwice ==
  ASSUME TypeInv, ControlInv, ClockInv, SoundInv, TwiceInv, NEW x \in Ids, Fire(x)
  PROVE  \A id \in Present' : Beyond(entries'[id], plan'[id])
<1> DEFINE e == entries[x]
<1>1. /\ x \in Present /\ e \in EntryType /\ e.status # "paused" /\ 0 < e.next /\ e.next <= reached
      /\ task.at \in 0 .. MaxTime /\ Sound(e) /\ Beyond(e, plan[x])
  BY FirePlan DEF SoundInv, TwiceInv
<1>2. PICK sent \in BOOLEAN :
        /\ entries' = [entries EXCEPT ![x] = Published(e, FALSE, task.at, sent)]
        /\ plan' = IF sent THEN [plan EXCEPT ![x] = e.next] ELSE plan
  BY FirePlan
<1> DEFINE p == Published(e, FALSE, task.at, sent)
<1>3. plan \in [Ids -> Int] /\ Present \subseteq Ids /\ timeValid \in BOOLEAN /\ e.next \in Int
      /\ reached \in Nat /\ MaxTime \in Nat /\ reached <= MaxTime
  BY <1>1, SchedulerAssumption DEF SchedulerAssumption, ClockInv, ClockRight, TimesPast, Present, TypeInv, EntryType
<1>4. ASSUME NEW id \in Present', id # x PROVE Beyond(entries'[id], plan'[id])
  <2>1. id \in Present /\ entries'[id] = entries[id] /\ plan'[id] = plan[id]
    BY <1>2, <1>3, <1>4 DEF Present, TypeInv
  <2> QED
    BY <2>1 DEF TwiceInv
<1>5. entries'[x] = p
  BY <1>2 DEF TypeInv
<1>6. /\ p.item = e.item
      /\ ~sent => p.next = e.next
      /\ sent /\ NeedsTime(e.item) /\ Planned(e, FALSE, task.at) \in 0 .. MaxTime =>
           Beyond(p, Planned(e, FALSE, task.at))
  <2>1. FALSE \in BOOLEAN /\ sent \in BOOLEAN /\ GoesOn(e.item)
    BY <1>1, <1>2 DEF Sound
  <2>2. e \in EntryType /\ task.at \in 0 .. MaxTime /\ timeValid \in BOOLEAN
    BY <1>1, <1>3
  <2> HIDE DEF e
  <2>3. PICK no \in BOOLEAN : no = FALSE
    BY Zenon
  <2>4. PICK f \in EntryType, t \in 0 .. MaxTime : f = e /\ t = task.at
    BY <2>2, Zenon
  <2>5. /\ Published(f, no, t, sent).item = f.item
        /\ ~sent => Published(f, no, t, sent).next = f.next
        /\ sent /\ NeedsTime(f.item) /\ Planned(f, no, t) \in 0 .. MaxTime =>
             Beyond(Published(f, no, t, sent), Planned(f, no, t))
    BY <2>1, <2>2, <2>4, PublishedLater
  <2> QED
    BY <2>3, <2>4, <2>5, Zenon
<1>7. Planned(e, FALSE, task.at) = e.next /\ e.next \in 0 .. MaxTime
  BY <1>1, <1>3 DEF Planned
<1> HIDE DEF p, e
<1>8. CASE sent
  <2>1. plan'[x] = e.next
    BY <1>2, <1>3, <1>8
  <2>2. NeedsTime(e.item) => Beyond(p, plan'[x])
    BY <1>6, <1>7, <1>8, <2>1
  <2>3. Beyond(p, plan'[x])
    BY <1>6, <2>2 DEF Beyond
  <2> QED
    BY <1>4, <1>5, <2>3
<1>9. CASE ~sent
  <2>1. plan'[x] = plan[x]
    BY <1>2, <1>9
  <2>2. Beyond(p, plan[x])
    BY <1>1, <1>6, <1>9 DEF Beyond
  <2> QED
    BY <1>4, <1>5, <2>1, <2>2
<1> QED
  BY <1>8, <1>9

\* Every step leaves entries that wait for a time after the one they were fired for.
LEMMA TwiceStep ==
  TypeInv /\ ControlInv /\ ClockInv /\ SoundInv /\ TwiceInv /\ [Next]_vars => TwiceInv'
<1> SUFFICES ASSUME TypeInv, ControlInv, ClockInv, SoundInv, TwiceInv, [Next]_vars
             PROVE  \A id \in Present' : Beyond(entries'[id], plan'[id])
  BY HoldersPlan DEF TwiceInv
<1>0. /\ MaxTime \in Nat /\ now \in Nat /\ now \in 0 .. MaxTime /\ reached \in Nat
      /\ timeValid \in BOOLEAN /\ plan \in [Ids -> Int] /\ Tick \in Nat
      /\ NoEntry \notin Definitions
      /\ \A id \in Ids : plan[id] \in Int /\ plan[id] <= reached
  <2>1. MaxTime \in Nat /\ now \in Nat /\ reached \in Nat
    BY SchedulerAssumption DEF SchedulerAssumption, TypeInv
  <2> QED
    BY <2>1, SchedulerAssumption DEF SchedulerAssumption, TypeInv, ClockInv, ClockRight, TimesPast
<1>p. /\ Present \subseteq Ids
      /\ \A id \in Present : /\ entries[id] \in EntryType /\ Sound(entries[id])
                             /\ Beyond(entries[id], plan[id])
  BY DEF Present, TypeInv, SoundInv, TwiceInv
<1>1. CASE \E x \in Ids : Fire(x)
  BY <1>1, FireTwice
<1> SUFFICES ASSUME ~\E x \in Ids : Fire(x), NEW id \in Present'
             PROVE  Beyond(entries'[id], plan'[id])
  BY <1>1
<1>2. id \in Ids /\ plan'[id] \in {plan[id], 0}
  BY PlanFacts DEF Present
<1>z. ASSUME Beyond(entries'[id], plan[id]) \/ plan'[id] = 0 PROVE Beyond(entries'[id], plan'[id])
  BY <1>2, <1>z DEF Beyond
<1>s. ASSUME entries'[id] = entries[id] PROVE Beyond(entries'[id], plan'[id])
  <2>1. id \in Present
    BY <1>2, <1>s DEF Present
  <2> QED
    BY <1>p, <1>s, <1>z, <2>1
<1>n. ASSUME entries'[id].next = Never PROVE Beyond(entries'[id], plan'[id])
  BY <1>n DEF Beyond
<1>3. CASE WakeUp \/ TakeLock \/ SaveFired \/ UserBegins \/ Passes \/ SetClock \/ UNCHANGED vars
  <2>1. UNCHANGED entries
    <3>1. CASE UserBegins
      BY <3>1, BeginFacts DEF Begin
    <3> QED
      BY <1>3, <3>1 DEF WakeUp, TakeLock, SaveFired, Passes, SetClock, vars
  <2> QED
    BY <1>s, <2>1
<1>4. ASSUME NEW x \in Ids, Miss(x) PROVE Beyond(entries'[id], plan'[id])
  <2> DEFINE r == Refresh(entries[x], task.at, timeValid)
  <2>1. /\ task.at \in Nat /\ x \in Present /\ Due(entries[x], task.at)
        /\ task.at > entries[x].next + Tick /\ entries' = [entries EXCEPT ![x] = r]
    BY <1>4 DEF Miss, ControlInv, TypeInv
  <2>2. CASE id # x
    BY <1>2, <1>s, <2>1, <2>2 DEF TypeInv
  <2>3. CASE id = x
    <3>1. entries'[id] = r
      BY <1>2, <2>1, <2>3 DEF TypeInv
    <3>2. entries[id] \in Open /\ GoesOn(entries[id].item) /\ entries[id].next \in Int
      BY <1>p, <2>1, <2>3 DEF EntryType, Open, Sound
    <3>3. task.at \in 0 .. MaxTime
      BY <1>0, <2>1 DEF ClockInv, ClockRight, TimesPast
    <3>4. r.item = entries[id].item
      <4>1. task.at \in Int
        BY <2>1
      <4> QED
        BY <1>0, <2>3, <3>2, <4>1, RefreshFacts DEF Open
    <3>5. NeedsTime(r.item) /\ r.status # "paused" => r.next = Never \/ r.next > task.at
      BY <1>0, <2>3, <3>2, <3>3, <3>4, RefreshLater
    <3>6. NeedsTime(r.item) /\ plan[id] > 0 => task.at > plan[id]
      <4>1. NeedsTime(r.item) /\ plan[id] > 0 =>
              entries[id].next = Never \/ entries[id].next > plan[id]
        BY <1>p, <2>1, <2>3, <3>4 DEF Beyond, Due
      <4>2. entries[id].next > 0
        BY <2>1, <2>3 DEF Due
      <4> QED
        BY <1>0, <1>2, <2>1, <2>3, <3>2, <4>1, <4>2 DEF Never
    <3> HIDE DEF r
    <3>7. r.next \in Int
      <4>1. task.at \in Int
        BY <2>1
      <4> QED
        BY <1>0, <2>3, <3>2, <4>1, RefreshFacts DEF Open, EntryType, r
    <3>8. Beyond(r, plan[id])
      BY <1>0, <1>2, <2>1, <3>5, <3>6, <3>7 DEF Beyond
    <3> QED
      BY <1>z, <3>1, <3>8
  <2> QED
    BY <2>2, <2>3
<1>5. CASE Apply \/ Trigger
  <2> DEFINE k == cmd["user"].id
  <2>1. CASE UNCHANGED entries
    BY <1>s, <2>1
  <2>2. CASE ~UNCHANGED entries
    <3>1. k \in Ids /\ plan' = [plan EXCEPT ![k] = 0] /\ \E e : entries' = [entries EXCEPT ![k] = e]
      <4>1. CASE Apply
        BY <2>2, <4>1, ApplyFacts DEF Apply
      <4>2. CASE Trigger
        BY <2>2, <4>2, TriggerFacts DEF Trigger
      <4> QED
        BY <1>5, <4>1, <4>2
    <3>2. CASE id = k
      BY <1>0, <1>z, <3>1, <3>2
    <3>3. CASE id # k
      BY <1>2, <1>s, <3>1, <3>3 DEF TypeInv
    <3> QED
      BY <3>2, <3>3
  <2> QED
    BY <2>1, <2>2
<1>6. CASE Sync
  <2>1. /\ entries' = [x \in Ids |-> IF x \in Present THEN Synced(entries[x]) ELSE NoEntry]
        /\ cmd["service"].op = "sync"
    BY <1>6 DEF Sync
  <2>2. id \in Present /\ entries'[id] = Synced(entries[id])
    BY <1>2, <2>1 DEF Present
  <2>3. now = reached
    BY <2>1 DEF ClockInv, ClockRight
  <2>4. /\ Synced(entries[id]) \in EntryType /\ Synced(entries[id]).item = entries[id].item
        /\ NeedsTime(entries[id].item) /\ Synced(entries[id]).status # "paused" =>
             Synced(entries[id]).next = Never \/ Synced(entries[id]).next > now
    BY <1>0, <1>p, <2>2, SyncedLater, SyncedFacts
  <2>5. Synced(entries[id]).next \in Int
    BY <2>4 DEF EntryType
  <2>6. Beyond(Synced(entries[id]), plan[id])
    BY <1>0, <1>2, <2>3, <2>4, <2>5 DEF Beyond
  <2> QED
    BY <1>z, <2>2, <2>6
<1>7. ASSUME NEW c \in Clients, Load(c) PROVE Beyond(entries'[id], plan'[id])
  <2>1. CASE UNCHANGED entries
    BY <1>s, <2>1
  <2>2. CASE ~UNCHANGED entries
    <3>1. entries' = [x \in Ids |-> IF file.items[x] = NoEntry THEN NoEntry
                                    ELSE NewEntry(file.items[x])]
      BY <1>7, <2>2, LoadFacts
    <3>2. file.items[id] # NoEntry /\ entries'[id] = NewEntry(file.items[id])
      BY <1>2, <3>1 DEF Present
    <3>3. file.items[id] \in Definitions /\ GoesOn(file.items[id])
      BY <1>2, <3>2 DEF TypeInv, SoundInv
    <3> QED
      BY <1>n, <3>2, <3>3, NewEntrySound
  <2> QED
    BY <2>1, <2>2
<1>8. ASSUME NEW c \in Clients, LoadState(c) PROVE Beyond(entries'[id], plan'[id])
  <2> DEFINE l == Loaded(entries[id], blob[id], cmd[c].at)
  <2>1. id \in Present /\ entries'[id] = l
    BY <1>2, <1>8, LoadStateFacts DEF Present
  <2>2. /\ blob[id] \in RunTimeType \cup {NoEntry} /\ cmd[c].at \in 0 .. MaxTime
        /\ blob[id] # NoEntry => blob[id].last <= MaxTime
    BY <1>2 DEF TypeInv, ClockInv, TimesPast, SoundInv
  <2>3. /\ l.item = entries[id].item
        /\ NeedsTime(entries[id].item) /\ l.status # "paused" =>
             /\ ~timeValid => l.next = Never
             /\ blob[id] # NoEntry /\ blob[id].last > 0 => l.next = Never \/ l.next > blob[id].last
    BY <1>0, <1>p, <2>1, <2>2, LoadedLater
  <2>4. l \in EntryType
    <3>1. cmd[c].at \in Int /\ NoEntry \notin RunTimeType
      BY <2>2, SchedulerAssumption DEF SchedulerAssumption
    <3> QED
      BY <1>0, <1>p, <2>1, <2>2, <3>1, LoadedFacts
  <2> HIDE DEF l
  <2>5. CASE c = "service"
    <3>1. ~timeValid
      BY <1>8, <2>5 DEF LoadState, ControlInv, CommandOK, UserOps, ClockInv, ClockRight
    <3>2. Beyond(l, plan[id])
      BY <2>3, <3>1 DEF Beyond
    <3> QED
      BY <1>z, <2>1, <3>2
  <2>6. CASE c # "service"
    <3>1. plan' = [x \in Ids |-> IF blob[x] # NoEntry /\ plan[x] <= blob[x].last THEN plan[x] ELSE 0]
      BY <1>8, <2>6 DEF LoadState, Recalled
    <3>2. CASE blob[id] # NoEntry /\ plan[id] <= blob[id].last
      <4>1. l.next \in Int /\ blob[id].last \in Int /\ plan[id] \in Int
        BY <1>0, <1>2, <2>2, <2>4, <3>2 DEF EntryType, RunTimeType
      <4>2. Beyond(l, plan[id])
        BY <2>3, <3>2, <4>1 DEF Beyond
      <4> QED
        BY <1>z, <2>1, <4>2
    <3>3. CASE ~(blob[id] # NoEntry /\ plan[id] <= blob[id].last)
      BY <1>2, <1>z, <3>1, <3>3
    <3> QED
      BY <3>2, <3>3
  <2> QED
    BY <2>5, <2>6
<1>9. ASSUME NEW c \in Clients,
             \/ OpenDefs(c) \/ WriteDefs(c) \/ SaveDefsFails(c) \/ SaveState(c) \/ SaveStateFails(c)
      PROVE  Beyond(entries'[id], plan'[id])
  <2>1. cmd[c].pc \in Holding
    BY <1>9 DEF OpenDefs, WriteDefs, SaveDefsFails, SaveState, SaveStateFails, Holding
  <2>2. CASE UNCHANGED entries
    BY <1>s, <2>2
  <2>3. CASE ~UNCHANGED entries
    <3>1. RollBack(c) /\ cmd[c].op \in EntryOps
      <4>1. CASE SaveDefsFails(c)
        <5>1. RollBack(c) /\ ~Loading(c) /\ cmd[c].pc \in {"defs", "write"}
          BY <2>3, <4>1 DEF SaveDefsFails
        <5> QED
          BY <5>1 DEF ControlInv, CommandOK, Loading
      <4>2. CASE SaveStateFails(c)
        BY <2>3, <4>2 DEF SaveStateFails
      <4> QED
        BY <1>9, <2>3, <4>1, <4>2 DEF OpenDefs, WriteDefs, SaveState, history
    <3>2. entries' = [entries EXCEPT ![cmd[c].id] = cmd[c].old]
      BY <3>1 DEF RollBack
    <3>3. CASE id = cmd[c].id
      <4>1. plan[id] = 0
        BY <2>1, <3>1, <3>3 DEF TwiceInv
      <4> QED
        BY <1>2, <1>z, <4>1
    <3>4. CASE id # cmd[c].id
      BY <1>2, <1>s, <3>2, <3>4 DEF TypeInv
    <3> QED
      BY <3>3, <3>4
  <2> QED
    BY <2>2, <2>3
<1>10. CASE Reset
  BY <1>10 DEF Reset, Present
<1> QED
  BY <1>3, <1>4, <1>5, <1>6, <1>7, <1>8, <1>9, <1>10 DEF Next, TaskStep, ClientStep

\* When cron plans go on for ever, no time of a plan is fired twice, whatever fails to be
\* saved, and through syncs, reloads and resets.
THEOREM NoTimeFiredTwice ==
  ASSUME CronGoesOn
  PROVE  Spec => []NoTimeTwice
<1> DEFINE Inv == IInv /\ ClockInv /\ SoundInv /\ TwiceInv
<1>1. Init => Inv
  <2> SUFFICES ASSUME Init PROVE Inv
    OBVIOUS
  <2>1. IInv /\ ClockInv
    BY IInvInit, ClockInit
  <2>2. /\ entries = [id \in Ids |-> NoEntry] /\ plan = [id \in Ids |-> 0] /\ blob = NoBlob
        /\ file.items \in [Ids -> Shipped]
        /\ cmd = [c \in Clients |-> IF c = "service" THEN BootCmd ELSE IdleCmd]
    BY DEF Init
  <2>3. \A c \in Clients : cmd[c].pc \notin Holding /\ cmd[c].item = NoEntry
    <3>1. IdleCmd.item = NoEntry /\ BootCmd.item = NoEntry
      BY DEF IdleCmd, BootCmd
    <3> QED
      BY <2>2, <3>1, IdleFacts DEF Holding
  <2>4. Present = {}
    BY <2>2 DEF Present
  <2>5. \A id \in Ids : file.items[id] # NoEntry => GoesOn(file.items[id])
    BY <2>2 DEF CronGoesOn
  <2>6. SoundInv
    BY <2>2, <2>3, <2>4, <2>5 DEF SoundInv, NoBlob
  <2>7. TwiceInv
    BY <2>3, <2>4 DEF TwiceInv
  <2> QED
    BY <2>1, <2>6, <2>7
<1>2. Inv /\ [Next]_vars => Inv'
  <2> SUFFICES ASSUME Inv, [Next]_vars PROVE Inv'
    OBVIOUS
  <2>1. IInv' /\ TypeInv /\ ControlInv
    BY IInvStep DEF IInv
  <2>2. ClockInv'
    BY <2>1, ClockRightStep, TimesPastStep DEF ClockInv
  <2>3. SoundInv' /\ TwiceInv'
    BY <2>1, SoundStep, TwiceStep
  <2> QED
    BY <2>1, <2>2, <2>3
<1>3. Inv => NoTimeTwice
  BY DEF TwiceInv, Beyond, NoTimeTwice
<1> QED
  BY <1>1, <1>2, <1>3, PTL DEF Spec

=============================================================================
