---- MODULE MCScheduler ----
(* Instances of Scheduler for TLC: an entry of each kind, with times around *)
(* the moment at which the clock gets valid.                                *)
EXTENDS Scheduler

Item(kind, start, interval, max, times) ==
  [kind |-> kind, enabled |-> TRUE, start |-> start, interval |-> interval, end |-> 0,
   max |-> max, times |-> times]

Once     == Item("once", 4, 0, 0, {})
Interval == Item("interval", 0, 3, 1, {})
Anchored == [Item("interval", 3, 2, 0, {}) EXCEPT !.end = 5]
Cron     == Item("cron", 0, 0, 0, {5})

Given   == {Once, Interval, Cron}
AtFirst == {NoEntry, Anchored}
====
