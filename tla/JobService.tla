----------------------------- MODULE JobService -----------------------------
(***************************************************************************)
(* What the asynchronous Lua jobs promise, with no slots, semaphores or    *)
(* locks: a script is admitted only while there is room and nothing of its *)
(* name or exclusive group is at work, runs at most once, and is asked to  *)
(* stop only once it was admitted; a stop is confirmed only of a job that  *)
(* somebody asked to stop and that is over for good.  LuaAsync implements  *)
(* this module.                                                            *)
(***************************************************************************)
EXTENDS Naturals, FiniteSets

CONSTANTS
  Jobs,           \* the scripts submitted
  Name,           \* the name of each, NoLabel when it has none
  Exclusive,      \* the exclusive group of each, NoLabel when it has none
  NoLabel,        \* the empty name or group
  MaxConcurrent   \* how many may be at work at a time

VARIABLES
  phase,      \* where each job is
  asked,      \* the jobs somebody asked to stop
  confirmed   \* the jobs of which somebody was told that they are stopped

jvars == <<phase, asked, confirmed>>

Phases == {"submitted", "refused", "admitted", "running", "over"}

AtWork == {j \in Jobs : phase[j] \in {"admitted", "running"}}

\* Jobs that share neither a name nor an exclusive group
MayMeet(j, k) == /\ Name[j] # Name[k] \/ Name[j] = NoLabel
                 /\ Exclusive[j] # Exclusive[k] \/ Exclusive[j] = NoLabel

Move(j, from, to) == phase[j] = from /\ phase' = [phase EXCEPT ![j] = to]

JInit ==
  /\ phase = [j \in Jobs |-> "submitted"]
  /\ asked = {} /\ confirmed = {}

Refuse(j) == Move(j, "submitted", "refused") /\ UNCHANGED <<asked, confirmed>>

Admit(j) ==
  /\ Cardinality(AtWork) < MaxConcurrent
  /\ \A k \in AtWork : MayMeet(j, k)
  /\ Move(j, "submitted", "admitted")
  /\ UNCHANGED <<asked, confirmed>>

Start(j) == Move(j, "admitted", "running") /\ UNCHANGED <<asked, confirmed>>

\* No task could be created for the script.
Withdraw(j) == Move(j, "admitted", "refused") /\ UNCHANGED <<asked, confirmed>>

End(j) == Move(j, "running", "over") /\ UNCHANGED <<asked, confirmed>>

Confirmed(j) ==
  /\ phase[j] \in {"over", "refused"}
  /\ confirmed' = confirmed \cup {j}

\* The job may turn out to be over as soon as it is asked to stop.
Stop(j) ==
  /\ phase[j] # "submitted"
  /\ asked' = asked \cup {j}
  /\ UNCHANGED confirmed \/ Confirmed(j)
  /\ UNCHANGED phase

Confirm(j) == j \in asked /\ Confirmed(j) /\ UNCHANGED <<phase, asked>>

JNext ==
  \E j \in Jobs :
    \/ Refuse(j) \/ Admit(j) \/ Start(j) \/ Withdraw(j) \/ End(j)
    \/ Stop(j) \/ Confirm(j)

JobSpec == JInit /\ [][JNext]_jvars

=============================================================================
