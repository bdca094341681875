----------------------------- MODULE MCLuaAsync -----------------------------
(* Instances of LuaAsync for model checking. *)
EXTENDS LuaAsync, TLC

CONSTANTS blink, fade, beep, chime, shell

\* fade has the name of blink, or shares a group with it; the others clash with nobody.
NoLabels  == [j \in {blink, fade, beep, chime} |-> NoLabel]
LedNames  == [NoLabels EXCEPT ![blink] = "led", ![fade] = "led"]
LedGroups == LedNames

\* beep and chime are interchangeable.
Bystanders == Permutations({beep, chime})

AnyCall  == {"stop_job", "stop_all", "settle"}
EachCall == shell :> AnyCall

\* cap-lua.mdx:179 - "running -> done": a job that is over does not run again.
TerminalIsFinal ==
  [][\A i \in Slots : (Used(i) /\ Terminal(i) /\ slots'[i].job = slots[i].job)
                        => slots'[i].status = slots[i].status]_slots

=============================================================================
