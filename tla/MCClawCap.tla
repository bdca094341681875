---- MODULE MCClawCap ----
(* Instances of ClawCap for TLC.  The groups g1 and g2 share the capability *)
(* b, as two versions of a plugin do, so that one of them is loaded at a    *)
(* time and each takes slots that the other has left.                       *)
EXTENDS ClawCap, TLC

CONSTANTS g1, g2, g3, a, b, c

MCMembers == (g1 :> <<a, b>>) @@ (g2 :> <<b>>) @@ (g3 :> <<c>>)

====
