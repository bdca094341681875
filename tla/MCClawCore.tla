----------------------------- MODULE MCClawCore -----------------------------
(* Instances of ClawCore for model checking. *)
EXTENDS ClawCore

CONSTANTS repl, repl2, router

TwoOneNone == (repl :> 2) @@ (repl2 :> 1) @@ (router :> 0)
TwoNoneOne == (repl :> 2) @@ (repl2 :> 0) @@ (router :> 1)
OneEach == (repl :> 1) @@ (repl2 :> 1) @@ (router :> 1)

\* A core with one completion observer, about to be started, as app_claw_start leaves it.
ObservedSpec == Quiet("initialized", 1) /\ [][Next]_vars

\* docs/src/content/docs/en/reference-core/claw-core.mdx:35 - run_agent sets both flags
\* "to enable an asynchronous submit + event-published response path", so an accepted
\* request of the router is answered whatever the users of the response queue do.
RouterRequestsServed ==
  \A id \in Silent : fate[id] = "open" ~> fate[id] = "skipped"

=============================================================================
