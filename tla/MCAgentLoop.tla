----------------------------- MODULE MCAgentLoop -----------------------------
(* An instance of AgentLoop for model checking.                             *)
EXTENDS AgentLoop, TLC

CONSTANTS msg, tick, emitted, answer

\* Every event has an id of its own, but for tick, which has none.
OwnIds ==
  (msg :> 1) @@ (tick :> NoEventId) @@ (emitted :> 3) @@ (answer :> 4)
Kinds ==
  (msg :> "message") @@ (tick :> "trigger") @@ (emitted :> "trigger")
    @@ (answer :> "out_message")

\* The message is answered; the others have nobody to answer.
Talk == (msg :> <<answer>>) @@ (tick :> <<>>) @@ (emitted :> <<>>)

=============================================================================
