--------------------------- MODULE MCAgentThreads ---------------------------
(* Instances of AgentThreads for TLC: two threads of the JAUS component.     *)
EXTENDS AgentThreads

CONSTANTS j1, j2

MCOpenJAUS == {j1, j2}

=============================================================================
