---------------------------- MODULE MCAgentServer ----------------------------
(***************************************************************************)
(* The presets of handle_control_message (server.rs:247-263) and the       *)
(* defaults of the command line (consts.rs:5, consts.rs:9) for TLC.        *)
(***************************************************************************)
EXTENDS AgentServer

Performance == [fps |-> 5, quality |-> 40]
Balanced == [fps |-> 10, quality |-> 60]
Quality == [fps |-> 15, quality |-> 80]
CommandLine == [fps |-> 10, quality |-> 50]
ThreePresets == {Performance, Balanced, Quality}
=============================================================================
