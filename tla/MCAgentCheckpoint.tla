-------------------------- MODULE MCAgentCheckpoint --------------------------
(***************************************************************************)
(* The instance of AgentCheckpoint for TLC: an existing file, whose text is  *)
(* not UTF-8, a new one, and an invocation of the command at a time.        *)
(***************************************************************************)
EXTENDS AgentCheckpoint

CONSTANTS old, new, command1

MCFiles == {old, new}
MCCreated == {new}
MCCommands == {command1}
MCBinary == {old}
=============================================================================
