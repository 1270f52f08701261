--------------------------- MODULE MCAgentHistory ---------------------------
(***************************************************************************)
(* Instances of AgentHistory for TLC.                                       *)
(***************************************************************************)
EXTENDS AgentHistory

StructuredOnly == {"structured"}
BothSources == {"structured", "recovered"}
=============================================================================
