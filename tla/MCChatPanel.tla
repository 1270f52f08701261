----------------------------- MODULE MCChatPanel -----------------------------
(***************************************************************************)
(* Instances of ChatPanel for TLC.                                          *)
(***************************************************************************)
EXTENDS ChatPanel

PlainOnly == {"plain"}
AgentOnly == {"agent"}
BothModes == {"plain", "agent"}

\* A transcript of the older version, ending in an answer.
OldChat == <<User(0), Assistant(0)>>
NoOldChat == << >>
=============================================================================
