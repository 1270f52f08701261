---------------------------- MODULE MCAgentTools ----------------------------
(***************************************************************************)
(* Instances of AgentTools for TLC.                                         *)
(***************************************************************************)
EXTENDS AgentTools

TheFiles == <<"a", "b">>
TheTexts == {<< >>, <<"x", "y", "x">>, <<"y", "z">>}
TheDisks == {("a" :> t) @@ ("b" :> <<"x">>) : t \in TheTexts \ {<< >>}}
TheOlds == {<<"x">>, <<"y">>}
TheNews == {<< >>, <<"$&", "y">>}
TheWords == {"x", "y", "z", "$&", Fence}
=============================================================================
