---------------------------- MODULE MCChatView ----------------------------
(***************************************************************************)
(* Instances of ChatView for TLC.                                           *)
(***************************************************************************)
EXTENDS ChatView, TLC

TheTexts == {<<Word("word", "APPROVED")>>, <<Word("slash", "")>>, <<Word("slash", "p")>>,
             <<Word("at", "a")>>, <<Word("word", "hi"), Word("at", "w")>>}
ThePlainTexts == {<<Word("word", "hi")>>}
TheScenarios == {[texts |-> TheTexts, composes |-> 3, acts |-> 1],
                 [texts |-> ThePlainTexts, composes |-> 1, acts |-> 3]}
TheCommands == <<"plan", "edit">>
TheBegins == {<<"", "plan">>, <<"", "edit">>, <<"p", "plan">>, <<"plan", "plan">>}
TheSizes == <<2, 1>>
TheFound == ("a" :> <<"a.ts">>) @@ ("w" :> <<"w.ts">>)

Asked(n) == Item("user", 0, <<Piece(0, n, "text")>>)
Told(n) == Item("assistant", 0, <<Piece(0, n, "text")>>)
TheSaved == {<< << >> >>,
             << <<Asked(1), Told(2)>>, <<Asked(3), Item("tool", 0, << >>), Told(4)>> >>}
=============================================================================
