--------------------------- MODULE MCApiRequests ---------------------------
(***************************************************************************)
(* Instances of ApiRequests for TLC.                                        *)
(***************************************************************************)
EXTENDS ApiRequests

TheUrls == {<<"h">>, <<"h", "/", ":v">>, <<"h", "?", "x", "=", "y">>, <<"h", "/", "{{t}}">>}
TheKeys == {<<"x">>, <<"Content-Type">>}
TheValues == {<<"'">>, <<"{{t}}", "&">>, <<"{", "=">>, <<Form>>}
TheScope == [globals |-> << Row("{{t}}", <<"old">>) >>, collection |-> << >>,
             environment |-> << Row("{{t}}", <<"{", "new">>) >>]
TheCommands ==
  {<<"curl", " ", "--compressed", " ", "h", " ", "-F", " ", "x", "=", "@", "file", " ", "-b", " ", "c">>,
   <<"curl", " ", "-u", " ", "me", ":", "pw", " ", "--data-urlencode", " ", "x", "=", "y",
     " ", "--url", " ", "h", " ", "--data-binary", " ", "&", "z">>}
=============================================================================
