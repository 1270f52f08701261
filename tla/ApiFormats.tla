----------------------------- MODULE ApiFormats -----------------------------
(***************************************************************************)
(* The formats requests come in and go out in: the cURL command, the Postman *)
(* collection, the HAR archive, the Insomnia export and the OpenAPI document *)
(* (packages/api-client-core/src/import/ and export/).  A document is a      *)
(* record of the fields the importer reads; a cURL command is a text, and    *)
(* its tokenizer is modelled atom by atom, for quotes matter to it.          *)
(***************************************************************************)
EXTENDS HttpEngine

-----------------------------------------------------------------------------
(* cURL.                                                                     *)

\* prepare: variables and path variables are left as they are.
Prepare(r) ==
  LET headers == On(r.headers) \o AuthHeaders(r.auth)
      query == On(r.query) \o AuthQuery(r.auth)
      b == r.body
      enabled == SelectSeq(b.urlencoded, LAMBDA e : e.enabled)
      body == CASE b.mode = "raw" ->
                     [has |-> TRUE, text |-> b.raw,
                      type |-> IF b.lang = "json" THEN <<"application/json">> ELSE << >>]
                [] b.mode = "urlencoded" -> Body(Encode(enabled), Form)
                [] b.mode = "graphql" -> Body(GraphQl(b.query, b.variables), "application/json")
                [] OTHER -> NoPayload
  IN [method |-> r.method,
      url |-> IF query = << >> THEN r.url
              ELSE (r.url \o <<IF "?" \in ToSet(r.url) THEN "&" ELSE "?">>) \o Encode(query),
      headers |-> IF body.type # << >> /\ ~HasHeader(headers, "content-type")
                    THEN Append(headers, Row(<<"Content-Type">>, body.type)) ELSE headers,
      body |-> body]

\* The body, with its quotes escaped as a shell reads them.
Quoted(text) ==
  (<<" ", "--data", " ", "'">> \o
   FlattenSeq([i \in DOMAIN text |->
     IF text[i] = "'" THEN <<"'", "\\", "'", "'">> ELSE <<text[i]>>])) \o <<"'">>

ToCurl(r) ==
  LET p == Prepare(r)
  IN (<<"curl", " ", "-X", " ", p.method, " ", "'">> \o p.url \o <<"'">>)
     \o FlattenSeq([i \in DOMAIN p.headers |->
          (<<" ", "-H", " ", "'">> \o p.headers[i].key \o <<":", " ">>
             \o p.headers[i].value) \o <<"'">>])
     \o (IF p.body.has THEN Quoted(p.body.text) ELSE << >>)

\* tokenize: quotes group and vanish; a backslash means nothing to it.
TokenizeAtom(s, a) ==
  IF s.quote THEN (IF a = "'" THEN [s EXCEPT !.quote = FALSE]
                   ELSE [s EXCEPT !.token = Append(@, a)])
  ELSE IF a = "'" THEN [s EXCEPT !.quote = TRUE, !.has = TRUE]
  ELSE IF a = " " THEN
    (IF s.has THEN [s EXCEPT !.tokens = Append(@, s.token), !.token = << >>, !.has = FALSE]
     ELSE s)
  ELSE [s EXCEPT !.token = Append(@, a), !.has = TRUE]

NoTokens == [tokens |-> << >>, token |-> << >>, quote |-> FALSE, has |-> FALSE]

\* ... after the first n atoms, for every n.
Tokenizing(command) ==
  LET state[n \in 0 .. Len(command)] ==
        IF n = 0 THEN NoTokens ELSE TokenizeAtom(state[n - 1], command[n])
  IN state

Tokenize(command) ==
  LET end == Tokenizing(command)[Len(command)]
  IN IF end.has THEN Append(end.tokens, end.token) ELSE end.tokens

\* Atoms that begin with a dash and name no option above: flags, and an option that the
\* importer does not know.
Dashed == {"--compressed", "-L", "--location", "-s", "--silent", "-k", "--insecure", "-i",
           "--include", "-o"}

\* What a token is, before any argument.
Arity(token) ==
  CASE token \in {<<"-X">>, <<"--request">>} -> "method"
    [] token \in {<<"-H">>, <<"--header">>} -> "header"
    [] token \in {<<"-d">>, <<"--data">>, <<"--data-raw">>, <<"--data-binary">>,
                  <<"--data-ascii">>} -> "data"
    [] token = <<"--data-urlencode">> -> "urlencode"
    [] token \in {<<"-u">>, <<"--user">>} -> "user"
    [] token \in {<<"-F">>, <<"--form">>} -> "form"
    [] token = <<"--url">> -> "url"
    [] token \in {<<"-b">>, <<"--cookie">>} -> "cookie"
    [] token # << >> /\ token[1] \in Dashed -> "flag"
    [] OTHER -> "word"

\* A plausible slip: what follows the colon is the value, its space included.
UntrimmedHeader(token) == Row(Before(token, ":"), After(token, ":"))

HeaderRow(token) == Row(Trim(Before(token, ":")), Trim(After(token, ":")))

\* One token: an option waits for its argument; an option that is not known is
\* a flag, and its argument may be taken for the URL.
ParseToken(s, token) ==
  CASE s.wants = "method" -> [s EXCEPT !.method = token, !.wants = "word"]
    [] s.wants = "header" ->
         [s EXCEPT !.wants = "word", !.headers =
            IF ":" \in ToSet(token) THEN Append(@, HeaderRow(token)) ELSE @]
    [] s.wants \in {"data", "urlencode"} ->
         [s EXCEPT !.wants = "word", !.data = Append(@, token),
                   !.form = @ \/ s.wants = "urlencode"]
    [] s.wants = "user" ->
         [s EXCEPT !.wants = "word", !.auth.type = "basic", !.auth.user = Before(token, ":"),
                   !.auth.pass = After(token, ":")]
    [] s.wants = "form" ->
         [s EXCEPT !.wants = "word", !.parts =
            IF "=" \notin ToSet(token) THEN @
            ELSE LET value == After(token, "=")
                     file == value # << >> /\ value[1] = "@"
                 IN Append(@, [key |-> Before(token, "="), enabled |-> TRUE,
                               kind |-> IF file THEN "file" ELSE "text",
                               value |-> IF file THEN << >> ELSE value,
                               file |-> IF file THEN Tail(value) ELSE << >>])]
    [] s.wants = "url" -> [s EXCEPT !.wants = "word", !.url = token]
    [] s.wants = "cookie" ->
         [s EXCEPT !.wants = "word", !.headers = Append(@, Row(<<"Cookie">>, token))]
    [] Arity(token) \notin {"word", "flag"} -> [s EXCEPT !.wants = Arity(token)]
    [] Arity(token) = "word" /\ s.url = << >> -> [s EXCEPT !.url = token]
    [] OTHER -> s

FormTyped(headers) ==
  \E i \in DOMAIN headers :
    IsHeader(headers[i], "content-type") /\ Form \in ToSet(headers[i].value)

NoOptions ==
  [wants |-> "word", method |-> << >>, url |-> << >>, headers |-> << >>,
   data |-> << >>, form |-> FALSE, auth |-> NoAuth, parts |-> << >>]

\* What is known of the request after the first n tokens, for every n.
Parsing(tokens) ==
  LET state[n \in 0 .. Len(tokens)] ==
        IF n = 0 THEN NoOptions ELSE ParseToken(state[n - 1], tokens[n])
  IN state

Arguments(all) == IF all # << >> /\ all[1] = <<"curl">> THEN Tail(all) ELSE all

ParseCurl(command) ==
  LET arguments == Arguments(Tokenize(command))
      s == Parsing(arguments)[Len(arguments)]
      joined == Joined(s.data, "&")
      trimmed == Trim(joined)
      base == IF s.parts = << >> THEN NoBody
              ELSE [NoBody EXCEPT !.mode = "form-data", !.formData = s.parts]
      body == IF s.data = << >> THEN base
              ELSE IF s.form \/ FormTyped(s.headers)
                THEN [base EXCEPT !.mode = "urlencoded", !.urlencoded = Pairs(joined)]
                ELSE [base EXCEPT !.mode = "raw", !.raw = joined, !.lang =
                        IF trimmed # << >> /\ trimmed[1] = "{" THEN "json" ELSE "text"]
  IN [DefaultRequest EXCEPT
        !.method = IF s.method # << >> THEN s.method[1]
                   ELSE IF s.data # << >> \/ body.mode = "form-data" THEN "POST" ELSE "GET",
        !.url = s.url, !.headers = s.headers, !.auth = s.auth, !.body = body]

-----------------------------------------------------------------------------
(* Postman.                                                                  *)

ExportAuth(auth) ==
  CASE auth.type \in {"bearer", "basic", "apikey"} -> auth
    [] OTHER -> [NoAuth EXCEPT !.type = "noauth"]

MapAuth(auth) ==
  CASE auth.type = "bearer" -> [NoAuth EXCEPT !.type = "bearer", !.token = auth.token]
    [] auth.type = "basic" ->
         [NoAuth EXCEPT !.type = "basic", !.user = auth.user, !.pass = auth.pass]
    [] auth.type = "apikey" ->
         [NoAuth EXCEPT !.type = "apikey", !.key = auth.key, !.value = auth.value,
                        !.location = auth.location]
    [] OTHER -> NoAuth

\* A plausible slip: a file field is written like a text field.
ExportPostmanText(r) ==
  [method |-> r.method, headers |-> r.headers, url |-> r.url, query |-> r.query,
   variable |-> [i \in DOMAIN r.pathVars |-> Row(r.pathVars[i].key, r.pathVars[i].value)],
   body |-> [r.body EXCEPT !.formData = [i \in DOMAIN @ |-> [@[i] EXCEPT !.kind = "text"]]],
   auth |-> IF r.auth.type \in {"none", "inherit"} THEN NoAuth ELSE ExportAuth(r.auth)]

\* exportRequest: a path variable's switch is not written, a mode the format
\* does not have becomes an empty raw body, "none" and "inherit" are left out.
ExportPostman(r) ==
  [method |-> r.method, headers |-> r.headers, url |-> r.url, query |-> r.query,
   variable |-> [i \in DOMAIN r.pathVars |-> Row(r.pathVars[i].key, r.pathVars[i].value)],
   body |-> CASE r.body.mode = "none" -> NoBody
              [] r.body.mode = "raw" ->
                   [NoBody EXCEPT !.mode = "raw", !.raw = r.body.raw,
                      !.lang = IF r.body.lang = "unset" THEN "text" ELSE r.body.lang]
              [] r.body.mode = "urlencoded" ->
                   [NoBody EXCEPT !.mode = "urlencoded", !.urlencoded = r.body.urlencoded]
              [] r.body.mode = "form-data" ->
                   [NoBody EXCEPT !.mode = "formdata", !.formData =
                      [i \in DOMAIN r.body.formData |->
                         IF r.body.formData[i].kind = "file"
                           THEN [r.body.formData[i] EXCEPT !.value = << >>]
                           ELSE [r.body.formData[i] EXCEPT !.file = << >>]]]
              [] r.body.mode = "graphql" ->
                   [NoBody EXCEPT !.mode = "graphql", !.query = r.body.query,
                                  !.variables = r.body.variables]
              [] OTHER -> [NoBody EXCEPT !.mode = "raw", !.lang = "none"],
   auth |-> IF r.auth.type \in {"none", "inherit"} THEN NoAuth ELSE ExportAuth(r.auth)]

\* mapItem: a request without authorization gets "none", not "inherit".
MapItem(item) ==
  [DefaultRequest EXCEPT
     !.method = item.method, !.headers = item.headers, !.url = item.url,
     !.query = item.query, !.pathVars = item.variable, !.auth = MapAuth(item.auth),
     !.body = CASE item.body.mode = "raw" ->
                     [NoBody EXCEPT !.mode = "raw", !.raw = item.body.raw,
                        !.lang = IF item.body.lang \in {"json", "xml"} THEN item.body.lang
                                 ELSE "text"]
                [] item.body.mode \in {"urlencoded", "graphql"} -> item.body
                [] item.body.mode = "formdata" -> [item.body EXCEPT !.mode = "form-data"]
                [] OTHER -> NoBody]

-----------------------------------------------------------------------------
(* HAR.                                                                      *)

\* What a browser records of a message it sends: without a body, no postData.
Record(message) ==
  LET typed == SelectSeq(message.headers, LAMBDA h : IsHeader(h, "content-type"))
      query == message.url.query
      text == message.body.text
      posted == [mimeType |-> IF typed = << >> THEN << >> ELSE typed[1].value,
                 text |-> text, params |-> Pairs(text)]
  IN [method |-> message.method, headers |-> message.headers, queryString |-> query,
      url |-> IF query = << >> THEN message.url.path
              ELSE (message.url.path \o <<"?">>) \o Encode(query)]
     @@ (IF message.body.has THEN [postData |-> posted] ELSE << >>)

Given(har, field, otherwise) == IF field \in DOMAIN har THEN har[field] ELSE otherwise

\* mapEntry: the query comes from the list and not from the URL, the body from its text
\* or, of a form, from its fields; HTTP/2's own headers are dropped.
MapEntry(har) ==
  LET posted == Given(har, "postData", << >>)
      text == Given(posted, "text", << >>)
      mime == ToSet(Given(posted, "mimeType", << >>))
  IN [DefaultRequest EXCEPT
        !.method = Given(har, "method", "GET"),
        !.url = Before(Given(har, "url", << >>), "?"),
        !.query = Given(har, "queryString", << >>),
        !.headers = SelectSeq(Given(har, "headers", << >>),
                              LAMBDA h : h.key = << >> \/ h.key[1] # ":"),
        !.body = IF text = << >> THEN NoBody
                 ELSE IF Form \in mime
                   THEN [NoBody EXCEPT !.mode = "urlencoded",
                                       !.urlencoded = Given(posted, "params", << >>)]
                   ELSE [NoBody EXCEPT !.mode = "raw", !.raw = text, !.lang =
                           IF "application/json" \in mime THEN "json"
                           ELSE IF "application/xml" \in mime THEN "xml"
                           ELSE IF "text/html" \in mime THEN "html" ELSE "text"]]

-----------------------------------------------------------------------------
(* Insomnia: resources that name their parents, in any order.                *)

\* A plausible slip: only what directly follows a group belongs to it.
BuildAfterGroup(parent, resources) ==
  LET below[n \in 0 .. Len(resources)] ==
        [p \in {parent} \cup {r.id : r \in ToSet(resources)} |->
           IF n = 0 THEN << >>
           ELSE FlattenSeq([i \in DOMAIN resources |->
             IF resources[i].parent # p \/ resources[i].id < p THEN << >>
             ELSE IF resources[i].type = "request_group" THEN below[n - 1][resources[i].id]
             ELSE <<resources[i].id>>])]
  IN below[Len(resources)][parent]

\* buildChildren, flattened: the requests below each parent, groups opened in
\* place, n levels deep, for every n.
Below(parent, resources) ==
  LET below[n \in 0 .. Len(resources)] ==
        [p \in {parent} \cup {r.id : r \in ToSet(resources)} |->
           IF n = 0 THEN << >>
           ELSE FlattenSeq([i \in DOMAIN resources |->
             IF resources[i].type \notin {"request", "request_group"} \/ resources[i].parent # p
               THEN << >>
             ELSE IF resources[i].type = "request_group" THEN below[n - 1][resources[i].id]
             ELSE <<resources[i].id>>])]
  IN below

\* No more levels than resources: a resource has one parent, and what is opened
\* hangs below a workspace or below nothing.
BuildChildren(parent, resources) == Below(parent, resources)[Len(resources)][parent]

\* importInsomnia: what hangs below the first workspace, or below nothing.
ImportInsomnia(resources) ==
  LET workspaces == Filter(resources, {r \in ToSet(resources) : r.type = "workspace"})
  IN BuildChildren(IF workspaces = << >> THEN 0 ELSE workspaces[1].id, resources)

-----------------------------------------------------------------------------
(* OpenAPI: operations of paths, in order, each with its tags.               *)

\* The first tags of the first n operations, each once, for every n.
FirstTags(operations) ==
  LET seen[n \in 0 .. Len(operations)] ==
        IF n = 0 THEN << >>
        ELSE IF operations[n].tags[1] \in ToSet(seen[n - 1]) THEN seen[n - 1]
        ELSE Append(seen[n - 1], operations[n].tags[1])
  IN seen

\* importOpenApi, flattened: folders in the order their tags appear first, the
\* operation's first tag alone counting, then the requests without a tag.
ImportOpenApi(operations) ==
  LET tagless == {o \in ToSet(operations) : o.tags = << >>}
      tagged == Filter(operations, ToSet(operations) \ tagless)
      tags == FirstTags(tagged)[Len(tagged)]
  IN FlattenSeq([i \in DOMAIN tags |->
                   Filter(tagged, {o \in ToSet(tagged) : o.tags[1] = tags[i]})])
     \o Filter(operations, tagless)
=============================================================================
