----------------------------- MODULE HttpEngine -----------------------------
(***************************************************************************)
(* What the API client sends for a request                                  *)
(* (packages/api-client-core/src/model.ts, factory.ts and engine/).         *)
(*                                                                         *)
(* A text is a sequence of atoms, each a string: the punctuation that some   *)
(* parser looks for, a literal, or a reference to a variable.  An atom and   *)
(* its percent-encoded form are two atoms.                                  *)
(***************************************************************************)
EXTENDS Integers, Sequences, FiniteSets, SequencesExt, Scans

Encoded == (" " :> "%20") @@ ("&" :> "%26") @@ ("=" :> "%3D") @@ (":" :> "%3A")
           @@ ("{" :> "%7B") @@ ("{{t}}" :> "%7B%7Bt%7D%7D")

\* encodeURIComponent and its inverse; a quote is left alone by both.
Enc(text) == [i \in DOMAIN text |->
                IF text[i] \in DOMAIN Encoded THEN Encoded[text[i]] ELSE text[i]]
Dec(text) == [i \in DOMAIN text |->
                IF \E a \in DOMAIN Encoded : Encoded[a] = text[i]
                  THEN CHOOSE a \in DOMAIN Encoded : Encoded[a] = text[i] ELSE text[i]]

Trim(text) ==
  LET solid == {i \in DOMAIN text : text[i] # " "}
  IN IF solid = {} THEN << >>
     ELSE SubSeq(text, CHOOSE i \in solid : \A j \in solid : i <= j,
                       CHOOSE i \in solid : \A j \in solid : i >= j)

\* The parts between the separators among the first n atoms, for every n.
Splitting(text, sep) ==
  LET parts[n \in 0 .. Len(text)] ==
        IF n = 0 THEN << << >> >>
        ELSE IF text[n] = sep THEN Append(parts[n - 1], << >>)
        ELSE [parts[n - 1] EXCEPT ![Len(parts[n - 1])] = Append(@, text[n])]
  IN parts

Split(text, sep) == Splitting(text, sep)[Len(text)]

Join(texts, sep) ==
  FoldLeft(LAMBDA acc, t : IF acc = <<"first">> THEN t ELSE (acc \o <<sep>>) \o t,
           <<"first">>, texts)

Joined(texts, sep) == IF texts = << >> THEN << >> ELSE Join(texts, sep)

\* What precedes and what follows the first of an atom.
Before(text, sep) == Split(text, sep)[1]
After(text, sep) ==
  IF sep \in ToSet(text) THEN SubSeq(text, Len(Before(text, sep)) + 2, Len(text)) ELSE << >>

Row(key, value) == [key |-> key, value |-> value, enabled |-> TRUE]
On(rows) == Filter(rows, {r \in ToSet(rows) : r.enabled /\ r.key # << >>})

-----------------------------------------------------------------------------
(* Requests.                                                                 *)

NoBody == [mode |-> "none", raw |-> << >>, lang |-> "unset", urlencoded |-> << >>,
           formData |-> << >>, query |-> << >>, variables |-> << >>, file |-> << >>]

NoAuth == [type |-> "none", token |-> << >>, user |-> << >>, pass |-> << >>,
           key |-> << >>, value |-> << >>, location |-> "header", access |-> << >>]

Settings == [followRedirects |-> TRUE, maxRedirects |-> 10]

DefaultRequest ==
  [method |-> "GET", url |-> << >>, query |-> << >>, pathVars |-> << >>,
   headers |-> << >>, body |-> NoBody, auth |-> NoAuth, settings |-> Settings]

-----------------------------------------------------------------------------
(* Variables.                                                                *)

MaxResolutionDepth == 12

\* applyVariables: the enabled ones, the last of a name winning.
Apply(map, variables) ==
  FoldLeft(LAMBDA m, v : IF v.enabled THEN (v.key :> v.value) @@ m ELSE m, map, variables)

\* buildVariableMap: globals, then collection, then environment.
VariableMap(scope) ==
  Apply(Apply(Apply([k \in {} |-> << >>], scope.globals), scope.collection),
        scope.environment)

Substitute(text, map) ==
  FlattenSeq([i \in DOMAIN text |->
                IF text[i] \in DOMAIN map THEN map[text[i]] ELSE <<text[i]>>])

\* resolveVariables: again until nothing changes, at most so many times; what is
\* not defined stays.
Resolve(text, map) ==
  IF \A i \in DOMAIN text : text[i] \notin DOMAIN map THEN text
  ELSE FoldLeft(LAMBDA t, d : Substitute(t, map), text,
                [d \in 1 .. MaxResolutionDepth |-> d])

ResolveRow(row, map) == [row EXCEPT !.key = Resolve(@, map), !.value = Resolve(@, map)]

-----------------------------------------------------------------------------
(* Authorization.                                                            *)

Base64(text) == <<"base64(">> \o text \o <<")">>

\* effectiveAuth and resolveAuth.
EffectiveAuth(auth, inherited) ==
  IF auth.type = "inherit" /\ inherited.type # "absent" THEN inherited ELSE auth

ResolveAuth(auth, map) ==
  [auth EXCEPT !.token = Resolve(@, map), !.user = Resolve(@, map),
               !.pass = Resolve(@, map), !.key = Resolve(@, map),
               !.value = Resolve(@, map), !.access = Resolve(@, map)]

Authorization(value) == Row(<<"Authorization">>, value)

AuthHeaders(auth) ==
  CASE auth.type = "bearer" /\ auth.token # << >> ->
         << Authorization(<<"Bearer", " ">> \o auth.token) >>
    [] auth.type = "basic" ->
         << Authorization(<<"Basic", " ">> \o Base64(auth.user \o <<":">> \o auth.pass)) >>
    [] auth.type = "apikey" /\ auth.key # << >> /\ auth.location = "header" ->
         << Row(auth.key, auth.value) >>
    [] auth.type = "oauth2" /\ auth.access # << >> ->
         << Authorization(<<"Bearer", " ">> \o auth.access) >>
    [] OTHER -> << >>

AuthQuery(auth) ==
  IF auth.type = "apikey" /\ auth.key # << >> /\ auth.location = "query"
    THEN << Row(auth.key, auth.value) >> ELSE << >>

-----------------------------------------------------------------------------
(* URL, headers, body.                                                       *)

\* A pair of a query or a form, decoded.
Pairs(text) ==
  LET parts == SelectSeq(Split(text, "&"), LAMBDA p : p # << >>)
  IN [i \in DOMAIN parts |-> Row(Dec(Before(parts[i], "=")), Dec(After(parts[i], "=")))]

Encode(rows) ==
  Joined([i \in DOMAIN rows |-> (Enc(rows[i].key) \o <<"=">>) \o Enc(rows[i].value)], "&")

\* Names in a URL: an atom ":v" is the path variable whose key is that atom.
PathAtoms == {":v"}

\* The path variables, by their value, where a segment names one.
FillPath(text, pathVars, map) ==
  FoldLeft(LAMBDA t, v :
             FlattenSeq([i \in DOMAIN t |->
                IF t[i] \in PathAtoms /\ t[i] = v.key[1] /\ (i = Len(t) \/ t[i + 1] \in {"/", "?"})
                  THEN Enc(Resolve(v.value, map)) ELSE <<t[i]>>]),
           text, On(pathVars))

\* buildUrl, and the query the authorization adds.
BuildUrl(r, auth, map) ==
  LET text == FillPath(Trim(Resolve(r.url, map)), r.pathVars, map)
      own == [i \in DOMAIN On(r.query) |-> ResolveRow(On(r.query)[i], map)]
  IN [path |-> Before(text, "?"),
      query |-> Pairs(After(text, "?")) \o own \o AuthQuery(auth)]

BuildHeaders(r, auth, map) ==
  [i \in DOMAIN On(r.headers) |-> ResolveRow(On(r.headers)[i], map)] \o AuthHeaders(auth)

IsHeader(row, lowerKey) ==
  Len(row.key) = 1 /\ row.key[1] \in
    (IF lowerKey = "content-type" THEN {"Content-Type", "content-type"} ELSE {"Content-Length"})

HasHeader(headers, lowerKey) == \E i \in DOMAIN headers : IsHeader(headers[i], lowerKey)
RemoveHeader(headers, lowerKey) == Filter(headers, {h \in ToSet(headers) : ~IsHeader(h, lowerKey)})

NoPayload == [has |-> FALSE, text |-> << >>, type |-> << >>]
Body(text, type) == [has |-> TRUE, text |-> text, type |-> <<type>>]

RawType(lang) ==
  CASE lang = "json" -> "application/json" [] lang = "xml" -> "application/xml"
    [] OTHER -> "text/plain"

Form == "application/x-www-form-urlencoded"

\* A GraphQL query's variables: what is not JSON counts as no variables.
Parsed(variables) == IF variables # << >> /\ variables[1] = "{" THEN variables ELSE <<"{", "}">>

GraphQl(query, variables) == (<<"{">> \o query \o <<",">>) \o Parsed(variables) \o <<"}">>

FormPart(f, map) ==
  LET key == Resolve(f.key, map)
  IN IF ~f.enabled \/ key = << >> \/ (f.kind = "file" /\ f.file = << >>) THEN << >>
     ELSE (<<"--boundary">> \o key) \o
          (IF f.kind = "file" THEN <<"file">> \o f.file ELSE <<"=">> \o Resolve(f.value, map))

\* resolveBody and buildBody; the files that are attached can be read.
BuildBody(b, map) ==
  CASE b.mode = "raw" -> Body(Resolve(b.raw, map), RawType(b.lang))
    [] b.mode = "urlencoded" ->
         Body(Encode(On([i \in DOMAIN b.urlencoded |-> ResolveRow(b.urlencoded[i], map)])), Form)
    [] b.mode = "graphql" ->
         Body(GraphQl(Resolve(b.query, map), Resolve(b.variables, map)), "application/json")
    [] b.mode = "binary" /\ b.file # << >> ->
         Body(<<"file">> \o b.file, "application/octet-stream")
    [] b.mode = "form-data" ->
         Body(FlattenSeq([i \in DOMAIN b.formData |-> FormPart(b.formData[i], map)])
                \o <<"--boundary--">>, "multipart/form-data")
    [] OTHER -> NoPayload

\* executeHttpRequest, up to its first hop: method, URL, headers and body.
Message(r, scope, inherited) ==
  LET map == VariableMap(scope)
      auth == ResolveAuth(EffectiveAuth(r.auth, inherited), map)
      headers == BuildHeaders(r, auth, map)
      body == BuildBody(r.body, map)
  IN [method |-> r.method,
      url |-> BuildUrl(r, auth, map),
      headers |-> IF body.has /\ ~HasHeader(headers, "content-type")
                    THEN Append(headers, Row(<<"Content-Type">>, body.type)) ELSE headers,
      body |-> [has |-> body.has, text |-> body.text]]

-----------------------------------------------------------------------------
(* Redirects.                                                                *)

RedirectStatus == {301, 302, 303, 307, 308}

\* A plausible slip: the type of the body that is dropped is still announced.
RewriteBodyOnly(message, status) ==
  IF status = 303 \/ (status \in {301, 302} /\ message.method \notin {"GET", "HEAD"})
    THEN [message EXCEPT !.method = "GET", !.body = [has |-> FALSE, text |-> << >>]]
    ELSE message

\* What a redirect makes of the request.
Rewrite(message, status) ==
  IF status = 303 \/ (status \in {301, 302} /\ message.method \notin {"GET", "HEAD"})
    THEN [message EXCEPT !.method = "GET", !.body = [has |-> FALSE, text |-> << >>],
            !.headers = RemoveHeader(RemoveHeader(@, "content-type"), "content-length")]
    ELSE message
=============================================================================
