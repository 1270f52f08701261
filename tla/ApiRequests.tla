---------------------------- MODULE ApiRequests ----------------------------
(***************************************************************************)
(* A request under the hands of the user: the request editor                *)
(* (webview/components/RequestEditor.tsx, common.tsx), the exchange that     *)
(* sends it (engine/http.ts) and what becomes of it in the other formats.    *)
(***************************************************************************)
EXTENDS ApiFormats

CONSTANTS
  Urls,          \* texts the user may type as a URL
  Keys, Values,  \* texts of rows
  Scope,         \* variables in force, by scope
  Commands,      \* cURL commands the user may import
  MaxEdits,      \* bound: edits of a request
  MaxResources,  \* bound: resources of an Insomnia export
  MaxRedirects   \* bound on the setting of that name

\* A command is a text.
ASSUME RequestAssumption == Commands \subseteq Seq(STRING) /\ MaxRedirects \in Nat

VARIABLES
  req,        \* the request in the editor
  edits,      \* edits made
  exchange,   \* the request being sent: its first and its present message
  resources   \* an Insomnia export, as it is put together

requestVars == <<req, edits, exchange, resources>>

Idle == [on |-> FALSE, follow |-> FALSE, first |-> NoPayload, message |-> NoPayload,
         statuses |-> << >>, max |-> 0]

Inherited == [NoAuth EXCEPT !.type = "bearer", !.token = <<"x">>]

RequestInit ==
  /\ req \in {DefaultRequest} \cup {ParseCurl(c) : c \in Commands}
  /\ edits = 0
  /\ exchange = Idle
  /\ resources = << >>

-----------------------------------------------------------------------------
(* The editor.                                                               *)

Patch(changed) ==
  /\ edits < MaxEdits
  /\ ~exchange.on /\ resources = << >>
  /\ edits' = edits + 1
  /\ req' = changed
  /\ UNCHANGED <<exchange, resources>>

\* KeyValueEditor: every row and a blank one can be changed, a row removed; rows
\* without key and value are dropped.
Commit(rows) == Filter(rows, {r \in ToSet(rows) : r.key # << >> \/ r.value # << >>})

RowEdits(rows) ==
  LET display == Append(rows, Row(<< >>, << >>))
      last == Len(display)
      On1(i) == IF i = last THEN TRUE ELSE display[i].enabled
  IN UNION {{Commit([display EXCEPT ![i].key = k, ![i].enabled = On1(i)]) : k \in Keys}
            \cup {Commit([display EXCEPT ![i].value = v, ![i].enabled = On1(i)]) : v \in Values}
            \cup (IF i = last THEN {}
                  ELSE {Commit([display EXCEPT ![i].enabled = ~@]), Commit(RemoveAt(display, i))})
            : i \in DOMAIN display}

\* syncPathVariables: the names in the URL, with the values they had.
SyncPathVariables(url, existing) ==
  LET names == FoldLeft(LAMBDA seen, a : IF a \in PathAtoms /\ a \notin ToSet(seen)
                                           THEN Append(seen, a) ELSE seen, << >>, url)
      known(n) == {i \in DOMAIN existing : existing[i].key = <<n>>}
  IN [j \in DOMAIN names |->
        IF known(names[j]) = {} THEN Row(<<names[j]>>, << >>)
        ELSE existing[CHOOSE i \in known(names[j]) : \A k \in known(names[j]) : i >= k]]

EditMethod == \E m \in {"GET", "POST", "HEAD"} : Patch([req EXCEPT !.method = m])

EditUrl ==
  \E u \in Urls :
    Patch([req EXCEPT !.url = u, !.pathVars = SyncPathVariables(u, @)])

EditParams ==
  \/ \E rows \in RowEdits(req.query) : Patch([req EXCEPT !.query = rows])
  \/ /\ req.pathVars # << >>
     /\ \E rows \in RowEdits(req.pathVars) : Patch([req EXCEPT !.pathVars = rows])

EditHeaders == \E rows \in RowEdits(req.headers) : Patch([req EXCEPT !.headers = rows])

\* FormDataEditor: like the rows, with a kind and, for a file, its path.
FormEdits(fields) ==
  LET blank == [key |-> << >>, kind |-> "text", value |-> << >>, file |-> << >>, enabled |-> TRUE]
      display == Append(fields, blank)
      Keep(fs) == SelectSeq(fs, LAMBDA f : f.key # << >> \/ f.value # << >> \/ f.file # << >>)
  IN UNION {{Keep([display EXCEPT ![i].key = k]) : k \in Keys}
            \cup {Keep([display EXCEPT ![i].kind = k]) : k \in {"text", "file"}}
            \cup {Keep(IF display[i].kind = "file" THEN [display EXCEPT ![i].file = v]
                       ELSE [display EXCEPT ![i].value = v]) : v \in Values}
            : i \in DOMAIN display}

\* BodyTab: the mode changes, what the other modes hold stays.
EditBody ==
  LET b == req.body
  IN \/ \E m \in {"none", "raw", "form-data", "urlencoded", "binary", "graphql"} :
          Patch([req EXCEPT !.body.mode = m])
     \/ /\ b.mode = "raw"
        /\ \/ \E l \in {"json", "text", "xml"} : Patch([req EXCEPT !.body.lang = l])
           \/ \E v \in Values : Patch([req EXCEPT !.body.raw = v])
     \/ /\ b.mode = "urlencoded"
        /\ \E rows \in RowEdits(b.urlencoded) : Patch([req EXCEPT !.body.urlencoded = rows])
     \/ /\ b.mode = "form-data"
        /\ \E fields \in FormEdits(b.formData) : Patch([req EXCEPT !.body.formData = fields])
     \/ /\ b.mode = "graphql"
        /\ \E v \in Values : \/ Patch([req EXCEPT !.body.query = v])
                             \/ Patch([req EXCEPT !.body.variables = v])
     \/ /\ b.mode = "binary"
        /\ \E v \in Values : Patch([req EXCEPT !.body.file = v])

\* AuthTab: the type changes, what the other types hold stays.
EditAuth ==
  LET a == req.auth
  IN \/ \E t \in {"none", "inherit", "bearer", "basic", "apikey", "oauth2"} :
          Patch([req EXCEPT !.auth.type = t])
     \/ \E v \in Values :
          \/ a.type = "bearer" /\ Patch([req EXCEPT !.auth.token = v])
          \/ a.type = "basic" /\ (\/ Patch([req EXCEPT !.auth.user = v])
                                  \/ Patch([req EXCEPT !.auth.pass = v]))
          \/ a.type = "apikey" /\ Patch([req EXCEPT !.auth.value = v])
          \/ a.type = "oauth2" /\ Patch([req EXCEPT !.auth.access = v])
     \/ a.type = "apikey" /\ (\/ \E k \in Keys : Patch([req EXCEPT !.auth.key = k])
                              \/ \E l \in {"header", "query"} :
                                   Patch([req EXCEPT !.auth.location = l]))

-----------------------------------------------------------------------------
(* The exchange.                                                             *)

\* executeHttpRequest.  The panel puts its own settings over the request's.
Send ==
  /\ ~exchange.on /\ resources = << >>
  /\ \E max \in 0 .. MaxRedirects, follow \in BOOLEAN :
       LET message == Message(req, Scope, Inherited)
       IN exchange' = [on |-> TRUE, follow |-> follow, first |-> message,
                       message |-> message, statuses |-> << >>, max |-> max]
  /\ UNCHANGED <<req, edits, resources>>

Location == [path |-> <<"location">>, query |-> << >>]

\* A response that redirects, with a location: the next hop, if one is left.
Redirected ==
  /\ exchange.on /\ exchange.follow
  /\ Len(exchange.statuses) < exchange.max + 1
  /\ \E status \in RedirectStatus :
       exchange' = [exchange EXCEPT !.statuses = Append(@, status),
                                    !.message = [Rewrite(@, status) EXCEPT !.url = Location]]
  /\ UNCHANGED <<req, edits, resources>>

\* Any other response, an error, or a redirect too many: the user gets it.
Answered ==
  /\ exchange.on
  /\ exchange' = Idle
  /\ UNCHANGED <<req, edits, resources>>

-----------------------------------------------------------------------------
(* An export of Insomnia.                                                    *)

\* Resources come in any order: a parent is any resource, before or after, or
\* none (0), or one of another export.
AddResource ==
  /\ edits = 0 /\ req = DefaultRequest /\ ~exchange.on
  /\ Len(resources) < MaxResources
  /\ \E type \in {"workspace", "request_group", "request", "environment"} :
     \E id \in (1 .. MaxResources) \ {resources[i].id : i \in DOMAIN resources} :
     \E parent \in (0 .. MaxResources) \ {id} :
       resources' = Append(resources, [type |-> type, id |-> id, parent |-> parent])
  /\ UNCHANGED <<req, edits, exchange>>

\* The operations of an OpenAPI document as resources whose parent is the first
\* tag, or 0.
Operations == [i \in DOMAIN resources |->
  [id |-> resources[i].id,
   tags |-> IF resources[i].parent = 0 THEN << >> ELSE <<resources[i].parent, resources[i].id>>]]

RequestNext ==
  \/ EditMethod \/ EditUrl \/ EditParams \/ EditHeaders \/ EditBody \/ EditAuth
  \/ Send \/ Redirected \/ Answered
  \/ AddResource

RequestSpec == RequestInit /\ [][RequestNext]_requestVars

-----------------------------------------------------------------------------
(* Properties.                                                               *)

Sent(r) == Message(r, Scope, Inherited)
HasVariable(text) == "{{t}}" \in ToSet(text)
Quote(text) == "'" \in ToSet(text)
ContentTyped(r) == HasHeader(On(r.headers), "content-type")

\* What a cURL command made of a request cannot carry: a body that is not text,
\* a path variable, the inherited authorization, a variable once it is encoded,
\* quotes where the command does not escape them or the tokenizer does not
\* know the escape, and a body's language when no header says it.
CurlCarries(r) ==
  LET p == Prepare(r)
  IN /\ r.auth.type # "inherit"
     /\ ToSet(r.url) \cap PathAtoms = {}
     /\ r.body.mode \notin {"form-data", "binary"}
     /\ ~Quote(p.url) /\ ~Quote(p.body.text)
     /\ \A i \in DOMAIN p.headers : ~Quote(p.headers[i].key) /\ ~Quote(p.headers[i].value)
     /\ \A i \in DOMAIN On(r.query) : ~HasVariable(On(r.query)[i].value)
     /\ r.auth.type = "apikey" /\ r.auth.location = "query" => ~HasVariable(r.auth.value)
     /\ r.auth.type = "basic" => ~HasVariable(r.auth.user) /\ ~HasVariable(r.auth.pass)
     /\ r.body.mode = "raw" =>
          /\ ~FormTyped(On(r.headers))
          /\ r.body.lang # "json" /\ ~ContentTyped(r) =>
               r.body.lang # "xml" /\ (Trim(r.body.raw) # << >> => Trim(r.body.raw)[1] # "{")
     /\ r.body.mode = "urlencoded" => (ContentTyped(r) => FormTyped(On(r.headers)))
     /\ r.body.mode = "graphql" => ~HasVariable(r.body.variables) /\ ~FormTyped(On(r.headers))

\* A request exported as a cURL command and imported again sends the same
\* message: method, URL, query, headers, authorization and body, except for
\* what CurlCarries names (codegen.ts, curl.ts, http.ts together).
CurlRoundTrip == CurlCarries(req) => Sent(ParseCurl(ToCurl(req))) = Sent(req)

\* What the Postman format, as it is written, cannot carry.
PostmanCarries(r) ==
  /\ r.auth.type \notin {"inherit", "oauth2"}
  /\ r.body.mode # "binary"
  /\ \A i \in DOMAIN r.pathVars : r.pathVars[i].enabled \/ r.pathVars[i].key \notin {<<a>> : a \in PathAtoms}

\* A request exported to Postman and imported again sends the same message,
\* with every row that is switched off still switched off; and what was sent,
\* recorded as HAR and imported, sends the same again unless its body is empty,
\* holds, unresolved, the name of a variable, or is called a form without being one.
ExportsReplay ==
  /\ PostmanCarries(req) =>
       LET again == MapItem(ExportPostman(req))
       IN Sent(again) = Sent(req) /\ again.headers = req.headers /\ again.query = req.query
  /\ LET message == Sent(req)
     IN (FormTyped(message.headers) => req.body.mode = "urlencoded") /\
        ((message.body.text # << >> /\ ~HasVariable(message.body.text)) \/ ~message.body.has) =>
          Sent(MapEntry(Record(message))) = message

\* At every hop the request is the one first sent, at its new URL, or -- from the first redirect
\* on that asks for it -- a GET without a body and without the headers that
\* described one; and there are no more hops than allowed.
HopsKeepTheRequest ==
  exchange.on =>
    LET first == exchange.first
        now == exchange.message
        statuses == ToSet(exchange.statuses)
    IN /\ Len(exchange.statuses) <= exchange.max + 1
       /\ now.url = IF statuses = {} THEN first.url ELSE Location
       /\ IF 303 \in statuses \/ (statuses \cap {301, 302} # {} /\ first.method \notin {"GET", "HEAD"})
            THEN /\ now.method = "GET" /\ ~now.body.has
                 /\ ~HasHeader(now.headers, "content-type")
                 /\ ToSet(first.headers) \ ToSet(now.headers) \subseteq
                      {h \in ToSet(first.headers) : IsHeader(h, "content-type") \/ IsHeader(h, "content-length")}
            ELSE now = [first EXCEPT !.url = now.url]

\* The types of the resources of that name.
Type(id) == {resources[i].type : i \in {j \in DOMAIN resources : resources[j].id = id}}

\* What hangs below root, through groups, n levels deep, for every n.
Reached(root) ==
  LET Hangs(r, set) ==
        /\ r.type \in {"request", "request_group"} /\ r.parent \in set
        /\ r.parent = root \/ "request_group" \in Type(r.parent)
      Deeper(set) == set \cup {r.id : r \in {s \in ToSet(resources) : Hangs(s, set)}}
      reached[n \in 0 .. Len(resources)] == IF n = 0 THEN {root} ELSE Deeper(reached[n - 1])
  IN reached

\* Every request of an Insomnia export that hangs, through groups, below its
\* first workspace is imported exactly once, whatever the order of the
\* resources, and nothing else is.  (Without a workspace the root is the absent
\* parent.)  Groups that are each other's parents hang below no workspace.  Of an
\* OpenAPI document every operation is imported exactly once, those of one first
\* tag together, those without a tag last.
ImportsKeepRequests ==
  LET workspaces == Filter(resources, {r \in ToSet(resources) : r.type = "workspace"})
      root == IF workspaces = << >> THEN 0 ELSE workspaces[1].id
      reached == Reached(root)[Len(resources)]
      wanted == {r.id : r \in {s \in ToSet(resources) : s.type = "request" /\ s.id \in reached}}
      got == ImportInsomnia(resources)
      imported == ImportOpenApi(Operations)
  IN /\ ToSet(got) = wanted /\ Len(got) = Cardinality(wanted)
     /\ ToSet(imported) = ToSet(Operations) /\ Len(imported) = Len(Operations)
     /\ \A i, j \in DOMAIN imported : i < j /\ imported[j].tags # << >> =>
          /\ imported[i].tags # << >>
          /\ imported[i].tags[1] = imported[j].tags[1] =>
               \A k \in i .. j : imported[k].tags[1] = imported[i].tags[1]
=============================================================================
