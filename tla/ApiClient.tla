------------------------------ MODULE ApiClient ------------------------------
(***************************************************************************)
(* The API client (apps/vscode-apiclient): its webview (App.tsx), the panel  *)
(* behind it on the extension host (apiClientPanel.ts) and the storage of    *)
(* collections (storage.ts).                                                *)
(*                                                                         *)
(* The webview owns the state and posts all of it after every change; the    *)
(* host keeps the last one it was posted and saves it, each save on its own. *)
(* In the webview a change a message makes is rendered later, and only then  *)
(* copied to the reference the next change starts from; a change the user    *)
(* makes is rendered before the next event.  Requests run on the host.       *)
(***************************************************************************)
EXTENDS Integers, Sequences, FiniteSets, ApiTree

CONSTANTS
  MaxPanels,     \* bound: panels created
  MaxOps,        \* bound: changes, imports and requests the user asks for
  MaxHistory     \* App.tsx MAX_HISTORY

ASSUME ApiClientAssumption ==
  /\ {MaxPanels, MaxOps} \subseteq Nat
  /\ MaxHistory \in Nat \ {0}

VARIABLES
  folder,     \* whether a workspace folder is open
  file,       \* the workspace store, or None
  memento,    \* the extension's global state, or None
  saves,      \* saves under way
  saved,      \* saves begun so far
  current,    \* ApiClientPanel.current, 0 for undefined
  phase,      \* per panel: where its life has got to
  host,       \* per panel: the panel object's state and its requests in flight
  web,        \* per panel: the webview
  up, down,   \* per panel: messages to the host and to the webview
  runs,       \* requests the host was asked to run
  dialogs,    \* open dialogs of an import, each of a panel
  ops,        \* changes, imports and requests so far
  excuse      \* history: what has put the three copies out of step

vars == <<folder, file, memento, saves, saved, current, phase, host, web, up,
          down, runs, dialogs, ops, excuse>>

-----------------------------------------------------------------------------
Panel == 1 .. MaxPanels
None == [collections |-> << >>, history |-> << >>, env |-> "missing"]
EmptyState == [collections |-> << >>, history |-> << >>, env |-> "none"]

\* A store written by an earlier session: a request in a folder, and one beside it.
Seed == [EmptyState EXCEPT !.collections =
           << Collection(0, << Folder(0), [Request(0) EXCEPT !.within = {Folder(0).id}],
                               Request(100) >>) >>]

IdsIn(state) == {n.id : n \in Nodes(state.collections)}

\* Where a new node may go: a collection, or a folder of one.
Places(state) ==
  UNION {LET c == state.collections[i]
         IN {<<c.id, << >> >>} \cup
            {<<c.id, n.id>> : n \in {m \in ToSet(c.nodes) : m.kind = "folder"}}
         : i \in DOMAIN state.collections}

\* Storage.load: the workspace file if it can be read, else the global state.
Load == IF folder /\ file # None THEN file
        ELSE IF memento # None THEN memento ELSE EmptyState

NoWeb == [state |-> EmptyState, ref |-> EmptyState, loaded |-> FALSE, busy |-> {}]

Init ==
  /\ folder \in BOOLEAN
  /\ file = IF folder THEN Seed ELSE None
  /\ memento = None
  /\ saves = {} /\ saved = 0
  /\ current = 0
  /\ phase = [p \in Panel |-> "none"]
  /\ host = [p \in Panel |-> [state |-> EmptyState, inFlight |-> {}]]
  /\ web = [p \in Panel |-> NoWeb]
  /\ up = [p \in Panel |-> << >>]
  /\ down = [p \in Panel |-> << >>]
  /\ runs = << >>
  /\ dialogs = {}
  /\ ops = 0
  /\ excuse = {}

disk == <<folder, file, memento, saves, saved>>

-----------------------------------------------------------------------------
(* The life of a panel.                                                      *)

\* createOrShow, up to its await: current is not set yet.
Open ==
  /\ current = 0
  /\ \E p \in Panel :
       /\ phase[p] = "none"
       /\ \A q \in 1 .. p - 1 : phase[q] # "none"
       /\ phase' = [phase EXCEPT ![p] = "loading"]
  /\ UNCHANGED <<disk, current, host, web, up, down, runs, dialogs, ops, excuse>>

\* The state is loaded; the panel object is built and becomes the current one.
\* Its webview starts, listens, and says that it is ready.
Loaded(p) ==
  /\ phase[p] = "loading"
  /\ phase' = [phase EXCEPT ![p] = "open"]
  /\ up' = [up EXCEPT ![p] = << [type |-> "ready"] >>]
  /\ host' = [host EXCEPT ![p].state = Load]
  /\ current' = p
  /\ excuse' = excuse \cup (IF saves # {} THEN {"loaded before a save"} ELSE {})
                      \cup (IF \E q \in Panel \ {p} : phase[q] = "open"
                              THEN {"two panels"} ELSE {})
  /\ UNCHANGED <<disk, web, down, runs, dialogs, ops>>

\* onDidDispose: what is registered is aborted.  Before the constructor has run
\* nothing listens, and the constructor will fail on the closed panel.
Close(p) ==
  /\ phase[p] \in {"loading", "open"}
  /\ phase' = [phase EXCEPT ![p] = "closed"]
  /\ current' = IF phase[p] = "loading" THEN current ELSE 0
  /\ runs' = [r \in DOMAIN runs |->
                IF r \in host[p].inFlight THEN [runs[r] EXCEPT !.aborted = TRUE] ELSE runs[r]]
  /\ host' = [host EXCEPT ![p].inFlight = {}]
  /\ up' = [up EXCEPT ![p] = << >>]
  /\ down' = [down EXCEPT ![p] = << >>]
  /\ dialogs' = dialogs \ {p}
  /\ UNCHANGED <<disk, web, ops, excuse>>

-----------------------------------------------------------------------------
(* The webview.                                                              *)

\* What posting the state leaves out of step: an edit before init arrives is
\* one of an empty state.
Posted(p) == IF web[p].loaded THEN {} ELSE {"edited before init"}

\* applyState in an event of the user: rendered before the next event.
UserApplies(p, next) ==
  /\ web' = [web EXCEPT ![p].state = next, ![p].ref = next]
  /\ up' = [up EXCEPT ![p] = Append(@, [type |-> "persist", state |-> next])]
  /\ excuse' = excuse \cup Posted(p)
  /\ ops' = ops + 1
  /\ UNCHANGED <<disk, current, phase, host, down, runs, dialogs>>

CanEdit(p) == phase[p] = "open" /\ ops < MaxOps

NewCollection(p) ==
  /\ CanEdit(p)
  /\ UserApplies(p, [web[p].ref EXCEPT !.collections = Append(@, Collection(ops + 1, << >>))])

\* addRequest and addFolder.
Add(p) ==
  /\ CanEdit(p)
  /\ \E place \in Places(web[p].ref), node \in {Request(ops + 1), Folder(ops + 1)} :
       UserApplies(p, [web[p].ref EXCEPT !.collections =
                         AddNode(@, place[1], place[2], node)])

DeleteNode(p) ==
  /\ CanEdit(p)
  /\ \E id \in IdsIn(web[p].ref) :
       UserApplies(p, [web[p].ref EXCEPT !.collections = RemoveNode(@, id)])

\* The request editor: the whole node, with one field new.
EditRequest(p) ==
  /\ CanEdit(p)
  /\ \E id \in IdsIn(web[p].ref) : \E node \in FindRequest(web[p].ref.collections, id) :
       UserApplies(p, [web[p].ref EXCEPT !.collections =
                         ReplaceRequestNode(@, [node EXCEPT !.http = ops + 1])])

SelectEnvironment(p) ==
  /\ CanEdit(p)
  /\ UserApplies(p, [web[p].ref EXCEPT !.env = IF @ = "none" THEN "env" ELSE "none"])

\* sendRequest: the button is Cancel while the request is busy.
SendRequest(p) ==
  /\ CanEdit(p)
  /\ \E id \in IdsIn(web[p].ref) \ web[p].busy :
     \E node \in FindRequest(web[p].ref.collections, id) :
       /\ web' = [web EXCEPT ![p].busy = @ \cup {id}]
       /\ up' = [up EXCEPT ![p] = Append(@, [type |-> "send", node |-> node,
                                             env |-> web[p].state.env])]
  /\ ops' = ops + 1
  /\ UNCHANGED <<disk, current, phase, host, down, runs, dialogs, excuse>>

\* cancelRequest: no longer busy at once, so that it can be sent again.
CancelRequest(p) ==
  /\ phase[p] = "open"
  /\ \E id \in web[p].busy :
       /\ web' = [web EXCEPT ![p].busy = @ \ {id}]
       /\ up' = [up EXCEPT ![p] = Append(@, [type |-> "cancel", id |-> id])]
  /\ UNCHANGED <<disk, current, phase, host, down, runs, dialogs, ops, excuse>>

\* React renders what messages changed, and the effect copies the state.
Render(p) ==
  /\ web[p].ref # web[p].state
  /\ phase[p] = "open"
  /\ web' = [web EXCEPT ![p].ref = web[p].state]
  /\ UNCHANGED <<disk, current, phase, host, up, down, runs, dialogs, ops, excuse>>

\* recordHistory: the answered request as it is now, the oldest entries dropped.
RecordHistory(state, entry) ==
  [state EXCEPT !.history = SubSeq(<<entry>> \o @, 1,
     IF Len(@) < MaxHistory THEN Len(@) + 1 ELSE MaxHistory)]

MergeCollections(state, collections) ==
  [state EXCEPT !.collections = @ \o collections]

\* applyState in a message handler: not rendered yet.
MessageApplies(p, next, busy) ==
  /\ web' = [web EXCEPT ![p].state = next, ![p].busy = busy]
  /\ up' = [up EXCEPT ![p] = Append(@, [type |-> "persist", state |-> next])]
  /\ excuse' = excuse \cup Posted(p)

\* The listener App installs, one message at a time.
WebMessage(p) ==
  /\ phase[p] = "open"
  /\ down[p] # << >>
  /\ LET m == Head(down[p])
         w == web[p]
     IN CASE m.type = "init" ->
               /\ web' = [web EXCEPT ![p].state = m.state, ![p].loaded = TRUE]
               /\ UNCHANGED <<up, excuse>>
          [] m.type = "httpResponse" ->
               LET entry == [run |-> m.run,
                             of |-> {n.http : n \in FindRequest(w.ref.collections, m.id)}]
               IN MessageApplies(p, RecordHistory(w.ref, entry), w.busy \ {m.id})
          [] m.type = "httpError" ->
               /\ web' = [web EXCEPT ![p].busy = @ \ {m.id}]
               /\ UNCHANGED <<up, excuse>>
          [] m.type = "importResult" ->
               MessageApplies(p, MergeCollections(w.ref, m.collections), w.busy)
          [] OTHER -> UNCHANGED <<web, up, excuse>>
  /\ down' = [down EXCEPT ![p] = Tail(@)]
  /\ UNCHANGED <<disk, current, phase, host, runs, dialogs, ops>>

-----------------------------------------------------------------------------
(* The host.                                                                 *)

Post(p, m) == [down EXCEPT ![p] = IF phase[p] = "closed" THEN @ ELSE Append(@, m)]

\* The requests registered under a request's id: a map holds one.
Registered(p, id) == {r \in host[p].inFlight : runs[r].id = id}

\* inFlight.set: in place of the one registered under the same id.
Register(p, id, r) == (host[p].inFlight \ Registered(p, id)) \cup {r}

\* storage.save, up to its first await; with no folder it goes to the global
\* state at once.
BeginSave(p, state) ==
  /\ saved' = saved + 1
  /\ IF folder
       THEN /\ saves' = saves \cup {[n |-> saved + 1, state |-> state]}
            /\ UNCHANGED memento
       ELSE /\ memento' = state
            /\ UNCHANGED saves

\* A plausible slip: the state is saved, but the panel's own copy is not renewed.
HandlePersistOnDiskOnly(p, m) ==
  /\ BeginSave(p, m.state)
  /\ UNCHANGED <<folder, file, host, runs, down>>

HandlePersist(p, m) ==
  /\ host' = [host EXCEPT ![p].state = m.state]
  /\ BeginSave(p, m.state)
  /\ UNCHANGED <<folder, file, runs, down>>

\* runHttpRequest, up to its await: the controller is registered, variables and
\* inherited authorization are read from the panel's copy.  (The node has its HTTP
\* definition: every importer, and createRequestNode as the webview calls it, gives one.)
HandleSend(p, m) ==
  LET r == Len(runs) + 1
  IN /\ runs' = Append(runs, [panel |-> p, id |-> m.node.id, http |-> m.node.http,
                              aborted |-> FALSE, at |-> "running",
                              again |-> \E q \in DOMAIN runs : runs[q].panel = p
                                        /\ runs[q].id = m.node.id /\ runs[q].at = "running"])
     /\ host' = [host EXCEPT ![p].inFlight = Register(p, m.node.id, r)]
     /\ UNCHANGED <<disk, down>>

\* handleMessage: messages arrive in order and each handler runs to its first
\* await before the next.
HostMessage(p) ==
  /\ phase[p] = "open"
  /\ up[p] # << >>
  /\ LET m == Head(up[p])
     IN CASE m.type = "ready" ->
               /\ down' = Post(p, [type |-> "init", state |-> host[p].state])
               /\ UNCHANGED <<disk, host, runs, dialogs>>
          [] m.type = "persist" -> HandlePersist(p, m) /\ UNCHANGED dialogs
          [] m.type = "send" -> HandleSend(p, m) /\ UNCHANGED dialogs
          [] m.type = "cancel" ->
               /\ runs' = [r \in DOMAIN runs |->
                             IF r \in Registered(p, m.id)
                               THEN [runs[r] EXCEPT !.aborted = TRUE] ELSE runs[r]]
               /\ UNCHANGED <<disk, host, down, dialogs>>
          [] m.type = "pickImportFile" ->
               /\ dialogs' = dialogs \cup {p}
               /\ UNCHANGED <<disk, host, runs, down>>
  /\ up' = [up EXCEPT ![p] = Tail(@)]
  /\ UNCHANGED <<current, phase, web, ops, excuse>>

\* A plausible slip: the failure goes to the output channel only.
FailureOnlyLogged(p, r) == down

Failed(p, r) == Post(p, [type |-> "httpError", id |-> runs[r].id])

\* A plausible slip: the map is cleared, not the entry removed.
UnregisterAll(p, id) == {}

\* inFlight.delete: whatever is registered under the id by now.
Unregister(p, id) == host[p].inFlight \ Registered(p, id)

\* executeHttpRequest settles (its timeout counts idle time only): with a response or
\* an error, after an abort with an error.
RunSettles(r) ==
  /\ runs[r].at = "running"
  /\ LET p == runs[r].panel
     IN /\ \/ down' = Failed(p, r)
           \/ /\ ~runs[r].aborted
              /\ down' = Post(p, [type |-> "httpResponse", id |-> runs[r].id, run |-> r])
        /\ host' = [host EXCEPT ![p].inFlight = Unregister(p, runs[r].id)]
  /\ runs' = [runs EXCEPT ![r].at = "settled"]
  /\ UNCHANGED <<disk, current, phase, web, up, dialogs, ops, excuse>>

\* The user asks for an import, from the webview or from the command.
AskImport(p) ==
  /\ phase[p] = "open"
  /\ p \notin dialogs
  /\ ops < MaxOps
  /\ ops' = ops + 1
  /\ \/ /\ up' = [up EXCEPT ![p] = Append(@, [type |-> "pickImportFile"])]
        /\ UNCHANGED dialogs
     \/ /\ current = p
        /\ dialogs' = dialogs \cup {p}
        /\ UNCHANGED up
  /\ UNCHANGED <<disk, current, phase, host, web, down, runs, excuse>>

\* The dialog is answered: nothing chosen, a file that cannot be read or parsed,
\* or one collection.
Import(p) ==
  /\ p \in dialogs
  /\ dialogs' = dialogs \ {p}
  /\ \/ UNCHANGED down
     \/ down' = Post(p, [type |-> "importError"])
     \/ down' = Post(p, [type |-> "importResult", collections |->
                 << Collection(200 + ops, << Request(200 + ops) >>) >>])
  /\ UNCHANGED <<disk, current, phase, host, web, up, runs, ops, excuse>>

\* The directory exists and the file is written: each save awaits both, and
\* they end in whatever order.
Written(s) ==
  /\ saves' = saves \ {s}
  /\ file' = s.state
  /\ excuse' = excuse \cup (IF \E t \in saves : t.n < s.n THEN {"save overtaken"} ELSE {})
  /\ UNCHANGED <<folder, memento, saved, current, phase, host, web, up, down, runs,
                 dialogs, ops>>

\* Directory or file cannot be written: the global state is used instead, which
\* load looks at only when there is no file.
WriteFails(s) ==
  /\ saves' = saves \ {s}
  /\ memento' = s.state
  /\ excuse' = excuse \cup {"write failed"}
  /\ UNCHANGED <<folder, file, saved, current, phase, host, web, up, down, runs,
                 dialogs, ops>>

-----------------------------------------------------------------------------
UserStep(p) ==
  \/ NewCollection(p) \/ Add(p) \/ DeleteNode(p) \/ EditRequest(p)
  \/ SelectEnvironment(p)
  \/ SendRequest(p) \/ CancelRequest(p) \/ AskImport(p)

PanelStep(p) == Loaded(p) \/ Render(p) \/ WebMessage(p) \/ HostMessage(p)

SaveStep(s) == Written(s) \/ WriteFails(s)

Next ==
  \/ Open
  \/ \E p \in Panel : Close(p) \/ UserStep(p) \/ PanelStep(p) \/ Import(p)
  \/ \E r \in DOMAIN runs : RunSettles(r)
  \/ \E s \in saves : SaveStep(s)

Spec == Init /\ [][Next]_vars

-----------------------------------------------------------------------------
(* Properties.                                                               *)

Ids == {"c", "r", "f"} \X Nat
NodeSet == [kind : {"request", "folder"}, id : Ids, http : Nat, within : SUBSET Ids]
CollectionLists == Seq([id : Ids, nodes : Seq(NodeSet)])
States == [collections : CollectionLists, history : Seq([run : Nat, of : SUBSET Nat]),
           env : {"none", "env"}]

ToHost == [type : {"ready", "pickImportFile"}] \cup [type : {"persist"}, state : States]
            \cup [type : {"send"}, node : NodeSet, env : {"none", "env"}]
            \cup [type : {"cancel"}, id : Ids]
ToWeb == [type : {"init"}, state : States]
           \cup [type : {"httpResponse"}, id : Ids, run : Nat]
           \cup [type : {"httpError"}, id : Ids] \cup [type : {"importError"}]
           \cup [type : {"importResult"}, collections : CollectionLists]

Hosts == [state : States, inFlight : SUBSET Nat]
Webs == [state : States, ref : States, loaded : BOOLEAN, busy : SUBSET Ids]
Runs == [panel : Panel, id : Ids, http : Nat, aborted : BOOLEAN,
         at : {"running", "settled"}, again : BOOLEAN]

TypeOK ==
  /\ folder \in BOOLEAN
  /\ {file, memento} \subseteq States \cup {None}
  /\ saved \in Nat
  /\ saves \subseteq [n : 1 .. saved, state : States]
  /\ current \in Panel \cup {0}
  /\ phase \in [Panel -> {"none", "loading", "open", "closed"}]
  /\ host \in [Panel -> Hosts]
  /\ web \in [Panel -> Webs]
  /\ up \in [Panel -> Seq(ToHost)]
  /\ down \in [Panel -> Seq(ToWeb)]
  /\ runs \in Seq(Runs)
  /\ \A p \in Panel : host[p].inFlight \subseteq DOMAIN runs
  /\ dialogs \subseteq Panel
  /\ ops \in Nat
  /\ excuse \subseteq {"loaded before a save", "two panels", "edited before init",
                     "save overtaken", "write failed"}

\* Cancel and closing the panel reach a request through the controller it
\* registered.  A request of an open panel that runs unregistered, so that
\* nothing can stop it, runs beside another one of the same id -- one that was
\* sent after the first was cancelled but before it had settled
\* (apiClientPanel.ts:146, 167; App.tsx:168).
UnstoppableOnlyAfterResend ==
  \A r \in DOMAIN runs :
    (runs[r].at = "running" /\ phase[runs[r].panel] = "open"
       /\ r \notin host[runs[r].panel].inFlight)
      => \E q \in DOMAIN runs : /\ runs[q].panel = runs[r].panel /\ runs[q].id = runs[r].id
                               /\ runs[q].again

Quiet(p) == phase[p] = "open" /\ up[p] = << >> /\ down[p] = << >>

\* When the messages of a panel have been handled and no save is under way, the
\* webview, the host and the storage hold the same state: whatever was edited,
\* imported, answered and cancelled, in whatever order.  Five things can put
\* them out of step, and each is named where it happens: an edit made before
\* init arrives, two panels opened while the first one loads, a panel that
\* loads while a save is under way, saves that overtake each other, and a
\* failed write after which load prefers the older file.
InStepWhenQuiet ==
  \A p \in Panel :
    /\ Quiet(p) /\ "edited before init" \notin excuse => web[p].state = host[p].state
    /\ Quiet(p) /\ saves = {} /\ excuse = {} => Load = host[p].state

Entries(state) == ToSet(state.history)
Under(state, id) ==
  {id} \cup {n.id : n \in {m \in Nodes(state.collections) : id \in m.within}}

\* A change made when what came before it is rendered loses at most one node
\* with what is below it, or the oldest entries of a history at its cap: adding
\* to a folder, an import, an answer or an edit never drops anything else.  (A
\* change made on top of one not yet rendered drops the latter: App.tsx:38-41.)
ChangesLoseOneNode ==
  [][\A p \in Panel :
       (web[p].loaded /\ web[p].ref = web[p].state /\ web'[p].state # web[p].state) =>
         LET old == web[p].state
             new == web'[p].state
         IN /\ \E id \in IdsIn(old) \cup {<< >>} : IdsIn(old) \ IdsIn(new) \subseteq Under(old, id)
            /\ {old.collections[i].id : i \in DOMAIN old.collections}
                 \subseteq {new.collections[i].id : i \in DOMAIN new.collections}
            /\ Entries(old) \subseteq Entries(new) \/ Len(new.history) = MaxHistory]_vars

\* A busy request has its answer ahead of it -- a message still to be handled
\* by the host, a run that will settle, or the answer on its way -- so that the
\* editor's Send button comes back: whatever was cancelled, sent again, edited,
\* deleted or failed meanwhile (App.tsx:157; apiClientPanel.ts:151-168).
BusyIsAnswered ==
  \A p \in Panel : phase[p] = "open" => \A id \in web[p].busy :
    \/ \E i \in DOMAIN up[p] : up[p][i].type = "send" /\ up[p][i].node.id = id
    \/ \E r \in DOMAIN runs : runs[r].panel = p /\ runs[r].id = id /\ runs[r].at = "running"
    \/ \E i \in DOMAIN down[p] : /\ down[p][i].type \in {"httpResponse", "httpError"}
                                /\ down[p][i].id = id
=============================================================================
