# CodeSetu in TLA+

CodeSetu is an AI coding assistant that runs inside the editor: a VS Code
extension and a JetBrains plugin over a shared TypeScript core, with a small API
client beside them.  This directory models the parts of it in which order
matters: the agent's tool loop, its approvals and its tools, the transcript that is
sent to the provider, the undo of an agent turn, the chat panel with its saved
conversations and its webview, the `@workspace` index, and the API client with the
requests it sends, exports and imports.  The models are checked with TLC on small
instances; what matters most about the tool loop, its tools, the transcript, the undo, the index,
the panel, its webview and the API client is proved with TLAPS for every instance.

Paths below are relative to the repository; `core` is `packages/core/src`,
`vscode` is `apps/vscode/src`.

## 1. The system

### Modelled

**Agent tool loop** (`core/agent/loop.ts`, `policy.ts`).  State: the transcript,
the calls of the current reply, the tools approved for the session, the abort
signal.  `runAgentLoop` asks the provider for a completion, runs the tool calls it
returns -- mutating ones behind the committed policy (`.codesetu/agent.json`: deny
and auto-approve lists for `bash`) and the user's approval -- and feeds the results
back, until the model answers without calls, the user stops, the provider fails or
the cap on iterations is reached.  It calls the host (tools, previews), the policy
and `requestApproval` (the chat panel).  Hard: Stop lands at any await; approvals
and Stop meet; every call needs exactly one result.  Correct when nothing mutating
runs without consent, every request is answered in full, and every run ends.

**Transcript across turns** (`loop.ts: sanitizeToolMessages`,
`vscode/chatPanel.ts: trimHistory, submitMessage`).  State: the conversation's
messages.  Turns end in many ways -- stopped between two calls, failed, at the cap --
and trimming cuts from the front, so the transcript is repaired before every
request.  Correct when what is sent is well-formed, and no finished work or text
is lost.

**Undo of an agent turn** (`vscode/agentCheckpoint.ts`, `agentRunner.ts`,
`extension.ts: revertAgentEditsCommand`).  State: a snapshot per file written, and
`lastAgentCheckpoint`.  Hard: the snapshot, the write, the dialog and every restored
file are separate awaits; turns fail; the user edits and invokes the command again
meanwhile; a closed panel's turn goes on beside the next one's; a file cannot be read.
Correct when an undisturbed revert gives back of every file what the turn could read of
it, and leaves the others alone.

**Chat panel** (`vscode/chatPanel.ts`, `chatSessions.ts`, the responder in
`extension.ts`).  State: the live conversation, the saved ones, the turn in flight,
its pending approvals, the history picker, the workspace storage.  Hard: while a
turn awaits its context, the provider or the user, the user can stop, start a new
chat, load or delete another, close the panel and open a new one.  Correct when a
turn's messages go where they belong, the storage keeps what the user saw, and no
turn waits for a click that cannot come.

**Workspace index** (`vscode/workspaceIndex.ts`, `core/retrieval/*`, the debounced
auto-reindex of `extension.ts`).  State: one index in memory, one in
`.codesetu/index.json`, the hashes that decide what is embedded again.  Hard:
reindexes overlap each other and a chat turn's first load, embeddings fail half
way, the model setting changes, the window reloads in the middle of a write.
Correct when recorded hashes are those of the embedded texts, vectors are of the
index's model, and the index follows the files.

**Agent tools** (`core/agent/tools.ts`, `vscode/agentHost.ts`) **and the edit command**
(`vscode/editCommand.ts`, `core/agent/diff.ts`).  State: the files, the document on
screen, the call's progress, the shell process.  Hard: the user types and saves
between the awaits of a tool (preview, approval, read, write), a file of a search
changes while the next is read, a shell leaves processes behind, the document moves
under the edit being reviewed.  Correct when what is done is what the user agreed
to, searches miss nothing without saying so, and commands settle.

**Chat view** (`vscode/chatPanelHtml.ts`, `chatStreaming.ts`,
`chatCompletionRetry.ts`, the posting half of `chatPanel.ts`).  State: the bubbles,
the modes, the row, the cards, the composer with its menus; on the host, the
stream's buffer.  The two halves exchange messages kept in order, and each goes on
while the other's are on their way; the answers of the file search come in any
order.  Correct when the screen shows what the host keeps and sends next, and a
menu's choice is the one it was opened for.

**API client** (`packages/api-client-core`, `apps/vscode-apiclient`).  State: the
collections in the webview (twice: the state and the reference to what was rendered),
on the host and in storage; the requests in flight.  Hard: cancel and resend,
imports and answers between edits, saves that overtake each other, panels closed
and opened.  A second side of it is algorithmic: the message built from a request,
its redirects, and the formats it is written to and read from.  Correct when the
copies agree once all is quiet, every busy request is answered, and a request that
goes through another format sends the same message.

They interact as follows.  `ChatPanel.submitMessage` calls the responder, which
collects context (retrieving from the index, through `WorkspaceIndexManager`) and
runs either a plain completion or `runAgentTurn`; that creates the checkpoint,
wraps the host with it and calls `runAgentLoop` with the sanitised history.  The
loop calls the tools, and back to the panel for approvals; Stop goes from the panel
to the loop's abort signal and settles what is pending.  What the loop appended
returns to the panel's history, and the checkpoint to `lastAgentCheckpoint`; what it
says on the way goes to the webview.  The API client stands by itself.

### Not modelled

| part | why |
|---|---|
| Dictation (`vscode/dictation.ts`) | the webview never starts it: `DICTATION_ENABLED` is `false` (`chatPanelHtml.ts:1464`).  Switched on, two starts before the first is set active would leave a recorder running (`dictation.ts:162`), and a stop that is still transcribing forgets the next recording's (`:248`) |
| Inline completion (`vscode/completionProvider.ts`, `completionDebounce.ts`) | a debounce, a cancellation and a cache of one entry; left for later |
| The choice of skills (`core/skills`) | a pure function of the message |
| JetBrains plugin (`apps/jetbrains`) | ports of the TypeScript components; what is its own is that its chat window shares unsynchronised fields between the event thread and pooled threads (`CodeSetuToolWindowFactory.kt:393, 488, 599, 707`), which needs a model of its own |
| Sockets, cookies, decompression, HAR's other fields, the other generators of code and the response viewer of the API client | I/O and text |
| `get_diagnostics`, buttons of code blocks, labels, Markdown, layout | no state that another part reads |
| Providers, settings, secrets, wizards, prompts, plugin SDK | adapters, dialogs and text; their outcomes appear as nondeterministic steps |

`PROJECT.json` lists every part with its status, and every hazard with the line where it bites.

## 2. The modules

| module | models |
|---|---|
| `ApprovalGate` | what the approval gate promises, without scheduling: ask, answer, perform, close |
| `AgentLoop` | `runAgentLoop`, `createBashCommandPolicy`, Stop and the approval card; `INSTANCE ApprovalGate` states that it implements the gate |
| `AgentHistory` | the transcript: trimming, `sanitizeToolMessages`, what a turn appends however it ends |
| `AgentCheckpoint` | `WorkspaceCheckpoint`, the checkpointing host, the revert command |
| `AgentProofs` | the theorems about the agent: approvals, Stop, the gate and the transcript of one run (`AgentLoop`), the one kept between turns (`AgentHistory`), the checkpoint (`AgentCheckpoint`) |
| `ChatPanel` | `ChatPanel`, `upsertSession`, the responder's two ways to ask, the workspace storage |
| `ChatPanelProofs` | the theorems about `ChatPanel` |
| `WorkspaceIndex` | `WorkspaceIndexManager`, `updateWorkspaceIndex`, `WorkspaceIndex.deserialize`, auto-reindex |
| `WorkspaceIndexProofs` | the theorems about `WorkspaceIndex` |
| `ShellExec` | `runShellCommand`: the shell, its timer and Stop, what it leaves behind |
| `LineDiff` | the line diff, its hunks, the replacements of `edit_file` |
| `AgentTools` | the tools, from preview to result, beside the user's edits and the edit command |
| `AgentToolsProofs` | the theorems about `AgentTools` and `LineDiff` |
| `ChatComposer` | the composer: slash menu, mention menu, pins |
| `ChatTurn` | what the host posts during a turn: streaming, fallback, retry, agent events, replays |
| `ChatView` | the webview's transcript, modes, row and cards, composed with the two above |
| `ChatScreenProofs` | what a message does to the view, as lemmas, and the theorem about `ChatComposer` |
| `ChatViewProofs` | the theorem about `ChatTurn` and `ChatView` together |
| `ApiTree` | the tree of collections and its operations: its nodes in the order a search meets them, each with the folders it is in |
| `ApiClient` | the webview of the API client, its panel, its storage, the requests in flight |
| `ApiClientProofs` | the theorems about `ApiClient` and `ApiRequests` |
| `HttpEngine` | the message built from a request: variables, authorization, URL, body; redirects |
| `ApiFormats` | cURL, Postman and HAR out and in, Insomnia and OpenAPI in |
| `ApiRequests` | the request editor, the exchange, and both ends of the formats |
| `Scans` | `Array.prototype.filter`, as a function of the length scanned so far |
| `ScanProofs` | induction over the naturals and over lists, and what it says of `Scans` |
| `MC*` | the instances for TLC |

The extension host is single threaded, so an action is everything between two
awaits.  Variables marked *history* in a module record what happened (the `trace` of
the loop, the `answered` of the panel) for the properties to speak of, and no action
reads them.  Definitions that a comment calls *a plausible slip* are not part of any
specification: each is a form of the definition below it with the bug a change of
that code could bring in, and shows that a property would notice.

**AgentLoop.**  `pc` is where the loop is suspended: at the head of the `for`
(`check`), in `provider.chat`, between two calls, in `preview()`, in
`requestApproval`, in `tool.execute`.  Each early return and `continue` of
`runAgentLoop` is an action: `CheckIteration` (cap before abort, as in the code),
`ChatFails`, `ChatEmpty`, `ChatReplies`, `CallAborted`, `CallUnknown`,
`CallBlocked`, `CallPrompt`, `CallRun`, `Refused`, `Approved`, `ToolSettles`,
`CallsDone`.  The user's actions are the answer on the card and `Stop`, which sets
the signal and denies what is pending.  A call's arguments are abstract: what
matters is which policy lists match them.  Ids are `<turn, index>`, with turn 0 for
the `fallback_n` ids of calls recovered from the content, which begin anew in every
reply.

**AgentHistory.**  A message is its role, the ids of its calls (or the id it
answers) and whether it has text.  A trim may drop any prefix, because what a
message weighs is its text's business.  Within a turn only the effects on the
transcript are kept; the scheduling is AgentLoop's.  The names of its specification
differ from those of AgentLoop (`HistorySpec`, `FinalAnswer`, ...), and so do those of
AgentCheckpoint (`CheckpointSpec`, `agentTurns`, ...), because `AgentProofs` extends all
three.

**AgentCheckpoint.**  A file's content is who wrote it and with which write of the
turn, so that "restored" means restored exactly.  A tool's write is two steps
(`Capture`, `Write`), since the checkpointing host awaits in between; the command is
one step per await (dialog, each file, the end).  Turns may overlap (`running`), each
with its own snapshots, because the turn of a closed panel goes on.  `capture` takes
whatever it cannot read for absent, a file that exists included (`Reads`), and a revert
then deletes that file; `unread` is history and names those reads for `RevertUndoes`.

**ChatPanel.**  One record per panel object, because a closed panel's turn goes on
with its own `history` and `sessions`.  A turn is `preparing` (its context is
collected, then the history is read), `asking` (the provider, or tools) or waiting
for an `approval`.  `Finish` is the `finally` block, with its save.  The guard
`picker[p] = {}` of user actions says that the open history picker takes the
focus.  `trimHistory` drops by a count here, by a number of characters in the
code.  `Open` includes what `loadSessions` does with the transcript of an older version
(`Legacy`): it becomes a conversation in memory (`Migrated`), is not written, and stays
where the older version left it.

**WorkspaceIndex.**  An entry of the index is the hash it records, the text its
chunks are of and the model of their vectors; the hash is taken as free of
collisions.  A reindex is `Reindex` (the model is read), `Loaded` (a new object,
`this.index` from now on), `ReadFile`s, `Update` (the provider is made; what is
gone is dropped), `Embedded`, `Saved`.  While it runs, `this.index` is the job's own
object (`user`), which it goes on changing.  A half-written `index.json` does not
parse, and `Deserialize` gives an empty index for it.  The model of the settings is read
twice, by `Reindex` for the index and by `Update` for the provider, and may change
between any two steps.  Two variables are history: `owed` holds the files whose
changes the index in memory may miss, each put there by the step that makes it so
(a change outside the editor, an unreadable file, a reindex that gives up, a debounce
that ends before the first index, a chat turn's load), and emptied when an object starts over
from the files; `crossed` holds the pairs of models between whose two readings the
setting changed.

**AgentTools.**  A text is a sequence of lines, and the empty one a file that is not there.  A
call goes through `preview`, `ask`, `run` and, for `edit_file`, `write` (it awaits the
read), for `grep` one step per file, for `find_references` a second step, for `bash`
the steps of `ShellExec`; between any two of them the user types, saves, or applies
the edit command, and a clean document follows its file (`Reloads`).  `Outdated` and
`moved` are history: they tell a call what was written behind its back.  A read may
fail: `write_file` then shows a creation (`Preview`), `grep` passes over the file
(`GrepFile`), and both are noted in `unread`.  A long output is cut anywhere, its
last line included, with a note that says so (`GrepEnds`).  The caps of
the code (`MaxDiffLines`, `MaxGrepFiles`, `MaxGrepMatches`, `MaxGlobFiles`, `MaxHits`)
are constants, scaled down so that they are reached.  Each loop of `LineDiff` is a
recursive function of the turns it has taken or the lines it has scanned, and a step of
it an operator of its own, of which the proofs speak.  In `ShellExec` a process the
shell leaves behind (`heir`) holds the pipes; `close`, not the shell's end, delivers
the result.

**ChatComposer, ChatTurn, ChatView.**  `toView` and `toHost` are the two ordered
channels of `postMessage`; `ViewTakes` is the listener of the script, `HostTakes`
`handleMessage`.  A turn is `prepare`, then `stream` (`Reasoning`, `Content` with
what is held back while it is blank, `StreamEnds`, `StreamThrows`), `complete` for the
fallback and the retry, or `agent`.  A piece of text remembers its turn and number,
so that the transcript on the screen and the history can be compared piece by
piece; `SplitThink` is the webview's, the host keeps the text as it came.  `odd`
collects the turns whose difference is the code's own (section 6), each where it
comes about.  `Prepared` reads the setting `alwaysRetrieve` when the turn gets
there; it may have either value in each turn.

**ApiClient.**  `web[p].state` is React's state, `web[p].ref` the reference that
`applyState` starts from: a user's event is rendered before the next event, a
message's change only by `Render`.  Each save is on its own until `Written` or
`WriteFails`.  `inFlight` is keyed by the request's id, so that registering a second
run replaces the first (`Register`) and the first's `finally` removes whichever is
there (`Unregister`).  The branch of `apiClientPanel.ts:139-143`, for a node without an
HTTP definition, has no counterpart: every importer and `createRequestNode`, as the
webview calls it, give one.

**HttpEngine, ApiFormats, ApiRequests.**  A text is a sequence of atoms: the
punctuation some parser looks for, a literal, a variable.  Percent-encoding,
quoting, tokenizing and resolving of variables are modelled by what they do to
atoms.  The editor's actions reach the requests the user can build; the properties
speak of each request so reached.  What the proofs speak of -- splitting a text, the
tokens of a command, the options among them -- is a recursive function of how much has
been read.  An entry of a HAR has only the fields its browser recorded, and `MapEntry`
reads each with its fallback (`Given`).

## 3. The runs

A passing run covers its whole state space.

| run | checks | states | bounds |
|---|---|---|---|
| `AgentLoopRun` | consent, prompts, transcripts, Stop, the refinement of `ApprovalGate`, two liveness properties | 0.32 M | 2 round-trips, up to 2 calls each |
| `AgentHistoryStructured` | requests well-formed; no work or text lost | 1.2 M | 3 turns, 2 rounds, 2 calls |
| `AgentCheckpointUndo` | snapshots predate the turn; everything written is captured; revert gives back what was read | 4.6 M | 2 turns, overlapping or not, 3 writes, a file that is not UTF-8 and a new one, failing reads, the command at any moment |
| `ChatPanelSafety` | storage in step; answers stay saved; agent turns ask their own question; switching saves | 0.33 M | 1 panel, 2 turns, 2 conversations, both modes, a transcript of an older version |
| `ChatPanelEnds` | turns wait only on the open panel; turns end | 0.20 M | 2 panels, 2 agent turns, 2 conversations |
| `WorkspaceIndexContent` | hashes match vectors; models mix only where the setting changed inside a reindex | 4.0 M | 1 file, absent, empty or with its text, 2 models, 2 overlapping reindexes, changes outside the editor, failures, torn writes, reloads |
| `WorkspaceIndexFresh` | fresh when quiet; saves are fresh | 1.4 M | 2 files, 2 texts, 2 overlapping reindexes and a chat turn's load, from no index, failures, torn writes, reloads |
| `AgentToolsRun` | what was agreed to is done; grep is complete or says so; commands settle | 1.0 M | 1 call of any tool, 2 edits of the user or the command, 2 files, 3 texts, failing reads, cut outputs |
| `ChatViewRun` | webview and host in step; a menu's choice fits | 8.5 M | 2 turns (2 pieces, then 1), 2 scenarios, a history cap of 3 |
| `ApiClientStep` | the three copies in step; busy requests answered; what cannot be cancelled; changes lose one node | 2.4 M | 2 panels, 2 changes, imports or sends, a history cap of 1 |
| `ApiRequestsRun` | cURL, Postman and HAR round trips; redirects; imports | 0.16 M | 2 edits of a request, 2 hops, exports of 3 resources |

Why these bounds are enough for the cases to happen.  `AgentLoopRun`: two calls in
a reply give a Stop between them and a session approval that applies to the second;
two round-trips give a session approval that outlives its reply, and ids that
repeat.  The calls are one of every fate: an unknown tool, a safe one, a mutating
one with a preview, and commands that the lists allow, match both, or match but are
empty.  `MaxForeign = 0` leaves out replies that mix in calls of a type other than
`function` (see section 6).  `AgentHistoryStructured`: the third turn sends what the
first left behind after the second was trimmed or stopped.  `AgentCheckpointUndo`: a
file that exists and one that the turn creates; the second turn may write beside the
first, or take `lastAgentCheckpoint` over while the command is in the dialog or in the
middle of restoring; three writes are one turn's both files and the other's one, or a
file written twice.  The command is invoked once at a time, again and again; any
number of overlapping invocations is left to the proof.  `ChatPanelSafety`: a turn,
another conversation, and a turn there or back again, the first of them after an older
version's; the caps (`MaxHistory`, `MaxSessions`) are not reached, as
`AnswersSaved` demands.  `ChatPanelEnds`: a turn on a closed panel beside one on
the next.  In `WorkspaceIndexContent` the file is absent, empty or has its one text, so
it changes by vanishing or being emptied and coming back, under the same model or the
other; both of its properties are about one file's entry.  `WorkspaceIndexFresh` has two
texts, so that an older reindex may hold the older one, and two files, so that one is
read before a change and the other after it.  In both, files, texts, models and
reindexes are interchanged by symmetry (`Alike`): the specification names none of them,
nor do the properties, which are invariants and a property of single steps.  `AgentToolsRun`: one call is enough because
a tool keeps nothing for the next; two edits put one before and one after any await,
and let the edit command and the user meet; the texts have a line twice, which
distinguishes the first occurrence from every one, two hunks, a removal to nothing,
and a replacement that holds `$&`.  `ChatViewRun`: two turns, so that the first one's
leftovers (an open bubble, an unanswered question, a card, the row) meet the second;
the saved state is none or two conversations, the latter longer than the cap once a
turn is added.  One scenario gives the user three acts in the composer and one
elsewhere over all the texts (`APPROVED`, `/`, `/p`, `@a`, `@w`), the other one act in the
composer and three elsewhere over a plain text.  `MaxQueued = 0` lets a turn go on
only when nothing is on its way to the webview; the user and the host's messages are
not held back by it, so that the webview's messages still arrive late.
`ApiClientStep`: two operations give a cancel and a resend, an answer between two
edits, an import during an edit; two panels give closing while loading and opening
twice.  `ApiRequestsRun`: any two fields meet, which is how the encodings disturb
each other (a header and a body, a quote and a variable); three resources give a
child before its parent, a parent that is missing, and a cycle.

CHECK_DEADLOCK is off where the bounds on turns stop the system; AgentLoop checks
it, with `Done` for a run that is over.

One run refutes a statement of the repository:

| run | what the repository says | what the code does |
|---|---|---|
| `AgentLoopDeny` | `policy.ts:29`: "Commands matching any of these are blocked outright (deny wins)." | after "Approve for session" of bash the policy is not asked, and commands of the deny list run |

## 4. Fairness

`AgentLoop!FairSpec` has weak fairness of the loop's own next step: a provider
request settles (it carries the signal, and the OpenAI client has a default
timeout), a preview reads a file, and `bash` kills its shell after
`DEFAULT_BASH_TIMEOUT_MS`.  A process that the shell leaves behind with its output
open would keep `bash` from settling; that is a hazard listed for `agentHost.ts`, not
considered here.  Nothing is assumed of the user: `Terminates` says that a run ends
*unless* the user leaves a request unanswered for ever, and `StopSettles` that a
stopped run ends by itself, except around a preview.

`ChatPanel!FairSpec` assumes that a turn takes its next step, that it does not ask
for approvals for ever (strong fairness of `Reply` or `Fail`: AgentLoop's cap bounds
the calls of a turn), and that the user answers the card on screen and does not look
at the picker for ever.  `TurnsEnd` names its one exception: New Chat, or loading
another conversation, removes the card but settles nothing, and the turn then waits
for Stop.

`AgentTools!Spec` has weak fairness of the shell's timer (`setTimeout` fires) and of
`Finished` (`close` is emitted when the shell has ended and nobody holds its pipes),
and of nothing else: that a command ends by itself is not assumed, nor that what it
left behind ever does.  `CommandsSettle` therefore excepts the executions in which
such a process stays for ever.  The API client and the chat view state no liveness:
`BusyIsAnswered` and `BusyFits` say instead, as invariants, that what is waited for
is on its way.

## 5. What is proved

`AgentProofs`, of the tool loop, for every set of tools, every policy, every shape of replies and
every cap (from `LoopAssumption` alone: mutating and previewing tools are tools, bash
is a mutating one, the numbers are naturals):

| theorem | statement |
|---|---|
| `TypeCorrect` | the type invariant; the iterations stay within the cap |
| `Authorisation` | no mutating tool runs without the policy's or the user's consent |
| `NoNeedlessPrompt` | the user is asked only what neither the policy nor an earlier session approval settles |
| `DenyList` | a command of the deny list runs only under a session approval of bash |
| `StopGuards` | after Stop a tool starts only as the answer to a request on screen |
| `Implementation` | the loop implements `ApprovalGate` |

`Authorised` is not inductive by itself: when `CallRun` starts a mutating tool, it
is because the tool is in `alwaysApproved`, and when `Approved` does, because the
call at the head of the queue is the one that was asked about.  The inductive
invariant is

    IInv == TypeOK /\ PcInv /\ SessionInv /\ Authorised /\ AskedOnlyIfNeeded

with `PcInv` (while a call is previewed or waits for approval it is at the head of
the queue, gated and left to the user by the policy; a round-trip begins below the
cap) and `SessionInv` (`alwaysApproved` is exactly the memory of the
`approve_always` answers in the trace).  `TypeStep`, `PcStep` and `TraceStep` prove
that every action keeps its parts; lemmas about the trace say that appending an
event disturbs no earlier justification.  `DenyList` needs no induction of its own: a
denied command cannot have been asked about (`AskedOnlyIfNeeded`) nor be allowed by
the policy, which leaves the session approval.  `Implementation` maps
`requestApproval`'s await to the gate's open request, `alwaysApproved` to its
consent, and shows, from `IInv`, that every step is a step of the gate or a stutter.

In the same module, about the transcript that one run of the loop builds:

| theorem | statement |
|---|---|
| `ResultsInPlace` | every result answers a call of the assistant message it follows, and no call is answered twice |
| `EveryCallAnswered` | if replies hold calls of functions only (`MaxForeign = 0`), no request has a call without its result |

Neither is inductive: that a request is answered in full follows from what happens
between two requests.  The invariant is

    TInv == ResultsAnswerTheirTurn /\ OpenCalls /\ QueueInv

where `OpenCalls` says that the calls still in the queue are those of the latest
assistant message without a result, and, of function calls, that no other call is open
anywhere; and `QueueInv` that the queue's ids are distinct and that it is empty
wherever the loop is not in the middle of a reply.  When the queue is empty (`CallsDone`)
nothing is open, and only then is the next request made; every `continue` of the loop
takes the head of the queue and appends its result.

And about the transcript kept between turns (`AgentHistory`), for transcripts of any
length, from any number of turns, however they end and wherever trimming cuts (from `HistoryAssumption`: ids come from the provider
or are recovered, and the bounds are naturals):

| theorem | statement |
|---|---|
| `HistoryTypes` | the type invariant |
| `AnswersSurvive` | the repair keeps every call that has its result after it, and that result |
| `WordsSurvive` | the repair keeps every message with text, who said it, and their order |
| `WellFormedRequests` | if ids are the provider's (`Sources` within `{"structured"}`), every request is well-formed |

The middle two are facts about `Sanitize` alone, by induction along the transcript:
`Sanitize` is a recursive function of how much of it has been scanned.  The tools for
that are in `ScanProofs`: induction over the naturals, from the well-foundedness of `<`
in the library, with the induction hypothesis as membership in a set, and from it the
existence of a function defined by recursion.  `WellFormedRequests` has two inductions.
Along the transcript, `Repairing` says of what is repaired so far that it is well-formed
but for the calls whose results are still to come, and these follow the last message
(`Block`).  Along the execution, `HistoryInv` says of what was ever kept (`Whole`) that a
result answers one call, follows the message that made it with nothing but results
between, and that no two results answer the same call (`Transcript`); of the ids that
they are below `nextId` (`Known`) and of the calls still to run that the last message
made them (`Open`).  Trimming keeps `Transcript`, because it says nothing of calls whose
messages were cut; that the ids are unique is needed where a new message is appended,
and fails for recovered calls (section 6).

And about the checkpoint (`AgentCheckpoint`), for every set of files, any number of turns
and writes, and any number of overlapping invocations of the command (from
`CheckpointAssumption`):

| theorem | statement |
|---|---|
| `CheckpointTypes` | the type invariant |
| `Predate` | a snapshot holds what the file held before its turn wrote it |
| `Captures` | what a turn left on disk is in its checkpoint |
| `Undo` | a revert without errors leaves of every file its turn captured what the turn could read of it (nothing, if that failed), and every other file as it was before the turn, unless someone else wrote since |

The first three follow from

    CheckpointInv == CheckpointTypeOK /\ TurnInv /\ SnapsTraced /\ CommandInv
                     /\ SnapshotsPredateTurn /\ EveryWriteCaptured

`EveryWriteCaptured` needs more than itself because a revert of one turn may bring
back another turn's text: `SnapsTraced` says that a snapshot which holds a turn's
text is of a file that turn has captured too, `CommandInv` the same of what a command
still has to restore, and that its turn is over; `TurnInv` says that the file about
to be written is captured and that a checkpoint is filled only while its turn runs.
`Undo` adds `UndoInv`, about turns nobody interfered with (those not in `mixed`): the
snapshots hold what the turn could read of what was there when it began (`SnapsHold`,
with `UnreadCaptured` for what it could not), files not captured are as they were
(`Untouched`), a command that reverts the turn has only its snapshots to restore
(`TodoHolds`), and each captured file is what its snapshot kept or still to be restored
(`Restoring`).  `OwnChange` is the lemma that carries it: a change on disk which is no
interference with a turn is the turn's own write or puts back what its snapshot kept,
so that a second command reverting the same turn does no harm.  When the last file is
done, `Restoring` and `Untouched` together are the claim.  It needs no hypothesis on
what can be read: what a revert loses is in the statement (`Kept`), and that it gives
back the state before the turn (`RevertRestores`) TLC refutes.

`WorkspaceIndexProofs`, for any files, texts and models, any number of overlapping
reindexes and chat turns, with failures, torn writes and reloads (from
`IndexAssumption`: the markers for an absent file, an empty file and the absence of
a model are no texts and no model):

| theorem | statement |
|---|---|
| `IndexTyped` | the type invariant, with `this.index` always the object of a reindex that has one |
| `HashesAreTrue` | a recorded hash is that of the text the vectors are of, in memory and on disk |
| `OneModelPerIndex` | an index holds vectors of its own model only, or of one the setting changed to between the two readings of a reindex that had loaded an index for its own |
| `SavedIndexIsFresh` | a reindex during which no file changed and all could be read saves an index of exactly the files there are |

All four follow from `IInv`, which says of every index that is kept anywhere that it
is `Sound` (each entry's chunks are of the text of its hash, and of the index's model
or one that crossed it)
and of every reindex `JobOK`: what it has read is what is on disk as long as no file
has changed (`TextsOK`), the files it does not embed are those whose hash is already
that of the text it read, and the model it embeds with is that of its index or the two
have crossed (`ModelsOK`).  `Update` and `Embedded` are where the parts meet: an entry that is
kept is sound because it was, one that is replaced because its text and its model are
the job's.  Jobs do not disturb each other because each owns its object (`StepInv`);
`saved` and `held` only ever take over such an object or what `Deserialize` makes of
the file, which is of the model asked for (`ReadableSound`).

| theorem | statement |
|---|---|
| `KeptFresh` | whenever no reindex is due or runs, the index in memory is that of the files, but for those `owed` |

Nothing is assumed about what fails, changes or overlaps.  What the index may miss is
`owed`, which each step that lets it miss something adds to, and which the next
reindex to load its object empties.  The invariant is

    FInv == Pending \/ \A f \in Files \ owed : Follows(f)

Either the debounce timer is set or some reindex has yet to load (`Pending`), and whoever
is first to load starts over from the files as they are; or, of every file not owed, the
index in memory has the hash, or the reindex whose object it is has read the text or will
(`Follows`).  A save in the editor sets the timer, so it falls under the first case; a
change outside the editor, a skipped file or a failure falls under `owed`.  A reindex that
ends with everything read leaves behind what it read, by `TextsOK` of `IInv`.  Without
`owed` (`AlwaysFreshWhenQuiet`) TLC refutes it.

`ChatPanelProofs`, for any number of panels, messages and conversations (from
`PanelAssumption`):

| theorem | statement |
|---|---|
| `PanelTypes` | the type invariant |
| `WaitsInSight` | a turn waits for the user only on the open panel |
| `StorageMirrored` | with one panel, every path that changes the list of conversations writes it, but for the migration of an older version's transcript, which the next of them writes |
| `AsksOwnQuestion` | an agent's request ends with its own question |
| `SwitchSaves` | a switch saves the conversation it leaves |
| `AnswersStaySaved` | with one panel and room for everything, an answer stays saved in its conversation until that is deleted |

`WaitsInSight` is inductive with the shape of the turns: only `RequestApproval`
makes a turn wait, on the open panel, and closing that panel denies it (`Unblocked`).
The types need more than themselves, since ids and turns are bounded by counters:
`TInv == Panels /\ Counters /\ Workspace /\ AgentAsksItsOwnQuestion` says of each panel
that its conversations have different ids, none above the counter, and (`Asking`) that a
turn which has not read its messages yet finds its question last, in the live history
or, once that has been left, in the copy it took.  `AnswersStaySaved` is a count beside
an argument about lists.  No list is cut, because conversations have at most two
messages per turn, and those of an older version's (`Budget`), and no more conversations exist than ids, all different
(`Room`, by the pigeonhole principle from the library's cardinalities).  And an answer
is in the saved conversation it joined and, if that is the live one, also in the live
history, from which the next save will take it (`Held`).

`ApiClientProofs`, for any number of panels, changes and requests and any trees
(from `ApiClientAssumption`):

| theorem | statement |
|---|---|
| `ClientTypes` | the type invariant |
| `UnstoppableIsResent` | a run nothing can stop has one of the same request, sent again, beside it |
| `BusyGetsAnswered` | a busy request has its message, its run or its answer on the way |
| `CopiesAgree` | when all is quiet webview and host agree, and the storage with them, but for the named excuses |
| `LosesOneNode` | a change on top of what is rendered loses at most one node with what is below it |

The types are most of the work for `ClientTypes`: every operation of `ApiTree` returns
trees of the same type, by lemmas of their own.  Each of the others has one invariant.
`Registration`: of two runs of one request the later found the earlier running, and a run
that is not registered has such a one beside it.  `Attended`: each busy id is ahead in one
of the queues or running; a handler only ever moves it from one to the next.  `Synced`:
the handshake of a panel is `ready` on the way, then `init` on the way with the host's
state in it, then a webview whose state is that of the last `persist` on the way or, with
none, the host's (`Brings`).  `Stored`: one panel is open, and either nothing is being
saved and the store is what the host holds, or the newest save is of it.  `Met` is the
handshake without the states, which holds even after an edit before `init`: a webview that
is loaded has no `init` ahead of it that could replace everything.  From there
`LosesOneNode` is about the operations: whatever was in a tree still is after an
insertion, an import or an edit (`Covers`), and a removal's filter keeps what is not at
or below the id (`RemoveSpares`).

And about a request under the hands of the user (`ApiRequests`), for any URLs, keys,
values, variables and cURL commands (from `RequestAssumption`: commands are texts):

| theorem | statement |
|---|---|
| `HopsKeepTheRequestAlways` | over any redirects what is sent is the message first sent, or, from the first redirect that asks for it on, a GET without its body and without the headers that described it |
| `ImportsKeepRequestsAlways` | what is imported of an Insomnia export is every request below its root, once; of an OpenAPI document every operation, once, those of a first tag together |

`RequestInv` adds that the headers are a list wherever a request comes from, and that the
message on its way has only headers of the first.  That a list it is, is what takes the
lemmas: the editor's rows are edited and filtered (`RowEditsList`), and those of a cURL
command are gathered by `parseCurl` from tokens of any shape (`CurlHeaders`).

`ImportsKeepRequestsAlways` rests on less (`ResourcesInv`): what is exported is a list of
resources with an id each.  The rest is about `buildChildren`, which opens groups level by
level, in any order of the list and with groups that may name each other as parents.
What it builds at the root is what is reached from the root (`ReachedMembers`), since a
request found below a group that is itself below the root is found from the root as well
(`OpensFromTop`), and what is reached has a depth, because a resource has one parent
(`Depths`, `Deepens`).  That depth is also why nothing is built twice (`Separates`,
`BelowDistinct`): two groups of one level that both held a request would give two parents
to something on the way down to it.  For OpenAPI, each tag is taken once
(`FirstTagsFacts`), so the folders share no operation.

`AgentToolsProofs`, for texts of any length and files in any number, any caps, and
whatever the user and the edit command write between two awaits (from
`ToolsAssumption`: files are files, texts are sequences of words, one word is the fence
of a code block, and the caps of `grep` and of the references are naturals):

| theorem | statement |
|---|---|
| `HunksRebuild` | all hunks of a diff make the new text, none the old one, and any choice what the lines of the diff tell |
| `GrepIsComplete` | a grep that says neither that it stopped nor that it was truncated, with no more files than are read, returned every match of each file it could read and nobody wrote meanwhile; and it never returns another |
| `DoneAsAccepted` | what is written, replaced, listed or applied is what was approved, or the text has moved since |

`HunksRebuild` is about `LineDiff` alone and holds for lines of any kind.  The diff is a
path through both texts (`Traced`): its unchanged and removed lines are the first text,
its unchanged and added lines the second.  By induction along the diff, the hunks built
so far, applied, are what the lines so far tell (`Kept`) when no hunk is open
(`ShutMatch`), and all of it but the open hunk's lines otherwise (`OpenMatch`); so it
does not matter that the diff is a longest one, only that `computeHunks` flushes where
`applyHunks` resumes.  The two theorems about executions rest on

    ToolsInv == TypeOK /\ Handling /\ Shown /\ Seen /\ Resolved /\ Reviewed /\ Grepped

`Handling` says what a phase means for the tool in it.  The next four say what the user
or the tool learnt, each until the text moves (`moved`): the diff shown for a
`write_file` is that of the file as it is, or could be read (`Shown`), the text `edit_file` has read is the
file's and holds what is to be replaced (`Seen`), the place found for a symbol is the
document's first (`Resolved`), and the range under review lies in the document with the
proposal spliced into it (`Reviewed`).  Without `moved` none of them is true, which is
why `AcceptedIsDone` excepts it.  `Grepped` says, of each file not written since the grep
began, that its matches are true ones, and all of them once it has been read before the
cap, unless the read failed or the output was cut (`Passed`): the cap can be met in the
middle of a file, and then only the result's `stopped` tells, and a cut one may have lost
that line too, so that `truncated` is what tells.  `DoneAsAccepted` adds what the operations compute: the occurrences are
apart and in order, so a replacement changes the length by as much per occurrence, and
by `HunksRebuild` an edit with every hunk accepted is the proposal.

`ChatScreenProofs` (the first) and `ChatViewProofs` (the second), for any commands and
files, any pieces of the provider's answers, any saved conversations, bounds and cap,
and whatever the user does in whatever order the messages are taken (from
`ComposerAssumption`, `TurnAssumption` and `ViewAssumption`: no file is called
`@workspace`, and the mentions that are typed are among those the host can search for;
the provider's pieces are of the four kinds, no saved list is empty, and what it
restores is of no turn and has text only if the user or the assistant said it):

| theorem | statement |
|---|---|
| `PicksFitAlways` | what is picked from a menu is what the menu was opened for, whatever is typed and however late files arrive |
| `ViewInStepAlways` | when nothing is on its way, the screen ends with what the host keeps, Stop and the card are there, and modes, row and preview are the host's |

`PicksFitAlways` rests on `ComposerInv`: a query in flight is no newer than the last one,
and the newest is of the mention the menu is open for, so an answer that is taken is the
rows of that mention (`Mentions`); the slash menu's rows begin with what is in the box
(`Slashes`); both until the box is emptied under the menu (`stale`).

`ViewInStep` speaks of the moments at which nothing is on its way, and those tell nothing
of the next.  Its invariant therefore speaks of the webview as it will be,

    Shows(view, toView)

the view once it has taken what is in the queue.  A step of the webview that takes a
message leaves that as it is; a step of the host appends to the queue, and is one more
`Shown` on top; a step of the user changes nothing of what the messages do.  So `ViewInv`
is kept by each side whatever the other has not yet handled:

    Fits(h, v, queue, answers) ==
      TypesFit /\ Lists /\ Flight
      /\ Screen(h, Shows(v, queue)) /\ Cards(h, Shows(v, queue), answers)
      /\ Numbered /\ Modes /\ Plans /\ Rows /\ Previews

where the other parts speak of the four arguments too.  `Screen` is the heart of it: while an answer is streamed, what is on the screen before its bubble ends
with what the host keeps, nothing of the conversation stands below the bubble, and the
bubble holds exactly the pieces that were passed on (`Streams`); otherwise the whole screen
ends with what is kept, and a bubble that a failure left open holds nothing that counts; a
restored conversation is on its way, or all turns so far are among those `odd` names.
`Flight` is the stream's buffer: what is held back is blank, what was emitted started a
bubble.  `Lists` says of every message kept that its pieces are of its turn, which is what
makes leaving out a turn (`odd`) the same on the screen and in the history.  `Modes` is
about the last change of the modes on its way to the host, `Plans` and `Rows` about the
modes that the latest message of the composer was sent with, wherever it is by now.  The
lemmas are in the order of that text: sequences and filters, `SplitThink` piece by piece
(what the webview takes out of a text appended to), lists of messages and what they say
(`Said`), what each message does to the screen (`Shown`), then one lemma per action.

Hypotheses beyond the assumptions on constants are named in the theorems: `MaxForeign = 0`
(`EveryCallAnswered`) and `Sources \subseteq {"structured"}` (`WellFormedRequests`); each is
the setting of the run that checks the property, and section 6 says what happens without
it.

Only model-checked:

- liveness (`Terminates`, `StopSettles`, `TurnsEnd`, `CommandsSettle`), which is out of
  the prover's reach;
- two properties of the API client's formats (`CurlRoundTrip`, `ExportsReplay`): they say
  of texts that parsing undoes printing, which is an induction over texts through
  `Split`, `Encode` and `Resolve` that differs for each kind of body.  And they hold for
  the texts of the instance, not for every value of `Keys` and `Scope`: a variable whose
  value names a variable, or a key that is punctuation, is read back as something else.

## 6. Divergences met that have no run of their own

### Stated as properties

The modules AgentLoop, AgentHistory, AgentCheckpoint, ChatPanel and WorkspaceIndex state
these, most of them at their end; TLC refutes each when a cfg of the module names it in
place of its properties.

| property | what the code does |
|---|---|
| `AgentLoop!NothingRunsAfterStop`, `StopUnblocks` | Stop during a preview settles nothing, for nothing is pending yet; the request is shown afterwards, blocks the loop, and its approval runs the tool (`loop.ts:222`; `README.md:39` "Hit **Stop** to cancel a run.") |
| `RequestsAreAnswered` with `MaxForeign = 1` | calls of a type other than `function` are stored but never answered, and the next request carries them (`loop.ts:287`) |
| `AgentHistory!RequestsWellFormed` with recovered calls (`Sources <- BothSources`) | their ids begin anew in every reply, and `sanitizeToolMessages` matches results by id over the whole transcript, so an unanswered `fallback_0` is kept for the answer of another (`loop.ts:332`, against `:399`) |
| `AgentCheckpoint!LastEditsUndoable` | a turn that fails in a later round never hands its checkpoint over: the files it wrote cannot be reverted (`agentRunner.ts:139`; `agentCheckpoint.ts:32` "so the whole turn's file changes can be undone in one click") |
| `ClearsOwnCheckpoint` | a turn that ends during a revert loses its checkpoint (`extension.ts:380`) |
| `ConfirmedIsReverted` | a turn that ends while the dialog is open is reverted in place of the one shown (`extension.ts:379`) |
| `CheckpointMeansEdits` | a turn whose only write failed replaces the last checkpoint by one without edits (`agentCheckpoint.ts:103`) |
| `RevertRestores` | a file that cannot be read when its turn first writes it is captured as absent, and a revert without errors deletes it (`agentCheckpoint.ts:51, 71`); one that is not valid UTF-8 is restored garbled (`:50`); against `:66` "Restore every captured file to its pre-turn state" |
| `ChatPanel!AnswersSurvive` with two panels | a closed panel's turn writes its older list of sessions over the newer one (`chatPanel.ts:638`) |
| `MigratedOnce` | once the user has deleted every conversation, the next panel migrates the older version's transcript again: it is never removed (`chatPanel.ts:610`, against `:603` "on first run") |
| `OwnMessagesOnly` | a plain turn's answer is pushed to whatever conversation is live when it arrives, after New Chat to the new one (`chatPanel.ts:802`, against `:642`) |
| `StopAborts` | plain chat is not given the signal (`extension.ts:539`) |
| `NoStackedUsers` | a turn stopped before its first completion leaves its question without an answer (`chatPanel.ts:800`) |
| `FailureDropsOwnQuestion` | a turn that fails after a switch drops the other conversation's last question (`chatPanel.ts:812`) |
| `DeletedStaysDeleted`, `ActiveMirrored` | a deleted conversation that is the active one is saved again by the next turn or switch (`chatPanel.ts:682`) |
| `WorkspaceIndex!VectorsOfThatModel` | the index's model is read when the reindex begins, the provider's after the files were read: new vectors are saved under the old name (`workspaceIndex.ts:114`; `store.ts:25`) |
| `FileFreshWhenQuiet` | of two overlapping reindexes the older may write last (`workspaceIndex.ts:117`) |
| `AlwaysFreshWhenQuiet` | a chat turn's first load that ends during a reindex puts the old index back (`workspaceIndex.ts:91`); a file saved while the first index is built is not reindexed (`extension.ts:118`); what changes outside the editor, cannot be read, or was to be embedded when the endpoint failed waits for the next reindex |
| `QueryMatchesIndex` | after a change of the model, queries are compared with the old model's vectors (`workspaceIndex.ts:146`) |

### Named as exceptions of a property

A passing property that excepts a case says so in its definition; dropping the exception
refutes it.

**Agent tools** (`AcceptedIsDone`, `GrepComplete`, `CommandsSettle`).  A `$&` in the new
text of `edit_file` is expanded by `String.replace` (`tools.ts:276`).  What the user
writes between the tool's read and its write is lost (`tools.ts:259-279`).  The edit
command applies to the range it took before its request, wherever the text is by then
(`editCommand.ts:173`).  Files beyond the cap of `grep`, and of a glob, are left out
without a word, and so are files `grep` cannot read (`tools.ts:451-455`); an output cut
at 30,000 characters says so in its place, even where the `stopped` line is cut with it
(`tools.ts:476`).  `write_file` shows an existing file it cannot read as one to be created
(`tools.ts:213-219`).  The timeout and Stop kill the shell only, and what it left behind
keeps the call open (`agentHost.ts:120`); a signal aborted before the call never kills
(`agentHost.ts:97`).

**Chat panel.**  `StorageInStep` excepts a migrated transcript until the next save: a
window closed before it migrates again (`chatPanel.ts:610-618`).

**Chat view.**  `TranscriptFits` excepts the turns in `odd` and `Unshown`: an answer
after a stream of reasoning only is kept but not shown (`chatStreaming.ts:70-83`,
`chatPanel.ts:796-808`); a question of an editor's action on a new panel is shown above
the conversation that is restored after it (`chatPanel.ts:586`); New Chat or a loaded
conversation before the webview is ready replays the old one; a bubble of a failed
stream stays open, and the next answer that is not streamed is written into it; an
unclosed `<think>` hides what the agent says next; another conversation's question is
popped by a failure.  `PreviewFits`: `hasIdeContext` does not count what was retrieved
(`extension.ts:660-671`, against the comment at `:674-677`).  `RowFits`: Approve & Run
is offered "only on plan-mode turns" (`chatPanelHtml.ts:2086-2088`), which a typed
`APPROVED`, an editor's action, a replay or a dropped message make untrue.  `ModesFit`:
after Approve & Run the host's modes are not posted back.  `PicksFit`: the slash menu
stays open when Send is clicked, and a late answer of the file search opens a menu
after the message was sent.  Besides, a message sent while a turn is in flight is dropped
though its box was cleared (`chatPanel.ts:420`), the first editor's action on a new
panel runs with the modes off, and an empty stream whose completion fails asks for the
completion twice.  (`AgentLoop` takes the cap as a natural: a `maxIterations` of 0.5
is floored to 0, `policy.ts:58`.)

**API client.**  `InStepWhenQuiet` names five ways to lose an edit (`excuse`):
an edit before `init`, a second panel opened while the first loads, a load during a
save, saves that overtake each other, and the older file `load` falls back to.
`UnstoppableOnlyAfterResend`: a run cancelled and sent again removes, when it settles,
the registration of the second (`apiClientPanel.ts:146, 167`).  `CurlCarries` and
`PostmanCarries`: an apostrophe escaped for the shell is not understood by the
tokenizer of `parseCurl` (`codegen.ts:117`, `curl.ts:143-180`), and an option it does
not know makes the option's argument the URL; the editor shows JSON for a raw body
without a language, which is sent as text (`RequestEditor.tsx:187`, `body.ts:50`); a
folder's authorization `none` is dropped by the Postman export, `inherit` is written
and read back as none.  Not stated as properties: the settings of a request are always
overridden by the panel's (`apiClientPanel.ts:153`), 303 turns a HEAD into a GET, the
timeout is one of idleness only, and the history records the URL and method the editor has
when the answer arrives.

## 7. Plan

Done: AgentLoop, AgentCheckpoint, WorkspaceIndex and ChatPanel with their proofs,
AgentHistory and AgentTools (with ShellExec and LineDiff) with theirs, the chat view with
its own, and the API client with its proofs, its engine and its formats.

Left, in this order:

1. **JetBrainsPanel**: the chat tool window's event thread and pooled threads; an
   abstract *Conversation* that both panels should implement.
2. **AgentTools** composed with AgentCheckpoint: the tool's own read-replace-write under
   the snapshot.
3. **InlineCompletion**, and the choice of skills against a reference definition.
4. **Dictation**, if it is switched on.

Theorems worth proving next: the round trip through cURL, for keys and values without
punctuation.
