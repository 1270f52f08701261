------------------------------ MODULE ChatView ------------------------------
(***************************************************************************)
(* The chat panel's webview (the script of chatPanelHtml.ts) in step with    *)
(* its host (ChatTurn): the transcript on the screen, the modes, the Approve *)
(* & Run row, the approval cards.  Messages between the two are kept in      *)
(* order; while one side handles a message the other one goes on.            *)
(***************************************************************************)
EXTENDS ChatComposer, ChatTurn

CONSTANTS
  Scenarios,   \* bounds: [texts, composes, acts], the texts that are typed, and how
               \* often the user works in the composer and does something else
  MaxQueued    \* bound: messages on their way to the webview, for the turn to go on

VARIABLES
  view,     \* the webview's script and its document
  toHost,   \* messages the host has not handled
  left      \* what is left of the scenario

\* The mentions that are typed are among those the host can search for.
ASSUME ViewAssumption ==
  /\ Scenarios \subseteq [texts : SUBSET Seq(WordSet), composes : Nat, acts : Nat]
  /\ \A s \in Scenarios : \A text \in s.texts : \A i \in DOMAIN text :
       text[i].kind = "at" => text[i].id \in DOMAIN Found

viewVars == <<view, toHost>>
vars == <<composerVars, host, toView, viewVars, left>>

-----------------------------------------------------------------------------
\* active: the bubble of activeAssistant, 0 for undefined.  approved: Approve & Run
\* changed the modes since they were posted.  sends: messages sent from the
\* composer; last: the turn whose answer was finished last.
ViewInit ==
  view = [mounted |-> FALSE, bubbles |-> << >>, active |-> 0, lastPlan |-> FALSE,
          pendingPlan |-> FALSE, plan |-> FALSE, agent |-> TRUE, include |-> TRUE,
          busy |-> FALSE, approved |-> FALSE, sends |-> 0, last |-> 0]

Init ==
  /\ HostInit
  /\ ViewInit
  /\ ComposerInit
  /\ toHost = << >>
  /\ left \in Scenarios

Bubble(kind, m) == [kind |-> kind, turn |-> m.turn, text |-> m.text]
UiState(v) == [type |-> "uiState", plan |-> v.plan, agent |-> v.agent]

\* The script runs: it posts the modes, then that it is ready.
Mount ==
  /\ ~view.mounted
  /\ view' = [view EXCEPT !.mounted = TRUE]
  /\ toHost' = Append(toHost, UiState(view)) \o <<[type |-> "ready"]>>
  /\ UNCHANGED <<composerVars, host, toView, left>>

-----------------------------------------------------------------------------
(* What the webview does with a message.                                     *)

AppendMessage(v, kind, m) == [v EXCEPT !.bubbles = Append(@, Bubble(kind, m))]

StartAssistantMessage(v, m) ==
  [AppendMessage(v, "assistant", [m EXCEPT !.text = << >>]) EXCEPT !.active = Len(v.bubbles) + 1]

\* The bubble that is written to: a new one if none is active.
Active(v, m) == IF v.active = 0 THEN StartAssistantMessage(v, m) ELSE v

AppendAssistantDelta(v, m) ==
  LET w == Active(v, m) IN [w EXCEPT !.bubbles[w.active].text = @ \o m.text]

\* A plausible slip: the bubble that is finished stays the active one.
FinalizeLabelOnly(v, m) == [v EXCEPT !.lastPlan = v.pendingPlan, !.last = m.turn]

\* finalizeAssistant, and whether the Approve & Run row may show.
FinalizeAssistant(v, m) ==
  [v EXCEPT !.active = 0, !.lastPlan = v.pendingPlan, !.last = m.turn]

\* assistantMessage: in place of what the bubble holds.
AssistantMessage(v, m) ==
  LET w == Active(v, m)
  IN FinalizeAssistant([w EXCEPT !.bubbles[w.active].text = m.text], m)

ClearTranscript(v) ==
  [v EXCEPT !.bubbles = << >>, !.active = 0, !.lastPlan = FALSE, !.last = 0]

Shown(v, m) ==
  CASE m.type = "busy" -> [v EXCEPT !.busy = TRUE]
    [] m.type = "idle" -> [v EXCEPT !.busy = FALSE]
    [] m.type = "clear" -> ClearTranscript(v)
    [] m.type = "start" -> StartAssistantMessage(v, m)
    [] m.type = "reasoning" -> Active(v, m)
    [] m.type = "delta" -> AppendAssistantDelta(v, m)
    [] m.type = "done" -> FinalizeAssistant(v, m)
    [] m.type = "assistant" -> AssistantMessage(v, m)
    [] OTHER -> AppendMessage(v, m.type, m)

ViewTakes ==
  /\ view.mounted
  /\ toView # << >>
  /\ view' = Shown(view, Head(toView))
  /\ toView' = Tail(toView)
  /\ UNCHANGED <<composerVars, host, toHost, left>>

-----------------------------------------------------------------------------
(* What the user does in the webview.                                        *)

Acts ==
  /\ left.acts > 0
  /\ left' = [left EXCEPT !.acts = @ - 1]

\* A change of the modes is posted.
Toggled(v) ==
  /\ view' = [v EXCEPT !.approved = FALSE]
  /\ toHost' = Append(toHost, UiState(v))
  /\ UNCHANGED <<composerVars, host, toView>>

\* Plan and Agent exclude each other.
TogglePlan == Toggled([view EXCEPT !.plan = ~@, !.agent = @ /\ view.plan])
ToggleAgent == Toggled([view EXCEPT !.agent = ~@, !.plan = @ /\ view.agent])

ToggleInclude ==
  /\ view' = [view EXCEPT !.include = ~@]
  /\ UNCHANGED <<composerVars, host, toView, toHost>>

\* Sends that are still on their way count.
TurnsLeft ==
  Len(host.facts) + Len(SelectSeq(toHost, LAMBDA m : m.type = "send")) < Len(MaxPieces)

IsPlanModeApproval(text) == text = <<Word("word", "APPROVED")>>
MentionsWorkspace(text) == AtWorkspace \in ToSet(text)

\* sendUserMessage.
SendUserMessage(v, text) ==
  /\ TurnsLeft
  /\ view' = [v EXCEPT !.lastPlan = FALSE, !.pendingPlan = v.plan, !.sends = @ + 1]
  /\ toHost' = Append(toHost,
       [type |-> "send", plan |-> v.plan, agent |-> v.agent, include |-> v.include,
        pinned |-> pins # << >>, given |-> FALSE, send |-> v.sends + 1,
        approval |-> IsPlanModeApproval(text), workspace |-> MentionsWorkspace(text)])

\* The form is submitted: /edit is no message of the chat (it opens the edit of the
\* selection).
Submitted(m) ==
  /\ ToSet(box.text) # {Blank}
  /\ IF box.text[1] = Word("slash", "edit")
       THEN TakeText([CloseSlashMenu(m) EXCEPT !.plus = m.plus]) /\ UNCHANGED viewVars
       ELSE TakeText([m EXCEPT !.plus = FALSE]) /\ SendUserMessage(view, box.text)
  /\ UNCHANGED <<host, toView>>

Enter ==
  /\ ~view.busy
  /\ \/ TakesSelected /\ UNCHANGED <<host, toView, viewVars>>
     \/ menu.items = << >> /\ menu.slash = << >> /\ Submitted(menu)

ClickSend == ~view.busy /\ Submitted(Elsewhere(menu))

\* The button of the row: no change of the modes is posted.
ApproveRun ==
  /\ view.plan /\ view.lastPlan
  /\ SendUserMessage([view EXCEPT !.plan = FALSE, !.approved = TRUE], <<Word("word", "APPROVED")>>)
  /\ TakeText(Elsewhere(menu))
  /\ UNCHANGED <<host, toView>>

Stop ==
  /\ view.busy
  /\ toHost' = Append(toHost, [type |-> "cancel"])
  /\ UNCHANGED <<composerVars, host, toView, view>>

\* A button of an approval card; it has no buttons after that.
Respond ==
  \E i \in DOMAIN view.bubbles :
    /\ view.bubbles[i].kind = "card"
    /\ view' = [view EXCEPT !.bubbles[i].kind = "answered"]
    /\ toHost' = Append(toHost, [type |-> "approval", turn |-> view.bubbles[i].turn,
                                 n |-> view.bubbles[i].text[1].n])
    /\ UNCHANGED <<composerVars, host, toView>>

\* What disables the text area and the + button does not disable the menus.
Composes ==
  /\ left.composes > 0
  /\ left' = [left EXCEPT !.composes = @ - 1]
  /\ \/ /\ ~view.busy
        /\ \/ \E text \in left.texts, caret \in 1 .. 2 : caret <= Len(text) /\ Types(text, caret)
           \/ UpdateSelection \/ Escape \/ ToggleComposerMenu
     \/ TakesRow
     \/ ClickElsewhere
     \/ RemovePin
  /\ UNCHANGED <<host, toView, viewVars>>

UserActs ==
  /\ view.mounted
  /\ \/ /\ Acts
        /\ \/ TogglePlan \/ ToggleAgent \/ ToggleInclude
           \/ Enter \/ ClickSend \/ ApproveRun \/ Stop \/ Respond
     \/ Composes

-----------------------------------------------------------------------------
(* The host: messages, and commands of the editor.                           *)

\* handleMessage: a message sent while a turn runs is dropped.
Handled(m) ==
  \/ /\ m.type = "uiState"
     /\ host' = [host EXCEPT !.plan = m.plan, !.agent = m.agent]
     /\ UNCHANGED toView
  \/ /\ m.type = "ready"
     /\ host' = [host EXCEPT !.replayed = TRUE]
     /\ toView' = toView \o Ready
  \/ /\ m.type = "cancel"
     /\ host' = [host EXCEPT !.turn.waiting = 0]
     /\ UNCHANGED toView
  \/ /\ m.type = "approval"
     /\ host' = IF host.turn.id = m.turn /\ host.turn.waiting = m.n
                  THEN [host EXCEPT !.turn.waiting = 0] ELSE host
     /\ UNCHANGED toView
  \/ /\ m.type = "send"
     /\ ~Running /\ Submit(m)
  \/ /\ m.type = "send"
     /\ Running /\ UNCHANGED <<host, toView>>

HostTakes ==
  /\ toHost # << >>
  /\ Handled(Head(toHost))
  /\ toHost' = Tail(toHost)
  /\ UNCHANGED <<composerVars, view, left>>

\* An action of the editor (codeActions.ts): with its own context and the modes the
\* host knows; it opens the panel if need be, and does not wait for the webview.
EditorAction ==
  /\ TurnsLeft
  /\ Submit([plan |-> host.plan, agent |-> host.agent, include |-> TRUE, given |-> TRUE,
             pinned |-> FALSE, send |-> 0, approval |-> FALSE, workspace |-> FALSE])
  /\ UNCHANGED <<composerVars, viewVars>>

\* New Chat and the history; their buttons and the editor's commands do the same.
Switches ==
  /\ NewChat \/ LoadSession
  /\ UNCHANGED <<composerVars, viewVars>>

Commanded == Acts /\ (EditorAction \/ Switches)

TurnSteps ==
  /\ Len(toView) <= MaxQueued
  /\ TurnStep
  /\ UNCHANGED <<composerVars, viewVars, left>>

Answered ==
  /\ FileResults
  /\ UNCHANGED <<host, toView, viewVars, left>>

Next == Mount \/ ViewTakes \/ UserActs \/ HostTakes \/ Commanded \/ TurnSteps \/ Answered

Spec == Init /\ [][Next]_vars

-----------------------------------------------------------------------------
(* Properties.                                                               *)

\* What the user and the assistant say in a list of messages, one after the other,
\* without the turns in odd.
Says(m) ==
  CASE m.role = "user" -> m.text
    [] m.role = "assistant" -> SplitThink(m.text).answer
    [] OTHER -> << >>

Counted(text, odd) ==
  Filter(text, {p \in ToSet(text) : p.is \notin {"blank", "note"} /\ p.turn \notin odd})

Telling(list, odd) ==
  LET told[n \in 0 .. Len(list)] ==
        IF n = 0 THEN << >> ELSE told[n - 1] \o Counted(Says(list[n]), odd)
  IN told

Said(list, odd) == Telling(list, odd)[Len(list)]

OnScreen(bubbles) ==
  [i \in DOMAIN bubbles |-> Item(bubbles[i].kind, bubbles[i].turn, bubbles[i].text)]

Rested == view.mounted /\ host.replayed /\ toView = << >>

\* When nothing is on its way, the screen ends with what the host keeps of the
\* conversation, which it sends with the next question: each question with its
\* answer, once and in order.  Excepted are the turns whose divergence is the
\* code's: that failed, that another's failure took the question of, that were
\* running when the conversation was switched, that began before the restored
\* conversation was on the screen, and those of Unshown (submitMessage,
\* replayRestoredHistory, loadSession, the message handler of the webview).
TranscriptFits ==
  Rested /\ ~Running => IsSuffix(Said(host.history, host.odd), Said(OnScreen(view.bubbles), host.odd))

\* The webview offers Stop exactly while a turn runs, and an approval that is
\* awaited has its card on the screen, unless the conversation was switched.
BusyFits ==
  Rested =>
    /\ view.busy = Running
    /\ host.turn.waiting > 0 /\ toHost = << >> /\ host.turn.id \notin host.odd =>
         \E b \in ToSet(view.bubbles) :
           b.kind = "card" /\ b.turn = host.turn.id /\ b.text[1].n = host.turn.waiting

\* When the answer that was finished last is that to the composer's latest message,
\* Approve & Run is offered for it exactly if it was made in plan mode -- unless the
\* message was an approval, which plan mode does not bind.
RowFits ==
  LET turn == host.facts[view.last]
  IN view.last > 0 /\ view.sends > 0 /\ turn.send = view.sends =>
       (~turn.approval => view.lastPlan = turn.plan)

\* An action of the editor runs in the modes the webview shows, but after Approve &
\* Run.
ModesFit ==
  (Rested /\ toHost = << >> /\ ~view.approved) =>
    host.plan = view.plan /\ host.agent = view.agent

\* The preview of a turn's context shows what its request has, but when all there
\* is was retrieved.
PreviewFits ==
  host.turn.preview # {"retrieved"} => host.turn.request = host.turn.preview

\* Webview and host agree on what the user sees.
ViewInStep == TranscriptFits /\ BusyFits /\ RowFits /\ ModesFit /\ PreviewFits
=============================================================================
