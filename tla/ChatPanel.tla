------------------------------ MODULE ChatPanel ------------------------------
(***************************************************************************)
(* The chat panel's host side (apps/vscode/src/chatPanel.ts) with the       *)
(* responder behind it (extension.ts) and the workspace storage: the live   *)
(* conversation, the saved ones, the turn in flight, its tool approvals.    *)
(*                                                                         *)
(* Everything runs on one thread, but a turn awaits: first the context it   *)
(* collects, then the provider, then the user.  Between two awaits come the *)
(* user's Stop, New Chat and chat history, and the panel may be closed and  *)
(* opened again -- a new ChatPanel object, while the old turn still runs.   *)
(***************************************************************************)
EXTENDS Integers, Sequences, FiniteSets, SequencesExt, Scans

CONSTANTS
  Modes,         \* subset of {"plain", "agent"}
  Legacy,        \* the one transcript an older version saved, << >> for none
  MaxPanels,     \* bound: times the panel is opened
  MaxTurns,      \* bound: messages sent
  MaxIds,        \* bound: conversations started
  MaxSessions,   \* cap on saved conversations
  MaxHistory     \* what a conversation may weigh before it is trimmed

\* A message, by the turn it belongs to: 0 for those of the older version.
Message == [role : {"user", "assistant"}, turn : 0 .. MaxTurns]

ASSUME PanelAssumption ==
  /\ Modes \subseteq {"plain", "agent"}
  /\ Legacy \in Seq([role : {"user", "assistant"}, turn : {0}])
  /\ {MaxPanels, MaxTurns, MaxIds} \subseteq Nat
  /\ {MaxSessions, MaxHistory} \subseteq Nat \ {0}

VARIABLES
  current,    \* ChatPanel.currentPanel, 0 for undefined
  opened,     \* panels created so far
  history,    \* per panel: the live conversation
  active,     \* per panel: activeSessionId
  sessions,   \* per panel: the saved conversations, most recent first
  turn,       \* per panel: the turn in flight
  picker,     \* per panel: conversations the history picker lists
  storage,    \* the workspace's saved conversations
  turns,      \* messages sent so far
  ids,        \* conversations started so far
  home,       \* history: per turn, the conversation it was sent in
  prompts,    \* history: requests made of the provider
  answered,   \* history: answers the user got, with the conversation they joined
  stopped,    \* history: turns the user stopped
  deleted     \* history: conversations the user deleted

vars == <<current, opened, history, active, sessions, turn, picker, storage,
          turns, ids, home, prompts, answered, stopped, deleted>>

-----------------------------------------------------------------------------
Panel == 1 .. MaxPanels
TurnNo == 1 .. MaxTurns
Id == 1 .. MaxIds

User(n) == [role |-> "user", turn |-> n]
Assistant(n) == [role |-> "assistant", turn |-> n]
Session(id, messages) == [id |-> id, messages |-> messages]

NoTurn == [at |-> "idle", no |-> 0, mode |-> "plain", aborted |-> FALSE,
           copy |-> << >>, card |-> FALSE]

Busy(p) == turn[p].at # "idle"

Others(list, id) == Filter(list, {s \in ToSet(list) : s.id # id})

\* upsertSession: the session just updated first, the oldest beyond the cap dropped.
Upsert(list, s) ==
  LET all == <<s>> \o Others(list, s.id)
  IN SubSeq(all, 1, IF Len(all) < MaxSessions THEN Len(all) ELSE MaxSessions)

Find(list, id) == CHOOSE i \in DOMAIN list : list[i].id = id
Holds(list, id) == \E i \in DOMAIN list : list[i].id = id
IdsOf(list) == {list[i].id : i \in DOMAIN list}

\* trimHistory: from the front, never the last message.
Trim(h) == IF Len(h) > MaxHistory THEN SubSeq(h, Len(h) - MaxHistory + 1, Len(h)) ELSE h

\* persistHistory: an empty conversation is not saved.
Saved(p, h) ==
  IF h = << >> THEN sessions[p] ELSE Upsert(sessions[p], Session(active[p], h))

\* The storage after a save: each panel writes its own list.
Stored(p, h) == IF h = << >> THEN storage ELSE Saved(p, h)

-----------------------------------------------------------------------------
Init ==
  /\ current = 0
  /\ opened = 0
  /\ history = [p \in Panel |-> << >>]
  /\ active = [p \in Panel |-> 0]
  /\ sessions = [p \in Panel |-> << >>]
  /\ turn = [p \in Panel |-> NoTurn]
  /\ picker = [p \in Panel |-> {}]
  /\ storage = << >>
  /\ turns = 0
  /\ ids = 0
  /\ home = [n \in TurnNo |-> 0]
  /\ prompts = {}
  /\ answered = {}
  /\ stopped = {}
  /\ deleted = {}

ghosts == <<home, prompts, answered, stopped, deleted>>

\* loadSessions where nothing is saved: the transcript of the older version, if
\* there is one, becomes a conversation.  It is not written to the storage yet, and
\* stays where the older version left it.
Migrated(id) == IF Legacy = << >> THEN << >> ELSE <<Session(id, Legacy)>>

\* createOrShow and the constructor: resume the most recent saved conversation.
Open ==
  /\ current = 0
  /\ opened < MaxPanels
  /\ LET p == opened + 1
     IN /\ current' = p
        /\ opened' = p
        /\ IF storage = << >>
             THEN /\ ids < MaxIds
                  /\ ids' = ids + 1
                  /\ sessions' = [sessions EXCEPT ![p] = Migrated(ids + 1)]
                  /\ active' = [active EXCEPT ![p] = ids + 1]
                  /\ history' = [history EXCEPT ![p] = Legacy]
             ELSE /\ sessions' = [sessions EXCEPT ![p] = storage]
                  /\ active' = [active EXCEPT ![p] = Head(storage).id]
                  /\ history' = [history EXCEPT ![p] = Head(storage).messages]
                  /\ UNCHANGED ids
  /\ UNCHANGED <<turn, picker, storage, turns, ghosts>>

\* resolvePendingApprovals("deny"): a turn that waits for the user goes on.
Unblocked(t) == IF t.at = "approval" THEN [t EXCEPT !.at = "asking", !.card = FALSE] ELSE t

\* A plausible slip: closing the panel forgets its pending approvals.
CloseForgetsApprovals ==
  /\ current # 0
  /\ picker[current] = {}
  /\ current' = 0
  /\ UNCHANGED <<opened, history, active, sessions, turn, picker, storage, turns,
                 ids, ghosts>>

\* The panel is disposed: approvals are denied, the turn itself goes on.  (The
\* history picker closes when it loses the focus.)
Close ==
  /\ current # 0
  /\ picker[current] = {}
  /\ turn' = [turn EXCEPT ![current] = Unblocked(@)]
  /\ current' = 0
  /\ UNCHANGED <<opened, history, active, sessions, picker, storage, turns, ids, ghosts>>

-----------------------------------------------------------------------------
(* A turn.                                                                  *)

\* submitMessage up to the responder's first await.  A message that begins with
\* a slash command is copied then; any other is read from the live history later.
Submit(p) ==
  /\ p = current
  /\ picker[p] = {}
  /\ ~Busy(p)
  /\ turns < MaxTurns
  /\ turns' = turns + 1
  /\ history' = [history EXCEPT ![p] = Trim(Append(@, User(turns + 1)))]
  /\ \E mode \in Modes : \E slash \in BOOLEAN :
       turn' = [turn EXCEPT ![p] =
                  [at |-> "preparing", no |-> turns + 1, mode |-> mode,
                   aborted |-> FALSE, card |-> FALSE,
                   copy |-> IF slash THEN history'[p] ELSE << >>]]
  /\ home' = [home EXCEPT ![turns + 1] = active[p]]
  /\ UNCHANGED <<current, opened, active, sessions, picker, storage, ids,
                 prompts, answered, stopped, deleted>>

\* The context is collected and the provider is asked; an agent turn that was
\* aborted meanwhile does not get there.
Ask(p) ==
  /\ p = current
  /\ turn[p].at = "preparing"
  /\ turn[p].mode = "agent" => ~turn[p].aborted
  /\ turn' = [turn EXCEPT ![p].at = "asking"]
  /\ prompts' = prompts \union
       {[no |-> turn[p].no, mode |-> turn[p].mode,
         messages |-> IF turn[p].copy # << >> THEN turn[p].copy ELSE history[p]]}
  /\ UNCHANGED <<current, opened, history, active, sessions, picker, storage,
                 turns, ids, home, answered, stopped, deleted>>

\* requestToolApproval, from the tool loop of an agent turn: also after Stop, if
\* a preview was under way (AgentLoop).  On a closed panel it throws.
RequestApproval(p) ==
  /\ p = current
  /\ turn[p].at = "asking"
  /\ turn[p].mode = "agent"
  /\ turn' = [turn EXCEPT ![p].at = "approval", ![p].card = TRUE]
  /\ UNCHANGED <<current, opened, history, active, sessions, picker, storage,
                 turns, ids, ghosts>>

\* A click on the approval card, while the card is in the transcript.
AnswerApproval(p) ==
  /\ p = current
  /\ picker[p] = {}
  /\ turn[p].card
  /\ turn' = [turn EXCEPT ![p] = Unblocked(@)]
  /\ UNCHANGED <<current, opened, history, active, sessions, picker, storage,
                 turns, ids, ghosts>>

\* A plausible slip: the conversation is not saved when the turn ends.
FinishUnsaved(p, h) ==
  /\ history' = [history EXCEPT ![p] = h]
  /\ turn' = [turn EXCEPT ![p] = NoTurn]
  /\ UNCHANGED <<sessions, storage>>

\* The finally block of submitMessage.
Finish(p, h) ==
  /\ history' = [history EXCEPT ![p] = h]
  /\ turn' = [turn EXCEPT ![p] = NoTurn]
  /\ sessions' = [sessions EXCEPT ![p] = Saved(p, h)]
  /\ storage' = Stored(p, h)

\* The responder resolves.  Plain chat never looks at the signal.  On a closed
\* panel an agent's answer cannot be streamed (Fail); a plain one still arrives.
Reply(p) ==
  /\ turn[p].at = "asking"
  /\ turn[p].mode = "agent" => p = current
  /\ Finish(p, Append(history[p], Assistant(turn[p].no)))
  /\ answered' = answered \union {[no |-> turn[p].no, id |-> active[p]]}
  /\ UNCHANGED <<current, opened, active, picker, turns, ids, home, prompts,
                 stopped, deleted>>

\* An agent turn resolves with nothing to persist: stopped before the first
\* completion, or the completion had no message.
ReplyNothing(p) ==
  /\ p = current
  /\ turn[p].mode = "agent"
  /\ \/ turn[p].at = "preparing" /\ turn[p].aborted
     \/ turn[p].at = "asking"
  /\ Finish(p, history[p])
  /\ UNCHANGED <<current, opened, active, picker, turns, ids, ghosts>>

\* The responder rejects: collecting the context failed, the provider failed, or
\* the panel is closed and posting to it throws.
Fail(p) ==
  /\ \/ turn[p].at = "preparing"
     \/ /\ turn[p].at = "asking"
        /\ p = current /\ turn[p].mode = "agent" => ~turn[p].aborted
  /\ Finish(p, IF history[p] # << >> /\ Last(history[p]).role = "user"
                 THEN Front(history[p]) ELSE history[p])
  /\ UNCHANGED <<current, opened, active, picker, turns, ids, ghosts>>

\* The Stop button.
Stop(p) ==
  /\ p = current
  /\ picker[p] = {}
  /\ Busy(p)
  /\ turn' = [turn EXCEPT ![p] = [Unblocked(@) EXCEPT !.aborted = TRUE]]
  /\ stopped' = stopped \union {turn[p].no}
  /\ UNCHANGED <<current, opened, history, active, sessions, picker, storage,
                 turns, ids, home, prompts, answered, deleted>>

-----------------------------------------------------------------------------
(* Conversations.                                                           *)

\* The turn in flight is aborted, if there is one; the transcript is cleared on
\* screen, and with it the approval card.
Cleared(t) == IF t.at = "idle" THEN t ELSE [t EXCEPT !.aborted = TRUE, !.card = FALSE]

\* A plausible slip: New Chat does not save the conversation it leaves.
NewChatUnsaved(p) ==
  /\ p = current
  /\ picker[p] = {}
  /\ ids < MaxIds
  /\ ids' = ids + 1
  /\ turn' = [turn EXCEPT ![p] = Cleared(@)]
  /\ history' = [history EXCEPT ![p] = << >>]
  /\ active' = [active EXCEPT ![p] = ids + 1]
  /\ UNCHANGED <<current, opened, sessions, storage, picker, turns, ghosts>>

\* clearConversation ("New chat").
NewChat(p) ==
  /\ p = current
  /\ picker[p] = {}
  /\ ids < MaxIds
  /\ ids' = ids + 1
  /\ turn' = [turn EXCEPT ![p] = Cleared(@)]
  /\ sessions' = [sessions EXCEPT ![p] = Saved(p, history[p])]
  /\ storage' = Stored(p, history[p])
  /\ history' = [history EXCEPT ![p] = << >>]
  /\ active' = [active EXCEPT ![p] = ids + 1]
  /\ UNCHANGED <<current, opened, picker, turns, ghosts>>

\* openHistory: save, and list what is saved.
OpenHistory(p) ==
  /\ p = current
  /\ picker[p] = {}
  /\ sessions' = [sessions EXCEPT ![p] = Saved(p, history[p])]
  /\ storage' = Stored(p, history[p])
  /\ picker' = [picker EXCEPT ![p] = IdsOf(Saved(p, history[p]))]
  /\ UNCHANGED <<current, opened, history, active, turn, turns, ids, ghosts>>

HidePicker(p) ==
  /\ picker[p] # {}
  /\ picker' = [picker EXCEPT ![p] = {}]
  /\ UNCHANGED <<current, opened, history, active, sessions, turn, storage, turns,
                 ids, ghosts>>

\* A plausible slip: the deletion is not written to the storage.
DeleteInMemory(p, id) ==
  /\ id \in picker[p]
  /\ LET left == Others(sessions[p], id)
     IN /\ sessions' = [sessions EXCEPT ![p] = left]
        /\ picker' = [picker EXCEPT ![p] = IdsOf(left)]
  /\ deleted' = deleted \union {id}
  /\ UNCHANGED <<current, opened, history, active, turn, storage, turns, ids, home,
                 prompts, answered, stopped>>

\* The trash icon of the picker.
Delete(p, id) ==
  /\ id \in picker[p]
  /\ LET left == Others(sessions[p], id)
     IN /\ sessions' = [sessions EXCEPT ![p] = left]
        /\ storage' = left
        /\ picker' = [picker EXCEPT ![p] = IdsOf(left)]
  /\ deleted' = deleted \union {id}
  /\ UNCHANGED <<current, opened, history, active, turn, turns, ids, home, prompts,
                 answered, stopped>>

\* A plausible slip: loading a conversation leaves the turn in flight alone.
LoadWithoutAbort(p, id) ==
  /\ id \in picker[p]
  /\ picker' = [picker EXCEPT ![p] = {}]
  /\ id # active[p]
  /\ Holds(Saved(p, history[p]), id)
  /\ sessions' = [sessions EXCEPT ![p] = Saved(p, history[p])]
  /\ storage' = Stored(p, history[p])
  /\ active' = [active EXCEPT ![p] = id]
  /\ history' = [history EXCEPT ![p] =
                   sessions'[p][Find(sessions'[p], id)].messages]
  /\ UNCHANGED <<current, opened, turn, turns, ids, ghosts>>

\* loadSession: the active one is left alone; another one replaces it, unless it
\* is gone by now.
Load(p, id) ==
  /\ id \in picker[p]
  /\ picker' = [picker EXCEPT ![p] = {}]
  /\ IF id = active[p]
       THEN UNCHANGED <<turn, sessions, storage, active, history>>
       ELSE /\ sessions' = [sessions EXCEPT ![p] = Saved(p, history[p])]
            /\ storage' = Stored(p, history[p])
            /\ IF Holds(sessions'[p], id)
                 THEN /\ turn' = [turn EXCEPT ![p] = Cleared(@)]
                      /\ active' = [active EXCEPT ![p] = id]
                      /\ history' = [history EXCEPT ![p] =
                                       sessions'[p][Find(sessions'[p], id)].messages]
                 ELSE /\ turn' = [turn EXCEPT ![p].aborted = Busy(p)]
                      /\ UNCHANGED <<active, history>>
  /\ UNCHANGED <<current, opened, turns, ids, ghosts>>

-----------------------------------------------------------------------------
\* The responder and the loop behind it.
TurnStep(p) == Ask(p) \/ RequestApproval(p) \/ Reply(p) \/ ReplyNothing(p) \/ Fail(p)

UserStep(p) ==
  \/ Submit(p)
  \/ AnswerApproval(p)
  \/ Stop(p)
  \/ NewChat(p)
  \/ OpenHistory(p)
  \/ HidePicker(p)
  \/ \E id \in Id : Delete(p, id) \/ Load(p, id)

Next == Open \/ Close \/ \E p \in Panel : TurnStep(p) \/ UserStep(p)

Spec == Init /\ [][Next]_vars

\* A turn always takes its next step (AgentLoop bounds how many approvals it can
\* ask for: it cannot ask forever), and the user answers the cards on screen and
\* does not stare at the picker forever.
FairSpec ==
  /\ Spec
  /\ \A p \in Panel :
       /\ WF_vars(TurnStep(p))
       /\ SF_vars(Reply(p) \/ Fail(p))
       /\ SF_vars(AnswerApproval(p))
       /\ WF_vars(HidePicker(p))

-----------------------------------------------------------------------------
(* Properties.                                                              *)

Saves == Seq([id : Id, messages : Seq(Message)])

TypeOK ==
  /\ current \in 0 .. opened
  /\ opened \in 0 .. MaxPanels
  /\ history \in [Panel -> Seq(Message)]
  /\ active \in [Panel -> 0 .. ids]
  /\ sessions \in [Panel -> Saves]
  /\ turn \in [Panel -> [at : {"idle", "preparing", "asking", "approval"},
                         no : 0 .. MaxTurns, mode : {"plain", "agent"},
                         aborted : BOOLEAN, copy : Seq(Message), card : BOOLEAN]]
  /\ picker \in [Panel -> SUBSET Id]
  /\ storage \in Saves
  /\ turns \in 0 .. MaxTurns
  /\ ids \in 0 .. MaxIds
  /\ {home[n] : n \in TurnNo} \subseteq 0 .. ids
  /\ answered \subseteq [no : 1 .. turns, id : Id]
  /\ stopped \subseteq 1 .. turns
  /\ deleted \subseteq 1 .. ids

\* With one panel, what is saved is what the panel believes to be saved: every
\* path that changes the list writes it, but for the first, which takes over the
\* transcript of an older version (chatPanel.ts:610-618, 638, 684).
StorageInStep ==
  MaxPanels = 1 /\ opened = 1 =>
    \/ storage = sessions[1]
    \/ storage = << >> /\ sessions[1] \in {Migrated(id) : id \in Id}

\* Leaving a conversation, mid-turn or not, saves it as it is on screen.
SwitchSavesConversation ==
  [][\A p \in Panel :
       (opened' = opened /\ active'[p] # active[p] /\ history[p] # << >>)
         => Session(active[p], history[p]) \in ToSet(sessions'[p])]_vars

\* The provider of an agent turn is only ever sent the conversation that holds
\* the turn's question, whatever the user switched to while the context was being
\* collected: the switch aborts the turn before the live history is read again.
AgentAsksItsOwnQuestion ==
  \A r \in prompts :
    r.mode = "agent" => r.messages # << >> /\ Last(r.messages) = User(r.no)

\* Of any number of panels: an answer the user got is saved in the conversation it
\* joined, until that is deleted.
AnswersSurvive ==
  \A a \in answered :
    \/ a.id \in deleted
    \/ \E i \in DOMAIN storage :
         storage[i].id = a.id /\ Assistant(a.no) \in ToSet(storage[i].messages)

\* With one panel, an answer the user got stays saved in the conversation it
\* joined until that is deleted -- through switches, failures of later turns and
\* reloads of older conversations, as long as nothing has to be trimmed.
AnswersSaved ==
  (MaxPanels = 1 /\ MaxHistory >= Len(Legacy) + 2 * MaxTurns /\ MaxSessions >= MaxIds)
    => AnswersSurvive

\* A turn waits for the user only on the open panel, and only while it runs.
WaitsOnOpenPanel == \A p \in Panel : turn[p].at = "approval" => p = current

\* Every turn ends, unless the conversation was switched away under its approval
\* card: then it waits for Stop.
Stranded(p) == turn[p].at = "approval" /\ ~turn[p].card
TurnsEnd == \A p \in Panel : Busy(p) ~> (~Busy(p) \/ Stranded(p))

-----------------------------------------------------------------------------
(* What the documentation says, and the code does not do: TLC refutes each   *)
(* when a cfg names it (README.md).                                          *)

\* chatPanel.ts:642: New chat starts "a fresh conversation" -- a conversation
\* holds the messages of the turns that were sent in it.
OwnMessagesOnly ==
  \A i \in DOMAIN storage : \A m \in ToSet(storage[i].messages) :
    m.turn # 0 => home[m.turn] = storage[i].id

\* chatPanel.ts:603: "migrating a legacy single transcript on first run" -- it does
\* not come back once the user has deleted what became of it.
MigratedOnce ==
  [][(opened' # opened /\ deleted # {} /\ history'[opened'] # << >>) => ids' = ids]_vars

\* chatPanel.ts:243: the controller "aborts the in-flight turn when the user hits
\* Stop" -- a turn stopped before the provider was asked does not ask it.
StopAborts ==
  [][\A r \in prompts' \ prompts : r.no \notin stopped]_vars

\* chatPanel.ts:810: "so a retry doesn't stack two user messages with no assistant
\* reply between them".
NoStackedUsers ==
  \A p \in Panel : \A i \in 1 .. Len(history[p]) - 1 :
    ~(history[p][i].role = "user" /\ history[p][i + 1].role = "user")

\* chatPanel.ts:810: a failed turn drops "the optimistic user turn", its own.
FailureDropsOwnQuestion ==
  [][\A p \in Panel :
       (Len(history'[p]) < Len(history[p]) /\ active'[p] = active[p] /\ turns' = turns)
         => Last(history[p]) = User(turn[p].no)]_vars

\* chatPanel.ts:655: "the trash icon deletes it".
DeletedStaysDeleted ==
  [][\A id \in deleted : Holds(storage', id) => Holds(storage, id)]_vars

\* chatPanel.ts:230: "the active one is mirrored in `history`".
ActiveMirrored ==
  \A p \in Panel :
    (p = current /\ ~Busy(p) /\ Holds(sessions[p], active[p]))
      => sessions[p][Find(sessions[p], active[p])].messages = history[p]

=============================================================================
