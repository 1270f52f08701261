------------------------------ MODULE ChatTurn ------------------------------
(***************************************************************************)
(* The host's half of the conversation on the screen: what chatPanel.ts      *)
(* posts to the webview while a turn runs (submitMessage, the responder of   *)
(* extension.ts, the streaming of chatStreaming.ts, the agent's events) and  *)
(* when a conversation is restored, begun or loaded.                         *)
(*                                                                         *)
(* A text is a sequence of pieces; each remembers its turn and its number in *)
(* it.  The kinds of a piece: "text", "blank", "<think>", "</think>", and     *)
(* "note" for what only the screen gets.  toView is the queue of messages the*)
(* webview has not taken, kept in order.                                     *)
(***************************************************************************)
EXTENDS Integers, Sequences, SequencesExt, Scans

CONSTANTS
  Pieces,       \* what the provider sends, of the kinds above
  Saved,        \* the saved conversations a panel may open with, latest first
  Absent,       \* what may turn out empty of the context: the editor's, the pinned
                \* files, what is retrieved
  MaxPieces,    \* bound: pieces, notes and questions of each turn
  HistoryCap    \* messages a conversation is trimmed to

VARIABLES host, toView

Piece(t, n, is) == [turn |-> t, n |-> n, is |-> is]
Item(role, t, text) == [role |-> role, turn |-> t, text |-> text]
Msg(type, t, text) == [type |-> type, turn |-> t, text |-> text]

Sent == {"text", "blank", "<think>", "</think>"}
PieceSet == [turn : Nat, n : Nat, is : Sent \cup {"note"}]
ItemSet == [role : {"system", "user", "assistant", "tool"}, turn : Nat, text : Seq(PieceSet)]

\* What is restored was said before any turn (0), and a message that neither the
\* user nor the assistant said has no text.
Restored(m) ==
  /\ m.turn = 0
  /\ \A i \in DOMAIN m.text : m.text[i].turn = 0
  /\ m.role \in {"user", "assistant"} \/ m.text = << >>

ASSUME TurnAssumption ==
  /\ Pieces \subseteq Sent
  /\ \A saved \in Saved :
       /\ saved \in Seq(Seq(ItemSet)) /\ saved # << >>
       /\ \A c \in DOMAIN saved : \A i \in DOMAIN saved[c] : Restored(saved[c][i])
  /\ HistoryCap \in Nat \ {0}

\* held: bufferedText; emitted: didEmitChunk; caught: a completion that fails is
\* caught by the stream's own handler; waiting: the approval that is pending.
NoTurn == [phase |-> "idle", id |-> 0, options |-> << >>, n |-> 0, text |-> << >>,
           held |-> << >>, emitted |-> FALSE, started |-> FALSE, reasoned |-> FALSE,
           caught |-> FALSE, retried |-> FALSE, tooled |-> FALSE, waiting |-> 0, preview |-> {}, request |-> {}]

\* open: the webview will have a bubble that is not finalized.  facts: per turn,
\* what was asked.  odd: turns whose screen is known to differ (see Properties).
HostInit ==
  /\ \E saved \in Saved :
       host = [chat |-> 1, store |-> saved, history |-> saved[1], restored |-> saved[1],
               plan |-> FALSE, agent |-> FALSE, replayed |-> FALSE, turn |-> NoTurn,
               facts |-> << >>, open |-> FALSE, odd |-> {}]
  /\ toView = << >>

Solid(p) == p.is # "blank"
Trimmed(text) == SubSeq(text, SelectInSeq(text, Solid), SelectLastInSeq(text, Solid))

\* splitThink, of the webview, piece by piece: the answer, without what is thought;
\* inside: the last thought is still open.
ThinkStep(s, p) ==
  IF s.inside THEN [s EXCEPT !.inside = p.is # "</think>"]
  ELSE IF p.is = "<think>" THEN [s EXCEPT !.inside = TRUE]
  ELSE [s EXCEPT !.answer = Append(@, p)]

Thinking(text) ==
  LET s[n \in 0 .. Len(text)] ==
        IF n = 0 THEN [inside |-> FALSE, answer |-> << >>] ELSE ThinkStep(s[n - 1], text[n])
  IN s

SplitThink(text) == Thinking(text)[Len(text)]

\* trimHistory: from the front, never the last message.
Trim(h) == IF Len(h) > HistoryCap THEN SubSeq(h, Len(h) - HistoryCap + 1, Len(h)) ELSE h

\* persistHistory: an empty conversation is not stored.
Persisted(h) == IF h = << >> THEN host.store ELSE [host.store EXCEPT ![host.chat] = h]

Running == host.turn.phase # "idle"

\* submitMessage, up to the responder.  options: of the message, or of an action.
Submit(options) ==
  LET t == Len(host.facts) + 1
  IN /\ ~Running
     /\ host' = [host EXCEPT
          !.turn = [NoTurn EXCEPT !.phase = "prepare", !.id = t, !.options = options],
          !.history = Trim(Append(@, Item("user", t, <<Piece(t, 0, "text")>>))),
          !.facts = Append(@, [send |-> options.send, approval |-> options.approval, plan |-> FALSE]),
          !.odd = IF host.replayed \/ host.restored = << >> THEN @ ELSE @ \cup {0, t}]
     /\ toView' = toView \o <<Msg("busy", t, << >>), Msg("user", t, <<Piece(t, 0, "text")>>)>>

\* hasIdeContext: what is retrieved does not count.
HasIdeContext(context) == context \cap {"editor", "pins"} # {}

\* What the turn may carry.  always: the setting alwaysRetrieve, by now.
ContextSet(o, always) ==
  (IF o.include \/ o.given THEN {"editor"} ELSE {})
    \cup (IF o.pinned THEN {"pins"} ELSE {})
    \cup (IF o.workspace \/ always THEN {"retrieved"} ELSE {})

\* The responder: the context is collected, shown (buildContextPreview) and, when
\* there is any, put in front of the request.
Prepared ==
  LET t == host.turn.id
      o == host.turn.options
  IN /\ host.turn.phase = "prepare"
     /\ \E always \in BOOLEAN : \E gone \in SUBSET Absent :
          LET context == ContextSet(o, always) \ (IF o.given THEN gone \ {"editor"} ELSE gone)
          IN host' = [host EXCEPT
               !.turn.phase = IF o.agent THEN "agent" ELSE "stream",
               !.turn.options = << >>,
               !.facts[t].plan = o.plan /\ ~o.approval,
               !.turn.preview = context,
               !.turn.request = IF HasIdeContext(context) THEN context ELSE {}]
     /\ toView' = Append(toView, Msg("preview", t, << >>))

-----------------------------------------------------------------------------
(* onChunk, and how a turn ends.                                             *)

\* onChunk: the bubble is started once; then the chunk.
OnChunk(type, text) ==
  toView \o (IF host.turn.started THEN << >> ELSE <<Msg("start", host.turn.id, << >>)>>)
         \o <<Msg(type, host.turn.id, text)>>

\* An answer whose bubble will not show it: it is written into the bubble that a
\* failed turn left open; it follows reasoning that was streamed alone; one of the
\* agent's messages leaves a thought open, which hides the next ones.
Unshown(t) ==
  \/ ~t.started /\ host.open
  \/ t.started /\ t.phase = "complete"
  \/ /\ t.phase = "agent"
     /\ \E i \in 1 .. Len(t.text) - 1 : SplitThink(SubSeq(t.text, 1, i)).inside

\* What is kept, and what is posted at once when nothing was streamed.
Replies(items, response) ==
  LET t == host.turn
      h == host.history \o items
  IN /\ host' = [host EXCEPT
          !.turn = NoTurn, !.history = h, !.store = Persisted(h), !.open = FALSE,
          !.odd = IF Unshown(t) THEN @ \cup {t.id} ELSE @]
     /\ toView' = toView \o << IF t.started THEN Msg("done", t.id, << >>)
                                ELSE Msg("assistant", t.id, response),
                                Msg("idle", t.id, << >>) >>

\* The question is dropped, if it is still the last message.
Fails ==
  LET h == host.history
      pops == h # << >> /\ Last(h).role = "user"
      kept == IF pops THEN Front(h) ELSE h
  IN /\ host' = [host EXCEPT
          !.turn = NoTurn, !.history = kept, !.store = Persisted(kept),
          !.odd = @ \cup {host.turn.id} \cup (IF pops THEN {Last(h).turn} ELSE {})]
     /\ toView' = toView \o <<Msg("error", host.turn.id, << >>), Msg("idle", host.turn.id, << >>)>>

PrepareFails == host.turn.phase = "prepare" /\ Fails

-----------------------------------------------------------------------------
(* Plain chat: resolveAssistantResponse, completeAssistantText.              *)

Streaming == host.turn.phase = "stream"

Reasoning ==
  /\ Streaming
  /\ ~host.turn.reasoned
  /\ host' = [host EXCEPT !.turn.reasoned = TRUE, !.turn.started = TRUE, !.open = TRUE]
  /\ toView' = OnChunk("reasoning", << >>)

\* Blanks in front are held back until there is text.  (Others are not told apart
\* from text, and left out.)
Content ==
  LET t == host.turn
  IN /\ Streaming
     /\ t.n < MaxPieces[t.id]
     /\ \E is \in IF t.emitted THEN Pieces \ {"blank"} ELSE Pieces :
          LET p == Piece(t.id, t.n + 1, is)
              out == Append(t.held, p)
              emits == t.emitted \/ Solid(p)
          IN /\ host' = [host EXCEPT
                  !.turn.n = @ + 1, !.turn.text = Append(@, p), !.turn.emitted = emits,
                  !.turn.held = IF emits THEN << >> ELSE out,
                  !.turn.started = @ \/ emits, !.open = @ \/ emits]
             /\ toView' = IF emits THEN OnChunk("delta", out) ELSE toView

StreamEnds ==
  LET t == host.turn
  IN /\ Streaming
     /\ IF \E i \in DOMAIN t.text : Solid(t.text[i])
          THEN Replies(<<Item("assistant", t.id, Trimmed(t.text))>>, Trimmed(t.text))
          ELSE /\ host' = [host EXCEPT !.turn.phase = "complete", !.turn.caught = TRUE]
               /\ UNCHANGED toView

StreamThrows ==
  /\ Streaming
  /\ IF host.turn.text # << >>
       THEN Fails
       ELSE /\ host' = [host EXCEPT !.turn.phase = "complete"]
            /\ UNCHANGED toView

\* The answer that is not streamed.  When reasoning was, a bubble was started, and
\* the answer is kept but not posted.
Completed(is) ==
  LET t == host.turn
      text == <<Piece(t.id, t.n + 1, is)>>
  IN Replies(<<Item("assistant", t.id, text)>>, text)

\* A text, or none: then once more with more tokens if the limit was reached, or
\* the message that there was none.
Completes ==
  /\ host.turn.phase = "complete"
  /\ \/ \E is \in Pieces \ {"blank"} : Completed(is)
     \/ /\ ~host.turn.retried
        /\ host' = [host EXCEPT !.turn.retried = TRUE]
        /\ UNCHANGED toView

\* Inside the stream's try, with no text at all, it is asked for a second time.
CompletionThrows ==
  /\ host.turn.phase = "complete"
  /\ IF host.turn.caught /\ host.turn.text = << >>
       THEN /\ host' = [host EXCEPT !.turn.caught = FALSE, !.turn.retried = FALSE]
            /\ UNCHANGED toView
       ELSE Fails

-----------------------------------------------------------------------------
(* Agent turns: the loop's events (emitEvent), its approvals, what it keeps. *)

Working == host.turn.phase = "agent" /\ host.turn.waiting = 0

AgentChunk(is) ==
  LET t == host.turn
      p == Piece(t.id, t.n + 1, is)
  IN /\ Working
     /\ t.n < MaxPieces[t.id]
     /\ host' = [host EXCEPT
          !.turn.n = @ + 1, !.turn.text = IF is = "note" THEN @ ELSE Append(@, p),
          !.turn.tooled = @ \/ is = "note", !.turn.started = TRUE, !.open = TRUE]
     /\ toView' = OnChunk("delta", <<p>>)

Narrates == \E is \in Pieces \ {"blank"} : AgentChunk(is)
Notes == AgentChunk("note")

\* requestToolApproval.
AsksApproval ==
  LET t == host.turn
  IN /\ Working
     /\ t.n < MaxPieces[t.id]
     /\ host' = [host EXCEPT !.turn.n = @ + 1, !.turn.waiting = t.n + 1, !.turn.tooled = TRUE]
     /\ toView' = Append(toView, Msg("card", t.id, <<Piece(t.id, t.n + 1, "note")>>))

\* Each narration is a message of its own; those of the tools show nothing.
AgentEnds ==
  LET t == host.turn
      said == [i \in DOMAIN t.text |-> Item("assistant", t.id, <<t.text[i]>>)]
  IN /\ Working
     /\ Replies((IF t.tooled THEN <<Item("tool", t.id, << >>)>> ELSE << >>) \o said,
                IF t.text = << >> THEN << >> ELSE <<Last(t.text)>>)

AgentThrows == Working /\ Fails

TurnStep ==
  \/ Prepared \/ PrepareFails
  \/ Reasoning \/ Content \/ StreamEnds \/ StreamThrows \/ Completes \/ CompletionThrows
  \/ Narrates \/ Notes \/ AsksApproval \/ AgentEnds \/ AgentThrows

-----------------------------------------------------------------------------
(* Conversations.                                                            *)

\* Only what has text and was said by the user or the assistant is replayed.
Replay(h) ==
  LET said == Filter(h, {m \in ToSet(h) : m.role \in {"user", "assistant"} /\ m.text # << >>})
  IN [i \in DOMAIN said |->
        Msg(IF said[i].role = "user" THEN "user" ELSE "assistant", said[i].turn, said[i].text)]

\* replayRestoredHistory: once.
Ready == IF host.replayed THEN << >> ELSE Replay(host.restored)

Switched(chat, h, store) ==
  [host EXCEPT !.chat = chat, !.history = h, !.store = store, !.open = FALSE,
               !.odd = @ \cup (IF Running THEN {host.turn.id} ELSE {})
                         \cup (IF host.replayed THEN {} ELSE {0})]

\* clearConversation.
NewChat ==
  LET store == Persisted(host.history)
  IN /\ host' = Switched(Len(store) + 1, << >>, Append(store, << >>))
     /\ toView' = Append(toView, Msg("clear", 0, << >>))

\* openHistory and loadSession.
LoadSession ==
  LET store == Persisted(host.history)
  IN \E chat \in DOMAIN store \ {host.chat} :
       /\ store[chat] # << >>
       /\ host' = Switched(chat, store[chat], store)
       /\ toView' = toView \o <<Msg("clear", 0, << >>)>> \o Replay(store[chat])
=============================================================================
