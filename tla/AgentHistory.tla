---------------------------- MODULE AgentHistory ----------------------------
(***************************************************************************)
(* The transcript a conversation carries from one agent turn to the next:   *)
(* ChatPanel keeps it, trims it from the front, and appends what the turn's *)
(* loop appended; sanitizeToolMessages repairs it before every request.     *)
(* Turns may be stopped with calls unanswered, fail, or reach the iteration *)
(* limit.  The scheduling inside a turn is AgentLoop's subject; here a turn *)
(* is only what it does to the transcript.                                  *)
(***************************************************************************)
EXTENDS Integers, Sequences, SequencesExt, Scans

CONSTANTS
  Sources,            \* how replies name their calls: "structured" or "recovered"
  MaxTurns,           \* bound: user messages sent
  MaxRounds,          \* maxIterations of one turn
  MaxCallsPerReply    \* bound: tool calls in one reply

ASSUME HistoryAssumption ==
  /\ Sources \subseteq {"structured", "recovered"}
  /\ {MaxTurns, MaxRounds, MaxCallsPerReply} \subseteq Nat

VARIABLES
  history,   \* ChatPanel.history, without the system message
  appended,  \* messages of the running turn beyond its seed
  open,      \* ids of the current reply still to be answered
  phase,     \* "idle", "asking" the provider, or working through "calls"
  turns,     \* turns begun
  rounds,    \* replies with calls in the running turn
  nextId     \* the provider's next fresh call id

historyVars == <<history, appended, open, phase, turns, rounds, nextId>>

-----------------------------------------------------------------------------
User == [role |-> "user", calls |-> {}, text |-> TRUE]
Assistant(ids, text) == [role |-> "assistant", calls |-> ids, text |-> text]
Tool(id) == [role |-> "tool", calls |-> {id}, text |-> TRUE]

Responded(h) == UNION {h[i].calls : i \in {j \in DOMAIN h : h[j].role = "tool"}}

\* A plausible slip: a turn with any unanswered call is dropped as a whole.
SanitizeDropsPartial(h) ==
  LET step(acc, m) ==
        CASE m.role = "assistant" /\ m.calls # {} ->
               IF m.calls \subseteq Responded(h)
                 THEN [out |-> Append(acc.out, m), kept |-> acc.kept \union m.calls]
                 ELSE acc
          [] m.role = "tool" ->
               IF m.calls \subseteq acc.kept
                 THEN [acc EXCEPT !.out = Append(@, m)] ELSE acc
          [] OTHER -> [acc EXCEPT !.out = Append(@, m)]
  IN FoldLeft(step, [out |-> << >>, kept |-> {}], h).out

\* A plausible slip: tool messages are kept without looking for their call.
SanitizeKeepsOrphans(h) ==
  LET step(out, m) ==
        IF m.role = "assistant" /\ m.calls # {}
          THEN LET kept == m.calls \cap Responded(h)
               IN IF kept # {} THEN Append(out, [m EXCEPT !.calls = kept])
                  ELSE IF m.text THEN Append(out, Assistant({}, TRUE)) ELSE out
          ELSE Append(out, m)
  IN FoldLeft(step, << >>, h)

\* A plausible slip: a message whose calls are all dropped goes with its text.
SanitizeDropsText(h) ==
  LET step(acc, m) ==
        CASE m.role = "assistant" /\ m.calls # {} ->
               LET kept == m.calls \cap Responded(h)
               IN IF kept # {}
                    THEN [out |-> Append(acc.out, [m EXCEPT !.calls = kept]),
                          kept |-> acc.kept \union kept]
                    ELSE acc
          [] m.role = "tool" ->
               IF m.calls \subseteq acc.kept
                 THEN [acc EXCEPT !.out = Append(@, m)] ELSE acc
          [] OTHER -> [acc EXCEPT !.out = Append(@, m)]
  IN FoldLeft(step, [out |-> << >>, kept |-> {}], h).out

\* One message of the repair: an assistant message keeps the calls some tool
\* message answers; a tool message stays if its call was kept before it.
Repaired(acc, m, responded) ==
  LET kept == m.calls \cap responded
      With(x) == Append(acc.out, x)
  IN CASE m.role = "assistant" /\ kept # {} ->
            [out |-> With([m EXCEPT !.calls = kept]), kept |-> acc.kept \union kept]
       [] m.role = "assistant" /\ m.calls # {} /\ kept = {} ->
            [acc EXCEPT !.out = IF m.text THEN With(Assistant({}, TRUE)) ELSE @]
       [] m.role = "tool" ->
            [acc EXCEPT !.out = IF m.calls \subseteq acc.kept THEN With(m) ELSE @]
       [] OTHER -> [acc EXCEPT !.out = With(m)]

\* The repair of the first n messages, for every n.
Scanned(h) ==
  LET acc[n \in 0 .. Len(h)] ==
        IF n = 0 THEN [out |-> << >>, kept |-> {}]
        ELSE Repaired(acc[n - 1], h[n], Responded(h))
  IN acc

\* sanitizeToolMessages.
Sanitize(h) == Scanned(h)[Len(h)].out

\* What the next completion is asked with.
Request == Sanitize(history) \o appended

-----------------------------------------------------------------------------
HistoryInit ==
  /\ history = << >>
  /\ appended = << >>
  /\ open = << >>
  /\ phase = "idle"
  /\ turns = 0
  /\ rounds = 0
  /\ nextId = 1

\* submitMessage: append the user's message, then trimHistory.  What a message
\* weighs is the text's business: any number of old messages may have to go.
Submit ==
  /\ phase = "idle"
  /\ turns < MaxTurns
  /\ LET longer == Append(history, User)
     IN \E first \in 1 .. Len(longer) : history' = SubSeq(longer, first, Len(longer))
  /\ phase' = "asking"
  /\ turns' = turns + 1
  /\ rounds' = 0
  /\ appended' = << >>
  /\ UNCHANGED <<open, nextId>>

\* The ids of a reply: fresh ones from the provider, or fallback_0, fallback_1,
\* ... (0, -1, ...) given to calls recovered from the content.
ReplyIds(source, n) ==
  [k \in 1 .. n |-> IF source = "structured" THEN nextId + k - 1 ELSE 1 - k]

\* The model asks for tools.  A recovered reply is stored without its text.
ReplyWithCalls ==
  /\ phase = "asking"
  /\ rounds < MaxRounds
  /\ \E source \in Sources : \E n \in 1 .. MaxCallsPerReply : \E text \in BOOLEAN :
       /\ open' = ReplyIds(source, n)
       /\ appended' = Append(appended,
            Assistant(ToSet(ReplyIds(source, n)), text /\ source = "structured"))
       /\ nextId' = IF source = "structured" THEN nextId + n ELSE nextId
  /\ phase' = "calls"
  /\ rounds' = rounds + 1
  /\ UNCHANGED <<history, turns>>

\* The next call is answered -- run, refused, blocked or unknown.
Result ==
  /\ phase = "calls"
  /\ open # << >>
  /\ appended' = Append(appended, Tool(Head(open)))
  /\ open' = Tail(open)
  /\ phase' = IF Len(open) = 1 THEN "asking" ELSE "calls"
  /\ UNCHANGED <<history, turns, rounds, nextId>>

\* The turn resolves: what it appended joins the history.
Persist(messages) ==
  /\ history' = history \o messages
  /\ phase' = "idle"
  /\ appended' = << >>
  /\ open' = << >>
  /\ UNCHANGED <<turns, rounds, nextId>>

\* The model answers without calls, or with no message at all.
FinalAnswer ==
  /\ phase = "asking"
  /\ rounds < MaxRounds
  /\ \/ Persist(Append(appended, Assistant({}, TRUE)))
     \/ Persist(appended)

IterationLimit ==
  /\ phase = "asking"
  /\ rounds = MaxRounds
  /\ Persist(appended)

\* The user hit Stop: the turn resolves where it stands.
Stopped ==
  /\ phase \in {"asking", "calls"}
  /\ Persist(appended)

\* The provider fails: nothing of the turn is kept, nor the user's message if it
\* is still the last one.
Failed ==
  /\ phase = "asking"
  /\ rounds < MaxRounds
  /\ history' = IF history # << >> /\ Last(history).role = "user"
                  THEN Front(history) ELSE history
  /\ phase' = "idle"
  /\ appended' = << >>
  /\ UNCHANGED <<open, turns, rounds, nextId>>

HistoryNext ==
  \/ Submit
  \/ ReplyWithCalls
  \/ Result
  \/ FinalAnswer
  \/ IterationLimit
  \/ Stopped
  \/ Failed

HistorySpec == HistoryInit /\ [][HistoryNext]_historyVars

-----------------------------------------------------------------------------
(* Properties.                                                              *)

Entry == [role : {"user", "assistant", "tool"}, calls : SUBSET Int, text : BOOLEAN]

HistoryTypeOK ==
  /\ history \in Seq(Entry)
  /\ appended \in Seq(Entry)
  /\ open \in Seq(Int)
  /\ phase \in {"idle", "asking", "calls"}
  /\ turns \in 0 .. MaxTurns
  /\ rounds \in 0 .. MaxRounds
  /\ nextId \in Nat

\* The tool messages directly after position i of r.
ResultsAfter(r, i) ==
  {j \in i + 1 .. Len(r) : \A k \in i + 1 .. j : r[k].role = "tool"}

\* Every call of r is answered, once, right after the message that made it, and
\* every tool message answers one.
WellFormed(r) ==
  /\ \A i \in DOMAIN r :
       r[i].role = "assistant" =>
         \A id \in r[i].calls : \E j \in ResultsAfter(r, i) : r[j].calls = {id}
  /\ \A j \in DOMAIN r :
       r[j].role = "tool" =>
         \E i \in 1 .. j - 1 :
           /\ r[i].role = "assistant"
           /\ j \in ResultsAfter(r, i)
           /\ r[j].calls \subseteq r[i].calls
           /\ \A k \in ResultsAfter(r, i) \ {j} : r[k].calls # r[j].calls

\* Whatever trimming cut and however earlier turns ended, the provider is sent
\* only well-formed transcripts (loop.ts:394-402: the APIs reject any other).
RequestsWellFormed == phase = "asking" => WellFormed(Request)

\* The repair costs no work that was done: a call answered in the history is still
\* answered, with its result, in the request -- also beside calls of the same
\* message that Stop left open.
AnsweredCallsSurvive ==
  phase = "asking" =>
    \A i, j \in DOMAIN history :
      (/\ history[i].role = "assistant"
       /\ history[j].role = "tool"
       /\ i < j
       /\ history[j].calls \subseteq history[i].calls)
        => history[j] \in ToSet(Sanitize(history))

\* Who said something, in order, of the messages with text.
Spoken == [role : {"user", "assistant"}, calls : SUBSET Int, text : {TRUE}]
RolesSaid(h) == LET said == Filter(h, Spoken) IN [i \in DOMAIN said |-> said[i].role]

\* The user's words and the model's are never touched by the repair.
TextSurvives == RolesSaid(Sanitize(history)) = RolesSaid(history)

=============================================================================
