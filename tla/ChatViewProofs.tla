--------------------------- MODULE ChatViewProofs ---------------------------
(***************************************************************************)
(* What the chat panel's webview and its host keep in step, for any texts,   *)
(* pieces, saved conversations and order of messages: the screen shows what  *)
(* the host keeps, Stop and the cards are there while they are needed, the   *)
(* modes and the row agree.                                                  *)
(***************************************************************************)
EXTENDS ChatScreenProofs

-----------------------------------------------------------------------------
(* What is kept, of a host h and a view v.                                   *)

\* What is known of the modes of a message of the composer, on its way or in flight.
Planned(m, v) ==
  /\ m.send <= v.sends
  /\ m.send = v.sends /\ m.send > 0 => m.plan = v.pendingPlan

\* The turns that may have an answer: those whose context was collected.
Turns(h) == 0 .. Len(h.facts)
Preparing(h, t) == h.turn.phase = "prepare" /\ h.turn.id = t
Begun(h, v) ==
  {t \in Turns(h) :
     t > 0 => ~Preparing(h, t) /\ (~h.facts[t].approval => Planned(h.facts[t], v))}

\* A message kept: its pieces are of its turn, and an answer's turn has begun.
Kept(m, h, v) ==
  /\ m.turn \in Turns(h)
  /\ Of(m.text, {m.turn})
  /\ m.role = "assistant" => m.turn \in Begun(h, v)
  /\ m.role \notin {"user", "assistant"} => m.text = << >>

AllKept(list, h, v) == \A i \in DOMAIN list : Kept(list[i], h, v)

Lists(h, v) ==
  /\ AllKept(h.history, h, v)
  /\ \A c \in DOMAIN h.store : AllKept(h.store[c], h, v)
  /\ \A i \in DOMAIN h.restored : Restored(h.restored[i])

\* The turn in flight.
Busy(h) == h.turn.phase # "idle"
Flight(h, v) ==
  LET t == h.turn
  IN /\ Busy(h) => t.id = Len(h.facts) /\ t.id > 0 /\ (t.phase = "prepare" \/ t.id \in Begun(h, v))
     /\ ~Busy(h) => t = NoTurn
     /\ Of(t.text, {t.id}) /\ Of(t.held, {t.id})
     /\ t.phase = "prepare" => ~t.started /\ t.text = << >> /\ t.held = << >> /\ ~t.emitted
     /\ t.phase = "stream" =>
          /\ t.emitted => t.started /\ t.held = << >>
          /\ ~t.emitted => t.held = t.text /\ \A i \in DOMAIN t.text : t.text[i].is = "blank"
          /\ \A i, j \in DOMAIN t.text : i < j /\ t.text[j].is = "blank" => t.text[i].is = "blank"
     /\ t.phase = "agent" =>
          /\ ~t.started => t.text = << >>
          /\ \A i \in DOMAIN t.text : t.text[i].is # "note"

-----------------------------------------------------------------------------
(* What is on the screen.                                                    *)

Told(h) == Said(h.history, h.odd)
Reading(h, v) == Telling(OnScreen(v.bubbles), h.odd)

\* What the bubble of the turn in flight shows of it.
Spoken(text) == Filter(text, {p \in PieceSet : p.is # "note"})

Streams(h, text) ==
  LET t == h.turn
  IN /\ Of(text, {t.id})
     /\ t.phase = "stream" => text = IF t.emitted THEN t.text ELSE << >>
     /\ t.phase = "agent" => Spoken(text) = t.text

Streamed(h) == Busy(h) /\ h.turn.started /\ h.turn.id \notin h.odd

InStep(h, v) ==
  IF Streamed(h)
    THEN /\ v.active # 0
         /\ Ends(Told(h), Reading(h, v)[v.active - 1])
         /\ \A i \in DOMAIN v.bubbles :
              i > v.active => v.bubbles[i].kind \notin {"user", "assistant"}
         /\ Streams(h, v.bubbles[v.active].text)
    ELSE /\ Ends(Told(h), Reading(h, v)[Len(v.bubbles)])
         /\ v.active # 0 => Of(v.bubbles[v.active].text, h.odd)

\* A restored conversation that is not on the screen yet.
Waits(h) == ~h.replayed /\ h.restored # << >>
Untouched(h, v) ==
  Waits(h) /\ h.facts = << >> /\ h.history = h.restored /\ v.bubbles = << >> /\ v.active = 0

Screen(h, v) ==
  /\ v.active # 0 => h.open
  /\ \A i \in DOMAIN v.bubbles : Of(v.bubbles[i].text, Turns(h))
  /\ v.busy = Busy(h)
  /\ Untouched(h, v) \/ InStep(h, v)
  /\ Waits(h) => Untouched(h, v) \/ Turns(h) \subseteq h.odd

\* The card of the approval that is awaited, or its answer on the way.
IsCard(b, t, n) == b.kind = "card" /\ b.turn = t /\ b.text # << >> /\ b.text[1].n = n
Approval(t, n) == [type |-> "approval", turn |-> t, n |-> n]

Cards(h, v, queue) ==
  h.turn.waiting > 0 /\ h.turn.id \notin h.odd =>
    \/ \E i \in DOMAIN v.bubbles : IsCard(v.bubbles[i], h.turn.id, h.turn.waiting)
    \/ \E i \in DOMAIN queue : queue[i] = Approval(h.turn.id, h.turn.waiting)

\* What makes Respond post the number of a card.
Numbered(v, queue) ==
  /\ \A i \in DOMAIN v.bubbles : v.bubbles[i].kind = "card" => v.bubbles[i].text # << >>
  /\ \A i \in DOMAIN queue : queue[i].type = "card" => queue[i].text # << >>

-----------------------------------------------------------------------------
(* The modes, the row, the preview.                                          *)

Modes(h, v, queue) ==
  v.mounted /\ ~v.approved =>
    /\ \A i \in DOMAIN queue :
         queue[i].type = "uiState" /\ (\A j \in DOMAIN queue : queue[j].type = "uiState" => j <= i) =>
           queue[i].plan = v.plan /\ queue[i].agent = v.agent
    /\ (\A i \in DOMAIN queue : queue[i].type # "uiState") => h.plan = v.plan /\ h.agent = v.agent

Plans(h, v, queue) ==
  /\ \A i \in DOMAIN queue : queue[i].type = "send" => Planned(queue[i], v)
  /\ h.turn.phase = "prepare" =>
       /\ Planned(h.turn.options, v)
       /\ h.facts[h.turn.id].send = h.turn.options.send
       /\ h.facts[h.turn.id].approval = h.turn.options.approval
  /\ \A t \in DOMAIN h.facts : h.facts[t].send <= v.sends

Rows(h, v, queue) ==
  /\ v.last \in Begun(h, v)
  /\ \A i \in DOMAIN queue : queue[i].type \in {"done", "assistant"} => queue[i].turn \in Begun(h, v)
  /\ v.last > 0 /\ v.sends > 0 /\ h.facts[v.last].send = v.sends => v.lastPlan = v.pendingPlan

Previews(h) == h.turn.preview # {"retrieved"} => h.turn.request = h.turn.preview

\* queue: messages on their way to the webview; answers: those on their way back.
Fits(h, v, queue, answers) ==
  /\ TypesFit(h, v, queue, answers) /\ Lists(h, v) /\ Flight(h, v)
  /\ Screen(h, Shows(v, queue)) /\ Cards(h, Shows(v, queue), answers)
  /\ Numbered(v, queue)
  /\ Modes(h, v, answers) /\ Plans(h, v, answers) /\ Rows(h, v, queue)
  /\ Previews(h)

ViewInv == Fits(host, view, toView, toHost)

-----------------------------------------------------------------------------
(* What the screen says when a bubble is added or written to.                *)

Scroll(v, odd) == Telling(OnScreen(v.bubbles), odd)
Quiet(kind) == kind \notin {"user", "assistant"}

\* What the screen says up to a bubble that only silent ones follow.
LEMMA ScrollIs ==
  ASSUME NEW v \in ViewSet, NEW odd
  PROVE  /\ \A n \in 0 .. Len(v.bubbles) : Scroll(v, odd)[n] \in Seq(PieceSet)
         /\ \A k \in 1 .. Len(v.bubbles) :
              (\A i \in 1 .. Len(v.bubbles) : i > k => Quiet(v.bubbles[i].kind)) =>
                Scroll(v, odd)[Len(v.bubbles)] =
                  Scroll(v, odd)[k - 1] \o Heard(OnScreen(v.bubbles)[k], odd)
         /\ \A k \in 1 .. Len(v.bubbles) :
              /\ v.bubbles[k].kind = "assistant" =>
                   Heard(OnScreen(v.bubbles)[k], odd) =
                     Filter(SplitThink(v.bubbles[k].text).answer, Loud(odd))
              /\ Of(v.bubbles[k].text, odd) => Heard(OnScreen(v.bubbles)[k], odd) = << >>
<1>1. PICK s, list, f, N : /\ s = v.bubbles /\ list = OnScreen(s) /\ f = Scroll(v, odd)
                           /\ N = Len(s)
  OBVIOUS
<1>2. s \in Seq(BubbleSet) /\ N \in Nat
  BY <1>1, ViewFields
<1>3. /\ f \in [0 .. N -> Seq(PieceSet)] /\ f[0] = << >>
      /\ \A n \in 1 .. N : f[n] = f[n - 1] \o Heard(list[n], odd)
      /\ \A n \in 1 .. N :
           Of(s[n].text, odd) \/ s[n].kind \notin {"user", "assistant"} => Heard(list[n], odd) = << >>
      /\ \A n \in 1 .. N :
           s[n].kind = "assistant" => Heard(list[n], odd) = Filter(SplitThink(s[n].text).answer, Loud(odd))
  BY <1>1, <1>2, ReadingIs DEF Scroll
<1>4. ASSUME NEW k \in 1 .. N, \A i \in 1 .. N : i > k => Quiet(s[i].kind)
      PROVE  f[N] = f[k - 1] \o Heard(list[k], odd)
  <2>1. /\ list \in Seq(LineSet) /\ Len(list) = N /\ k \in 0 .. N
    BY <1>1, <1>2, OnScreenIs
  <2>2. \A i \in 1 .. N : i > k => Heard(list[i], odd) = << >>
    BY <1>3, <1>4 DEF Quiet
  <2>3. Said(list, odd) = f[k] /\ Said(list, odd) = f[N]
    <3>1. Said(list, odd) = Telling(list, odd)[k]
      BY <2>1, <2>2, TellingRest
    <3>2. Said(list, odd) = Telling(list, odd)[Len(list)]
      BY DEF Said
    <3>3. QED
      BY <1>1, <2>1, <3>1, <3>2 DEF Scroll
  <2>4. f[k] = f[k - 1] \o Heard(list[k], odd)
    BY <1>3
  <2>5. QED
    BY <2>3, <2>4
<1>5. QED
  BY <1>1, <1>3, <1>4

LEMMA ScrollAdded ==
  ASSUME NEW v \in ViewSet, NEW w \in ViewSet, NEW kind \in Kinds, NEW t \in Nat,
         NEW x \in Seq(PieceSet), Added(v, w, NewBubble(kind, t, x)), NEW odd
  PROVE  /\ Len(w.bubbles) = Len(v.bubbles) + 1
         /\ \A i \in 1 .. Len(v.bubbles) : w.bubbles[i] = v.bubbles[i]
         /\ w.bubbles[Len(w.bubbles)].kind = kind
         /\ w.bubbles[Len(w.bubbles)].turn = t
         /\ w.bubbles[Len(w.bubbles)].text = x
         /\ \A n \in 0 .. Len(v.bubbles) : Scroll(w, odd)[n] = Scroll(v, odd)[n]
         /\ Scroll(w, odd)[Len(w.bubbles)] =
              Scroll(v, odd)[Len(v.bubbles)] \o Heard(Item(kind, t, x), odd)
<1>1. PICK b, p, q, N, lp, lq, f, g :
        /\ b = NewBubble(kind, t, x) /\ p = v.bubbles /\ q = w.bubbles /\ N = Len(p)
        /\ lp = OnScreen(p) /\ lq = OnScreen(q) /\ f = Scroll(v, odd) /\ g = Scroll(w, odd)
  OBVIOUS
<1>2. b \in BubbleSet /\ b.kind = kind /\ b.turn = t /\ b.text = x
  BY <1>1, NewBubbleIs
<1>3. p \in Seq(BubbleSet) /\ q \in Seq(BubbleSet) /\ q = Append(p, b) /\ N \in Nat
  BY <1>1, ViewFields DEF Added
<1>4. Len(q) = N + 1 /\ q[N + 1] = b /\ \A i \in 1 .. N : q[i] = p[i]
  BY <1>1, <1>3
<1>5. /\ lp \in Seq(LineSet) /\ Len(lp) = N
      /\ \A i \in 1 .. N : lp[i] = Item(p[i].kind, p[i].turn, p[i].text)
  BY <1>1, <1>3, OnScreenIs
<1>6. /\ lq \in Seq(LineSet) /\ Len(lq) = N + 1
      /\ \A i \in 1 .. N + 1 : lq[i] = Item(q[i].kind, q[i].turn, q[i].text)
  BY <1>1, <1>3, <1>4, OnScreenIs
<1>7. ASSUME NEW i \in 1 .. N PROVE lq[i] = lp[i]
  <2>1. i \in 1 .. N + 1
    BY <1>3
  <2>2. lq[i] = Item(q[i].kind, q[i].turn, q[i].text)
    BY <1>6, <2>1
  <2>3. q[i] = p[i]
    BY <1>4
  <2>4. lp[i] = Item(p[i].kind, p[i].turn, p[i].text)
    BY <1>5
  <2>5. QED
    BY <2>2, <2>3, <2>4
<1>8. \A n \in 0 .. N : g[n] = f[n]
  <2>1. N <= Len(lp) /\ N <= Len(lq) /\ \A i \in 1 .. N : Heard(lq[i], odd) = Heard(lp[i], odd)
    BY <1>3, <1>5, <1>6, <1>7
  <2>2. \A n \in 0 .. N : Telling(lq, odd)[n] = Telling(lp, odd)[n]
    <3>1. lp \in Seq(LineSet) /\ lq \in Seq(LineSet) /\ N \in Nat
      BY <1>3, <1>5, <1>6
    <3>2. QED
      BY <2>1, <3>1, TellingSame
  <2>3. QED
    BY <1>1, <2>2 DEF Scroll
<1>9. g[N + 1] = g[N] \o Heard(lq[N + 1], odd)
  <2>1. \A n \in 1 .. Len(q) : g[n] = g[n - 1] \o Heard(lq[n], odd)
    BY <1>1, <1>3, ReadingIs DEF Scroll
  <2>2. N + 1 \in 1 .. Len(q) /\ (N + 1) - 1 = N
    BY <1>3, <1>4
  <2>3. QED
    BY <2>1, <2>2
<1>10. lq[N + 1] = Item(kind, t, x) /\ g[N] = f[N]
  BY <1>2, <1>3, <1>4, <1>6, <1>8
<1>11. QED
  BY <1>1, <1>2, <1>4, <1>8, <1>9, <1>10

LEMMA ScrollLast ==
  ASSUME NEW v \in ViewSet, NEW w \in ViewSet, NEW kind \in Kinds, NEW t \in Nat,
         NEW x \in Seq(PieceSet), Added(v, w, NewBubble(kind, t, x)), NEW odd
  PROVE  Scroll(w, odd)[Len(w.bubbles)] =
           Scroll(v, odd)[Len(v.bubbles)] \o Heard(Item(kind, t, x), odd)
BY ScrollAdded

LEMMA ScrollWrote ==
  ASSUME NEW v \in ViewSet, NEW w \in ViewSet, NEW k \in 1 .. Len(v.bubbles),
         NEW x \in Seq(PieceSet), Wrote(v, w, k, x), NEW odd
  PROVE  /\ \A n \in 0 .. k - 1 : Scroll(w, odd)[n] = Scroll(v, odd)[n]
         /\ Of(v.bubbles[k].text, odd) /\ Of(x, odd) =>
              \A n \in 0 .. Len(v.bubbles) : Scroll(w, odd)[n] = Scroll(v, odd)[n]
<1>1. PICK p, q, N, lp, lq :
        /\ p = v.bubbles /\ q = w.bubbles /\ N = Len(p) /\ lp = OnScreen(p) /\ lq = OnScreen(q)
  OBVIOUS
<1>2. p \in Seq(BubbleSet) /\ q \in Seq(BubbleSet) /\ N \in Nat
  BY <1>1, ViewFields
<1>3. /\ Len(q) = N
      /\ \A i \in 1 .. N : /\ q[i].kind = p[i].kind /\ q[i].turn = p[i].turn
                           /\ q[i].text = IF i = k THEN x ELSE p[i].text
  BY <1>1 DEF Wrote
<1>4. /\ lp \in Seq(LineSet) /\ Len(lp) = N
      /\ \A i \in 1 .. N : lp[i] = Item(p[i].kind, p[i].turn, p[i].text)
  BY <1>1, <1>2, OnScreenIs
<1>5. /\ lq \in Seq(LineSet) /\ Len(lq) = N
      /\ \A i \in 1 .. N : lq[i] = Item(q[i].kind, q[i].turn, q[i].text)
  BY <1>1, <1>2, <1>3, OnScreenIs
<1>6. ASSUME NEW i \in 1 .. N, i # k PROVE lq[i] = lp[i]
  BY <1>3, <1>4, <1>5, <1>6
<1>7. \A n \in 0 .. k - 1 : Telling(lq, odd)[n] = Telling(lp, odd)[n]
  <2>1. PICK K : K = k - 1
    OBVIOUS
  <2>2. /\ K \in Nat /\ K <= Len(lp) /\ K <= Len(lq)
        /\ \A i \in 1 .. K : i \in 1 .. N /\ i # k
    BY <1>1, <1>2, <1>4, <1>5, <2>1
  <2>3. \A i \in 1 .. K : Heard(lq[i], odd) = Heard(lp[i], odd)
    BY <1>6, <2>2
  <2>4. \A n \in 0 .. K : Telling(lq, odd)[n] = Telling(lp, odd)[n]
    <3>1. lp \in Seq(LineSet) /\ lq \in Seq(LineSet)
      BY <1>4, <1>5
    <3>2. QED
      BY <2>2, <2>3, <3>1, TellingSame
  <2>5. QED
    BY <2>1, <2>4
<1>8. ASSUME Of(p[k].text, odd), Of(x, odd)
      PROVE  \A n \in 0 .. N : Telling(lq, odd)[n] = Telling(lp, odd)[n]
  <2>1. q[k].text = x
    BY <1>1, <1>3
  <2>2. Heard(lq[k], odd) = << >> /\ Heard(lp[k], odd) = << >>
    BY <1>1, <1>3, <1>8, <2>1, ScrollIs
  <2>3. \A i \in 1 .. N : Heard(lq[i], odd) = Heard(lp[i], odd)
    BY <1>6, <2>2
  <2>4. N <= Len(lp) /\ N <= Len(lq)
    BY <1>2, <1>4, <1>5
  <2>5. QED
    <3>1. lp \in Seq(LineSet) /\ lq \in Seq(LineSet)
      BY <1>4, <1>5
    <3>2. QED
      BY <1>2, <2>3, <2>4, <3>1, TellingSame
<1>9. QED
  BY <1>1, <1>7, <1>8 DEF Scroll

\* With more turns left out.
LEMMA ScrollOdd ==
  ASSUME NEW v \in ViewSet, NEW odd, NEW more, odd \subseteq more
  PROVE  \A n \in 0 .. Len(v.bubbles) : Scroll(v, more)[n] = Filter(Scroll(v, odd)[n], Loud(more))
<1>1. v.bubbles \in Seq(BubbleSet)
  BY ViewFields
<1>2. OnScreen(v.bubbles) \in Seq(LineSet) /\ Len(OnScreen(v.bubbles)) = Len(v.bubbles)
  BY <1>1, OnScreenIs
<1>3. QED
  BY <1>2, TellingOdd DEF Scroll

-----------------------------------------------------------------------------
(* The screen while a turn runs: host h, host g after a step, webview v, w.   *)

LEMMA HostFields ==
  ASSUME NEW h \in HostSet
  PROVE  /\ h.history \in Seq(ItemSet) /\ h.restored \in Seq(ItemSet) /\ h.store \in Seq(Seq(ItemSet))
         /\ h.chat \in Nat /\ h.odd \subseteq Nat
         /\ h.plan \in BOOLEAN /\ h.agent \in BOOLEAN /\ h.replayed \in BOOLEAN /\ h.open \in BOOLEAN
         /\ h.facts \in Seq(FactSet) /\ Len(h.facts) \in Nat
         /\ h.turn \in TurnSet /\ h.turn.id \in Nat /\ h.turn.n \in Nat /\ h.turn.waiting \in Nat
         /\ h.turn.text \in Seq(PieceSet) /\ h.turn.held \in Seq(PieceSet) /\ h.turn.phase \in Phases
         /\ h.turn.started \in BOOLEAN /\ h.turn.emitted \in BOOLEAN
<1>1. /\ h.history \in Seq(ItemSet) /\ h.restored \in Seq(ItemSet) /\ h.store \in Seq(Seq(ItemSet))
      /\ h.chat \in Nat /\ h.odd \subseteq Nat
      /\ h.plan \in BOOLEAN /\ h.agent \in BOOLEAN /\ h.replayed \in BOOLEAN /\ h.open \in BOOLEAN
      /\ h.facts \in Seq(FactSet) /\ h.turn \in TurnSet
  BY DEF HostSet
<1>2. Len(h.facts) \in Nat
  BY <1>1
<1>3. /\ h.turn.id \in Nat /\ h.turn.n \in Nat /\ h.turn.waiting \in Nat
      /\ h.turn.text \in Seq(PieceSet) /\ h.turn.held \in Seq(PieceSet) /\ h.turn.phase \in Phases
      /\ h.turn.started \in BOOLEAN /\ h.turn.emitted \in BOOLEAN
  BY <1>1 DEF TurnSet
<1>4. QED
  BY <1>1, <1>2, <1>3

LEMMA ToldIs ==
  ASSUME NEW list \in Seq(ItemSet), NEW odd
  PROVE  /\ Said(list, odd) \in Seq(PieceSet)
         /\ \A more : odd \subseteq more => Said(list, more) = Filter(Said(list, odd), Loud(more))
         /\ (\A i \in 1 .. Len(list) : Of(list[i].text, odd)) => Said(list, odd) = << >>
<1>1. PICK N : N = Len(list)
  OBVIOUS
<1>2. list \in Seq(LineSet) /\ N \in Nat
  BY <1>1, ItemsAreLines
<1>3. Said(list, odd) \in Seq(PieceSet)
  BY <1>2, TellingIs
<1>4. ASSUME NEW more, odd \subseteq more PROVE Said(list, more) = Filter(Said(list, odd), Loud(more))
  <2>1. \A n \in 0 .. N : Telling(list, more)[n] = Filter(Telling(list, odd)[n], Loud(more))
    BY <1>1, <1>2, <1>4, TellingOdd
  <2>2. N \in 0 .. N
    BY <1>2
  <2>3. QED
    BY <1>1, <2>1, <2>2 DEF Said
<1>5. ASSUME \A i \in 1 .. Len(list) : Of(list[i].text, odd) PROVE Said(list, odd) = << >>
  <2>1. ASSUME NEW i \in 1 .. Len(list) PROVE Heard(list[i], odd) = << >>
    <3>1. list[i] \in LineSet /\ Of(list[i].text, odd)
      BY <1>2, <1>5
    <3>2. QED
      BY <3>1, HeardIs
  <2>2. QED
    BY <1>2, <2>1, SaidEmpty
<1>6. QED
  BY <1>3, <1>4, <1>5

LEMMA OfMore ==
  ASSUME NEW text, NEW S, NEW R, Of(text, S), S \subseteq R
  PROVE  Of(text, R)
BY DEF Of

LEMMA OfJoin ==
  ASSUME NEW a \in Seq(PieceSet), NEW b \in Seq(PieceSet), NEW S, Of(a, S), Of(b, S)
  PROVE  Of(a \o b, S)
<1>1. PICK c : c = a \o b
  OBVIOUS
<1>2. Len(a) \in Nat /\ Len(b) \in Nat /\ DOMAIN a = 1 .. Len(a) /\ DOMAIN b = 1 .. Len(b)
  OBVIOUS
<1>3. /\ c \in Seq(PieceSet) /\ Len(c) = Len(a) + Len(b)
      /\ \A i \in 1 .. Len(a) : c[i] = a[i]
  BY <1>1, JoinFacts
<1>4. \A j \in 1 .. Len(b) : c[Len(a) + j] = b[j]
  BY <1>1, JoinFacts
<1>5. ASSUME NEW i \in 1 .. Len(c) PROVE c[i].turn \in S
  <2>1. CASE i \in 1 .. Len(a)
    BY <1>2, <1>3, <2>1 DEF Of
  <2>2. CASE i \notin 1 .. Len(a)
    <3>1. PICK j : j = i - Len(a)
      OBVIOUS
    <3>2. j \in 1 .. Len(b) /\ i = Len(a) + j
      BY <1>2, <1>3, <2>2, <3>1
    <3>3. QED
      BY <1>2, <1>4, <3>2 DEF Of
  <2>3. QED
    BY <2>1, <2>2
<1>6. DOMAIN c = 1 .. Len(c)
  BY <1>3
<1>7. QED
  BY <1>1, <1>5, <1>6 DEF Of

\* What the host does without a word to the webview.
LEMMA ScreenStays ==
  ASSUME NEW h \in HostSet, NEW g \in HostSet, NEW v \in ViewSet, Writing(v), Screen(h, v),
         g.history = h.history, g.odd = h.odd, g.restored = h.restored, g.replayed = h.replayed,
         Len(g.facts) = Len(h.facts), g.open = h.open, Busy(g) = Busy(h),
         g.turn.id = h.turn.id, g.turn.started = h.turn.started,
         \A text \in Seq(PieceSet) : Streamed(h) /\ Streams(h, text) => Streams(g, text)
  PROVE  Screen(g, v)
<1>1. Turns(g) = Turns(h) /\ Told(g) = Told(h) /\ Reading(g, v) = Reading(h, v)
  BY DEF Turns, Told, Reading
<1>2. Streamed(g) = Streamed(h) /\ Waits(g) = Waits(h)
  BY DEF Streamed, Waits
<1>3. g.facts = << >> <=> h.facts = << >>
  BY HostFields
<1>4. Untouched(g, v) = Untouched(h, v)
  BY <1>2, <1>3 DEF Untouched
<1>5. ASSUME InStep(h, v) PROVE InStep(g, v)
  <2>1. CASE Streamed(h)
    <3>1. /\ v.active # 0 /\ Ends(Told(h), Reading(h, v)[v.active - 1])
          /\ \A i \in DOMAIN v.bubbles :
               i > v.active => v.bubbles[i].kind \notin {"user", "assistant"}
          /\ Streams(h, v.bubbles[v.active].text)
      BY <1>5, <2>1 DEF InStep
    <3>2. v.bubbles[v.active].text \in Seq(PieceSet)
      BY <3>1, ViewFields DEF Writing
    <3>3. Streams(g, v.bubbles[v.active].text)
      BY <2>1, <3>1, <3>2
    <3>4. QED
      BY <1>1, <1>2, <2>1, <3>1, <3>3 DEF InStep
  <2>2. CASE ~Streamed(h)
    BY <1>1, <1>2, <1>5, <2>2 DEF InStep
  <2>3. QED
    BY <2>1, <2>2
<1>6. QED
  BY <1>1, <1>2, <1>4, <1>5 DEF Screen

\* With other turns left out, the one in flight among them, the screen still ends
\* with what is told.
LEMMA OddEnds ==
  ASSUME NEW h \in HostSet, NEW v \in ViewSet, Writing(v), InStep(h, v), NEW more,
         h.odd \subseteq more, Busy(h) => h.turn.id \in more
  PROVE  /\ Ends(Filter(Told(h), Loud(more)), Scroll(v, more)[Len(v.bubbles)])
         /\ Filter(Told(h), Loud(more)) = Said(h.history, more)
         /\ v.active # 0 => Of(v.bubbles[v.active].text, more)
<1>1. PICK N, s, f, e, K : /\ N = Len(v.bubbles) /\ s = Told(h) /\ f = Scroll(v, h.odd)
                           /\ e = Scroll(v, more) /\ K = Loud(more)
  OBVIOUS
<1>2. s \in Seq(PieceSet) /\ Said(h.history, more) = Filter(s, K)
  BY <1>1, HostFields, ToldIs DEF Told
<1>3. N \in Nat /\ \A n \in 0 .. N : f[n] \in Seq(PieceSet) /\ e[n] \in Seq(PieceSet)
  BY <1>1, ViewFields, ScrollIs
<1>4. \A n \in 0 .. N : e[n] = Filter(f[n], K)
  BY <1>1, ScrollOdd
<1>5. \A n \in 0 .. N : Ends(s, f[n]) => Ends(Filter(s, K), e[n])
  BY <1>2, <1>3, <1>4, EndsFacts
<1>6. CASE Streamed(h)
  <2>1. PICK k : k = v.active
    OBVIOUS
  <2>2. /\ k # 0 /\ Ends(s, f[k - 1])
        /\ \A i \in DOMAIN v.bubbles : i > k => v.bubbles[i].kind \notin {"user", "assistant"}
        /\ Of(v.bubbles[k].text, {h.turn.id})
    BY <1>1, <1>6, <2>1 DEF InStep, Reading, Scroll, Streams
  <2>3. k \in 1 .. N /\ DOMAIN v.bubbles = 1 .. N /\ k - 1 \in 0 .. N
    BY <1>1, <1>3, <2>1, <2>2, ViewFields DEF Writing
  <2>4. Ends(Filter(s, K), e[k - 1])
    BY <1>5, <2>2, <2>3
  <2>5. h.turn.id \in more
    BY <1>6 DEF Streamed
  <2>6. Of(v.bubbles[k].text, more)
    BY <2>2, <2>5 DEF Of
  <2>7. e[N] = e[k - 1] \o Heard(OnScreen(v.bubbles)[k], more) /\ Heard(OnScreen(v.bubbles)[k], more) = << >>
    <3>1. \A i \in 1 .. N : i > k => Quiet(v.bubbles[i].kind)
      BY <2>2, <2>3 DEF Quiet
    <3>2. QED
      BY <1>1, <2>3, <2>6, <3>1, ScrollIs
  <2>8. e[N] = e[k - 1]
    BY <1>3, <2>3, <2>7, JoinEmpty
  <2>9. QED
    BY <1>1, <1>2, <2>1, <2>4, <2>6, <2>8
<1>7. CASE ~Streamed(h)
  <2>1. Ends(s, f[N]) /\ (v.active # 0 => Of(v.bubbles[v.active].text, h.odd))
    BY <1>1, <1>7 DEF InStep, Reading, Scroll
  <2>2. Ends(Filter(s, K), e[N])
    BY <1>3, <1>5, <2>1
  <2>3. v.active # 0 => Of(v.bubbles[v.active].text, more)
    BY <2>1 DEF Of
  <2>4. QED
    BY <1>1, <1>2, <2>2, <2>3
<1>8. QED
  BY <1>6, <1>7

LEMMA AddedIs ==
  ASSUME NEW v \in ViewSet, NEW w \in ViewSet, NEW kind \in Kinds, NEW t \in Nat,
         NEW x \in Seq(PieceSet), Added(v, w, NewBubble(kind, t, x))
  PROVE  /\ Len(w.bubbles) = Len(v.bubbles) + 1 /\ Len(v.bubbles) \in Nat
         /\ DOMAIN v.bubbles = 1 .. Len(v.bubbles) /\ DOMAIN w.bubbles = 1 .. Len(v.bubbles) + 1
         /\ \A i \in 1 .. Len(v.bubbles) : w.bubbles[i] = v.bubbles[i]
         /\ w.bubbles[Len(v.bubbles) + 1].kind = kind
         /\ w.bubbles[Len(v.bubbles) + 1].text = x
<1>1. PICK b, p, q : b = NewBubble(kind, t, x) /\ p = v.bubbles /\ q = w.bubbles
  OBVIOUS
<1>2. b \in BubbleSet /\ b.kind = kind /\ b.text = x
  BY <1>1, NewBubbleIs
<1>3. p \in Seq(BubbleSet) /\ q = Append(p, b)
  BY <1>1, ViewFields DEF Added
<1>4. /\ Len(q) = Len(p) + 1 /\ q[Len(p) + 1] = b /\ \A i \in 1 .. Len(p) : q[i] = p[i]
      /\ Len(p) \in Nat /\ DOMAIN p = 1 .. Len(p) /\ DOMAIN q = 1 .. Len(p) + 1
  BY <1>2, <1>3
<1>5. QED
  BY <1>1, <1>2, <1>4

LEMMA LineIs ==
  ASSUME NEW kind \in Kinds, NEW t \in Nat, NEW x \in Seq(PieceSet), NEW odd
  PROVE  /\ Item(kind, t, x) \in LineSet
         /\ Quiet(kind) \/ Of(x, odd) => Heard(Item(kind, t, x), odd) = << >>
         /\ kind = "assistant" =>
              Heard(Item(kind, t, x), odd) = Filter(SplitThink(x).answer, Loud(odd))
<1>1. kind \in Roles
  BY DEF Roles
<1>2. Item(kind, t, x) \in LineSet /\ Item(kind, t, x).role = kind /\ Item(kind, t, x).text = x
  BY <1>1, ItemsAreLines
<1>3. QED
  BY <1>2, HeardIs DEF Quiet

\* The texts on the screen, after a bubble is added or written to.
LEMMA AddedTexts ==
  ASSUME NEW v \in ViewSet, NEW w \in ViewSet, NEW kind \in Kinds, NEW t \in Nat,
         NEW x \in Seq(PieceSet), Added(v, w, NewBubble(kind, t, x)),
         NEW S, \A i \in DOMAIN v.bubbles : Of(v.bubbles[i].text, S), Of(x, S)
  PROVE  \A i \in DOMAIN w.bubbles : Of(w.bubbles[i].text, S)
<1>1. PICK N : N = Len(v.bubbles)
  OBVIOUS
<1>2. /\ N \in Nat /\ DOMAIN v.bubbles = 1 .. N /\ DOMAIN w.bubbles = 1 .. Len(w.bubbles)
      /\ Len(w.bubbles) = N + 1 /\ w.bubbles[N + 1].text = x
      /\ \A i \in 1 .. N : w.bubbles[i] = v.bubbles[i]
  BY <1>1, AddedIs
<1>3. ASSUME NEW i \in 1 .. N + 1 PROVE Of(w.bubbles[i].text, S)
  <2>1. CASE i = N + 1
    BY <1>2, <2>1
  <2>2. CASE i # N + 1
    <3>1. i \in 1 .. N
      BY <1>2, <2>2
    <3>2. QED
      BY <1>2, <3>1
  <2>3. QED
    BY <2>1, <2>2
<1>4. QED
  BY <1>2, <1>3

LEMMA WroteTexts ==
  ASSUME NEW v \in ViewSet, NEW w \in ViewSet, NEW k \in 1 .. Len(v.bubbles),
         NEW x \in Seq(PieceSet), Wrote(v, w, k, x),
         NEW S, \A i \in DOMAIN v.bubbles : Of(v.bubbles[i].text, S), Of(x, S)
  PROVE  \A i \in DOMAIN w.bubbles : Of(w.bubbles[i].text, S)
<1>1. DOMAIN v.bubbles = 1 .. Len(v.bubbles) /\ DOMAIN w.bubbles = 1 .. Len(w.bubbles)
  BY ViewFields
<1>2. /\ Len(w.bubbles) = Len(v.bubbles)
      /\ \A i \in 1 .. Len(v.bubbles) : w.bubbles[i].text = IF i = k THEN x ELSE v.bubbles[i].text
  BY DEF Wrote
<1>3. QED
  BY <1>1, <1>2

\* A bubble that says nothing.
LEMMA AddsQuiet ==
  ASSUME NEW h \in HostSet, NEW v \in ViewSet, NEW w \in ViewSet, Writing(v), Screen(h, v),
         h.facts # << >>, NEW kind \in Kinds, Quiet(kind), NEW t \in Nat, NEW x \in Seq(PieceSet),
         Of(x, Turns(h)), Added(v, w, NewBubble(kind, t, x)),
         w.active = v.active, w.busy = v.busy
  PROVE  Screen(h, w)
<1>1. PICK N, f, e : N = Len(v.bubbles) /\ f = Scroll(v, h.odd) /\ e = Scroll(w, h.odd)
  OBVIOUS
<1>2. /\ N \in Nat /\ DOMAIN v.bubbles = 1 .. N /\ DOMAIN w.bubbles = 1 .. N + 1
      /\ Len(w.bubbles) = N + 1 /\ w.bubbles[N + 1].kind = kind
      /\ \A i \in 1 .. N : w.bubbles[i] = v.bubbles[i]
  BY <1>1, AddedIs
<1>3. (\A n \in 0 .. N : e[n] = f[n]) /\ e[N + 1] = f[N] \o Heard(Item(kind, t, x), h.odd)
  <2>1. \A n \in 0 .. Len(v.bubbles) : Scroll(w, h.odd)[n] = Scroll(v, h.odd)[n]
    BY ScrollAdded
  <2>2. Scroll(w, h.odd)[Len(w.bubbles)] =
          Scroll(v, h.odd)[Len(v.bubbles)] \o Heard(Item(kind, t, x), h.odd)
    <3>1. PICK odd : odd = h.odd
      OBVIOUS
    <3>2. Scroll(w, odd)[Len(w.bubbles)] =
            Scroll(v, odd)[Len(v.bubbles)] \o Heard(Item(kind, t, x), odd)
      BY ScrollAdded
    <3>3. QED
      BY <3>1, <3>2
  <2>3. QED
    BY <1>1, <1>2, <2>1, <2>2
<1>4. Heard(Item(kind, t, x), h.odd) = << >>
  BY LineIs
<1>5. e[N + 1] = f[N]
  <2>0. \A n \in 0 .. Len(v.bubbles) : Scroll(v, h.odd)[n] \in Seq(PieceSet)
    BY ScrollIs
  <2>1. f[N] \in Seq(PieceSet)
    BY <1>1, <1>2, <2>0
  <2>2. QED
    BY <1>3, <1>4, <2>1, JoinEmpty
<1>6. v.active # 0 => v.active \in 1 .. N
  BY <1>2 DEF Writing
<1>7. InStep(h, v)
  BY DEF Screen, Untouched
<1>8. InStep(h, w)
  <2>1. CASE Streamed(h)
    <3>1. /\ v.active # 0 /\ Ends(Told(h), f[v.active - 1])
          /\ \A i \in 1 .. N : i > v.active => Quiet(v.bubbles[i].kind)
          /\ Streams(h, v.bubbles[v.active].text)
      BY <1>1, <1>2, <1>7, <2>1 DEF InStep, Reading, Scroll, Quiet
    <3>2. v.active - 1 \in 0 .. N
      BY <1>2, <1>6, <3>1
    <3>3. Ends(Told(h), e[w.active - 1]) /\ Streams(h, w.bubbles[w.active].text)
      BY <1>2, <1>3, <1>6, <3>1, <3>2
    <3>4. ASSUME NEW i \in 1 .. N + 1, i > w.active PROVE Quiet(w.bubbles[i].kind)
      <4>1. CASE i = N + 1
        BY <1>2, <4>1
      <4>2. CASE i # N + 1
        <5>1. i \in 1 .. N
          BY <1>2, <4>2
        <5>2. QED
          BY <1>2, <3>1, <3>4, <5>1
      <4>3. QED
        BY <4>1, <4>2
    <3>5. QED
      BY <1>1, <1>2, <2>1, <3>1, <3>3, <3>4 DEF InStep, Reading, Scroll, Quiet
  <2>2. CASE ~Streamed(h)
    <3>1. Ends(Told(h), f[N]) /\ (v.active # 0 => Of(v.bubbles[v.active].text, h.odd))
      BY <1>1, <1>7, <2>2 DEF InStep, Reading, Scroll
    <3>2. w.active # 0 => Of(w.bubbles[w.active].text, h.odd)
      BY <1>2, <1>6, <3>1
    <3>3. QED
      BY <1>1, <1>2, <1>5, <2>2, <3>1, <3>2 DEF InStep, Reading, Scroll
  <2>3. QED
    BY <2>1, <2>2
<1>9. \A i \in DOMAIN w.bubbles : Of(w.bubbles[i].text, Turns(h))
  <2>1. \A i \in DOMAIN v.bubbles : Of(v.bubbles[i].text, Turns(h))
    BY DEF Screen
  <2>2. QED
    BY <2>1, AddedTexts
<1>10. QED
  BY <1>8, <1>9 DEF Screen, Untouched

\* Reasoning or a chunk of the answer: into the bubble of the turn in flight.
LEMMA ChunkShows ==
  ASSUME NEW h \in HostSet, NEW g \in HostSet, NEW v \in ViewSet, NEW u \in ViewSet,
         NEW w \in ViewSet, Writing(v), Writing(u), Screen(h, v), h.facts # << >>,
         g.history = h.history, g.odd = h.odd, g.restored = h.restored, g.replayed = h.replayed,
         Len(g.facts) = Len(h.facts), g.open, Busy(g), Busy(h),
         g.turn.id = h.turn.id, g.turn.started, h.turn.id \in Turns(h),
         NEW x \in Seq(PieceSet), Of(x, {h.turn.id}),
         w.busy = v.busy, w.active # 0,
         v.active # 0 /\ h.turn.started =>
           /\ w.active = v.active
           /\ Wrote(v, w, v.active, v.bubbles[v.active].text \o x),
         v.active = 0 \/ ~h.turn.started =>
           /\ w.active = Len(v.bubbles) + 1
           /\ Added(v, w, NewBubble("assistant", h.turn.id, x)),
         h.turn.started => \A text \in Seq(PieceSet) : Streams(h, text) => Streams(g, text \o x),
         ~h.turn.started => Streams(g, x)
  PROVE  Screen(g, w)
<1>1. PICK N, f, e, t, odd, s : /\ N = Len(v.bubbles) /\ f = Scroll(v, h.odd) /\ e = Scroll(w, h.odd)
                                /\ t = h.turn.id /\ odd = h.odd /\ s = Told(h)
  OBVIOUS
<1>2. N \in Nat /\ DOMAIN v.bubbles = 1 .. N /\ DOMAIN w.bubbles = 1 .. Len(w.bubbles)
  BY <1>1, ViewFields
<1>3. v.active # 0 => v.active \in 1 .. N
  BY <1>2 DEF Writing
<1>4. InStep(h, v)
  BY DEF Screen, Untouched
<1>5. \A n \in 0 .. N : f[n] \in Seq(PieceSet)
  BY <1>1, ScrollIs
<1>6. Told(g) = s /\ Turns(g) = Turns(h) /\ (Streamed(g) <=> t \notin odd)
  BY <1>1 DEF Told, Turns, Streamed
<1>7. Of(x, Turns(h))
  BY DEF Of
<1>8. \A i \in DOMAIN v.bubbles : Of(v.bubbles[i].text, Turns(h))
  BY DEF Screen
<1>9. CASE v.active # 0 /\ h.turn.started
  <2>1. PICK k, old, y : k = v.active /\ old = v.bubbles[k].text /\ y = old \o x
    OBVIOUS
  <2>2. k \in 1 .. N /\ old \in Seq(PieceSet) /\ y \in Seq(PieceSet) /\ w.active = k /\ Wrote(v, w, k, y)
    BY <1>1, <1>3, <1>9, <2>1, ViewFields
  <2>3. /\ Len(w.bubbles) = N /\ w.bubbles[k].text = y
        /\ \A i \in 1 .. N : w.bubbles[i].kind = v.bubbles[i].kind
    BY <1>1, <2>2 DEF Wrote
  <2>4. \A n \in 0 .. k - 1 : e[n] = f[n]
    BY <1>1, <2>2, ScrollWrote
  <2>5. \A i \in DOMAIN w.bubbles : Of(w.bubbles[i].text, Turns(h))
    <3>1. Of(old, Turns(h))
      BY <1>2, <1>8, <2>1, <2>2
    <3>2. Of(y, Turns(h))
      BY <1>7, <2>1, <2>2, <3>1, OfJoin
    <3>3. QED
      BY <1>1, <1>8, <2>2, <3>2, WroteTexts
  <2>6. CASE t \notin odd
    <3>1. Streamed(h)
      BY <1>1, <1>9, <2>6 DEF Streamed
    <3>2. /\ Ends(s, f[k - 1]) /\ Streams(h, old)
          /\ \A i \in 1 .. N : i > k => v.bubbles[i].kind \notin {"user", "assistant"}
      BY <1>1, <1>2, <1>4, <2>1, <3>1 DEF InStep, Reading, Scroll
    <3>3. k - 1 \in 0 .. k - 1
      BY <1>2, <2>2
    <3>4. Ends(s, e[k - 1]) /\ Streams(g, y)
      BY <1>9, <2>1, <2>2, <2>4, <3>2, <3>3
    <3>5. InStep(g, w)
      BY <1>1, <1>2, <1>6, <1>9, <2>1, <2>2, <2>3, <2>6, <3>2, <3>4 DEF InStep, Reading, Scroll
    <3>6. QED
      BY <1>6, <2>5, <3>5 DEF Screen, Waits, Untouched
  <2>7. CASE t \in odd
    <3>1. ~Streamed(h)
      BY <1>1, <2>7 DEF Streamed
    <3>2. Ends(s, f[N]) /\ Of(old, odd)
      BY <1>1, <1>4, <1>9, <2>1, <3>1 DEF InStep, Reading, Scroll
    <3>3. Of(x, odd)
      BY <1>1, <2>7 DEF Of
    <3>4. Of(y, odd)
      BY <2>1, <2>2, <3>2, <3>3, OfJoin
    <3>5. e[N] = f[N]
      <4>1. \A n \in 0 .. N : e[n] = f[n]
        <5>1. Of(v.bubbles[k].text, odd) /\ k \in 1 .. Len(v.bubbles)
          BY <1>1, <2>1, <2>2, <3>2
        <5>2. \A n \in 0 .. Len(v.bubbles) : Scroll(w, odd)[n] = Scroll(v, odd)[n]
          BY <2>2, <3>4, <5>1, ScrollWrote
        <5>3. QED
          BY <1>1, <5>2
      <4>2. QED
        BY <1>2, <4>1
    <3>6. InStep(g, w)
      BY <1>1, <1>6, <2>2, <2>3, <2>7, <3>2, <3>4, <3>5 DEF InStep, Reading, Scroll
    <3>7. QED
      BY <1>6, <2>5, <3>6 DEF Screen, Waits, Untouched
  <2>8. QED
    BY <2>6, <2>7
<1>10. CASE v.active = 0 \/ ~h.turn.started
  <2>1. PICK kind : kind = "assistant"
    OBVIOUS
  <2>2. /\ kind \in Kinds /\ t \in Nat /\ w.active = N + 1 /\ Added(v, w, NewBubble(kind, t, x))
    BY <1>1, <1>10, <2>1, HostFields DEF Kinds
  <2>3. /\ Len(w.bubbles) = N + 1 /\ w.bubbles[N + 1].text = x
        /\ \A n \in 0 .. N : e[n] = f[n]
        /\ e[N + 1] = f[N] \o Heard(Item(kind, t, x), odd)
    <3>1. Len(w.bubbles) = N + 1 /\ w.bubbles[N + 1].text = x
      BY <1>1, <2>2, AddedIs
    <3>2. \A n \in 0 .. Len(v.bubbles) : Scroll(w, odd)[n] = Scroll(v, odd)[n]
      BY <2>2, ScrollAdded
    <3>3. Scroll(w, odd)[Len(w.bubbles)] =
            Scroll(v, odd)[Len(v.bubbles)] \o Heard(Item(kind, t, x), odd)
      BY <2>2, ScrollAdded
    <3>4. QED
      BY <1>1, <3>1, <3>2, <3>3
  <2>4. \A i \in DOMAIN w.bubbles : Of(w.bubbles[i].text, Turns(h))
    BY <1>7, <1>8, <2>2, AddedTexts
  <2>5. ~Streamed(h)
    BY <1>4, <1>10 DEF InStep, Streamed
  <2>6. Ends(s, f[N])
    BY <1>1, <1>4, <2>5 DEF InStep, Reading, Scroll
  <2>7. CASE t \notin odd
    <3>1. ~h.turn.started
      BY <1>1, <2>5, <2>7 DEF Streamed
    <3>2. Ends(s, e[w.active - 1]) /\ Streams(g, w.bubbles[w.active].text) /\ w.active # 0
      BY <1>2, <2>2, <2>3, <2>6, <3>1
    <3>3. \A i \in DOMAIN w.bubbles : ~(i > w.active)
      BY <1>2, <2>2, <2>3
    <3>4. InStep(g, w)
      BY <1>1, <1>6, <2>7, <3>2, <3>3 DEF InStep, Reading, Scroll
    <3>5. QED
      BY <1>6, <2>4, <3>4 DEF Screen, Waits, Untouched
  <2>8. CASE t \in odd
    <3>1. Of(x, odd)
      BY <1>1, <2>8 DEF Of
    <3>2. Heard(Item(kind, t, x), odd) = << >>
      BY <2>2, <3>1, LineIs
    <3>3. e[N + 1] = f[N]
      <4>1. f[N] \in Seq(PieceSet)
        BY <1>2, <1>5
      <4>2. QED
        BY <2>3, <3>2, <4>1, JoinEmpty
    <3>4. InStep(g, w)
      BY <1>1, <1>6, <2>2, <2>3, <2>6, <2>8, <3>1, <3>3 DEF InStep, Reading, Scroll
    <3>5. QED
      BY <1>6, <2>4, <3>4 DEF Screen, Waits, Untouched
  <2>9. QED
    BY <2>7, <2>8
<1>11. QED
  BY <1>9, <1>10

-----------------------------------------------------------------------------
(* What the messages of a turn do to the screen.                             *)

LEMMA ShownType ==
  ASSUME NEW v \in ViewSet, Writing(v), NEW m \in MsgSet
  PROVE  Shown(v, m) \in ViewSet /\ Writing(Shown(v, m)) /\ Framed(v, Shown(v, m))
BY ShownIs

LEMMA ShownBusy ==
  ASSUME NEW v \in ViewSet, Writing(v), NEW m \in MsgSet
  PROVE  Shown(v, m).busy = IF m.type = "busy" THEN TRUE ELSE IF m.type = "idle" THEN FALSE ELSE v.busy
BY ShownIs

LEMMA ShownLast ==
  ASSUME NEW v \in ViewSet, Writing(v), NEW m \in MsgSet, m.type \notin {"done", "assistant", "clear"}
  PROVE  Shown(v, m).last = v.last /\ Shown(v, m).lastPlan = v.lastPlan
BY ShownIs

LEMMA ShownReasoning ==
  ASSUME NEW v \in ViewSet, Writing(v), NEW m \in MsgSet, m.type = "reasoning"
  PROVE  /\ v.active # 0 => Shown(v, m) = v
         /\ v.active = 0 => /\ Shown(v, m).active = Len(v.bubbles) + 1
                            /\ Added(v, Shown(v, m), NewBubble("assistant", m.turn, << >>))
BY ShownIs

LEMMA ShownStart ==
  ASSUME NEW v \in ViewSet, Writing(v), NEW m \in MsgSet, m.type = "start"
  PROVE  /\ Shown(v, m).active = Len(v.bubbles) + 1
         /\ Added(v, Shown(v, m), NewBubble("assistant", m.turn, << >>))
BY ShownIs

LEMMA ShownDelta ==
  ASSUME NEW v \in ViewSet, Writing(v), NEW m \in MsgSet, m.type = "delta"
  PROVE  /\ v.active # 0 =>
              /\ Shown(v, m).active = v.active
              /\ Wrote(v, Shown(v, m), v.active, v.bubbles[v.active].text \o m.text)
         /\ v.active = 0 =>
              /\ Shown(v, m).active = Len(v.bubbles) + 1
              /\ Added(v, Shown(v, m), NewBubble("assistant", m.turn, m.text))
BY ShownIs

LEMMA ShownDone ==
  ASSUME NEW v \in ViewSet, Writing(v), NEW m \in MsgSet, m.type = "done"
  PROVE  Shown(v, m).bubbles = v.bubbles /\ Shown(v, m).active = 0
BY ShownIs

LEMMA ShownAssistant ==
  ASSUME NEW v \in ViewSet, Writing(v), NEW m \in MsgSet, m.type = "assistant"
  PROVE  /\ Shown(v, m).active = 0
         /\ v.active # 0 => Wrote(v, Shown(v, m), v.active, m.text)
         /\ v.active = 0 => Added(v, Shown(v, m), NewBubble("assistant", m.turn, m.text))
BY ShownIs

LEMMA ShownAdds ==
  ASSUME NEW v \in ViewSet, Writing(v), NEW m \in MsgSet, m.type \notin Changing
  PROVE  /\ Shown(v, m).active = v.active
         /\ Added(v, Shown(v, m), NewBubble(m.type, m.turn, m.text))
BY ShownIs

LEMMA ShownFlag ==
  ASSUME NEW v \in ViewSet, Writing(v), NEW m \in MsgSet, m.type \in {"busy", "idle"}
  PROVE  Shown(v, m).bubbles = v.bubbles /\ Shown(v, m).active = v.active
BY ShownIs

LEMMA ShownClear ==
  ASSUME NEW v \in ViewSet, Writing(v), NEW m \in MsgSet, m.type = "clear"
  PROVE  Shown(v, m).bubbles = << >> /\ Shown(v, m).active = 0 /\ Shown(v, m).last = 0
BY ShownIs

LEMMA Joined ==
  ASSUME NEW a \in MsgSet, NEW b \in MsgSet
  PROVE  <<a>> \o <<b>> = <<a, b>>
<1>1. PICK e, p, q : e = << >> /\ p = <<a>> /\ q = <<b>>
  OBVIOUS
<1>2. e \in Seq(MsgSet) /\ p \in Seq(MsgSet) /\ q = Append(e, b) /\ <<a, b>> = Append(p, b)
  BY <1>1
<1>3. p \o Append(e, b) = Append(p \o e, b)
  BY <1>2, JoinAppend
<1>4. p \o e = p
  BY <1>1, <1>2, JoinEmpty
<1>5. QED
  BY <1>1, <1>2, <1>3, <1>4

LEMMA StartMsg ==
  ASSUME NEW t \in Nat
  PROVE  /\ Msg("start", t, << >>) \in MsgSet /\ Msg("start", t, << >>).type = "start"
         /\ Msg("start", t, << >>).turn = t /\ Msg("start", t, << >>).text = << >>
         /\ Msg("idle", t, << >>) \in MsgSet /\ Msg("idle", t, << >>).type = "idle"
<1>1. PICK e : e = << >>
  OBVIOUS
<1>2. e \in Seq(PieceSet)
  BY <1>1
<1>3. "start" \in MsgTypes /\ "idle" \in MsgTypes
  BY DEF MsgTypes
<1>4. /\ Msg("start", t, e) \in MsgSet /\ Msg("start", t, e).type = "start"
      /\ Msg("start", t, e).turn = t /\ Msg("start", t, e).text = e
  BY <1>2, <1>3, Messages
<1>5. Msg("idle", t, e) \in MsgSet /\ Msg("idle", t, e).type = "idle"
  BY <1>2, <1>3, Messages
<1>6. QED
  BY <1>1, <1>4, <1>5

\* A chunk, after the start of its bubble if it is the first.
Chunk(started, t, type, x) ==
  (IF started THEN << >> ELSE <<Msg("start", t, << >>)>>) \o <<Msg(type, t, x)>>

Chunked(v, w, t, x, started) ==
  /\ w \in ViewSet /\ Writing(w) /\ Framed(v, w) /\ w.busy = v.busy /\ w.active # 0
  /\ w.last = v.last /\ w.lastPlan = v.lastPlan
  /\ v.active # 0 /\ started =>
       /\ w.active = v.active
       /\ Wrote(v, w, v.active, v.bubbles[v.active].text \o x)
  /\ v.active = 0 \/ ~started =>
       /\ w.active = Len(v.bubbles) + 1
       /\ Added(v, w, NewBubble("assistant", t, x))

LEMMA ChunkMessages ==
  ASSUME NEW v \in ViewSet, Writing(v), NEW t \in Nat, NEW x \in Seq(PieceSet),
         NEW type \in {"reasoning", "delta"}, type = "reasoning" => x = << >>,
         NEW started \in BOOLEAN, NEW w, w = Shows(v, Chunk(started, t, type, x))
  PROVE  Chunked(v, w, t, x, started)
<1>0. w = Shows(v, (IF started THEN << >> ELSE <<Msg("start", t, << >>)>>) \o <<Msg(type, t, x)>>)
  BY DEF Chunk
<1> SUFFICES /\ w \in ViewSet /\ Writing(w) /\ Framed(v, w) /\ w.busy = v.busy /\ w.active # 0
             /\ w.last = v.last /\ w.lastPlan = v.lastPlan
             /\ v.active # 0 /\ started =>
                  /\ w.active = v.active
                  /\ Wrote(v, w, v.active, v.bubbles[v.active].text \o x)
             /\ v.active = 0 \/ ~started =>
                  /\ w.active = Len(v.bubbles) + 1
                  /\ Added(v, w, NewBubble("assistant", t, x))
  BY DEF Chunked
<1>1. PICK e, z, y, m, s : /\ e = << >> /\ z = "start" /\ y = "busy"
                           /\ m = Msg(type, t, x) /\ s = Msg(z, t, e)
  OBVIOUS
<1>2. e \in Seq(PieceSet) /\ z = "start" /\ z \in MsgTypes /\ type \in MsgTypes
  BY <1>1 DEF MsgTypes
<1>3. /\ m \in MsgSet /\ m.type = type /\ m.turn = t /\ m.text = x
      /\ s \in MsgSet /\ s.type = "start" /\ s.turn = t /\ s.text = e
  <2>1. m \in MsgSet /\ m.type = type /\ m.turn = t /\ m.text = x
    BY <1>1, <1>2, Messages
  <2>2. s \in MsgSet /\ s.type = z /\ s.turn = t /\ s.text = e
    BY <1>1, <1>2, StartMsg
  <2>3. QED
    BY <1>2, <2>1, <2>2
<1>4. Len(v.bubbles) \in Nat /\ (v.active # 0 => v.active \in 1 .. Len(v.bubbles))
  BY ViewFields DEF Writing
<1>5. CASE started
  <2>1. w = Shown(v, m)
    <3>1. <<m>> \in Seq(MsgSet)
      BY <1>3
    <3>2. << >> \o <<m>> = <<m>>
      BY <3>1, JoinEmpty
    <3>3. Shows(v, <<m>>) = Shown(v, m)
      BY <1>3, ShowsOne
    <3>4. QED
      BY <1>0, <1>1, <1>5, <3>2, <3>3
  <2>2. /\ w \in ViewSet /\ Writing(w) /\ Framed(v, w) /\ w.busy = v.busy
        /\ w.last = v.last /\ w.lastPlan = v.lastPlan
    BY <1>3, <2>1, ShownType, ShownBusy, ShownLast
  <2>3. CASE type = "delta"
    <3>1. v.active # 0 =>
            w.active = v.active /\ Wrote(v, w, v.active, v.bubbles[v.active].text \o m.text)
      BY <1>3, <2>1, <2>3, ShownDelta
    <3>2. v.active = 0 =>
            w.active = Len(v.bubbles) + 1 /\ Added(v, w, NewBubble("assistant", m.turn, m.text))
      BY <1>3, <2>1, <2>3, ShownDelta
    <3>3. w.active # 0
      BY <1>4, <3>1, <3>2
    <3>4. v.active # 0 => w.active = v.active /\ Wrote(v, w, v.active, v.bubbles[v.active].text \o x)
      BY <1>3, <3>1
    <3>5. v.active = 0 => w.active = Len(v.bubbles) + 1 /\ Added(v, w, NewBubble("assistant", t, x))
      BY <1>3, <3>2
    <3>6. QED
      BY <1>5, <2>2, <3>3, <3>4, <3>5
  <2>4. CASE type = "reasoning" /\ v.active = 0
    <3>1. w.active = Len(v.bubbles) + 1 /\ Added(v, w, NewBubble("assistant", m.turn, << >>))
      BY <1>3, <2>1, <2>4, ShownReasoning
    <3>2. x = << >> /\ m.turn = t
      BY <1>3, <2>4
    <3>3. Added(v, w, NewBubble("assistant", t, x))
      BY <3>1, <3>2
    <3>4. w.active = Len(v.bubbles) + 1 /\ w.active # 0
      BY <1>4, <3>1
    <3>5. QED
      BY <2>2, <2>4, <3>3, <3>4
  <2>5. CASE type = "reasoning" /\ v.active # 0
    <3>1. PICK old : old = v.bubbles[v.active].text
      OBVIOUS
    <3>2. old \in Seq(PieceSet)
      BY <1>4, <2>5, <3>1, ViewFields
    <3>3. old \o x = old
      BY <2>5, <3>2, JoinEmpty
    <3>4. Wrote(v, v, v.active, old)
      BY <1>4, <2>5, <3>1 DEF Wrote
    <3>4a. w = v
      BY <1>3, <2>1, <2>5, ShownReasoning
    <3>5. QED
      BY <1>5, <2>2, <2>5, <3>1, <3>3, <3>4, <3>4a
  <2>6. QED
    BY <2>3, <2>4, <2>5
<1>6. CASE ~started
  <2>1. PICK u : u = Shown(v, s)
    OBVIOUS
  <2>2. w = Shown(u, m)
    <3>1. <<s>> \o <<m>> = <<s, m>>
      BY <1>3, Joined
    <3>2. Shows(v, <<s, m>>) = Shown(Shown(v, s), m)
      BY <1>3, ShowsTwo
    <3>3. QED
      BY <1>0, <1>1, <1>6, <2>1, <3>1, <3>2
  <2>3. /\ u \in ViewSet /\ Writing(u) /\ Framed(v, u) /\ u.busy = v.busy
        /\ u.last = v.last /\ u.lastPlan = v.lastPlan
        /\ u.active = Len(v.bubbles) + 1 /\ Added(v, u, NewBubble("assistant", t, << >>))
    BY <1>3, <2>1, ShownType, ShownBusy, ShownLast, ShownStart
  <2>4. u.active # 0 /\ u.bubbles[u.active].text = e /\ u.active \in 1 .. Len(u.bubbles)
    <3>1. PICK kind : kind = "assistant"
      OBVIOUS
    <3>2. kind \in Kinds
      BY <3>1 DEF Kinds
    <3>3. Added(v, u, NewBubble(kind, t, e))
      BY <1>1, <2>3, <3>1
    <3>4. u.bubbles[Len(v.bubbles) + 1].text = e /\ Len(u.bubbles) = Len(v.bubbles) + 1
      BY <1>2, <2>3, <3>2, <3>3, AddedIs
    <3>5. QED
      BY <1>4, <2>3, <3>4
  <2>5. /\ w \in ViewSet /\ Writing(w) /\ Framed(u, w) /\ w.busy = u.busy
        /\ w.last = u.last /\ w.lastPlan = u.lastPlan
        /\ type = "reasoning" => w = u
    <3>1. u \in ViewSet /\ Writing(u) /\ m \in MsgSet
      BY <1>3, <2>3
    <3>2. w \in ViewSet /\ Writing(w) /\ Framed(u, w)
      BY <2>2, <3>1, ShownType
    <3>3. w.busy = u.busy /\ w.last = u.last /\ w.lastPlan = u.lastPlan
      BY <1>3, <2>2, <3>1, ShownBusy, ShownLast
    <3>4. type = "reasoning" => w = u
      BY <1>3, <2>2, <2>4, <3>1, ShownReasoning
    <3>5. QED
      BY <3>2, <3>3, <3>4
  <2>5a. type = "delta" =>
           w.active = u.active /\ Wrote(u, w, u.active, u.bubbles[u.active].text \o m.text)
    <3>1. u \in ViewSet /\ Writing(u) /\ m \in MsgSet
      BY <1>3, <2>3
    <3>2. QED
      BY <1>3, <2>2, <2>4, <3>1, ShownDelta
  <2>6. Framed(v, w) /\ w.busy = v.busy /\ w.active = Len(v.bubbles) + 1
    BY <2>3, <2>5, <2>5a DEF Framed
  <2>7. CASE type = "delta"
    <3>1. e \o x = x
      BY <1>1, JoinEmpty
    <3>2. Wrote(u, w, Len(v.bubbles) + 1, x)
      BY <1>3, <2>3, <2>4, <2>5a, <2>7, <3>1
    <3>3. Added(v, w, NewBubble("assistant", t, x))
      BY <2>3, <2>5, <3>2, AddedThenWrote
    <3>4. QED
      BY <1>4, <1>6, <2>3, <2>5, <2>6, <3>3
  <2>8. CASE type = "reasoning"
    BY <1>4, <1>6, <2>3, <2>5, <2>6, <2>8
  <2>9. QED
    BY <2>7, <2>8
<1>7. QED
  BY <1>5, <1>6

\* The last two messages of a turn: the answer is finished, or an error shows.
Ending(v, type, t, x) == Shown(Shown(v, Msg(type, t, x)), Msg("idle", t, << >>))

LEMMA EndingIs ==
  ASSUME NEW v \in ViewSet, Writing(v), NEW t \in Nat, NEW x \in Seq(PieceSet), NEW type \in MsgTypes
  PROVE  Shows(v, <<Msg(type, t, x), Msg("idle", t, << >>)>>) = Ending(v, type, t, x)
<1>1. Msg(type, t, x) \in MsgSet /\ Msg("idle", t, << >>) \in MsgSet
  BY Messages, StartMsg
<1>2. QED
  BY <1>1, ShowsTwo DEF Ending

LEMMA IdleAfter ==
  ASSUME NEW v \in ViewSet, Writing(v), NEW t \in Nat, NEW x \in Seq(PieceSet),
         NEW type \in MsgTypes, NEW u, u = Shown(v, Msg(type, t, x)),
         NEW w, w = Ending(v, type, t, x)
  PROVE  /\ w \in ViewSet /\ Writing(w) /\ u \in ViewSet /\ Writing(u)
         /\ w.bubbles = u.bubbles /\ w.active = u.active /\ ~w.busy
         /\ Msg(type, t, x) \in MsgSet /\ Msg(type, t, x).type = type
         /\ Msg(type, t, x).turn = t /\ Msg(type, t, x).text = x
<1>1. PICK m, s : m = Msg(type, t, x) /\ s = Msg("idle", t, << >>)
  OBVIOUS
<1>2. m \in MsgSet /\ m.type = type /\ m.turn = t /\ m.text = x
  <2>1. /\ Msg(type, t, x) \in MsgSet /\ Msg(type, t, x).type = type
        /\ Msg(type, t, x).turn = t /\ Msg(type, t, x).text = x
    BY Messages
  <2>2. QED
    BY <1>1, <2>1
<1>3. s \in MsgSet /\ s.type = "idle"
  BY <1>1, StartMsg
<1>4. w = Shown(u, s)
  BY <1>1 DEF Ending
<1>5. u \in ViewSet /\ Writing(u)
  BY <1>1, <1>2, ShownType
<1>6. w \in ViewSet /\ Writing(w)
  BY <1>3, <1>4, <1>5, ShownType
<1>7. w.bubbles = u.bubbles /\ w.active = u.active
  BY <1>3, <1>4, <1>5, ShownFlag
<1>8. Shown(u, s).busy = IF s.type = "busy" THEN TRUE ELSE IF s.type = "idle" THEN FALSE ELSE u.busy
  BY <1>3, <1>5, ShownBusy
<1>9. QED
  BY <1>1, <1>2, <1>3, <1>4, <1>5, <1>6, <1>7, <1>8

LEMMA DoneDone ==
  ASSUME NEW v \in ViewSet, Writing(v), NEW t \in Nat, NEW x \in Seq(PieceSet), NEW w,
         w = Ending(v, "done", t, x)
  PROVE  /\ w \in ViewSet /\ Writing(w) /\ ~w.busy
         /\ w.bubbles = v.bubbles /\ w.active = 0
<1>1. PICK type, m, u : type = "done" /\ m = Msg(type, t, x) /\ u = Shown(v, m)
  OBVIOUS
<1>2. type \in MsgTypes
  BY <1>1 DEF MsgTypes, Kinds
<1>3. w = Ending(v, type, t, x) /\ u = Shown(v, Msg(type, t, x))
  BY <1>1
<1>4. /\ w \in ViewSet /\ Writing(w) /\ w.bubbles = u.bubbles /\ w.active = u.active /\ ~w.busy
      /\ m \in MsgSet /\ m.type = "done" /\ m.turn = t /\ m.text = x
  BY <1>1, <1>2, <1>3, IdleAfter
<1>5. u = Shown(v, m)
  BY <1>1
<1>6. u.bubbles = v.bubbles /\ u.active = 0
  BY <1>4, <1>5, ShownDone
<1>7. QED
  BY <1>4, <1>6

LEMMA DoneAssistant ==
  ASSUME NEW v \in ViewSet, Writing(v), NEW t \in Nat, NEW x \in Seq(PieceSet), NEW w,
         w = Ending(v, "assistant", t, x)
  PROVE  /\ w \in ViewSet /\ Writing(w) /\ ~w.busy
         /\ w.active = 0
         /\ v.active # 0 => Wrote(v, w, v.active, x)
         /\ v.active = 0 => Added(v, w, NewBubble("assistant", t, x))
<1>1. PICK type, m, u : type = "assistant" /\ m = Msg(type, t, x) /\ u = Shown(v, m)
  OBVIOUS
<1>2. type \in MsgTypes
  BY <1>1 DEF MsgTypes, Kinds
<1>3. w = Ending(v, type, t, x) /\ u = Shown(v, Msg(type, t, x))
  BY <1>1
<1>4. /\ w \in ViewSet /\ Writing(w) /\ w.bubbles = u.bubbles /\ w.active = u.active /\ ~w.busy
      /\ m \in MsgSet /\ m.type = "assistant" /\ m.turn = t /\ m.text = x
  BY <1>1, <1>2, <1>3, IdleAfter
<1>5. u = Shown(v, m)
  BY <1>1
<1>6. /\ u.active = 0
      /\ v.active # 0 => Wrote(v, u, v.active, m.text)
      /\ v.active = 0 => Added(v, u, NewBubble("assistant", m.turn, m.text))
  BY <1>4, <1>5, ShownAssistant
<1>7. QED
  BY <1>4, <1>6 DEF Wrote, Added

LEMMA DoneError ==
  ASSUME NEW v \in ViewSet, Writing(v), NEW t \in Nat, NEW x \in Seq(PieceSet), NEW w,
         w = Ending(v, "error", t, x)
  PROVE  /\ w \in ViewSet /\ Writing(w) /\ ~w.busy
         /\ w.active = v.active /\ Added(v, w, NewBubble("error", t, x))
<1>1. PICK type, m, u : type = "error" /\ m = Msg(type, t, x) /\ u = Shown(v, m)
  OBVIOUS
<1>2. type \in MsgTypes
  BY <1>1 DEF MsgTypes, Kinds
<1>3. w = Ending(v, type, t, x) /\ u = Shown(v, Msg(type, t, x))
  BY <1>1
<1>4. /\ w \in ViewSet /\ Writing(w) /\ w.bubbles = u.bubbles /\ w.active = u.active /\ ~w.busy
      /\ m \in MsgSet /\ m.type = "error" /\ m.turn = t /\ m.text = x
  BY <1>1, <1>2, <1>3, IdleAfter
<1>5. u = Shown(v, m)
  BY <1>1
<1>6. m.type \notin Changing
  BY <1>4 DEF Changing
<1>7. u.active = v.active /\ Added(v, u, NewBubble(m.type, m.turn, m.text))
  BY <1>4, <1>5, <1>6, ShownAdds
<1>8. QED
  BY <1>4, <1>7 DEF Added

\* What is said of an answer.
AnswerHeard(x, odd) == Filter(SplitThink(x).answer, Loud(odd))

\* What a bubble that is added says after the others.
LEMMA SaysAfter ==
  ASSUME NEW v \in ViewSet, NEW w \in ViewSet, NEW t \in Nat, NEW x \in Seq(PieceSet),
         Added(v, w, NewBubble("assistant", t, x)), NEW odd
  PROVE  /\ Scroll(v, odd)[Len(v.bubbles)] \in Seq(PieceSet)
         /\ Scroll(w, odd)[Len(w.bubbles)] =
              Scroll(v, odd)[Len(v.bubbles)] \o AnswerHeard(x, odd)
         /\ Of(x, odd) => Scroll(w, odd)[Len(w.bubbles)] = Scroll(v, odd)[Len(v.bubbles)]
<1>1. PICK kind, a, b, d : /\ kind = "assistant" /\ a = Scroll(w, odd)[Len(w.bubbles)]
                           /\ b = Scroll(v, odd)[Len(v.bubbles)] /\ d = Heard(Item(kind, t, x), odd)
  OBVIOUS
<1>2. kind \in Kinds
  BY <1>1 DEF Kinds
<1>3. a = b \o d
  <2>1. Added(v, w, NewBubble(kind, t, x))
    BY <1>1
  <2>2. Scroll(w, odd)[Len(w.bubbles)] = Scroll(v, odd)[Len(v.bubbles)] \o Heard(Item(kind, t, x), odd)
    BY <1>2, <2>1, ScrollAdded
  <2>3. QED
    BY <1>1, <2>2
<1>4. b \in Seq(PieceSet)
  <2>1. Len(v.bubbles) \in 0 .. Len(v.bubbles)
    BY ViewFields
  <2>2. QED
    BY <1>1, <2>1, ScrollIs
<1>5. d = AnswerHeard(x, odd) /\ (Of(x, odd) => d = << >>)
  BY <1>1, <1>2, LineIs DEF AnswerHeard
<1>6. Of(x, odd) => a = b
  BY <1>3, <1>4, <1>5, JoinEmpty
<1>7. QED
  BY <1>1, <1>3, <1>4, <1>5, <1>6

\* How a turn ends with an answer: its items in the history, and x posted.
Replied(h, g, v, w, t, items, x, type) ==
  /\ h.facts # << >> /\ Busy(h) /\ ~Busy(g) /\ t = h.turn.id /\ t \in Turns(h)
  /\ Of(x, {t}) /\ \A i \in 1 .. Len(items) : Of(items[i].text, {t})
  /\ g.history = h.history \o items /\ g.restored = h.restored /\ g.replayed = h.replayed
  /\ Len(g.facts) = Len(h.facts) /\ (g.odd = h.odd \/ g.odd = h.odd \cup {t})
  /\ type \in {"done", "assistant"} /\ (type = "done" <=> h.turn.started)
  /\ w = Ending(v, type, t, x)
  /\ t \notin g.odd /\ ~h.turn.started =>
       /\ v.active = 0
       /\ Said(items, g.odd) = Filter(SplitThink(x).answer, Loud(g.odd))
  /\ t \notin g.odd /\ h.turn.started =>
       Said(items, g.odd) = Filter(SplitThink(v.bubbles[v.active].text).answer, Loud(g.odd))

\* The items of an answer are what the screen shows of it.
LEMMA ReplyShows ==
  ASSUME NEW h \in HostSet, NEW g \in HostSet, NEW v \in ViewSet, Writing(v), Screen(h, v),
         NEW t \in Nat, NEW items \in Seq(ItemSet), NEW x \in Seq(PieceSet), NEW type, NEW w,
         Replied(h, g, v, w, t, items, x, type)
  PROVE  Screen(g, w)
<1>1. PICK N, more, f, e, s, z :
        /\ N = Len(v.bubbles) /\ more = g.odd /\ f = Scroll(v, more) /\ e = Scroll(w, more)
        /\ s = Said(h.history, more) /\ z = Said(items, more)
  OBVIOUS
<1>2. /\ h.facts # << >> /\ Busy(h) /\ ~Busy(g) /\ t = h.turn.id /\ t \in Turns(h)
      /\ g.history = h.history \o items /\ g.restored = h.restored /\ g.replayed = h.replayed
      /\ Len(g.facts) = Len(h.facts) /\ (g.odd = h.odd \/ g.odd = h.odd \cup {t})
      /\ type \in {"done", "assistant"} /\ (type = "done" <=> h.turn.started)
  BY DEF Replied
<1>2a. Of(x, {t}) /\ \A i \in 1 .. Len(items) : Of(items[i].text, {t})
  BY DEF Replied
<1>3. /\ w \in ViewSet /\ Writing(w) /\ w.active = 0 /\ ~w.busy
      /\ type = "done" => w.bubbles = v.bubbles
      /\ type = "assistant" /\ v.active # 0 => Wrote(v, w, v.active, x)
      /\ type = "assistant" /\ v.active = 0 => Added(v, w, NewBubble("assistant", t, x))
  <2>1. type \in {"done", "assistant", "error"} /\ w = Ending(v, type, t, x)
    BY <1>2 DEF Replied
  <2>2. CASE type = "done"
    BY <2>1, <2>2, DoneDone
  <2>3. CASE type = "assistant"
    BY <2>1, <2>3, DoneAssistant
  <2>4. QED
    BY <1>2, <2>2, <2>3
<1>4. N \in Nat /\ DOMAIN v.bubbles = 1 .. N /\ (v.active # 0 => v.active \in 1 .. N)
  BY <1>1, ViewFields DEF Writing
<1>5. InStep(h, v)
  BY <1>2 DEF Screen, Untouched
<1>6. h.history \in Seq(ItemSet) /\ h.odd \subseteq more
  BY <1>1, <1>2, HostFields
<1>7. s \in Seq(PieceSet) /\ z \in Seq(PieceSet) /\ Told(g) = s \o z
  <2>1. h.history \in Seq(LineSet) /\ items \in Seq(LineSet)
    BY <1>6, ItemsAreLines
  <2>2. Said(h.history \o items, more) = Said(h.history, more) \o Said(items, more)
    BY <2>1, SaidJoin
  <2>3. QED
    BY <1>1, <1>2, <1>6, <2>2, ToldIs DEF Told
<1>8. \A n \in 0 .. N : f[n] \in Seq(PieceSet)
  BY <1>1, ScrollIs
<1>9. Ends(s \o z, e[Len(w.bubbles)])
  <2>1. CASE t \in more
    <3>1. Ends(s, f[N]) /\ (v.active # 0 => Of(v.bubbles[v.active].text, more))
      BY <1>1, <1>2, <1>5, <1>6, <2>1, OddEnds
    <3>2. Of(x, more) /\ \A i \in 1 .. Len(items) : Of(items[i].text, more)
      BY <1>2a, <2>1 DEF Of
    <3>3. z = << >>
      BY <1>1, <3>2, ToldIs
    <3>4. e[Len(w.bubbles)] = f[N]
      <4>1. CASE type = "done"
        BY <1>1, <1>3, <4>1 DEF Scroll
      <4>2. CASE type = "assistant" /\ v.active # 0
        <5>1. v.active \in 1 .. Len(v.bubbles) /\ Wrote(v, w, v.active, x)
          BY <1>1, <1>3, <1>4, <4>2
        <5>2. Of(v.bubbles[v.active].text, more)
          BY <3>1, <4>2
        <5>3. \A n \in 0 .. Len(v.bubbles) : Scroll(w, more)[n] = Scroll(v, more)[n]
          BY <1>3, <3>2, <5>1, <5>2, ScrollWrote
        <5>4. Len(w.bubbles) = N
          BY <1>1, <5>1 DEF Wrote
        <5>5. QED
          BY <1>1, <1>4, <5>3, <5>4
      <4>3. CASE type = "assistant" /\ v.active = 0
        BY <1>1, <1>2, <1>3, <3>2, <4>3, SaysAfter
      <4>4. QED
        BY <1>2, <4>1, <4>2, <4>3
    <3>5. s \o z = s
      BY <1>7, <3>3, JoinEmpty
    <3>6. QED
      BY <3>1, <3>4, <3>5
  <2>2. CASE t \notin more /\ ~h.turn.started
    <3>1. more = h.odd /\ v.active = 0 /\ z = Filter(SplitThink(x).answer, Loud(more))
      BY <1>1, <2>2 DEF Replied
    <3>2. ~Streamed(h)
      BY <2>2 DEF Streamed
    <3>3. Ends(s, f[N])
      BY <1>1, <1>5, <3>1, <3>2 DEF InStep, Reading, Scroll, Told
    <3>4. Added(v, w, NewBubble("assistant", t, x))
      BY <1>2, <1>3, <2>2, <3>1
    <3>8. e[Len(w.bubbles)] = f[N] \o z
      <4>1. Scroll(w, more)[Len(w.bubbles)] =
              Scroll(v, more)[Len(v.bubbles)] \o AnswerHeard(x, more)
        <5>1. w \in ViewSet
          BY <1>3
        <5>2. QED
          BY <3>4, <5>1, SaysAfter
      <4>2. QED
        BY <1>1, <3>1, <4>1 DEF AnswerHeard
    <3>9. f[N] \in Seq(PieceSet)
      BY <1>4, <1>8
    <3>10. QED
      BY <1>7, <3>3, <3>8, <3>9, EndsFacts
  <2>3. CASE t \notin more /\ h.turn.started
    <3>1. more = h.odd /\ z = Filter(SplitThink(v.bubbles[v.active].text).answer, Loud(more))
      BY <1>1, <2>3 DEF Replied
    <3>2. Streamed(h)
      BY <1>2, <2>3, <3>1 DEF Streamed
    <3>3. PICK k : k = v.active
      OBVIOUS
    <3>4. /\ k # 0 /\ Ends(s, f[k - 1])
          /\ \A i \in DOMAIN v.bubbles : i > k => v.bubbles[i].kind \notin {"user", "assistant"}
      BY <1>1, <1>5, <3>1, <3>2, <3>3 DEF InStep, Reading, Scroll, Told
    <3>5. k \in 1 .. N /\ k - 1 \in 0 .. N
      BY <1>4, <3>3, <3>4
    <3>6. v.bubbles[k].kind = "assistant"
      BY <3>3, <3>4 DEF Writing
    <3>7. \A i \in 1 .. N : i > k => Quiet(v.bubbles[i].kind)
      BY <1>4, <3>4 DEF Quiet
    <3>8. f[N] = f[k - 1] \o Heard(OnScreen(v.bubbles)[k], more)
      BY <1>1, <3>5, <3>7, ScrollIs
    <3>9. Heard(OnScreen(v.bubbles)[k], more) = z
      BY <1>1, <3>1, <3>3, <3>5, <3>6, ScrollIs
    <3>10. e[Len(w.bubbles)] = f[k - 1] \o z
      BY <1>1, <1>2, <1>3, <2>3, <3>8, <3>9 DEF Scroll
    <3>11. f[k - 1] \in Seq(PieceSet)
      BY <1>8, <3>5
    <3>12. QED
      BY <1>7, <3>4, <3>10, <3>11, EndsFacts
  <2>4. QED
    BY <2>1, <2>2, <2>3
<1>10. InStep(g, w)
  BY <1>1, <1>2, <1>3, <1>7, <1>9 DEF InStep, Streamed, Reading, Scroll
<1>11. \A i \in DOMAIN w.bubbles : Of(w.bubbles[i].text, Turns(h))
  <2>1. \A i \in DOMAIN v.bubbles : Of(v.bubbles[i].text, Turns(h))
    BY DEF Screen
  <2>2. Of(x, Turns(h))
    BY <1>2, <1>2a DEF Of
  <2>3. CASE type = "done"
    BY <1>3, <2>1, <2>3
  <2>4. CASE type = "assistant" /\ v.active # 0
    BY <1>1, <1>3, <1>4, <2>1, <2>2, <2>4, WroteTexts
  <2>5. CASE type = "assistant" /\ v.active = 0
    <3>1. PICK kind : kind = "assistant"
      OBVIOUS
    <3>2. kind \in Kinds /\ Added(v, w, NewBubble(kind, t, x))
      BY <1>3, <2>5, <3>1 DEF Kinds
    <3>3. QED
      BY <1>2, <1>3, <2>1, <2>2, <3>2, AddedTexts
  <2>6. QED
    BY <1>2, <2>3, <2>4, <2>5
<1>12. Waits(g) => Turns(g) \subseteq g.odd
  <2>1. Waits(h) => Turns(h) \subseteq h.odd
    BY <1>2 DEF Screen, Untouched
  <2>2. QED
    BY <1>1, <1>2, <1>6, <2>1 DEF Waits, Turns
<1>13. Turns(g) = Turns(h)
  BY <1>2 DEF Turns
<1>14. w.busy = Busy(g)
  <2>1. w.busy \in BOOLEAN
    BY <1>3, ViewFields
  <2>2. QED
    BY <1>2, <1>3, <2>1 DEF Busy
<1>15. QED
  BY <1>3, <1>10, <1>11, <1>12, <1>13, <1>14 DEF Screen

\* How a turn fails: an error shows, and the question may be dropped.
Failed(h, g, v, w, t) ==
  /\ h.facts # << >> /\ Busy(h) /\ ~Busy(g) /\ t = h.turn.id /\ t \in Turns(h)
  /\ g.restored = h.restored /\ g.replayed = h.replayed /\ g.open = h.open
  /\ Len(g.facts) = Len(h.facts)
  /\ h.odd \subseteq g.odd /\ t \in g.odd
  /\ \/ g.history = h.history
     \/ \E m \in ItemSet : h.history = Append(g.history, m) /\ Of(m.text, g.odd)
  /\ w = Ending(v, "error", t, << >>)

\* What is left of the history is on the screen, but for what is told of the turn.
LEMMA FailShows ==
  ASSUME NEW h \in HostSet, NEW g \in HostSet, NEW v \in ViewSet, Writing(v), Screen(h, v),
         NEW t \in Nat, NEW w, Failed(h, g, v, w, t)
  PROVE  Screen(g, w)
<1>1. PICK N, more, s, x, kind :
        /\ N = Len(v.bubbles) /\ more = g.odd /\ s = Said(h.history, more)
        /\ x = << >> /\ kind = "error"
  OBVIOUS
<1>2. /\ h.facts # << >> /\ Busy(h) /\ ~Busy(g) /\ t = h.turn.id /\ t \in Turns(h)
      /\ g.restored = h.restored /\ g.replayed = h.replayed /\ g.open = h.open
      /\ Len(g.facts) = Len(h.facts)
      /\ h.odd \subseteq g.odd /\ t \in g.odd
  BY DEF Failed
<1>3. x \in Seq(PieceSet) /\ kind \in Kinds /\ Quiet(kind)
  BY <1>1 DEF Kinds, Quiet
<1>4. w \in ViewSet /\ Writing(w) /\ ~w.busy /\ w.active = v.active /\ Added(v, w, NewBubble(kind, t, x))
  <2>1. w = Ending(v, "error", t, x)
    BY <1>1 DEF Failed
  <2>2. /\ w \in ViewSet /\ Writing(w) /\ ~w.busy
        /\ w.active = v.active /\ Added(v, w, NewBubble("error", t, x))
    BY <1>3, <2>1, DoneError
  <2>3. QED
    BY <1>1, <2>2
<1>5. /\ N \in Nat /\ DOMAIN v.bubbles = 1 .. N /\ DOMAIN w.bubbles = 1 .. N + 1
      /\ Len(w.bubbles) = N + 1 /\ \A i \in 1 .. N : w.bubbles[i] = v.bubbles[i]
  BY <1>1, <1>3, <1>4, AddedIs
<1>6. InStep(h, v)
  BY <1>2 DEF Screen, Untouched
<1>7. Ends(s, Scroll(v, more)[N]) /\ (v.active # 0 => Of(v.bubbles[v.active].text, more))
  BY <1>1, <1>2, <1>6, OddEnds
<1>8. Told(g) = s
  <2>1. CASE g.history = h.history
    BY <1>1, <2>1 DEF Told
  <2>2. CASE \E m \in ItemSet : h.history = Append(g.history, m) /\ Of(m.text, g.odd)
    <3>1. PICK m \in ItemSet : h.history = Append(g.history, m) /\ Of(m.text, g.odd)
      BY <2>2
    <3>2. g.history \in Seq(LineSet) /\ m \in LineSet
      BY HostFields, ItemsAreLines
    <3>3. Said(Append(g.history, m), more) = Said(g.history, more) \o Heard(m, more)
      BY <3>2, TellingAppend
    <3>4. Heard(m, more) = << >>
      BY <1>1, <3>1, <3>2, HeardIs
    <3>5. Said(g.history, more) \in Seq(PieceSet)
      BY HostFields, ToldIs
    <3>6. Said(g.history, more) \o << >> = Said(g.history, more)
      BY <3>5, JoinEmpty
    <3>7. QED
      BY <1>1, <3>1, <3>3, <3>4, <3>6 DEF Told
  <2>3. QED
    BY <2>1, <2>2 DEF Failed
<1>9. Scroll(w, more)[Len(w.bubbles)] = Scroll(v, more)[N]
  <2>1. Scroll(w, more)[Len(w.bubbles)] = Scroll(v, more)[Len(v.bubbles)] \o Heard(Item(kind, t, x), more)
    BY <1>3, <1>4, ScrollLast
  <2>2. Heard(Item(kind, t, x), more) = << >>
    BY <1>3, LineIs
  <2>3. \A n \in 0 .. Len(v.bubbles) : Scroll(v, more)[n] \in Seq(PieceSet)
    BY ScrollIs
  <2>4. Scroll(v, more)[N] \o << >> = Scroll(v, more)[N]
    <3>1. Scroll(v, more)[N] \in Seq(PieceSet)
      BY <1>1, <1>5, <2>3
    <3>2. QED
      BY <3>1, JoinEmpty
  <2>5. QED
    BY <1>1, <2>1, <2>2, <2>4
<1>10. w.active # 0 => Of(w.bubbles[w.active].text, more)
  <2>1. v.active # 0 => v.active \in 1 .. N
    BY <1>5 DEF Writing
  <2>2. QED
    BY <1>4, <1>5, <1>7, <2>1
<1>11. InStep(g, w)
  BY <1>1, <1>2, <1>7, <1>8, <1>9, <1>10 DEF InStep, Streamed, Reading, Scroll
<1>12. \A i \in DOMAIN w.bubbles : Of(w.bubbles[i].text, Turns(h))
  <2>1. \A i \in DOMAIN v.bubbles : Of(v.bubbles[i].text, Turns(h))
    BY DEF Screen
  <2>2. Of(x, Turns(h))
    BY <1>1 DEF Of
  <2>3. QED
    BY <1>3, <1>4, <2>1, <2>2, AddedTexts
<1>13. (Waits(g) => Turns(g) \subseteq g.odd) /\ Turns(g) = Turns(h)
  <2>1. Waits(h) => Turns(h) \subseteq h.odd
    BY <1>2 DEF Screen, Untouched
  <2>2. QED
    BY <1>2, <2>1 DEF Waits, Turns
<1>14. w.busy = Busy(g)
  <2>1. w.busy \in BOOLEAN
    BY <1>4, ViewFields
  <2>2. QED
    BY <1>2, <1>4, <2>1 DEF Busy
<1>15. w.active # 0 => g.open
  BY <1>2, <1>4 DEF Screen
<1>16. QED
  BY <1>11, <1>12, <1>13, <1>14, <1>15 DEF Screen

\* How a turn begins: the question x, in the history and on the screen.
Asking(v, t, x) == Shown(Shown(v, Msg("busy", t, << >>)), Msg("user", t, x))
Begins(h, g, v, w, t, x) ==
  /\ ~Busy(h) /\ Busy(g) /\ ~g.turn.started
  /\ t = Len(h.facts) + 1 /\ Len(g.facts) = t /\ Of(x, {t})
  /\ g.restored = h.restored /\ g.replayed = h.replayed /\ g.open = h.open
  /\ g.history = Trim(Append(h.history, Item("user", t, x)))
  /\ \A i \in 1 .. Len(h.history) : Of(h.history[i].text, Turns(h))
  /\ g.odd = IF Waits(h) THEN h.odd \cup {0, t} ELSE h.odd
  /\ w = Asking(v, t, x)

LEMMA AskingIs ==
  ASSUME NEW v \in ViewSet, Writing(v), NEW t \in Nat, NEW x \in Seq(PieceSet)
  PROVE  /\ Asking(v, t, x) = Shows(v, <<Msg("busy", t, << >>), Msg("user", t, x)>>)
         /\ Asking(v, t, x) \in ViewSet /\ Writing(Asking(v, t, x)) /\ Asking(v, t, x).busy
         /\ Asking(v, t, x).active = v.active
         /\ Added(v, Asking(v, t, x), NewBubble("user", t, x))
<1>1. PICK e, z, y, m, s, u, w :
        /\ e = << >> /\ z = "busy" /\ y = "user" /\ m = Msg(z, t, e) /\ s = Msg(y, t, x)
        /\ u = Shown(v, m) /\ w = Asking(v, t, x)
  OBVIOUS
<1>2. e \in Seq(PieceSet) /\ z \in MsgTypes /\ y \in MsgTypes /\ z = "busy" /\ y = "user"
  BY <1>1 DEF MsgTypes, Kinds
<1>3. m \in MsgSet /\ m.type = "busy"
  <2>1. Msg(z, t, e) \in MsgSet /\ Msg(z, t, e).type = z
    BY <1>2, Messages
  <2>2. QED
    BY <1>1, <2>1
<1>4. s \in MsgSet /\ s.type = y /\ s.turn = t /\ s.text = x
  BY <1>1, <1>2, Messages
<1>5. w = Shown(u, s)
  BY <1>1 DEF Asking
<1>6. /\ u \in ViewSet /\ Writing(u) /\ u.bubbles = v.bubbles /\ u.active = v.active
  BY <1>1, <1>3, ShownType, ShownFlag
<1>7. Shown(v, m).busy = IF m.type = "busy" THEN TRUE ELSE IF m.type = "idle" THEN FALSE ELSE v.busy
  BY <1>3, ShownBusy
<1>8. Shown(u, s).busy = IF s.type = "busy" THEN TRUE ELSE IF s.type = "idle" THEN FALSE ELSE u.busy
  BY <1>4, <1>6, ShownBusy
<1>9. w.busy
  BY <1>1, <1>2, <1>3, <1>4, <1>5, <1>7, <1>8
<1>10. s.type \notin Changing
  BY <1>2, <1>4 DEF Changing
<1>11. w.active = u.active /\ Added(u, w, NewBubble(s.type, s.turn, s.text))
  BY <1>4, <1>5, <1>6, <1>10, ShownAdds
<1>12. Added(v, w, NewBubble("user", t, x))
  BY <1>2, <1>4, <1>6, <1>11 DEF Added
<1>13. w \in ViewSet /\ Writing(w)
  BY <1>4, <1>5, <1>6, ShownType
<1>14. Shows(v, <<m, s>>) = Shown(Shown(v, m), s)
  BY <1>3, <1>4, ShowsTwo
<1>15. QED
  BY <1>1, <1>5, <1>6, <1>9, <1>11, <1>12, <1>13, <1>14

\* The question is on the screen as in the history; but a restored conversation
\* that is not there yet is left out with it.
LEMMA AskShows ==
  ASSUME NEW h \in HostSet, NEW g \in HostSet, NEW v \in ViewSet, Writing(v), Screen(h, v),
         NEW t \in Nat, NEW x \in Seq(PieceSet), NEW w, Begins(h, g, v, w, t, x)
  PROVE  Screen(g, w)
<1>1. PICK N, more, kind, m, all :
        /\ N = Len(v.bubbles) /\ more = g.odd /\ kind = "user" /\ m = Item(kind, t, x)
        /\ all = Append(h.history, m)
  OBVIOUS
<1>2. /\ ~Busy(h) /\ Busy(g) /\ ~g.turn.started
      /\ t = Len(h.facts) + 1 /\ Len(g.facts) = t /\ Of(x, {t})
      /\ g.restored = h.restored /\ g.replayed = h.replayed /\ g.open = h.open
      /\ g.odd = IF Waits(h) THEN h.odd \cup {0, t} ELSE h.odd
  BY DEF Begins
<1>3. g.history = Trim(all) /\ \A i \in 1 .. Len(h.history) : Of(h.history[i].text, Turns(h))
  BY <1>1 DEF Begins
<1>4. kind \in Kinds /\ m \in ItemSet /\ m \in LineSet /\ m.text = x
  <2>1. kind \in Kinds /\ kind \in {"system", "user", "assistant", "tool"}
    BY <1>1 DEF Kinds
  <2>2. QED
    BY <1>1, <2>1, ItemsAreLines DEF Roles
<1>5. /\ w \in ViewSet /\ Writing(w) /\ w.busy /\ w.active = v.active
      /\ Added(v, w, NewBubble(kind, t, x))
  <2>1. w = Asking(v, t, x)
    BY DEF Begins
  <2>2. QED
    BY <1>1, <2>1, AskingIs
<1>6. /\ N \in Nat /\ DOMAIN v.bubbles = 1 .. N /\ DOMAIN w.bubbles = 1 .. N + 1
      /\ Len(w.bubbles) = N + 1 /\ \A i \in 1 .. N : w.bubbles[i] = v.bubbles[i]
  BY <1>1, <1>4, <1>5, AddedIs
<1>7. h.history \in Seq(ItemSet) /\ all \in Seq(ItemSet) /\ Len(h.facts) \in Nat
  BY <1>1, <1>4, HostFields
<1>8. Turns(h) \subseteq Turns(g) /\ t \in Turns(g)
  BY <1>2, <1>7 DEF Turns
<1>9. h.odd \subseteq more
  BY <1>1, <1>2
<1>10. ~Streamed(g) /\ ~Streamed(h)
  BY <1>2 DEF Streamed
<1>11. ASSUME InStep(h, v), v.active # 0 PROVE Of(v.bubbles[v.active].text, more)
  <2>1. Of(v.bubbles[v.active].text, h.odd)
    BY <1>10, <1>11 DEF InStep
  <2>2. QED
    BY <1>9, <2>1, OfMore
<1>12. w.active # 0 => Of(w.bubbles[w.active].text, more)
  <2>1. v.active # 0 => v.active \in 1 .. N
    BY <1>6 DEF Writing
  <2>2. v.active # 0 => InStep(h, v)
    BY DEF Screen, Untouched
  <2>3. QED
    BY <1>5, <1>6, <1>11, <2>1, <2>2
<1>13. /\ Scroll(v, more)[N] \in Seq(PieceSet)
       /\ Scroll(w, more)[Len(w.bubbles)] = Scroll(v, more)[N] \o Heard(m, more)
       /\ Scroll(w, more)[Len(w.bubbles)] \in Seq(PieceSet)
  <2>1. Scroll(w, more)[Len(w.bubbles)] = Scroll(v, more)[Len(v.bubbles)] \o Heard(Item(kind, t, x), more)
    BY <1>4, <1>5, ScrollLast
  <2>2. \A n \in 0 .. N : Scroll(v, more)[n] \in Seq(PieceSet)
    BY <1>1, ScrollIs
  <2>3. \A n \in 0 .. Len(w.bubbles) : Scroll(w, more)[n] \in Seq(PieceSet)
    BY <1>5, ScrollIs
  <2>4. Scroll(v, more)[N] \in Seq(PieceSet)
    BY <1>1, <1>6, <2>2
  <2>5. Scroll(w, more)[Len(w.bubbles)] \in Seq(PieceSet)
    BY <1>6, <2>3
  <2>6. QED
    BY <1>1, <2>1, <2>4, <2>5
<1>14. ASSUME Waits(h) PROVE InStep(g, w) /\ (Waits(g) => Turns(g) \subseteq g.odd)
  <2>1. Turns(g) \subseteq more
    <3>1. CASE Untouched(h, v)
      <4>1. Len(h.facts) = 0
        BY <3>1 DEF Untouched
      <4>2. QED
        BY <1>1, <1>2, <1>14, <4>1 DEF Turns
    <3>2. CASE ~Untouched(h, v)
      <4>1. Turns(h) \subseteq h.odd
        BY <1>14, <3>2 DEF Screen
      <4>2. \A y \in Turns(g) : y \in Turns(h) \/ y = t
        BY <1>2, <1>7 DEF Turns
      <4>3. QED
        BY <1>1, <1>2, <1>14, <4>1, <4>2
    <3>3. QED
      BY <3>1, <3>2
  <2>2. ASSUME NEW i \in 1 .. Len(all) PROVE Of(all[i].text, more)
    <3>1. CASE i \in 1 .. Len(h.history)
      <4>1. all[i] = h.history[i]
        BY <1>1, <1>4, <1>7, <3>1
      <4>2. Of(h.history[i].text, Turns(h))
        BY <1>3, <3>1
      <4>3. QED
        BY <1>8, <2>1, <4>1, <4>2 DEF Of
    <3>2. CASE i \notin 1 .. Len(h.history)
      <4>1. all[i] = m
        BY <1>1, <1>4, <1>7, <3>2
      <4>2. QED
        BY <1>2, <1>4, <1>8, <2>1, <4>1 DEF Of
    <3>3. QED
      BY <3>1, <3>2
  <2>3. ASSUME NEW i \in 1 .. Len(Trim(all)) PROVE Of(Trim(all)[i].text, more)
    <3>1. PICK j \in 1 .. Len(all) : Trim(all)[i] = all[j]
      BY <1>7, TrimIs
    <3>2. QED
      BY <2>2, <3>1
  <2>4. Trim(all) \in Seq(ItemSet)
    BY <1>7, TrimIs
  <2>5. Told(g) = << >>
    BY <1>1, <1>3, <2>3, <2>4, ToldIs DEF Told
  <2>6. PICK z : z = Scroll(w, more)[Len(w.bubbles)]
    OBVIOUS
  <2>7. Ends(<< >>, Scroll(w, more)[Len(w.bubbles)])
    <3>1. z \in Seq(PieceSet)
      BY <1>13, <2>6
    <3>2. QED
      BY <2>6, <3>1, EndsFacts
  <2>8. InStep(g, w)
    BY <1>1, <1>10, <1>12, <2>5, <2>7 DEF InStep, Reading, Scroll
  <2>9. QED
    BY <1>1, <2>1, <2>8
<1>15. ASSUME ~Waits(h) PROVE InStep(g, w) /\ (Waits(g) => Turns(g) \subseteq g.odd)
  <2>1. InStep(h, v) /\ more = h.odd /\ ~Waits(g)
    BY <1>1, <1>2, <1>15 DEF Screen, Untouched, Waits
  <2>2. PICK s, r : s = Said(h.history, more) /\ r = Heard(m, more)
    OBVIOUS
  <2>3. Ends(s, Scroll(v, more)[N])
    BY <1>1, <1>10, <2>1, <2>2 DEF InStep, Reading, Scroll, Told
  <2>4. s \in Seq(PieceSet) /\ r \in Seq(PieceSet)
    BY <1>4, <1>7, <2>2, ToldIs, HeardIs
  <2>5. Said(all, more) = s \o r
    <3>1. h.history \in Seq(LineSet)
      BY <1>7, ItemsAreLines
    <3>2. QED
      BY <1>1, <1>4, <2>2, <3>1, TellingAppend
  <2>6. Ends(s \o r, Scroll(w, more)[Len(w.bubbles)])
    BY <1>13, <2>2, <2>3, <2>4, EndsFacts
  <2>7. PICK u \in Seq(PieceSet) : Said(all, more) = u \o Said(Trim(all), more)
    BY <1>7, TrimIs
  <2>8. PICK k : k = Said(Trim(all), more)
    OBVIOUS
  <2>9. k \in Seq(PieceSet)
    BY <1>7, <2>8, TrimIs, ToldIs
  <2>10. Ends(u \o k, Scroll(w, more)[Len(w.bubbles)])
    BY <2>5, <2>6, <2>7, <2>8
  <2>11. Ends(k, Scroll(w, more)[Len(w.bubbles)])
    <3>1. PICK z : z = Scroll(w, more)[Len(w.bubbles)]
      OBVIOUS
    <3>2. z \in Seq(PieceSet) /\ Ends(u \o k, z)
      BY <1>13, <2>10, <3>1
    <3>3. \A y \in Seq(PieceSet) : Ends(u \o y, z) => Ends(y, z)
      BY <3>2, EndsFacts
    <3>4. QED
      BY <2>9, <3>1, <3>2, <3>3
  <2>12. InStep(g, w)
    BY <1>1, <1>3, <1>10, <1>12, <2>8, <2>11 DEF InStep, Reading, Scroll, Told
  <2>13. QED
    BY <2>1, <2>12
<1>16. InStep(g, w) /\ (Waits(g) => Turns(g) \subseteq g.odd)
  BY <1>1, <1>14, <1>15
<1>17. \A i \in DOMAIN w.bubbles : Of(w.bubbles[i].text, Turns(g))
  <2>1. \A i \in DOMAIN v.bubbles : Of(v.bubbles[i].text, Turns(h))
    BY DEF Screen
  <2>2. \A i \in DOMAIN v.bubbles : Of(v.bubbles[i].text, Turns(g))
    BY <1>8, <2>1, OfMore
  <2>3. Of(x, Turns(g))
    BY <1>2, <1>8 DEF Of
  <2>4. QED
    BY <1>4, <1>5, <2>2, <2>3, AddedTexts
<1>18. (w.active # 0 => g.open) /\ w.busy = Busy(g)
  <2>1. w.busy \in BOOLEAN
    BY <1>5, ViewFields
  <2>2. QED
    BY <1>2, <1>5, <2>1 DEF Screen, Busy
<1>19. QED
  BY <1>16, <1>17, <1>18 DEF Screen

-----------------------------------------------------------------------------
(* A conversation that is replayed.                                          *)

\* What is replayed of it, and the message for each.
Talk == {m \in ItemSet : m.role \in {"user", "assistant"} /\ m.text # << >>}
Told1(m) == Msg(IF m.role = "user" THEN "user" ELSE "assistant", m.turn, m.text)
Replays(q) == [i \in DOMAIN q |-> Told1(q[i])]

LEMMA ReplayIs ==
  ASSUME NEW list \in Seq(ItemSet)
  PROVE  /\ Filter(list, Talk) \in Seq(Talk)
         /\ Replay(list) = Replays(Filter(list, Talk))
         /\ \A i \in 1 .. Len(Filter(list, Talk)) :
              \E j \in 1 .. Len(list) : Filter(list, Talk)[i] = list[j]
<1>1. PICK R : R = {m \in ToSet(list) : m.role \in {"user", "assistant"} /\ m.text # << >>}
  OBVIOUS
<1>2. \A i \in 1 .. Len(list) : list[i] \in R <=> list[i] \in Talk
  BY <1>1 DEF Talk, ToSet
<1>3. Filter(list, R) = Filter(list, Talk)
  BY <1>2, FilterSame
<1>4. Replay(list) = Replays(Filter(list, R))
  BY <1>1 DEF Replay, Replays, Told1
<1>5. PICK f : f = Filter(list, Talk)
  OBVIOUS
<1>6. f \in Seq(ItemSet)
  BY <1>5, FilterType
<1>7. \A i \in 1 .. Len(f) : f[i] \in Talk /\ \E j \in 1 .. Len(list) : list[j] = f[i]
  BY <1>5, FilterMembers
<1>8. f \in Seq(Talk)
  <2>1. Len(f) \in Nat /\ DOMAIN f = 1 .. Len(f) /\ f = [i \in 1 .. Len(f) |-> f[i]]
    BY <1>6
  <2>2. QED
    BY <1>7, <2>1
<1>9. QED
  BY <1>3, <1>4, <1>5, <1>7, <1>8

LEMMA TalkIs ==
  ASSUME NEW x \in Talk
  PROVE  /\ x \in ItemSet /\ x \in LineSet /\ x.turn \in Nat /\ x.text \in Seq(PieceSet)
         /\ x.role \in {"user", "assistant"}
         /\ Told1(x) \in MsgSet /\ Told1(x).type = x.role
         /\ Told1(x).turn = x.turn /\ Told1(x).text = x.text
         /\ \A odd : Heard(Item(x.role, x.turn, x.text), odd) = Heard(x, odd)
<1>1. x \in ItemSet /\ x.role \in {"user", "assistant"}
  BY DEF Talk
<1>2. x.turn \in Nat /\ x.text \in Seq(PieceSet) /\ x.role \in {"system", "user", "assistant", "tool"}
  BY <1>1 DEF ItemSet
<1>3. x.role \in MsgTypes
  BY <1>1 DEF MsgTypes, Kinds
<1>4. Told1(x) = Msg(x.role, x.turn, x.text)
  BY <1>1 DEF Told1
<1>5. x = Item(x.role, x.turn, x.text)
  BY <1>1 DEF ItemSet, Item
<1>6. x \in LineSet
  BY <1>1, ItemsAreLines
<1>7. PICK r : r = x.role
  OBVIOUS
<1>8. Msg(r, x.turn, x.text) \in MsgSet /\ Msg(r, x.turn, x.text).type = r
      /\ Msg(r, x.turn, x.text).turn = x.turn /\ Msg(r, x.turn, x.text).text = x.text
  BY <1>2, <1>3, <1>7, Messages
<1>9. \A odd : Heard(Item(x.role, x.turn, x.text), odd) = Heard(x, odd)
  BY <1>5
<1>10. QED
  BY <1>1, <1>2, <1>4, <1>6, <1>7, <1>8, <1>9

LEMMA ReplaysMore ==
  /\ Replays(<< >>) = << >>
  /\ \A q \in Seq(Talk) : Replays(q) \in Seq(MsgSet)
  /\ \A q \in Seq(Talk), x \in Talk : Replays(Append(q, x)) = Append(Replays(q), Told1(x))
<1>1. Replays(<< >>) = << >>
  BY DEF Replays
<1>2. ASSUME NEW q \in Seq(Talk)
      PROVE  /\ Replays(q) \in Seq(MsgSet) /\ Len(Replays(q)) = Len(q)
             /\ \A i \in 1 .. Len(q) : Replays(q)[i] = Told1(q[i])
  <2>1. \A i \in 1 .. Len(q) : Told1(q[i]) \in MsgSet
    BY TalkIs
  <2>2. QED
    BY <2>1 DEF Replays
<1>3. ASSUME NEW q \in Seq(Talk), NEW x \in Talk
      PROVE  Replays(Append(q, x)) = Append(Replays(q), Told1(x))
  <2>1. PICK a, b, c : a = Append(q, x) /\ b = Replays(a) /\ c = Append(Replays(q), Told1(x))
    OBVIOUS
  <2>2. a \in Seq(Talk) /\ Len(a) = Len(q) + 1 /\ Len(q) \in Nat
        /\ a[Len(q) + 1] = x /\ \A i \in 1 .. Len(q) : a[i] = q[i]
    BY <2>1
  <2>3. b \in Seq(MsgSet) /\ Len(b) = Len(q) + 1 /\ \A i \in 1 .. Len(a) : b[i] = Told1(a[i])
    BY <1>2, <2>1, <2>2
  <2>4. Told1(x) \in MsgSet
    BY TalkIs
  <2>5. PICK d : d = Replays(q)
    OBVIOUS
  <2>6. d \in Seq(MsgSet) /\ Len(d) = Len(q) /\ \A i \in 1 .. Len(q) : d[i] = Told1(q[i])
    BY <1>2, <2>5
  <2>7. c \in Seq(MsgSet) /\ Len(c) = Len(q) + 1 /\ c[Len(q) + 1] = Told1(x)
        /\ \A i \in 1 .. Len(q) : c[i] = d[i]
    BY <2>1, <2>4, <2>5, <2>6
  <2>8. \A i \in 1 .. Len(q) + 1 : b[i] = c[i]
    <3>1. ASSUME NEW i \in 1 .. Len(q) + 1 PROVE b[i] = c[i]
      <4>1. CASE i \in 1 .. Len(q)
        BY <2>2, <2>3, <2>6, <2>7, <4>1
      <4>2. CASE i = Len(q) + 1
        BY <2>2, <2>3, <2>7, <4>2
      <4>3. QED
        BY <2>2, <4>1, <4>2
    <3>2. QED
      BY <3>1
  <2>9. b = c
    BY <2>2, <2>3, <2>7, <2>8
  <2>10. QED
    BY <2>1, <2>9
<1>4. QED
  BY <1>1, <1>2, <1>3

\* One message: it is added, or it takes the place of what the active bubble holds.
LEMMA ReplayStep ==
  ASSUME NEW v \in ViewSet, Writing(v), NEW x \in Talk, NEW w, w = Shown(v, Told1(x))
  PROVE  /\ w \in ViewSet /\ Writing(w) /\ w.busy = v.busy /\ w.active \in {0, v.active}
         /\ v.active = 0 => Added(v, w, NewBubble(x.role, x.turn, x.text))
         /\ \/ Added(v, w, NewBubble(x.role, x.turn, x.text))
            \/ v.active \in 1 .. Len(v.bubbles) /\ Wrote(v, w, v.active, x.text)
<1>1. PICK m, r, t, y : m = Told1(x) /\ r = x.role /\ t = x.turn /\ y = x.text
  OBVIOUS
<1>2. m \in MsgSet /\ m.type = r /\ m.turn = t /\ m.text = y /\ r \in {"user", "assistant"}
  BY <1>1, TalkIs
<1>3. w = Shown(v, m)
  BY <1>1
<1>4. w \in ViewSet /\ Writing(w)
  BY <1>2, <1>3, ShownType
<1>5. w.busy = v.busy
  BY <1>2, <1>3, ShownBusy
<1>6. v.active # 0 => v.active \in 1 .. Len(v.bubbles)
  BY ViewFields DEF Writing
<1>7. CASE r = "user"
  <2>1. m.type \notin Changing
    BY <1>2, <1>7 DEF Changing
  <2>2. Shown(v, m).active = v.active /\ Added(v, Shown(v, m), NewBubble(m.type, m.turn, m.text))
    BY <1>2, <2>1, ShownAdds
  <2>3. QED
    BY <1>1, <1>2, <1>3, <1>4, <1>5, <2>2
<1>8. CASE r = "assistant"
  <2>1. /\ Shown(v, m).active = 0
        /\ v.active # 0 => Wrote(v, Shown(v, m), v.active, m.text)
        /\ v.active = 0 => Added(v, Shown(v, m), NewBubble("assistant", m.turn, m.text))
    BY <1>2, <1>8, ShownAssistant
  <2>2. /\ w.active = 0
        /\ v.active # 0 => Wrote(v, w, v.active, y)
        /\ v.active = 0 => Added(v, w, NewBubble(r, t, y))
    BY <1>2, <1>3, <1>8, <2>1
  <2>3. QED
    BY <1>1, <1>4, <1>5, <1>6, <2>2
<1>9. QED
  BY <1>2, <1>7, <1>8

\* What is kept of the texts of the screen and of the screen's last bubble.
Texts(v, S) == \A i \in DOMAIN v.bubbles : Of(v.bubbles[i].text, S)
Lines(list, S) == \A i \in DOMAIN list : Of(list[i].text, S)
Grown(v, w, said, odd) ==
  v.active = 0 => Scroll(w, odd)[Len(w.bubbles)] = Scroll(v, odd)[Len(v.bubbles)] \o said

LEMMA ReplayStepIs ==
  ASSUME NEW v \in ViewSet, Writing(v), NEW x \in Talk, NEW w, w = Shown(v, Told1(x)), NEW odd
  PROVE  /\ \A S : Texts(v, S) /\ Of(x.text, S) => Texts(w, S)
         /\ Grown(v, w, Heard(x, odd), odd)
<1>1. PICK r, t, y : r = x.role /\ t = x.turn /\ y = x.text
  OBVIOUS
<1>2. r \in {"user", "assistant"} /\ t \in Nat /\ y \in Seq(PieceSet)
  BY <1>1, TalkIs
<1>3. r \in Kinds /\ r # "card"
  BY <1>2 DEF Kinds
<1>4. /\ w \in ViewSet
      /\ v.active = 0 => Added(v, w, NewBubble(r, t, y))
      /\ \/ Added(v, w, NewBubble(r, t, y))
         \/ v.active \in 1 .. Len(v.bubbles) /\ Wrote(v, w, v.active, y)
  BY <1>1, ReplayStep
<1>5. ASSUME NEW S, Texts(v, S), Of(y, S) PROVE Texts(w, S)
  <2>1. \A i \in DOMAIN v.bubbles : Of(v.bubbles[i].text, S)
    BY <1>5 DEF Texts
  <2>2. CASE Added(v, w, NewBubble(r, t, y))
    <3>1. \A i \in DOMAIN w.bubbles : Of(w.bubbles[i].text, S)
      BY <1>2, <1>3, <1>4, <1>5, <2>1, <2>2, AddedTexts
    <3>2. QED
      BY <3>1 DEF Texts
  <2>3. CASE v.active \in 1 .. Len(v.bubbles) /\ Wrote(v, w, v.active, y)
    <3>1. PICK k : k = v.active
      OBVIOUS
    <3>2. k \in 1 .. Len(v.bubbles) /\ Wrote(v, w, k, y)
      BY <2>3, <3>1
    <3>3. \A i \in DOMAIN w.bubbles : Of(w.bubbles[i].text, S)
      BY <1>2, <1>4, <1>5, <2>1, <3>2, WroteTexts
    <3>4. QED
      BY <3>3 DEF Texts
  <2>4. QED
    BY <1>4, <2>2, <2>3
<1>6. ASSUME v.active = 0
      PROVE Scroll(w, odd)[Len(w.bubbles)] = Scroll(v, odd)[Len(v.bubbles)] \o Heard(x, odd)
  <2>1. r \in Kinds /\ t \in Nat /\ y \in Seq(PieceSet) /\ w \in ViewSet /\ Added(v, w, NewBubble(r, t, y))
    BY <1>2, <1>3, <1>4, <1>6
  <2>2. Scroll(w, odd)[Len(w.bubbles)] = Scroll(v, odd)[Len(v.bubbles)] \o Heard(Item(r, t, y), odd)
    BY <2>1, ScrollLast
  <2>3. Heard(Item(r, t, y), odd) = Heard(x, odd)
    BY <1>1, TalkIs
  <2>4. QED
    BY <2>2, <2>3
<1>7. QED
  BY <1>1, <1>5, <1>6 DEF Grown

\* All of them, one after the other.
Replaying(v, w, q, S, odd) ==
  /\ w.busy = v.busy /\ w.active \in {0, v.active}
  /\ Texts(v, S) /\ Lines(q, S) => Texts(w, S)
  /\ Grown(v, w, Said(q, odd), odd)

LEMMA ReplaysShow ==
  ASSUME NEW v \in ViewSet, Writing(v), NEW S, NEW odd
  PROVE  \A q \in Seq(Talk) : Replaying(v, Shows(v, Replays(q)), q, S, odd)
<1>1. Talk \subseteq LineSet /\ Seq(Talk) \subseteq Seq(LineSet)
  <2>1. Talk \subseteq LineSet
    BY TalkIs
  <2>2. QED
    BY <2>1
<1> DEFINE P == {q \in Seq(Talk) : Replaying(v, Shows(v, Replays(q)), q, S, odd)}
<1>2. << >> \in P
  <2>1. PICK e, u : e = << >> /\ u = Shows(v, Replays(e))
    OBVIOUS
  <2>2. u = v
    BY <2>1, ReplaysMore, ShowsNone
  <2>3. Said(e, odd) = << >>
    BY <2>1, SaidEmpty
  <2>4. Len(v.bubbles) \in Nat /\ \A n \in 0 .. Len(v.bubbles) : Scroll(v, odd)[n] \in Seq(PieceSet)
    BY ViewFields, ScrollIs
  <2>5. Scroll(v, odd)[Len(v.bubbles)] \in Seq(PieceSet)
    BY <2>4
  <2>6. Scroll(v, odd)[Len(v.bubbles)] \o << >> = Scroll(v, odd)[Len(v.bubbles)]
    BY <2>5, JoinEmpty
  <2>7. Grown(v, v, << >>, odd)
    BY <2>6 DEF Grown
  <2>8. Replaying(v, u, e, S, odd)
    BY <2>2, <2>3, <2>7 DEF Replaying
  <2>9. QED
    BY <2>1, <2>8
<1>3. ASSUME NEW q \in Seq(Talk), q \in P, NEW x \in Talk PROVE Append(q, x) \in P
  <2>1. PICK u, w, a : u = Shows(v, Replays(q)) /\ a = Append(q, x) /\ w = Shows(v, Replays(a))
    OBVIOUS
  <2>2. Replaying(v, u, q, S, odd)
    BY <1>3, <2>1
  <2>3. Replays(q) \in Seq(MsgSet) /\ Replays(a) = Append(Replays(q), Told1(x)) /\ Told1(x) \in MsgSet
    BY <2>1, ReplaysMore, TalkIs
  <2>4. u \in ViewSet /\ Writing(u) /\ w = Shown(u, Told1(x))
    BY <2>1, <2>3, ShowsMore
  <2>5. w \in ViewSet /\ w.busy = u.busy /\ w.active \in {0, u.active}
    BY <2>4, ReplayStep
  <2>6. Texts(u, S) /\ Of(x.text, S) => Texts(w, S)
    BY <2>4, ReplayStepIs
  <2>7. Grown(u, w, Heard(x, odd), odd)
    BY <2>4, ReplayStepIs
  <2>8. Lines(a, S) => Lines(q, S) /\ Of(x.text, S)
    <3>1. Len(q) \in Nat /\ DOMAIN q = 1 .. Len(q) /\ DOMAIN a = 1 .. Len(q) + 1
          /\ a[Len(q) + 1] = x /\ \A i \in 1 .. Len(q) : a[i] = q[i]
      BY <2>1
    <3>2. QED
      BY <3>1 DEF Lines
  <2>9. Said(a, odd) = Said(q, odd) \o Heard(x, odd)
    <3>1. q \in Seq(LineSet) /\ x \in LineSet
      BY <1>1
    <3>2. QED
      BY <2>1, <3>1, TellingAppend
  <2>10. Grown(v, w, Said(a, odd), odd)
    <3>1. SUFFICES ASSUME v.active = 0
                   PROVE Scroll(w, odd)[Len(w.bubbles)] = Scroll(v, odd)[Len(v.bubbles)] \o Said(a, odd)
      BY DEF Grown
    <3>2. u.active = 0
      BY <2>2, <3>1 DEF Replaying
    <3>3. Scroll(u, odd)[Len(u.bubbles)] = Scroll(v, odd)[Len(v.bubbles)] \o Said(q, odd)
      BY <2>2, <3>1 DEF Replaying, Grown
    <3>4. Scroll(w, odd)[Len(w.bubbles)] = Scroll(u, odd)[Len(u.bubbles)] \o Heard(x, odd)
      BY <2>7, <3>2 DEF Grown
    <3>5. PICK A, B, C : A = Scroll(v, odd)[Len(v.bubbles)] /\ B = Said(q, odd) /\ C = Heard(x, odd)
      OBVIOUS
    <3>6. Len(v.bubbles) \in Nat /\ \A n \in 0 .. Len(v.bubbles) : Scroll(v, odd)[n] \in Seq(PieceSet)
      BY ViewFields, ScrollIs
    <3>7. A \in Seq(PieceSet)
      BY <3>5, <3>6
    <3>8. B \in Seq(PieceSet)
      BY <1>1, <3>5, TellingIs
    <3>9. C \in Seq(PieceSet)
      BY <1>1, <3>5, HeardIs
    <3>10. A \o (B \o C) = (A \o B) \o C
      BY <3>7, <3>8, <3>9, JoinJoin
    <3>11. QED
      BY <2>9, <3>3, <3>4, <3>5, <3>10
  <2>11. Replaying(v, w, a, S, odd)
    BY <2>2, <2>5, <2>6, <2>7, <2>8, <2>10 DEF Replaying
  <2>12. a \in Seq(Talk)
    BY <2>1
  <2>13. QED
    BY <2>1, <2>11, <2>12
<1>4. \A q \in Seq(Talk) : q \in P
  <2> HIDE DEF P
  <2>1. QED
    BY <1>2, <1>3, InductAppend
<1>5. QED
  BY <1>4

\* What is left out says nothing.
LEMMA TalkSaid ==
  ASSUME NEW odd
  PROVE  \A list \in Seq(ItemSet) : Said(Filter(list, Talk), odd) = Said(list, odd)
<1> DEFINE P == {list \in Seq(ItemSet) : Said(Filter(list, Talk), odd) = Said(list, odd)}
<1>1. << >> \in P
  <2>1. PICK e : e = << >>
    OBVIOUS
  <2>2. e \in Seq(ItemSet) /\ Len(e) = 0
    BY <2>1
  <2>3. Filter(e, Talk) = e
    BY <2>1, <2>2, FilterEmpty
  <2>4. QED
    BY <2>1, <2>2, <2>3
<1>2. ASSUME NEW list \in Seq(ItemSet), list \in P, NEW x \in ItemSet PROVE Append(list, x) \in P
  <2>1. PICK f, a : f = Filter(list, Talk) /\ a = Append(list, x)
    OBVIOUS
  <2>2. f \in Seq(ItemSet)
    BY <2>1, FilterType
  <2>3. f \in Seq(LineSet) /\ list \in Seq(LineSet) /\ x \in LineSet
    BY <2>2, ItemsAreLines
  <2>4. Filter(a, Talk) = IF x \in Talk THEN Append(f, x) ELSE f
    BY <2>1, FilterAppend
  <2>5. Said(a, odd) = Said(list, odd) \o Heard(x, odd)
    BY <2>1, <2>3, TellingAppend
  <2>6. Said(Append(f, x), odd) = Said(f, odd) \o Heard(x, odd)
    BY <2>3, TellingAppend
  <2>7. Said(f, odd) = Said(list, odd)
    BY <1>2, <2>1
  <2>8. Said(f, odd) \in Seq(PieceSet)
    BY <2>3, TellingIs
  <2>9. x \notin Talk => Heard(x, odd) = << >>
    <3>1. x.text = << >> => Of(x.text, odd)
      BY DEF Of
    <3>2. x \notin Talk => x.role \notin {"user", "assistant"} \/ x.text = << >>
      BY DEF Talk
    <3>3. QED
      BY <2>3, <3>1, <3>2, HeardIs
  <2>10. Said(f, odd) \o << >> = Said(f, odd)
    BY <2>8, JoinEmpty
  <2>11. Said(Filter(a, Talk), odd) = Said(a, odd)
    BY <2>4, <2>5, <2>6, <2>7, <2>9, <2>10
  <2>12. a \in Seq(ItemSet)
    BY <2>1
  <2>13. QED
    BY <2>1, <2>11, <2>12
<1>3. \A list \in Seq(ItemSet) : list \in P
  <2> HIDE DEF P
  <2>1. QED
    BY <1>1, <1>2, InductAppend
<1>4. QED
  BY <1>3

LEMMA ReplayShows ==
  ASSUME NEW v \in ViewSet, Writing(v), NEW list \in Seq(ItemSet), NEW S, NEW odd,
         NEW w, w = Shows(v, Replay(list))
  PROVE  /\ Replay(list) \in Seq(MsgSet) /\ w \in ViewSet /\ Writing(w)
         /\ Replaying(v, w, list, S, odd)
<1>1. PICK f : f = Filter(list, Talk)
  OBVIOUS
<1>2. f \in Seq(Talk) /\ Replay(list) = Replays(f)
      /\ \A i \in 1 .. Len(f) : \E j \in 1 .. Len(list) : f[i] = list[j]
  BY <1>1, ReplayIs
<1>3. Replay(list) \in Seq(MsgSet)
  BY <1>2, ReplaysMore
<1>4. w \in ViewSet /\ Writing(w)
  BY <1>3, ShowsType
<1>5. Replaying(v, w, f, S, odd)
  BY <1>2, ReplaysShow
<1>6. Said(f, odd) = Said(list, odd)
  BY <1>1, TalkSaid
<1>7. Lines(list, S) => Lines(f, S)
  BY <1>2 DEF Lines
<1>8. QED
  BY <1>3, <1>4, <1>5, <1>6, <1>7 DEF Replaying

-----------------------------------------------------------------------------
(* A conversation that is switched, and the restored one.                    *)

Cleared(h, g, list) ==
  /\ g.turn = h.turn /\ Len(g.facts) = Len(h.facts)
  /\ g.replayed = h.replayed /\ g.restored = h.restored
  /\ g.history = list /\ Lines(list, Turns(h))
  /\ g.odd = h.odd \cup (IF Busy(h) THEN {h.turn.id} ELSE {}) \cup (IF h.replayed THEN {} ELSE {0})

LEMMA ClearIs ==
  ASSUME NEW v \in ViewSet, Writing(v), NEW u, u = Shown(v, Msg("clear", 0, << >>))
  PROVE  /\ Msg("clear", 0, << >>) \in MsgSet /\ Msg("clear", 0, << >>).type = "clear"
         /\ u \in ViewSet /\ Writing(u) /\ Framed(v, u)
         /\ u.bubbles = << >> /\ Len(u.bubbles) = 0 /\ u.active = 0 /\ u.busy = v.busy
<1>1. PICK e, z, c, m : e = << >> /\ z = 0 /\ c = "clear" /\ m = Msg(c, z, e)
  OBVIOUS
<1>2. e \in Seq(PieceSet) /\ z \in Nat /\ c \in MsgTypes
  BY <1>1 DEF MsgTypes
<1>3. Msg(c, z, e) \in MsgSet /\ Msg(c, z, e).type = c
  BY <1>2, Messages
<1>4. m \in MsgSet /\ m.type = "clear" /\ u = Shown(v, m)
  BY <1>1, <1>3
<1>5. u \in ViewSet /\ Writing(u) /\ Framed(v, u)
  BY <1>4, ShownType
<1>6. Shown(v, m).bubbles = << >> /\ Shown(v, m).active = 0
  BY <1>4, ShownClear
<1>7. Shown(v, m).busy = IF m.type = "busy" THEN TRUE ELSE IF m.type = "idle" THEN FALSE ELSE v.busy
  BY <1>4, ShownBusy
<1>8. u.bubbles = << >> /\ u.active = 0 /\ u.busy = v.busy
  BY <1>4, <1>6, <1>7
<1>9. Len(u.bubbles) = 0
  BY <1>8
<1>10. QED
  BY <1>1, <1>4, <1>5, <1>8, <1>9

LEMMA ClearShows ==
  ASSUME NEW h \in HostSet, NEW g \in HostSet, NEW v \in ViewSet, Writing(v), Screen(h, v),
         NEW list \in Seq(ItemSet), Cleared(h, g, list),
         NEW w, w = Shows(Shown(v, Msg("clear", 0, << >>)), Replay(list))
  PROVE  Screen(g, w) /\ (Busy(g) => g.turn.id \in g.odd)
<1>1. PICK u, more : u = Shown(v, Msg("clear", 0, << >>)) /\ more = g.odd
  OBVIOUS
<1>2. /\ g.turn = h.turn /\ Len(g.facts) = Len(h.facts)
      /\ g.replayed = h.replayed /\ g.restored = h.restored
      /\ g.history = list /\ Lines(list, Turns(h))
      /\ g.odd = h.odd \cup (IF Busy(h) THEN {h.turn.id} ELSE {}) \cup (IF h.replayed THEN {} ELSE {0})
  BY DEF Cleared
<1>3. u \in ViewSet /\ Writing(u) /\ Len(u.bubbles) = 0 /\ u.bubbles = << >>
      /\ u.active = 0 /\ u.busy = v.busy
  BY <1>1, ClearIs
<1>4. Busy(g) = Busy(h) /\ Turns(g) = Turns(h)
  BY <1>2 DEF Busy, Turns
<1>5. w \in ViewSet /\ Writing(w) /\ Replaying(u, w, list, Turns(h), more)
  BY <1>1, <1>3, ReplayShows
<1>6. w.busy = u.busy /\ w.active = 0 /\ (Texts(u, Turns(h)) /\ Lines(list, Turns(h)) => Texts(w, Turns(h)))
      /\ Grown(u, w, Said(list, more), more)
  BY <1>3, <1>5 DEF Replaying
<1>7. Texts(u, Turns(h))
  BY <1>3 DEF Texts
<1>8. w.busy = Busy(g)
  BY <1>3, <1>4, <1>6 DEF Screen
<1>9. Scroll(w, more)[Len(w.bubbles)] = Said(list, more)
  <2>1. Scroll(w, more)[Len(w.bubbles)] = Scroll(u, more)[Len(u.bubbles)] \o Said(list, more)
    BY <1>3, <1>6 DEF Grown
  <2>2. Scroll(u, more)[0] = << >>
    <3>1. u.bubbles \in Seq(BubbleSet)
      BY <1>3, ViewFields
    <3>2. Telling(OnScreen(u.bubbles), more)[0] = << >>
      BY <3>1, ReadingIs
    <3>3. QED
      BY <3>2 DEF Scroll
  <2>3. Said(list, more) \in Seq(PieceSet)
    BY ToldIs
  <2>4. << >> \o Said(list, more) = Said(list, more)
    BY <2>3, JoinEmpty
  <2>5. QED
    BY <1>3, <2>1, <2>2, <2>4
<1>10. Ends(Said(list, more), Scroll(w, more)[Len(w.bubbles)])
  <2>1. Said(list, more) \in Seq(PieceSet)
    BY ToldIs
  <2>2. PICK s : s = Said(list, more)
    OBVIOUS
  <2>3. s \in Seq(PieceSet)
    BY <2>1, <2>2
  <2>4. Ends(s, s)
    BY <2>3, EndsFacts
  <2>5. QED
    BY <1>9, <2>2, <2>4
<1>11. ~Streamed(g) /\ (Busy(g) => g.turn.id \in g.odd)
  BY <1>2, <1>4 DEF Streamed
<1>12. InStep(g, w)
  BY <1>1, <1>2, <1>6, <1>10, <1>11 DEF InStep, Told, Reading, Scroll
<1>13. Waits(g) => Turns(g) \subseteq g.odd
  <2>1. SUFFICES ASSUME Waits(g) PROVE Turns(g) \subseteq g.odd
    OBVIOUS
  <2>2. Waits(h) /\ h.odd \subseteq g.odd /\ 0 \in g.odd
    BY <1>2, <2>1 DEF Waits
  <2>3. CASE Untouched(h, v)
    BY <1>4, <2>2, <2>3 DEF Untouched, Turns
  <2>4. CASE ~Untouched(h, v)
    BY <1>4, <2>2, <2>4 DEF Screen
  <2>5. QED
    BY <2>3, <2>4
<1>14. \A i \in DOMAIN w.bubbles : Of(w.bubbles[i].text, Turns(g))
  BY <1>2, <1>4, <1>6, <1>7 DEF Texts
<1>15. Screen(g, w)
  BY <1>6, <1>8, <1>12, <1>13, <1>14 DEF Screen
<1>16. QED
  BY <1>11, <1>15

Readied(h, g) ==
  /\ g.turn = h.turn /\ Len(g.facts) = Len(h.facts) /\ g.replayed /\ g.restored = h.restored
  /\ g.history = h.history /\ g.open = h.open /\ g.odd = h.odd
  /\ Lines(h.history, Turns(h)) /\ Lines(h.restored, Turns(h))
  /\ Busy(h) => h.turn.id \in Turns(h) /\ Len(h.facts) > 0

LEMMA ReadyShows ==
  ASSUME NEW h \in HostSet, NEW g \in HostSet, NEW v \in ViewSet, Writing(v), Screen(h, v), Readied(h, g),
         NEW w, w = Shows(v, IF h.replayed THEN << >> ELSE Replay(h.restored))
  PROVE  Screen(g, w)
<1>1. /\ g.turn = h.turn /\ Len(g.facts) = Len(h.facts) /\ g.replayed /\ g.restored = h.restored
      /\ g.history = h.history /\ g.open = h.open /\ g.odd = h.odd
      /\ Lines(h.history, Turns(h)) /\ Lines(h.restored, Turns(h))
      /\ Busy(h) => h.turn.id \in Turns(h) /\ Len(h.facts) > 0
  BY DEF Readied
<1>2. Busy(g) = Busy(h) /\ Turns(g) = Turns(h) /\ ~Waits(g) /\ Streamed(g) = Streamed(h) /\ Told(g) = Told(h)
  BY <1>1 DEF Busy, Turns, Waits, Streamed, Told
<1>3. ASSUME InStep(h, v), w = v PROVE Screen(g, w)
  <2>1. \A text : Streams(g, text) <=> Streams(h, text)
    BY <1>1 DEF Streams
  <2>2. \A n : Reading(g, v)[n] = Reading(h, v)[n]
    BY <1>1 DEF Reading
  <2>3. InStep(g, v)
    BY <1>1, <1>2, <1>3, <2>1, <2>2 DEF InStep
  <2>4. QED
    BY <1>1, <1>2, <1>3, <2>3 DEF Screen
<1>4. CASE ~Waits(h)
  <2>1. InStep(h, v)
    BY <1>4 DEF Screen, Untouched
  <2>2. w = v
    <3>1. CASE h.replayed
      BY <3>1, ShowsNone
    <3>2. CASE ~h.replayed
      <4>1. h.restored = << >>
        BY <1>4, <3>2 DEF Waits
      <4>2. PICK e : e = << >>
        OBVIOUS
      <4>3. e \in Seq(ItemSet) /\ Len(e) = 0
        BY <4>2
      <4>4. Filter(e, Talk) = << >> /\ Replay(e) = Replays(Filter(e, Talk))
        BY <4>3, FilterEmpty, ReplayIs
      <4>5. Replay(e) = << >>
        BY <4>4, ReplaysMore
      <4>6. QED
        BY <3>2, <4>1, <4>2, <4>5, ShowsNone
    <3>3. QED
      BY <3>1, <3>2
  <2>3. QED
    BY <1>3, <2>1, <2>2
<1>5. CASE Waits(h)
  <2>1. PICK list, more : list = h.restored /\ more = h.odd
    OBVIOUS
  <2>2. list \in Seq(ItemSet) /\ w = Shows(v, Replay(list))
    BY <1>5, <2>1, HostFields DEF Waits
  <2>3. w \in ViewSet /\ Writing(w) /\ Replaying(v, w, list, Turns(h), more)
    BY <2>2, ReplayShows
  <2>4. /\ w.busy = v.busy /\ w.active \in {0, v.active}
        /\ Texts(v, Turns(h)) /\ Lines(list, Turns(h)) => Texts(w, Turns(h))
        /\ Grown(v, w, Said(list, more), more)
    BY <2>3 DEF Replaying
  <2>5. Texts(v, Turns(h))
    BY DEF Screen, Texts
  <2>6. Texts(w, Turns(h))
    BY <1>1, <2>1, <2>4, <2>5
  <2>7. Len(w.bubbles) \in Nat /\ DOMAIN w.bubbles = 1 .. Len(w.bubbles)
        /\ \A n \in 0 .. Len(w.bubbles) : Scroll(w, more)[n] \in Seq(PieceSet)
    BY <2>3, ViewFields, ScrollIs
  <2>8. PICK z : z = Scroll(w, more)[Len(w.bubbles)]
    OBVIOUS
  <2>9. z \in Seq(PieceSet)
    BY <2>7, <2>8
  <2>10. CASE Untouched(h, v)
    <3>1. h.facts = << >> /\ h.history = list /\ v.bubbles = << >> /\ v.active = 0 /\ Len(v.bubbles) = 0
      BY <2>1, <2>10 DEF Untouched
    <3>2. ~Busy(h) /\ ~Streamed(g)
      BY <1>1, <1>2, <3>1 DEF Streamed
    <3>3. PICK s : s = Said(list, more)
      OBVIOUS
    <3>4. s \in Seq(PieceSet)
      BY <2>2, <3>3, ToldIs
    <3>5. Scroll(v, more)[0] = << >>
      <4>1. v.bubbles \in Seq(BubbleSet)
        BY ViewFields
      <4>2. Telling(OnScreen(v.bubbles), more)[0] = << >>
        BY <4>1, ReadingIs
      <4>3. QED
        BY <4>2 DEF Scroll
    <3>6. z = << >> \o s
      BY <2>4, <2>8, <3>1, <3>3, <3>5 DEF Grown
    <3>7. z = s
      BY <3>4, <3>6, JoinEmpty
    <3>8. Ends(s, z)
      BY <3>4, <3>7, EndsFacts
    <3>9. Ends(Told(g), Reading(g, w)[Len(w.bubbles)])
      BY <1>1, <2>1, <2>8, <3>1, <3>3, <3>8 DEF Told, Reading, Scroll
    <3>10. w.active = 0
      BY <2>4, <3>1
    <3>11. InStep(g, w)
      BY <3>2, <3>9, <3>10 DEF InStep
    <3>12. QED
      BY <1>1, <1>2, <2>4, <2>6, <3>10, <3>11 DEF Screen, Texts
  <2>11. CASE ~Untouched(h, v)
    <3>1. Turns(h) \subseteq more /\ more = g.odd
      BY <1>1, <1>5, <2>1, <2>11 DEF Screen
    <3>2. ~Streamed(g)
      BY <1>1, <1>2, <3>1 DEF Streamed
    <3>3. Told(g) = << >>
      <4>1. h.history \in Seq(ItemSet)
        BY HostFields
      <4>2. \A i \in 1 .. Len(h.history) : Of(h.history[i].text, Turns(h))
        BY <1>1, <4>1 DEF Lines
      <4>3. \A i \in 1 .. Len(h.history) : Of(h.history[i].text, more)
        BY <3>1, <4>2, OfMore
      <4>4. Said(h.history, more) = << >>
        BY <4>1, <4>3, ToldIs
      <4>5. QED
        BY <1>1, <3>1, <4>4 DEF Told
    <3>4. Ends(<< >>, z)
      BY <2>9, EndsFacts
    <3>5. Ends(Told(g), Reading(g, w)[Len(w.bubbles)])
      BY <2>8, <3>1, <3>3, <3>4 DEF Reading, Scroll
    <3>6. w.active # 0 => Of(w.bubbles[w.active].text, more)
      <4>1. w.active # 0 => w.active \in DOMAIN w.bubbles
        BY <2>3 DEF Writing
      <4>2. w.active # 0 => Of(w.bubbles[w.active].text, Turns(h))
        BY <2>6, <4>1 DEF Texts
      <4>3. QED
        BY <3>1, <4>2, OfMore
    <3>7. InStep(g, w)
      BY <3>1, <3>2, <3>5, <3>6 DEF InStep
    <3>8. w.active # 0 => g.open
      BY <1>1, <2>4 DEF Screen
    <3>9. QED
      BY <1>1, <1>2, <2>4, <2>6, <3>7, <3>8 DEF Screen, Texts
  <2>12. QED
    BY <2>10, <2>11
<1>6. QED
  BY <1>4, <1>5

-----------------------------------------------------------------------------
(* What the user does while messages are on their way changes nothing of what *)
(* they will show, but for the card that was answered.                       *)

SameBubble(b, c, t, n) ==
  /\ c.turn = b.turn /\ c.text = b.text
  /\ c.kind = b.kind \/ (IsCard(b, t, n) /\ c.kind = "answered")

AlikeBubbles(v, w, t, n) ==
  /\ Len(w.bubbles) = Len(v.bubbles)
  /\ \A i \in 1 .. Len(v.bubbles) : SameBubble(v.bubbles[i], w.bubbles[i], t, n)

Alike(v, w, t, n) == w.active = v.active /\ w.busy = v.busy /\ AlikeBubbles(v, w, t, n)

LEMMA AlikeAdded ==
  ASSUME NEW v \in ViewSet, NEW w \in ViewSet, NEW x \in ViewSet, NEW y \in ViewSet, NEW t, NEW n,
         AlikeBubbles(v, w, t, n), NEW kind \in Kinds, NEW k \in Nat, NEW text \in Seq(PieceSet),
         Added(v, x, NewBubble(kind, k, text)), Added(w, y, NewBubble(kind, k, text))
  PROVE  AlikeBubbles(x, y, t, n)
<1>1. PICK N, b : N = Len(v.bubbles) /\ b = NewBubble(kind, k, text)
  OBVIOUS
<1>2. b \in BubbleSet
  BY <1>1, NewBubbleIs
<1>3. /\ v.bubbles \in Seq(BubbleSet) /\ w.bubbles \in Seq(BubbleSet) /\ N \in Nat /\ Len(w.bubbles) = N
  BY <1>1, ViewFields DEF AlikeBubbles
<1>4. /\ Len(x.bubbles) = N + 1 /\ x.bubbles[N + 1] = b
      /\ \A i \in 1 .. N : x.bubbles[i] = v.bubbles[i]
  BY <1>1, <1>2, <1>3 DEF Added
<1>5. /\ Len(y.bubbles) = N + 1 /\ y.bubbles[N + 1] = b
      /\ \A i \in 1 .. N : y.bubbles[i] = w.bubbles[i]
  BY <1>1, <1>2, <1>3 DEF Added
<1>6. ASSUME NEW i \in 1 .. N + 1 PROVE SameBubble(x.bubbles[i], y.bubbles[i], t, n)
  <2>1. CASE i = N + 1
    BY <1>4, <1>5, <2>1 DEF SameBubble
  <2>2. CASE i \in 1 .. N
    <3>1. SameBubble(v.bubbles[i], w.bubbles[i], t, n)
      BY <1>1, <2>2 DEF AlikeBubbles
    <3>2. QED
      BY <1>4, <1>5, <2>2, <3>1
  <2>3. QED
    BY <1>3, <2>1, <2>2
<1>7. QED
  BY <1>4, <1>5, <1>6 DEF AlikeBubbles

LEMMA AlikeWrote ==
  ASSUME NEW v \in ViewSet, NEW w \in ViewSet, NEW x \in ViewSet, NEW y \in ViewSet, NEW t, NEW n,
         AlikeBubbles(v, w, t, n), NEW k, v.bubbles[k].kind # "card", NEW text,
         Wrote(v, x, k, text), Wrote(w, y, k, text)
  PROVE  AlikeBubbles(x, y, t, n)
<1>1. Len(x.bubbles) = Len(v.bubbles) /\ Len(y.bubbles) = Len(v.bubbles) /\ Len(w.bubbles) = Len(v.bubbles)
  BY DEF AlikeBubbles, Wrote
<1>2. ASSUME NEW i \in 1 .. Len(v.bubbles) PROVE SameBubble(x.bubbles[i], y.bubbles[i], t, n)
  <2>1. /\ x.bubbles[i].kind = v.bubbles[i].kind /\ x.bubbles[i].turn = v.bubbles[i].turn
        /\ x.bubbles[i].text = IF i = k THEN text ELSE v.bubbles[i].text
    BY DEF Wrote
  <2>2. /\ y.bubbles[i].kind = w.bubbles[i].kind /\ y.bubbles[i].turn = w.bubbles[i].turn
        /\ y.bubbles[i].text = IF i = k THEN text ELSE w.bubbles[i].text
    BY <1>1 DEF Wrote
  <2>3. SameBubble(v.bubbles[i], w.bubbles[i], t, n)
    BY DEF AlikeBubbles
  <2>4. CASE i = k
    BY <2>1, <2>2, <2>3, <2>4 DEF SameBubble, IsCard
  <2>5. CASE i # k
    BY <2>1, <2>2, <2>3, <2>5 DEF SameBubble, IsCard
  <2>6. QED
    BY <2>4, <2>5
<1>3. QED
  BY <1>1, <1>2 DEF AlikeBubbles

LEMMA AlikeShown ==
  ASSUME NEW v \in ViewSet, Writing(v), NEW w \in ViewSet, Writing(w), NEW t, NEW n, Alike(v, w, t, n),
         NEW m \in MsgSet
  PROVE  Alike(Shown(v, m), Shown(w, m), t, n)
<1>1. PICK x, y, k, r, text : x = Shown(v, m) /\ y = Shown(w, m) /\ k = v.active /\ r = m.turn /\ text = m.text
  OBVIOUS
<1>2. r \in Nat /\ text \in Seq(PieceSet)
  BY <1>1, MsgFields
<1>3. x \in ViewSet /\ y \in ViewSet
  BY <1>1, ShownType
<1>4. w.active = k /\ w.busy = v.busy /\ AlikeBubbles(v, w, t, n) /\ Len(w.bubbles) = Len(v.bubbles)
  BY <1>1 DEF Alike, AlikeBubbles
<1>5. y.busy = x.busy
  <2>1. x.busy = IF m.type = "busy" THEN TRUE ELSE IF m.type = "idle" THEN FALSE ELSE v.busy
    BY <1>1, ShownBusy
  <2>2. y.busy = IF m.type = "busy" THEN TRUE ELSE IF m.type = "idle" THEN FALSE ELSE w.busy
    BY <1>1, ShownBusy
  <2>3. QED
    BY <1>4, <2>1, <2>2
<1>6. PICK e, a : e = << >> /\ a = "assistant"
  OBVIOUS
<1>7. e \in Seq(PieceSet) /\ a \in Kinds
  BY <1>6 DEF Kinds
<1>8. ASSUME NEW kind \in Kinds, NEW z \in Seq(PieceSet),
             Added(v, x, NewBubble(kind, r, z)), Added(w, y, NewBubble(kind, r, z))
      PROVE  AlikeBubbles(x, y, t, n)
  BY <1>2, <1>3, <1>4, <1>8, AlikeAdded
<1>9. k # 0 => v.bubbles[k].kind # "card"
  BY <1>1 DEF Writing
<1>10. ASSUME NEW z, k # 0, Wrote(v, x, k, z), Wrote(w, y, k, z)
       PROVE  AlikeBubbles(x, y, t, n)
  BY <1>3, <1>4, <1>9, <1>10, AlikeWrote
<1>11. CASE m.type \in {"busy", "idle"}
  <2>1. x.bubbles = v.bubbles /\ x.active = v.active
    BY <1>1, <1>11, ShownFlag
  <2>2. y.bubbles = w.bubbles /\ y.active = w.active
    BY <1>1, <1>11, ShownFlag
  <2>3. QED
    BY <1>1, <1>4, <1>5, <2>1, <2>2 DEF Alike, AlikeBubbles
<1>12. CASE m.type = "clear"
  <2>1. x.bubbles = << >> /\ x.active = 0
    BY <1>1, <1>12, ShownClear
  <2>2. y.bubbles = << >> /\ y.active = 0
    BY <1>1, <1>12, ShownClear
  <2>3. QED
    BY <1>1, <1>5, <2>1, <2>2 DEF Alike, AlikeBubbles
<1>13. CASE m.type = "start"
  <2>1. x.active = Len(v.bubbles) + 1 /\ Added(v, x, NewBubble(a, r, e))
    BY <1>1, <1>6, <1>13, ShownStart
  <2>2. y.active = Len(w.bubbles) + 1 /\ Added(w, y, NewBubble(a, r, e))
    BY <1>1, <1>6, <1>13, ShownStart
  <2>3. AlikeBubbles(x, y, t, n)
    BY <1>7, <1>8, <2>1, <2>2
  <2>4. QED
    BY <1>1, <1>4, <1>5, <2>1, <2>2, <2>3 DEF Alike
<1>14. CASE m.type = "reasoning"
  <2>1. /\ k # 0 => x = v
        /\ k = 0 => x.active = Len(v.bubbles) + 1 /\ Added(v, x, NewBubble(a, r, e))
    BY <1>1, <1>6, <1>14, ShownReasoning
  <2>2. /\ k # 0 => y = w
        /\ k = 0 => y.active = Len(w.bubbles) + 1 /\ Added(w, y, NewBubble(a, r, e))
    BY <1>1, <1>4, <1>6, <1>14, ShownReasoning
  <2>3. AlikeBubbles(x, y, t, n)
    BY <1>4, <1>7, <1>8, <2>1, <2>2
  <2>4. QED
    BY <1>1, <1>4, <1>5, <2>1, <2>2, <2>3 DEF Alike
<1>15. CASE m.type = "delta"
  <2>1. /\ k # 0 => x.active = k /\ Wrote(v, x, k, v.bubbles[k].text \o text)
        /\ k = 0 => x.active = Len(v.bubbles) + 1 /\ Added(v, x, NewBubble(a, r, text))
    BY <1>1, <1>6, <1>15, ShownDelta
  <2>2. /\ k # 0 => y.active = k /\ Wrote(w, y, k, w.bubbles[k].text \o text)
        /\ k = 0 => y.active = Len(w.bubbles) + 1 /\ Added(w, y, NewBubble(a, r, text))
    BY <1>1, <1>4, <1>6, <1>15, ShownDelta
  <2>3. k # 0 => w.bubbles[k].text = v.bubbles[k].text
    <3>1. k # 0 => k \in 1 .. Len(v.bubbles)
      BY <1>1, ViewFields DEF Writing
    <3>2. QED
      BY <1>4, <3>1 DEF AlikeBubbles, SameBubble
  <2>4. AlikeBubbles(x, y, t, n)
    <3>1. CASE k = 0
      BY <1>2, <1>7, <1>8, <2>1, <2>2, <3>1
    <3>2. CASE k # 0
      BY <1>10, <2>1, <2>2, <2>3, <3>2
    <3>3. QED
      BY <3>1, <3>2
  <2>5. QED
    BY <1>1, <1>4, <1>5, <2>1, <2>2, <2>4 DEF Alike
<1>16. CASE m.type = "done"
  <2>1. x.bubbles = v.bubbles /\ x.active = 0
    BY <1>1, <1>16, ShownDone
  <2>2. y.bubbles = w.bubbles /\ y.active = 0
    BY <1>1, <1>16, ShownDone
  <2>3. QED
    BY <1>1, <1>4, <1>5, <2>1, <2>2 DEF Alike, AlikeBubbles
<1>17. CASE m.type = "assistant"
  <2>1. /\ x.active = 0
        /\ k # 0 => Wrote(v, x, k, text)
        /\ k = 0 => Added(v, x, NewBubble(a, r, text))
    BY <1>1, <1>6, <1>17, ShownAssistant
  <2>2. /\ y.active = 0
        /\ k # 0 => Wrote(w, y, k, text)
        /\ k = 0 => Added(w, y, NewBubble(a, r, text))
    BY <1>1, <1>4, <1>6, <1>17, ShownAssistant
  <2>3. AlikeBubbles(x, y, t, n)
    <3>1. CASE k = 0
      BY <1>2, <1>7, <1>8, <2>1, <2>2, <3>1
    <3>2. CASE k # 0
      BY <1>10, <2>1, <2>2, <3>2
    <3>3. QED
      BY <3>1, <3>2
  <2>4. QED
    BY <1>1, <1>5, <2>1, <2>2, <2>3 DEF Alike
<1>18. CASE m.type \notin Changing
  <2>1. PICK z : z = m.type
    OBVIOUS
  <2>2. z \in Kinds
    <3>1. z \in MsgTypes
      BY <2>1 DEF MsgSet
    <3>2. QED
      BY <1>18, <2>1, <3>1 DEF Changing, MsgTypes
  <2>3. x.active = v.active /\ Added(v, x, NewBubble(z, r, text))
    BY <1>1, <1>18, <2>1, ShownAdds
  <2>4. y.active = w.active /\ Added(w, y, NewBubble(z, r, text))
    BY <1>1, <1>18, <2>1, ShownAdds
  <2>5. AlikeBubbles(x, y, t, n)
    BY <1>2, <1>8, <2>2, <2>3, <2>4
  <2>6. QED
    BY <1>1, <1>4, <1>5, <2>3, <2>4, <2>5 DEF Alike
<1>19. QED
  BY <1>11, <1>12, <1>13, <1>14, <1>15, <1>16, <1>17, <1>18 DEF Changing

LEMMA AlikeShows ==
  ASSUME NEW v \in ViewSet, Writing(v), NEW w \in ViewSet, Writing(w), NEW t, NEW n, Alike(v, w, t, n)
  PROVE  \A queue \in Seq(MsgSet) : Alike(Shows(v, queue), Shows(w, queue), t, n)
<1> DEFINE P == {queue \in Seq(MsgSet) : Alike(Shows(v, queue), Shows(w, queue), t, n)}
<1>1. << >> \in P
  <2>1. Shows(v, << >>) = v /\ Shows(w, << >>) = w
    BY ShowsNone
  <2>2. QED
    BY <2>1
<1>2. ASSUME NEW queue \in Seq(MsgSet), queue \in P, NEW m \in MsgSet PROVE Append(queue, m) \in P
  <2>1. /\ Shows(v, queue) \in ViewSet /\ Writing(Shows(v, queue))
        /\ Shows(v, Append(queue, m)) = Shown(Shows(v, queue), m)
    BY ShowsMore
  <2>2. /\ Shows(w, queue) \in ViewSet /\ Writing(Shows(w, queue))
        /\ Shows(w, Append(queue, m)) = Shown(Shows(w, queue), m)
    BY ShowsMore
  <2>3. Alike(Shows(v, queue), Shows(w, queue), t, n)
    BY <1>2
  <2>4. Alike(Shown(Shows(v, queue), m), Shown(Shows(w, queue), m), t, n)
    BY <2>1, <2>2, <2>3, AlikeShown
  <2>5. Append(queue, m) \in Seq(MsgSet)
    OBVIOUS
  <2>6. QED
    BY <2>1, <2>2, <2>4, <2>5
<1>3. \A queue \in Seq(MsgSet) : queue \in P
  <2> HIDE DEF P
  <2>1. QED
    BY <1>1, <1>2, InductAppend
<1>4. QED
  BY <1>3

LEMMA AlikeScreen ==
  ASSUME NEW h \in HostSet, NEW v \in ViewSet, Writing(v), Screen(h, v),
         NEW w \in ViewSet, NEW t, NEW n, Alike(v, w, t, n)
  PROVE  Screen(h, w)
<1>1. PICK N, odd : N = Len(v.bubbles) /\ odd = h.odd
  OBVIOUS
<1>2. /\ w.active = v.active /\ w.busy = v.busy /\ Len(w.bubbles) = N
      /\ \A i \in 1 .. N : SameBubble(v.bubbles[i], w.bubbles[i], t, n)
  BY <1>1 DEF Alike, AlikeBubbles
<1>3. /\ N \in Nat /\ DOMAIN v.bubbles = 1 .. N /\ DOMAIN w.bubbles = 1 .. N
      /\ v.bubbles \in Seq(BubbleSet) /\ w.bubbles \in Seq(BubbleSet)
  BY <1>1, <1>2, ViewFields
<1>4. \A i \in 1 .. N : w.bubbles[i].text = v.bubbles[i].text
  BY <1>2 DEF SameBubble
<1>5. \A i \in 1 .. N : w.bubbles[i].kind = v.bubbles[i].kind \/
                          (Quiet(v.bubbles[i].kind) /\ Quiet(w.bubbles[i].kind))
  BY <1>2 DEF SameBubble, IsCard, Quiet
<1>6. PICK a, b : a = OnScreen(v.bubbles) /\ b = OnScreen(w.bubbles)
  OBVIOUS
<1>7. a \in Seq(LineSet) /\ Len(a) = N
      /\ \A i \in 1 .. N : a[i] \in LineSet /\ a[i].role = v.bubbles[i].kind /\ a[i].text = v.bubbles[i].text
  BY <1>1, <1>3, <1>6, OnScreenIs
<1>8. b \in Seq(LineSet) /\ Len(b) = N
      /\ \A i \in 1 .. N : b[i] \in LineSet /\ b[i].role = w.bubbles[i].kind /\ b[i].text = w.bubbles[i].text
  BY <1>2, <1>3, <1>6, OnScreenIs
<1>9. ASSUME NEW i \in 1 .. N PROVE Heard(a[i], odd) = Heard(b[i], odd)
  <2>1. CASE w.bubbles[i].kind = v.bubbles[i].kind
    <3>1. Says(a[i]) = Says(b[i])
      BY <1>4, <1>7, <1>8, <2>1 DEF Says
    <3>2. QED
      BY <3>1 DEF Heard
  <2>2. CASE Quiet(v.bubbles[i].kind) /\ Quiet(w.bubbles[i].kind)
    <3>1. a[i] \in LineSet /\ a[i].role \notin {"user", "assistant"}
      BY <1>7, <2>2 DEF Quiet
    <3>2. b[i] \in LineSet /\ b[i].role \notin {"user", "assistant"}
      BY <1>8, <2>2 DEF Quiet
    <3>3. Heard(a[i], odd) = << >>
      BY <3>1, HeardIs
    <3>4. Heard(b[i], odd) = << >>
      BY <3>2, HeardIs
    <3>5. QED
      BY <3>3, <3>4
  <2>3. QED
    BY <1>5, <2>1, <2>2
<1>10. \A k \in 0 .. N : Telling(a, odd)[k] = Telling(b, odd)[k]
  BY <1>3, <1>7, <1>8, <1>9, TellingSame
<1>11. \A k \in 0 .. N : Reading(h, v)[k] = Reading(h, w)[k]
  BY <1>1, <1>6, <1>10 DEF Reading
<1>12. v.active # 0 => v.active \in 1 .. N
  BY <1>3 DEF Writing
<1>13. InStep(h, v) => InStep(h, w)
  <2>1. CASE Streamed(h)
    <3>1. SUFFICES ASSUME InStep(h, v) PROVE InStep(h, w)
      OBVIOUS
    <3>2. /\ v.active # 0
          /\ Ends(Told(h), Reading(h, v)[v.active - 1])
          /\ \A i \in DOMAIN v.bubbles : i > v.active => v.bubbles[i].kind \notin {"user", "assistant"}
          /\ Streams(h, v.bubbles[v.active].text)
      BY <2>1, <3>1 DEF InStep
    <3>3. v.active - 1 \in 0 .. N
      BY <1>3, <1>12, <3>2
    <3>4. Ends(Told(h), Reading(h, w)[w.active - 1])
      BY <1>2, <1>11, <3>2, <3>3
    <3>5. \A i \in DOMAIN w.bubbles : i > w.active => w.bubbles[i].kind \notin {"user", "assistant"}
      BY <1>2, <1>3, <1>5, <3>2 DEF Quiet
    <3>6. Streams(h, w.bubbles[w.active].text)
      BY <1>2, <1>4, <1>12, <3>2
    <3>7. QED
      BY <1>2, <2>1, <3>2, <3>4, <3>5, <3>6 DEF InStep
  <2>2. CASE ~Streamed(h)
    <3>1. Reading(h, v)[Len(v.bubbles)] = Reading(h, w)[Len(w.bubbles)]
      BY <1>1, <1>2, <1>3, <1>11
    <3>2. v.active # 0 => w.bubbles[w.active].text = v.bubbles[v.active].text
      BY <1>2, <1>4, <1>12
    <3>3. QED
      BY <1>2, <2>2, <3>1, <3>2 DEF InStep
  <2>3. QED
    BY <2>1, <2>2
<1>14. Untouched(h, v) => Untouched(h, w)
  <2>1. v.bubbles = << >> => w.bubbles = << >>
    BY <1>1, <1>2, <1>3
  <2>2. QED
    BY <1>2, <2>1 DEF Untouched
<1>15. \A i \in DOMAIN w.bubbles : Of(w.bubbles[i].text, Turns(h))
  BY <1>3, <1>4 DEF Screen
<1>16. QED
  BY <1>2, <1>13, <1>14, <1>15 DEF Screen

\* An answer to the card that is awaited is on the way.
LEMMA AlikeCards ==
  ASSUME NEW h \in HostSet, NEW v \in ViewSet, NEW w \in ViewSet, NEW queue, NEW more,
         NEW t, NEW n, Cards(h, v, queue), Alike(v, w, t, n),
         \A i \in DOMAIN queue : \E j \in DOMAIN more : more[j] = queue[i],
         \/ \A i \in DOMAIN v.bubbles : w.bubbles[i].kind = v.bubbles[i].kind
         \/ \E j \in DOMAIN more : more[j] = Approval(t, n)
  PROVE  Cards(h, w, more)
<1>1. PICK T, N : T = h.turn.id /\ N = h.turn.waiting
  OBVIOUS
<1>2. SUFFICES ASSUME N > 0, T \notin h.odd
               PROVE  \/ \E i \in DOMAIN w.bubbles : IsCard(w.bubbles[i], T, N)
                      \/ \E i \in DOMAIN more : more[i] = Approval(T, N)
  BY <1>1 DEF Cards
<1>3. \/ \E i \in DOMAIN v.bubbles : IsCard(v.bubbles[i], T, N)
      \/ \E i \in DOMAIN queue : queue[i] = Approval(T, N)
  BY <1>1, <1>2 DEF Cards
<1>4. CASE \E i \in DOMAIN queue : queue[i] = Approval(T, N)
  BY <1>4
<1>5. CASE \E i \in DOMAIN v.bubbles : IsCard(v.bubbles[i], T, N)
  <2>1. PICK i \in DOMAIN v.bubbles : IsCard(v.bubbles[i], T, N)
    BY <1>5
  <2>2. DOMAIN v.bubbles = 1 .. Len(v.bubbles) /\ DOMAIN w.bubbles = 1 .. Len(v.bubbles)
    BY ViewFields DEF Alike, AlikeBubbles
  <2>3. SameBubble(v.bubbles[i], w.bubbles[i], t, n)
    BY <2>1, <2>2 DEF Alike, AlikeBubbles
  <2>4. CASE w.bubbles[i].kind = v.bubbles[i].kind
    <3>1. IsCard(w.bubbles[i], T, N)
      BY <2>1, <2>3, <2>4 DEF SameBubble, IsCard
    <3>2. QED
      BY <2>2, <3>1
  <2>5. CASE w.bubbles[i].kind # v.bubbles[i].kind
    <3>1. IsCard(v.bubbles[i], t, n)
      BY <2>3, <2>5 DEF SameBubble
    <3>2. t = T /\ n = N
      BY <2>1, <3>1 DEF IsCard
    <3>3. QED
      BY <2>5, <3>2
  <2>6. QED
    BY <2>4, <2>5
<1>6. QED
  BY <1>3, <1>4, <1>5

-----------------------------------------------------------------------------
(* Cards stay until the transcript is cleared.                               *)

CardsKept(v, w) ==
  \A i \in DOMAIN v.bubbles : v.bubbles[i].kind = "card" =>
    /\ i \in DOMAIN w.bubbles /\ w.bubbles[i].kind = "card"
    /\ w.bubbles[i].turn = v.bubbles[i].turn /\ w.bubbles[i].text = v.bubbles[i].text

CardsFrom(v, w, m) ==
  \A i \in DOMAIN w.bubbles : w.bubbles[i].kind = "card" =>
    \/ /\ i \in DOMAIN v.bubbles /\ v.bubbles[i].kind = "card"
       /\ w.bubbles[i].text = v.bubbles[i].text
    \/ m.type = "card" /\ w.bubbles[i].text = m.text

LEMMA CardsAdded ==
  ASSUME NEW v \in ViewSet, NEW w \in ViewSet, NEW kind \in Kinds, NEW t \in Nat,
         NEW x \in Seq(PieceSet), Added(v, w, NewBubble(kind, t, x)),
         NEW m, kind = "card" => m.type = "card" /\ m.text = x
  PROVE  CardsKept(v, w) /\ CardsFrom(v, w, m)
<1>1. /\ Len(w.bubbles) = Len(v.bubbles) + 1 /\ Len(v.bubbles) \in Nat
      /\ DOMAIN v.bubbles = 1 .. Len(v.bubbles) /\ DOMAIN w.bubbles = 1 .. Len(v.bubbles) + 1
      /\ \A i \in 1 .. Len(v.bubbles) : w.bubbles[i] = v.bubbles[i]
      /\ w.bubbles[Len(v.bubbles) + 1].kind = kind
      /\ w.bubbles[Len(v.bubbles) + 1].text = x
  BY AddedIs
<1>2. CardsKept(v, w)
  BY <1>1 DEF CardsKept
<1>3. ASSUME NEW i \in DOMAIN w.bubbles, w.bubbles[i].kind = "card"
      PROVE  \/ /\ i \in DOMAIN v.bubbles /\ v.bubbles[i].kind = "card"
                /\ w.bubbles[i].text = v.bubbles[i].text
             \/ m.type = "card" /\ w.bubbles[i].text = m.text
  <2>1. CASE i \in 1 .. Len(v.bubbles)
    BY <1>1, <1>3, <2>1
  <2>2. CASE i = Len(v.bubbles) + 1
    BY <1>1, <1>3, <2>2
  <2>3. QED
    BY <1>1, <2>1, <2>2
<1>4. QED
  BY <1>2, <1>3 DEF CardsFrom

LEMMA CardsWrote ==
  ASSUME NEW v \in ViewSet, NEW w \in ViewSet, NEW k, v.bubbles[k].kind # "card", NEW x,
         Wrote(v, w, k, x), NEW m
  PROVE  CardsKept(v, w) /\ CardsFrom(v, w, m)
<1>1. /\ Len(w.bubbles) = Len(v.bubbles)
      /\ DOMAIN v.bubbles = 1 .. Len(v.bubbles) /\ DOMAIN w.bubbles = 1 .. Len(v.bubbles)
  BY ViewFields DEF Wrote
<1>2. ASSUME NEW i \in 1 .. Len(v.bubbles)
      PROVE  /\ w.bubbles[i].kind = v.bubbles[i].kind /\ w.bubbles[i].turn = v.bubbles[i].turn
             /\ i # k => w.bubbles[i].text = v.bubbles[i].text
  BY DEF Wrote
<1>3. QED
  BY <1>1, <1>2 DEF CardsKept, CardsFrom

LEMMA ShownCards ==
  ASSUME NEW v \in ViewSet, Writing(v), NEW m \in MsgSet
  PROVE  /\ m.type # "clear" => CardsKept(v, Shown(v, m))
         /\ CardsFrom(v, Shown(v, m), m)
<1>1. PICK x, k, r, text : x = Shown(v, m) /\ k = v.active /\ r = m.turn /\ text = m.text
  OBVIOUS
<1>2. r \in Nat /\ text \in Seq(PieceSet)
  BY <1>1, MsgFields
<1>3. x \in ViewSet
  BY <1>1, ShownType
<1>4. PICK e, a : e = << >> /\ a = "assistant"
  OBVIOUS
<1>5. e \in Seq(PieceSet) /\ a \in Kinds /\ a # "card"
  BY <1>4 DEF Kinds
<1>6. ASSUME NEW z \in Seq(PieceSet), Added(v, x, NewBubble(a, r, z))
      PROVE  CardsKept(v, x) /\ CardsFrom(v, x, m)
  BY <1>2, <1>3, <1>5, <1>6, CardsAdded
<1>7. ASSUME NEW z, k # 0, Wrote(v, x, k, z)
      PROVE  CardsKept(v, x) /\ CardsFrom(v, x, m)
  <2>1. v.bubbles[k].kind # "card"
    BY <1>1, <1>7 DEF Writing
  <2>2. QED
    BY <1>3, <1>7, <2>1, CardsWrote
<1>8. x.bubbles = v.bubbles => CardsKept(v, x) /\ CardsFrom(v, x, m)
  BY DEF CardsKept, CardsFrom
<1>9. CASE m.type \in {"busy", "idle"}
  <2>1. x.bubbles = v.bubbles
    BY <1>1, <1>9, ShownFlag
  <2>2. QED
    BY <1>1, <1>8, <2>1
<1>10. CASE m.type = "clear"
  <2>1. x.bubbles = << >>
    BY <1>1, <1>10, ShownClear
  <2>2. QED
    BY <1>1, <1>10, <2>1 DEF CardsFrom
<1>11. CASE m.type = "start"
  <2>1. Added(v, x, NewBubble(a, r, e))
    BY <1>1, <1>4, <1>11, ShownStart
  <2>2. QED
    BY <1>1, <1>5, <1>6, <2>1
<1>12. CASE m.type = "reasoning"
  <2>1. /\ k # 0 => x = v
        /\ k = 0 => Added(v, x, NewBubble(a, r, e))
    BY <1>1, <1>4, <1>12, ShownReasoning
  <2>2. QED
    BY <1>1, <1>5, <1>6, <1>8, <2>1
<1>13. CASE m.type = "delta"
  <2>1. /\ k # 0 => Wrote(v, x, k, v.bubbles[k].text \o text)
        /\ k = 0 => Added(v, x, NewBubble(a, r, text))
    BY <1>1, <1>4, <1>13, ShownDelta
  <2>2. QED
    BY <1>1, <1>2, <1>6, <1>7, <2>1
<1>14. CASE m.type = "done"
  <2>1. x.bubbles = v.bubbles
    BY <1>1, <1>14, ShownDone
  <2>2. QED
    BY <1>1, <1>8, <2>1
<1>15. CASE m.type = "assistant"
  <2>1. /\ k # 0 => Wrote(v, x, k, text)
        /\ k = 0 => Added(v, x, NewBubble(a, r, text))
    BY <1>1, <1>4, <1>15, ShownAssistant
  <2>2. QED
    BY <1>1, <1>2, <1>6, <1>7, <2>1
<1>16. CASE m.type \notin Changing
  <2>1. PICK z : z = m.type
    OBVIOUS
  <2>2. z \in Kinds
    <3>1. z \in MsgTypes
      BY <2>1 DEF MsgSet
    <3>2. QED
      BY <1>16, <2>1, <3>1 DEF Changing, MsgTypes
  <2>3. Added(v, x, NewBubble(z, r, text))
    BY <1>1, <1>16, <2>1, ShownAdds
  <2>4. z = "card" => m.type = "card" /\ m.text = text
    BY <1>1, <2>1
  <2>5. CardsKept(v, x) /\ CardsFrom(v, x, m)
    BY <1>2, <1>3, <2>2, <2>3, <2>4, CardsAdded
  <2>6. QED
    BY <1>1, <2>5
<1>17. QED
  BY <1>9, <1>10, <1>11, <1>12, <1>13, <1>14, <1>15, <1>16 DEF Changing

Plain == {m \in MsgSet : m.type # "clear"}

LEMMA ShowsCards ==
  ASSUME NEW v \in ViewSet, Writing(v)
  PROVE  \A queue \in Seq(Plain) : CardsKept(v, Shows(v, queue))
<1> DEFINE P == {queue \in Seq(Plain) : CardsKept(v, Shows(v, queue))}
<1>1. << >> \in P
  <2>1. Shows(v, << >>) = v
    BY ShowsNone
  <2>2. CardsKept(v, v)
    BY DEF CardsKept
  <2>3. QED
    BY <2>1, <2>2
<1>2. ASSUME NEW queue \in Seq(Plain), queue \in P, NEW m \in Plain PROVE Append(queue, m) \in P
  <2>1. queue \in Seq(MsgSet) /\ m \in MsgSet /\ m.type # "clear"
    BY DEF Plain
  <2>2. PICK u, w : u = Shows(v, queue) /\ w = Shows(v, Append(queue, m))
    OBVIOUS
  <2>3. u \in ViewSet /\ Writing(u) /\ w = Shown(u, m)
    BY <2>1, <2>2, ShowsMore
  <2>4. CardsKept(u, w)
    BY <2>1, <2>3, ShownCards
  <2>5. CardsKept(v, u)
    BY <1>2, <2>2
  <2>6. CardsKept(v, w)
    BY <2>4, <2>5 DEF CardsKept
  <2>7. QED
    BY <2>2, <2>6
<1>3. \A queue \in Seq(Plain) : queue \in P
  <2> HIDE DEF P
  <2>1. QED
    BY <1>1, <1>2, InductAppend
<1>4. QED
  BY <1>3

\* The card that is awaited is on the screen after more messages.
LEMMA CardsStay ==
  ASSUME NEW h, NEW g, NEW v \in ViewSet, Writing(v), NEW queue, NEW more \in Seq(Plain),
         Cards(h, v, queue), g.turn.waiting = h.turn.waiting, g.turn.id = h.turn.id,
         h.odd \subseteq g.odd
  PROVE  Cards(g, Shows(v, more), queue)
<1>1. CardsKept(v, Shows(v, more))
  BY ShowsCards
<1>2. \A i \in DOMAIN v.bubbles : IsCard(v.bubbles[i], h.turn.id, h.turn.waiting) =>
        /\ i \in DOMAIN Shows(v, more).bubbles
        /\ IsCard(Shows(v, more).bubbles[i], h.turn.id, h.turn.waiting)
  BY <1>1 DEF CardsKept, IsCard
<1>3. QED
  BY <1>2 DEF Cards

\* What the host posts is no card, but the one it awaits.
LEMMA ReplayPlain ==
  ASSUME NEW list \in Seq(ItemSet)
  PROVE  /\ Replay(list) \in Seq(Plain)
         /\ \A i \in DOMAIN Replay(list) :
              /\ Replay(list)[i].type \in {"user", "assistant"}
              /\ \E j \in 1 .. Len(list) :
                   /\ Replay(list)[i].type = list[j].role
                   /\ Replay(list)[i].turn = list[j].turn
<1>1. PICK f, q : f = Filter(list, Talk) /\ q = Replay(list)
  OBVIOUS
<1>2. f \in Seq(Talk) /\ q = Replays(f)
      /\ \A i \in 1 .. Len(f) : \E j \in 1 .. Len(list) : f[i] = list[j]
  BY <1>1, ReplayIs
<1>3. q \in Seq(MsgSet) /\ DOMAIN q = 1 .. Len(f) /\ Len(q) = Len(f)
      /\ \A i \in 1 .. Len(f) : q[i] = Told1(f[i])
  <2>1. q \in Seq(MsgSet)
    BY <1>2, ReplaysMore
  <2>2. DOMAIN q = DOMAIN f /\ DOMAIN f = 1 .. Len(f) /\ Len(f) \in Nat
        /\ \A i \in DOMAIN f : q[i] = Told1(f[i])
    BY <1>2 DEF Replays
  <2>3. Len(q) = Len(f)
    BY <2>1, <2>2
  <2>4. QED
    BY <2>1, <2>2, <2>3
<1>4. ASSUME NEW i \in 1 .. Len(f)
      PROVE  /\ q[i].type \in {"user", "assistant"} /\ q[i] \in Plain
             /\ q[i].type = f[i].role /\ q[i].turn = f[i].turn
  <2>1. f[i] \in Talk
    BY <1>2
  <2>2. Told1(f[i]).type = f[i].role /\ f[i].role \in {"user", "assistant"}
        /\ Told1(f[i]).turn = f[i].turn /\ Told1(f[i]) \in MsgSet
    BY <2>1, TalkIs
  <2>3. QED
    BY <1>3, <2>2 DEF Plain
<1>5. q \in Seq(Plain)
  BY <1>3, <1>4
<1>6. ASSUME NEW i \in DOMAIN q
      PROVE  /\ q[i].type \in {"user", "assistant"}
             /\ \E j \in 1 .. Len(list) : q[i].type = list[j].role /\ q[i].turn = list[j].turn
  <2>1. i \in 1 .. Len(f)
    BY <1>3
  <2>2. PICK j \in 1 .. Len(list) : f[i] = list[j]
    BY <1>2, <2>1
  <2>3. q[i].type \in {"user", "assistant"} /\ q[i].type = list[j].role /\ q[i].turn = list[j].turn
    BY <1>4, <2>1, <2>2
  <2>4. QED
    BY <2>3
<1>7. QED
  BY <1>1, <1>5, <1>6

-----------------------------------------------------------------------------
(* What is known of a turn's modes stays known while turns are added and     *)
(* messages sent.                                                            *)

\* Messages sent from the composer since: each is numbered anew.
Later(v, w) ==
  (w.sends = v.sends /\ w.pendingPlan = v.pendingPlan) \/ w.sends = v.sends + 1

Wider(h, v, g, w) == Turns(h) \subseteq Turns(g) /\ Begun(h, v) \subseteq Begun(g, w)

LEMMA PlannedLater ==
  ASSUME NEW v \in ViewSet, NEW w \in ViewSet, Later(v, w), NEW m, m.send \in Nat, Planned(m, v)
  PROVE  Planned(m, w)
<1>1. v.sends \in Nat /\ w.sends \in Nat
  BY ViewFields
<1>2. QED
  BY <1>1 DEF Planned, Later

LEMMA FactFields ==
  ASSUME NEW h \in HostSet, NEW t \in 1 .. Len(h.facts)
  PROVE  h.facts[t].send \in Nat /\ h.facts[t].approval \in BOOLEAN /\ h.facts[t].plan \in BOOLEAN
<1>1. h.facts \in Seq(FactSet)
  BY HostFields
<1>2. h.facts[t] \in FactSet
  BY <1>1
<1>3. QED
  BY <1>2 DEF FactSet

\* The same turns, of a host whose turn in flight is not newly being prepared.
LEMMA BegunLater ==
  ASSUME NEW h \in HostSet, NEW g \in HostSet, NEW v \in ViewSet, NEW w \in ViewSet, Later(v, w),
         Len(h.facts) <= Len(g.facts),
         \A t \in 1 .. Len(h.facts) :
           /\ Preparing(g, t) => Preparing(h, t)
           /\ Preparing(h, t) \/ g.facts[t] = h.facts[t]
  PROVE  Wider(h, v, g, w)
<1>1. Len(h.facts) \in Nat /\ Len(g.facts) \in Nat
  BY HostFields
<1>2. Turns(h) \subseteq Turns(g)
  BY <1>1 DEF Turns
<1>3. ASSUME NEW t \in Begun(h, v) PROVE t \in Begun(g, w)
  <2>1. t \in Turns(h) /\ t \in Turns(g)
    BY <1>2, <1>3 DEF Begun
  <2>2. CASE t = 0
    BY <2>1, <2>2 DEF Begun
  <2>3. CASE t > 0
    <3>1. t \in 1 .. Len(h.facts)
      BY <1>1, <2>1, <2>3 DEF Turns
    <3>2. ~Preparing(h, t) /\ (~h.facts[t].approval => Planned(h.facts[t], v))
      BY <1>3, <2>3 DEF Begun
    <3>3. g.facts[t] = h.facts[t] /\ ~Preparing(g, t)
      BY <3>1, <3>2
    <3>4. h.facts[t].send \in Nat
      BY <3>1, FactFields
    <3>5. ~h.facts[t].approval => Planned(h.facts[t], w)
      BY <3>2, <3>4, PlannedLater
    <3>6. QED
      BY <2>1, <3>3, <3>5 DEF Begun
  <2>4. QED
    BY <1>1, <2>1, <2>2, <2>3 DEF Turns
<1>4. QED
  BY <1>2, <1>3 DEF Wider

LEMMA KeptMore ==
  ASSUME NEW h, NEW v, NEW g, NEW w, Wider(h, v, g, w), NEW m, Kept(m, h, v)
  PROVE  Kept(m, g, w)
BY DEF Kept, Wider

LEMMA AllKeptMore ==
  ASSUME NEW h, NEW v, NEW g, NEW w, Wider(h, v, g, w), NEW list, AllKept(list, h, v)
  PROVE  AllKept(list, g, w)
BY KeptMore DEF AllKept

LEMMA ListsMore ==
  ASSUME NEW h, NEW v, NEW g, NEW w, Wider(h, v, g, w), Lists(h, v),
         g.history = h.history, g.store = h.store, g.restored = h.restored
  PROVE  Lists(g, w)
BY AllKeptMore DEF Lists

\* A conversation that is stored.
Stored(h, list) == IF list = << >> THEN h.store ELSE [h.store EXCEPT ![h.chat] = list]

LEMMA StoredIs ==
  ASSUME NEW h \in HostSet, h.chat \in DOMAIN h.store, NEW list \in Seq(ItemSet)
  PROVE  /\ Stored(h, list) \in Seq(Seq(ItemSet)) /\ DOMAIN Stored(h, list) = DOMAIN h.store
         /\ Len(Stored(h, list)) = Len(h.store)
         /\ \A c \in DOMAIN h.store : Stored(h, list)[c] = h.store[c] \/ Stored(h, list)[c] = list
<1>1. h.store \in Seq(Seq(ItemSet))
  BY HostFields
<1>2. QED
  BY <1>1 DEF Stored

LEMMA ListsStored ==
  ASSUME NEW h \in HostSet, NEW v, NEW g, NEW w, Wider(h, v, g, w), Lists(h, v), h.chat \in DOMAIN h.store,
         NEW list \in Seq(ItemSet), AllKept(list, g, w),
         g.history = list, g.store = Stored(h, list), g.restored = h.restored
  PROVE  Lists(g, w) /\ DOMAIN g.store = DOMAIN h.store
<1>1. DOMAIN g.store = DOMAIN h.store
      /\ \A c \in DOMAIN h.store : g.store[c] = h.store[c] \/ g.store[c] = list
  BY StoredIs
<1>2. \A c \in DOMAIN h.store : AllKept(h.store[c], g, w)
  BY AllKeptMore DEF Lists
<1>3. QED
  BY <1>1, <1>2 DEF Lists

\* What is kept is of turns that were, and said in them.
LEMMA KeptLines ==
  ASSUME NEW h, NEW v, NEW list, AllKept(list, h, v)
  PROVE  Lines(list, Turns(h))
BY DEF AllKept, Kept, Lines, Of

LEMMA RestoredLines ==
  ASSUME NEW h \in HostSet, NEW v, Lists(h, v)
  PROVE  Lines(h.restored, Turns(h))
<1>1. 0 \in Turns(h)
  BY HostFields DEF Turns
<1>2. QED
  BY <1>1 DEF Lists, Lines, Restored, Of

-----------------------------------------------------------------------------
(* Steps of the webview alone.                                               *)

LEMMA FlightMore ==
  ASSUME NEW h, NEW v, NEW w, Wider(h, v, h, w), Flight(h, v)
  PROVE  Flight(h, w)
BY DEF Flight, Wider

LEMMA RowsMore ==
  ASSUME NEW h \in HostSet, NEW v \in ViewSet, NEW w \in ViewSet, Later(v, w), Wider(h, v, h, w),
         NEW queue, NEW answers, Rows(h, v, queue), Plans(h, v, answers), w.last = v.last,
         w.sends = v.sends => w.lastPlan = v.lastPlan /\ w.pendingPlan = v.pendingPlan
  PROVE  Rows(h, w, queue)
<1>1. v.sends \in Nat /\ w.sends \in Nat /\ v.last \in Nat /\ Len(h.facts) \in Nat
      /\ DOMAIN h.facts = 1 .. Len(h.facts)
  BY ViewFields, HostFields
<1>2. v.last \in Begun(h, v)
  BY DEF Rows
<1>3. v.last \in Turns(h)
  BY <1>2 DEF Begun
<1>4. w.last \in Begun(h, w)
      /\ \A i \in DOMAIN queue : queue[i].type \in {"done", "assistant"} => queue[i].turn \in Begun(h, w)
  BY <1>2 DEF Rows, Wider
<1>5. v.last > 0 => h.facts[v.last].send <= v.sends /\ h.facts[v.last].send \in Nat
  <2>1. v.last > 0 => v.last \in 1 .. Len(h.facts)
    BY <1>1, <1>3 DEF Turns
  <2>2. QED
    BY <1>1, <2>1, FactFields DEF Plans
<1>6. w.last > 0 /\ w.sends > 0 /\ h.facts[w.last].send = w.sends => w.lastPlan = w.pendingPlan
  <2>1. CASE w.sends = v.sends
    BY <2>1 DEF Rows
  <2>2. CASE w.sends = v.sends + 1
    BY <1>1, <1>5, <2>2
  <2>3. QED
    BY <2>1, <2>2 DEF Later
<1>7. QED
  BY <1>4, <1>6 DEF Rows

\* Nothing but what the user does himself: t and n are of the card that is answered.
Moves(v, w, t, n) ==
  /\ w \in ViewSet /\ Writing(w) /\ Alike(v, w, t, n) /\ Later(v, w) /\ w.last = v.last
  /\ w.sends = v.sends => w.lastPlan = v.lastPlan /\ w.pendingPlan = v.pendingPlan

LEMMA MovesKeep ==
  ASSUME NEW h, NEW v, NEW w, NEW queue, NEW answers, Fits(h, v, queue, answers),
         NEW t, NEW n, Moves(v, w, t, n)
  PROVE  /\ Lists(h, w) /\ Flight(h, w) /\ Screen(h, Shows(w, queue)) /\ Numbered(w, queue)
         /\ Rows(h, w, queue) /\ Previews(h) /\ Alike(Shows(v, queue), Shows(w, queue), t, n)
         /\ Shows(v, queue) \in ViewSet /\ Shows(w, queue) \in ViewSet
<1>1. h \in HostSet /\ v \in ViewSet /\ Writing(v) /\ queue \in Seq(MsgSet)
  BY DEF Fits, TypesFit
<1>2. Lists(h, v) /\ Flight(h, v) /\ Screen(h, Shows(v, queue)) /\ Numbered(v, queue)
      /\ Rows(h, v, queue) /\ Plans(h, v, answers) /\ Previews(h)
  BY DEF Fits
<1>3. /\ w \in ViewSet /\ Writing(w) /\ Alike(v, w, t, n) /\ Later(v, w) /\ w.last = v.last
      /\ w.sends = v.sends => w.lastPlan = v.lastPlan /\ w.pendingPlan = v.pendingPlan
  BY DEF Moves
<1>4. Len(h.facts) \in Nat
  BY <1>1, HostFields
<1>5. Wider(h, v, h, w)
  BY <1>1, <1>3, <1>4, BegunLater
<1>6. Lists(h, w)
  BY <1>2, <1>5, ListsMore
<1>7. Flight(h, w)
  BY <1>2, <1>5, FlightMore
<1>8. Alike(Shows(v, queue), Shows(w, queue), t, n)
  BY <1>1, <1>3, AlikeShows
<1>9. Shows(v, queue) \in ViewSet /\ Writing(Shows(v, queue))
  BY <1>1, ShowsType
<1>10. Shows(w, queue) \in ViewSet /\ Writing(Shows(w, queue))
  BY <1>1, <1>3, ShowsType
<1>11. Screen(h, Shows(w, queue))
  BY <1>1, <1>2, <1>8, <1>9, <1>10, AlikeScreen
<1>12. Rows(h, w, queue)
  BY <1>1, <1>2, <1>3, <1>5, RowsMore
<1>13. Numbered(w, queue)
  <2>1. DOMAIN v.bubbles = 1 .. Len(v.bubbles) /\ DOMAIN w.bubbles = 1 .. Len(v.bubbles)
    BY <1>1, <1>3, ViewFields DEF Alike, AlikeBubbles
  <2>2. \A i \in DOMAIN w.bubbles : w.bubbles[i].text = v.bubbles[i].text
          /\ (w.bubbles[i].kind = "card" => v.bubbles[i].kind = "card")
    BY <1>3, <2>1 DEF Alike, AlikeBubbles, SameBubble
  <2>3. QED
    BY <1>2, <2>1, <2>2 DEF Numbered
<1>14. QED
  BY <1>2, <1>6, <1>7, <1>8, <1>9, <1>10, <1>11, <1>12, <1>13

-----------------------------------------------------------------------------
(* What the webview posts.                                                   *)

LEMMA Answers ==
  ASSUME NEW m \in ToHostSet
  PROVE  /\ m.type \in {"uiState", "ready", "send", "cancel", "approval"}
         /\ m.type = "uiState" => m.plan \in BOOLEAN /\ m.agent \in BOOLEAN
         /\ m.type = "send" => m \in SendSet /\ m.send \in Nat
         /\ m.type = "approval" => m.turn \in Nat /\ m.n \in Nat
<1>1. CASE m \in [type : {"uiState"}, plan : BOOLEAN, agent : BOOLEAN]
  BY <1>1
<1>2. CASE m \in [type : {"ready"}]
  BY <1>2
<1>3. CASE m \in SendSet
  BY <1>3 DEF SendSet
<1>4. CASE m \in [type : {"cancel"}]
  BY <1>4
<1>5. CASE m \in [type : {"approval"}, turn : Nat, n : Nat]
  BY <1>5
<1>6. QED
  BY <1>1, <1>2, <1>3, <1>4, <1>5 DEF ToHostSet

LEMMA ModesAppend ==
  ASSUME NEW h, NEW v \in ViewSet, NEW w \in ViewSet, NEW answers \in Seq(ToHostSet),
         NEW m \in ToHostSet, m.type # "uiState", Modes(h, v, answers),
         w.mounted = v.mounted /\ w.plan = v.plan /\ w.agent = v.agent /\ w.approved = v.approved
  PROVE  Modes(h, w, Append(answers, m))
<1>1. PICK q, N : q = Append(answers, m) /\ N = Len(answers)
  OBVIOUS
<1>2. N \in Nat /\ DOMAIN answers = 1 .. N /\ DOMAIN q = 1 .. N + 1 /\ q[N + 1] = m
      /\ \A i \in 1 .. N : q[i] = answers[i]
  BY <1>1
<1>3. \A i \in DOMAIN q : q[i].type = "uiState" => i \in 1 .. N
  <2>1. ASSUME NEW i \in DOMAIN q, q[i].type = "uiState" PROVE i \in 1 .. N
    <3>1. i # N + 1
      BY <1>2, <2>1
    <3>2. QED
      BY <1>2, <3>1
  <2>2. QED
    BY <2>1
<1>4. SUFFICES ASSUME w.mounted, ~w.approved
               PROVE  /\ \A i \in DOMAIN q :
                           q[i].type = "uiState" /\ (\A j \in DOMAIN q : q[j].type = "uiState" => j <= i) =>
                             q[i].plan = w.plan /\ q[i].agent = w.agent
                      /\ (\A i \in DOMAIN q : q[i].type # "uiState") => h.plan = w.plan /\ h.agent = w.agent
  BY <1>1 DEF Modes
<1>5. /\ \A i \in DOMAIN answers :
           answers[i].type = "uiState" /\ (\A j \in DOMAIN answers : answers[j].type = "uiState" => j <= i) =>
             answers[i].plan = v.plan /\ answers[i].agent = v.agent
      /\ (\A i \in DOMAIN answers : answers[i].type # "uiState") => h.plan = v.plan /\ h.agent = v.agent
  BY <1>4 DEF Modes
<1>6. ASSUME NEW i \in DOMAIN q, q[i].type = "uiState", \A j \in DOMAIN q : q[j].type = "uiState" => j <= i
      PROVE  q[i].plan = w.plan /\ q[i].agent = w.agent
  <2>1. i \in 1 .. N
    BY <1>3, <1>6
  <2>2. \A j \in DOMAIN answers : answers[j].type = "uiState" => j <= i
    BY <1>2, <1>6
  <2>3. QED
    BY <1>2, <1>5, <1>6, <2>1, <2>2
<1>7. ASSUME \A i \in DOMAIN q : q[i].type # "uiState" PROVE h.plan = w.plan /\ h.agent = w.agent
  <2>1. \A i \in DOMAIN answers : answers[i].type # "uiState"
    BY <1>2, <1>7
  <2>2. QED
    BY <1>5, <2>1
<1>8. QED
  BY <1>6, <1>7

LEMMA ModesPosted ==
  ASSUME NEW h, NEW w, NEW answers \in Seq(ToHostSet), NEW m \in ToHostSet,
         m.type = "uiState", m.plan = w.plan, m.agent = w.agent
  PROVE  Modes(h, w, Append(answers, m))
<1>1. PICK q, N : q = Append(answers, m) /\ N = Len(answers)
  OBVIOUS
<1>2. N \in Nat /\ DOMAIN q = 1 .. N + 1 /\ q[N + 1] = m
  BY <1>1
<1>3. ASSUME NEW i \in DOMAIN q, q[i].type = "uiState", \A j \in DOMAIN q : q[j].type = "uiState" => j <= i
      PROVE  q[i].plan = w.plan /\ q[i].agent = w.agent
  <2>1. N + 1 <= i /\ i <= N + 1 /\ i \in Nat
    BY <1>2, <1>3
  <2>2. i = N + 1
    BY <1>2, <2>1
  <2>3. QED
    BY <1>2, <2>2
<1>4. ~\A i \in DOMAIN q : q[i].type # "uiState"
  BY <1>2
<1>5. QED
  BY <1>1, <1>3, <1>4 DEF Modes

LEMMA PlansAppend ==
  ASSUME NEW h \in HostSet, NEW v \in ViewSet, NEW w \in ViewSet, Later(v, w),
         NEW answers \in Seq(ToHostSet), Plans(h, v, answers),
         h.turn.phase = "prepare" => h.turn.options \in Asked
  PROVE  /\ Plans(h, w, answers)
         /\ \A m \in ToHostSet : (m.type = "send" => Planned(m, w)) => Plans(h, w, Append(answers, m))
<1>1. v.sends \in Nat /\ w.sends \in Nat /\ v.sends <= w.sends
  BY ViewFields DEF Later
<1>2. \A i \in DOMAIN answers : answers[i].type = "send" => Planned(answers[i], w)
  <2>1. ASSUME NEW i \in DOMAIN answers, answers[i].type = "send" PROVE Planned(answers[i], w)
    <3>1. answers[i] \in ToHostSet
      OBVIOUS
    <3>2. answers[i].send \in Nat
      BY <2>1, <3>1, Answers
    <3>3. Planned(answers[i], v)
      BY <2>1 DEF Plans
    <3>4. QED
      BY <3>2, <3>3, PlannedLater
  <2>2. QED
    BY <2>1
<1>3. ASSUME h.turn.phase = "prepare"
      PROVE  /\ Planned(h.turn.options, w)
             /\ h.facts[h.turn.id].send = h.turn.options.send
             /\ h.facts[h.turn.id].approval = h.turn.options.approval
  <2>1. h.turn.options.send \in Nat
    BY <1>3 DEF Asked, SendSet, ActionSet
  <2>2. Planned(h.turn.options, v)
    BY <1>3 DEF Plans
  <2>3. Planned(h.turn.options, w)
    BY <2>1, <2>2, PlannedLater
  <2>4. QED
    BY <1>3, <2>3 DEF Plans
<1>4. \A t \in DOMAIN h.facts : h.facts[t].send <= w.sends
  <2>1. Len(h.facts) \in Nat /\ DOMAIN h.facts = 1 .. Len(h.facts)
    BY HostFields
  <2>2. \A t \in 1 .. Len(h.facts) : h.facts[t].send \in Nat
    BY FactFields
  <2>3. \A t \in 1 .. Len(h.facts) : h.facts[t].send <= v.sends
    BY <2>1 DEF Plans
  <2>4. QED
    BY <1>1, <2>1, <2>2, <2>3
<1>5. Plans(h, w, answers)
  BY <1>2, <1>3, <1>4 DEF Plans
<1>6. ASSUME NEW m \in ToHostSet, m.type = "send" => Planned(m, w) PROVE Plans(h, w, Append(answers, m))
  <2>1. PICK q, N : q = Append(answers, m) /\ N = Len(answers)
    OBVIOUS
  <2>2. N \in Nat /\ DOMAIN answers = 1 .. N /\ DOMAIN q = 1 .. N + 1 /\ q[N + 1] = m
        /\ \A i \in 1 .. N : q[i] = answers[i]
    BY <2>1
  <2>3. ASSUME NEW i \in DOMAIN q, q[i].type = "send" PROVE Planned(q[i], w)
    <3>1. CASE i = N + 1
      BY <1>6, <2>2, <2>3, <3>1
    <3>2. CASE i \in 1 .. N
      BY <1>2, <2>2, <2>3, <3>2
    <3>3. QED
      BY <2>2, <3>1, <3>2
  <2>4. QED
    BY <1>3, <1>4, <2>1, <2>3 DEF Plans
<1>7. QED
  BY <1>5, <1>6

LEMMA FitsTypes ==
  ASSUME NEW h, NEW v, NEW queue, NEW answers, Fits(h, v, queue, answers)
  PROVE  /\ h \in HostSet /\ v \in ViewSet /\ Writing(v)
         /\ queue \in Seq(MsgSet) /\ answers \in Seq(ToHostSet)
         /\ h.turn.phase = "prepare" => h.turn.options \in Asked
         /\ h.chat \in DOMAIN h.store
         /\ Modes(h, v, answers) /\ Plans(h, v, answers)
BY DEF Fits, TypesFit

\* No card is answered.
Nobody == 0 - 1

LEMMA MovesFit ==
  ASSUME NEW h, NEW v, NEW w, NEW queue, NEW answers, Fits(h, v, queue, answers),
         NEW t, NEW n, Moves(v, w, t, n),
         NEW more \in Seq(ToHostSet), Modes(h, w, more), Plans(h, w, more),
         \A i \in DOMAIN answers : \E j \in DOMAIN more : more[j] = answers[i],
         t = Nobody \/ \E j \in DOMAIN more : more[j] = Approval(t, n)
  PROVE  Fits(h, w, queue, more)
<1>1. PICK x, y : x = Shows(v, queue) /\ y = Shows(w, queue)
  OBVIOUS
<1>2. /\ Lists(h, w) /\ Flight(h, w) /\ Screen(h, y) /\ Numbered(w, queue)
      /\ Rows(h, w, queue) /\ Previews(h) /\ Alike(x, y, t, n) /\ x \in ViewSet /\ y \in ViewSet
  BY <1>1, MovesKeep
<1>3. Cards(h, x, answers)
  BY <1>1 DEF Fits
<1>4. t = Nobody => \A i \in DOMAIN x.bubbles : y.bubbles[i].kind = x.bubbles[i].kind
  <2>1. SUFFICES ASSUME t = Nobody, NEW i \in DOMAIN x.bubbles PROVE y.bubbles[i].kind = x.bubbles[i].kind
    OBVIOUS
  <2>2. i \in 1 .. Len(x.bubbles) /\ x.bubbles[i].turn \in Nat
    BY <1>2, ViewFields
  <2>3. SameBubble(x.bubbles[i], y.bubbles[i], t, n)
    BY <1>2, <2>2 DEF Alike, AlikeBubbles
  <2>4. x.bubbles[i].turn # t
    BY <2>1, <2>2 DEF Nobody
  <2>5. QED
    BY <2>3, <2>4 DEF SameBubble, IsCard
<1>5. Cards(h, y, more)
  <2>1. h \in HostSet
    BY FitsTypes
  <2>2. QED
    BY <1>2, <1>3, <1>4, <2>1, AlikeCards
<1>6. TypesFit(h, w, queue, more)
  BY DEF TypesFit, Fits, Moves
<1>7. QED
  BY <1>1, <1>2, <1>5, <1>6 DEF Fits

\* One message is posted.
LEMMA Posts ==
  ASSUME NEW answers \in Seq(ToHostSet), NEW m \in ToHostSet, NEW more, more = Append(answers, m)
  PROVE  /\ more \in Seq(ToHostSet)
         /\ \A i \in DOMAIN answers : \E j \in DOMAIN more : more[j] = answers[i]
         /\ \E j \in DOMAIN more : more[j] = m
<1>1. Len(answers) \in Nat /\ DOMAIN answers = 1 .. Len(answers)
  OBVIOUS
<1>2. more \in Seq(ToHostSet) /\ DOMAIN more = 1 .. Len(answers) + 1 /\ more[Len(answers) + 1] = m
      /\ \A i \in 1 .. Len(answers) : more[i] = answers[i]
  BY <1>1
<1>3. QED
  BY <1>1, <1>2

LEMMA PostsFit ==
  ASSUME NEW h, NEW v, NEW w, NEW queue, NEW answers, Fits(h, v, queue, answers),
         NEW t, NEW n, Moves(v, w, t, n), NEW m \in ToHostSet,
         m.type = "send" => Planned(m, w),
         t = Nobody \/ m = Approval(t, n), Modes(h, w, Append(answers, m))
  PROVE  Fits(h, w, queue, Append(answers, m))
<1>1. PICK more : more = Append(answers, m)
  OBVIOUS
<1>2. h \in HostSet /\ v \in ViewSet /\ answers \in Seq(ToHostSet) /\ Plans(h, v, answers)
      /\ (h.turn.phase = "prepare" => h.turn.options \in Asked)
  BY FitsTypes
<1>3. w \in ViewSet /\ Later(v, w)
  BY DEF Moves
<1>4. Plans(h, w, more)
  BY <1>1, <1>2, <1>3, PlansAppend
<1>5. /\ more \in Seq(ToHostSet)
      /\ \A i \in DOMAIN answers : \E j \in DOMAIN more : more[j] = answers[i]
      /\ \E j \in DOMAIN more : more[j] = m
  <2>1. answers \in Seq(ToHostSet)
    BY <1>2
  <2>2. QED
    BY <1>1, <2>1, Posts
<1>6. Modes(h, w, more)
  BY <1>1
<1>7. Fits(h, w, queue, more)
  BY <1>4, <1>5, <1>6, MovesFit
<1>8. QED
  BY <1>1, <1>7

-----------------------------------------------------------------------------
(* What the user does in the webview.                                        *)

\* The same document.
Still(v, w) ==
  /\ w.bubbles = v.bubbles /\ w.active = v.active /\ w.busy = v.busy /\ w.last = v.last
  /\ w.mounted = v.mounted

LEMMA StillMoves ==
  ASSUME NEW v \in ViewSet, Writing(v), NEW w \in ViewSet,
         w.bubbles = v.bubbles, w.active = v.active, w.busy = v.busy, w.last = v.last, Later(v, w),
         w.sends = v.sends => w.lastPlan = v.lastPlan /\ w.pendingPlan = v.pendingPlan
  PROVE  Moves(v, w, Nobody, 0)
BY DEF Moves, Alike, AlikeBubbles, SameBubble, Writing

LEMMA ToggledKeeps ==
  ASSUME ViewInv, NEW u \in ViewSet, Still(view, u), u.sends = view.sends,
         u.pendingPlan = view.pendingPlan, u.lastPlan = view.lastPlan, Toggled(u)
  PROVE  ViewInv'
<1>1. PICK v, w, m, a : v = view /\ w = view' /\ m = UiState(u) /\ a = toHost
  OBVIOUS
<1>2. Fits(host, v, toView, a)
  BY <1>1 DEF ViewInv
<1>3. v \in ViewSet /\ Writing(v) /\ a \in Seq(ToHostSet)
  BY <1>2, FitsTypes
<1>4. w = [u EXCEPT !.approved = FALSE]
  BY <1>1 DEF Toggled
<1>5. /\ w \in ViewSet /\ w.bubbles = v.bubbles /\ w.active = v.active /\ w.busy = v.busy
      /\ w.last = v.last /\ w.sends = v.sends /\ w.pendingPlan = v.pendingPlan
      /\ w.lastPlan = v.lastPlan /\ w.plan = u.plan /\ w.agent = u.agent
  BY <1>1, <1>4 DEF ViewSet, Still
<1>6. Moves(v, w, Nobody, 0)
  BY <1>3, <1>5, StillMoves DEF Later
<1>7. m \in ToHostSet /\ m.type = "uiState" /\ m.plan = w.plan /\ m.agent = w.agent
  <2>1. u.plan \in BOOLEAN /\ u.agent \in BOOLEAN
    BY ViewFields
  <2>2. m = [type |-> "uiState", plan |-> u.plan, agent |-> u.agent]
    BY <1>1 DEF UiState
  <2>3. m \in [type : {"uiState"}, plan : BOOLEAN, agent : BOOLEAN]
    BY <2>1, <2>2
  <2>4. QED
    BY <1>5, <2>2, <2>3 DEF ToHostSet
<1>8. Modes(host, w, Append(a, m))
  BY <1>3, <1>7, ModesPosted
<1>9. m.type # "send"
  BY <1>7
<1>10. Fits(host, w, toView, Append(a, m))
  BY <1>2, <1>6, <1>7, <1>8, <1>9, PostsFit
<1>11. host' = host /\ toView' = toView /\ toHost' = Append(a, m)
  BY <1>1 DEF Toggled
<1>12. QED
  BY <1>1, <1>10, <1>11 DEF ViewInv

LEMMA TogglesKeep ==
  ASSUME ViewInv, TogglePlan \/ ToggleAgent
  PROVE  ViewInv'
<1>1. view \in ViewSet
  BY FitsTypes DEF ViewInv
<1>2. CASE TogglePlan
  <2>1. PICK u : u = [view EXCEPT !.plan = ~@, !.agent = @ /\ view.plan]
    OBVIOUS
  <2>2. /\ u \in ViewSet /\ u.bubbles = view.bubbles /\ u.active = view.active /\ u.busy = view.busy
        /\ u.last = view.last /\ u.sends = view.sends /\ u.pendingPlan = view.pendingPlan
        /\ u.lastPlan = view.lastPlan /\ u.mounted = view.mounted
    BY <1>1, <2>1 DEF ViewSet
  <2>3. Toggled(u)
    BY <1>2, <2>1 DEF TogglePlan
  <2>4. QED
    BY <2>2, <2>3, ToggledKeeps DEF Still
<1>3. CASE ToggleAgent
  <2>1. PICK u : u = [view EXCEPT !.agent = ~@, !.plan = @ /\ view.agent]
    OBVIOUS
  <2>2. /\ u \in ViewSet /\ u.bubbles = view.bubbles /\ u.active = view.active /\ u.busy = view.busy
        /\ u.last = view.last /\ u.sends = view.sends /\ u.pendingPlan = view.pendingPlan
        /\ u.lastPlan = view.lastPlan /\ u.mounted = view.mounted
    BY <1>1, <2>1 DEF ViewSet
  <2>3. Toggled(u)
    BY <1>3, <2>1 DEF ToggleAgent
  <2>4. QED
    BY <2>2, <2>3, ToggledKeeps DEF Still
<1>4. QED
  BY <1>2, <1>3

LEMMA ToggleIncludeKeeps ==
  ASSUME ViewInv, ToggleInclude
  PROVE  ViewInv'
<1>1. PICK v, w, a : v = view /\ w = view' /\ a = toHost
  OBVIOUS
<1>2. Fits(host, v, toView, a)
  BY <1>1 DEF ViewInv
<1>3. v \in ViewSet /\ Writing(v) /\ a \in Seq(ToHostSet) /\ Modes(host, v, a) /\ Plans(host, v, a)
  BY <1>2, FitsTypes
<1>4. w = [v EXCEPT !.include = ~@]
  BY <1>1 DEF ToggleInclude
<1>5. /\ w \in ViewSet /\ w.bubbles = v.bubbles /\ w.active = v.active /\ w.busy = v.busy
      /\ w.last = v.last /\ w.sends = v.sends /\ w.pendingPlan = v.pendingPlan
      /\ w.lastPlan = v.lastPlan /\ w.plan = v.plan /\ w.agent = v.agent
      /\ w.mounted = v.mounted /\ w.approved = v.approved
  BY <1>3, <1>4 DEF ViewSet
<1>6. Moves(v, w, Nobody, 0)
  BY <1>3, <1>5, StillMoves DEF Later
<1>7. Modes(host, w, a)
  BY <1>3, <1>5 DEF Modes
<1>8. Plans(host, w, a)
  BY <1>3, <1>5 DEF Plans, Planned
<1>9. \A i \in DOMAIN a : \E j \in DOMAIN a : a[j] = a[i]
  OBVIOUS
<1>10. Fits(host, w, toView, a)
  BY <1>2, <1>3, <1>6, <1>7, <1>8, <1>9, MovesFit
<1>11. host' = host /\ toView' = toView /\ toHost' = a
  BY <1>1 DEF ToggleInclude
<1>12. QED
  BY <1>1, <1>10, <1>11 DEF ViewInv

LEMMA SendKeeps ==
  ASSUME ViewInv, NEW u \in ViewSet, Still(view, u), u.sends = view.sends,
         u.approved \/ (u.plan = view.plan /\ u.agent = view.agent /\ u.approved = view.approved),
         NEW text, SendUserMessage(u, text), UNCHANGED <<host, toView>>
  PROVE  ViewInv'
<1>1. PICK v, w, a : v = view /\ w = view' /\ a = toHost
  OBVIOUS
<1>2. Fits(host, v, toView, a)
  BY <1>1 DEF ViewInv
<1>3. v \in ViewSet /\ Writing(v) /\ a \in Seq(ToHostSet) /\ Modes(host, v, a)
  BY <1>2, FitsTypes
<1>4. w = [u EXCEPT !.lastPlan = FALSE, !.pendingPlan = u.plan, !.sends = @ + 1]
  BY <1>1 DEF SendUserMessage
<1>5. u.sends \in Nat /\ u.plan \in BOOLEAN /\ u.agent \in BOOLEAN /\ u.include \in BOOLEAN
  BY DEF ViewSet
<1>6. /\ w \in ViewSet /\ w.bubbles = v.bubbles /\ w.active = v.active /\ w.busy = v.busy
      /\ w.last = v.last /\ w.sends = v.sends + 1 /\ w.pendingPlan = u.plan
      /\ w.plan = u.plan /\ w.agent = u.agent /\ w.mounted = v.mounted /\ w.approved = u.approved
  <2>1. PICK no, up, on : no = FALSE /\ up = u.sends + 1 /\ on = u.plan
    OBVIOUS
  <2>2. no \in BOOLEAN /\ up \in Nat /\ on \in BOOLEAN
    <3>1. up \in Nat
      BY <1>5, <2>1
    <3>2. no \in BOOLEAN
      BY <2>1, Zenon
    <3>3. on \in BOOLEAN
      BY <1>5, <2>1, Zenon
    <3>4. QED
      BY <3>1, <3>2, <3>3
  <2>3. w = [u EXCEPT !.lastPlan = no, !.pendingPlan = on, !.sends = up]
    BY <1>4, <2>1
  <2>4. /\ w \in ViewSet /\ w.bubbles = u.bubbles /\ w.active = u.active /\ w.busy = u.busy
        /\ w.last = u.last /\ w.sends = up /\ w.pendingPlan = on
        /\ w.plan = u.plan /\ w.agent = u.agent /\ w.mounted = u.mounted /\ w.approved = u.approved
    BY <2>2, <2>3 DEF ViewSet
  <2>5. QED
    BY <1>1, <2>1, <2>4 DEF Still
<1>7. Moves(v, w, Nobody, 0)
  <2>1. w.sends # v.sends
    BY <1>1, <1>5, <1>6
  <2>2. QED
    BY <1>3, <1>6, <2>1, StillMoves DEF Later
<1>8. PICK p, q, r : p = (pins # << >>) /\ q = IsPlanModeApproval(text) /\ r = MentionsWorkspace(text)
  OBVIOUS
<1>9. p \in BOOLEAN /\ q \in BOOLEAN /\ r \in BOOLEAN
  BY <1>8 DEF IsPlanModeApproval, MentionsWorkspace
<1>10. PICK m : m = [type |-> "send", plan |-> u.plan, agent |-> u.agent, include |-> u.include,
                     pinned |-> p, given |-> FALSE, send |-> u.sends + 1, approval |-> q, workspace |-> r]
  OBVIOUS
<1>11. m \in SendSet /\ m.type = "send" /\ m.send = w.sends /\ m.plan = w.pendingPlan
  BY <1>1, <1>5, <1>6, <1>9, <1>10 DEF SendSet
<1>12. m \in ToHostSet /\ m.type # "uiState"
  BY <1>11 DEF ToHostSet
<1>13. Planned(m, w)
  BY <1>1, <1>5, <1>6, <1>11 DEF Planned
<1>14. Modes(host, w, Append(a, m))
  <2>1. CASE u.approved
    BY <1>6, <2>1 DEF Modes
  <2>2. CASE u.plan = view.plan /\ u.agent = view.agent /\ u.approved = view.approved
    BY <1>1, <1>3, <1>6, <1>12, <2>2, ModesAppend
  <2>3. QED
    BY <2>1, <2>2
<1>15. Fits(host, w, toView, Append(a, m))
  BY <1>2, <1>7, <1>12, <1>13, <1>14, PostsFit
<1>16. toHost' = Append(a, m)
  BY <1>1, <1>8, <1>10 DEF SendUserMessage
<1>17. QED
  BY <1>1, <1>15, <1>16 DEF ViewInv

LEMMA ViewSame ==
  ASSUME ViewInv, UNCHANGED <<host, toView, view, toHost>>
  PROVE  ViewInv'
BY DEF ViewInv

LEMMA SubmitsKeep ==
  ASSUME ViewInv, Enter \/ ClickSend \/ ApproveRun
  PROVE  ViewInv'
<1>1. view \in ViewSet /\ Still(view, view)
  BY FitsTypes DEF ViewInv, Still
<1>2. ASSUME NEW text, SendUserMessage(view, text), UNCHANGED <<host, toView>> PROVE ViewInv'
  BY <1>1, <1>2, SendKeeps
<1>3. ASSUME NEW m, Submitted(m) PROVE ViewInv'
  BY <1>2, <1>3, ViewSame DEF Submitted, viewVars
<1>4. CASE Enter
  BY <1>3, <1>4, ViewSame DEF Enter, viewVars
<1>5. CASE ClickSend
  BY <1>3, <1>5 DEF ClickSend
<1>6. CASE ApproveRun
  <2>1. PICK u : u = [view EXCEPT !.plan = FALSE, !.approved = TRUE]
    OBVIOUS
  <2>2. /\ u \in ViewSet /\ u.bubbles = view.bubbles /\ u.active = view.active /\ u.busy = view.busy
        /\ u.last = view.last /\ u.sends = view.sends /\ u.mounted = view.mounted /\ u.approved
    BY <1>1, <2>1 DEF ViewSet
  <2>3. SendUserMessage(u, <<Word("word", "APPROVED")>>) /\ UNCHANGED <<host, toView>>
    BY <1>6, <2>1 DEF ApproveRun
  <2>4. Still(view, u)
    BY <2>2 DEF Still
  <2>5. QED
    BY <2>2, <2>3, <2>4, SendKeeps
<1>7. QED
  BY <1>4, <1>5, <1>6

LEMMA StopKeeps ==
  ASSUME ViewInv, Stop
  PROVE  ViewInv'
<1>1. PICK v, a, m : v = view /\ a = toHost /\ m = [type |-> "cancel"]
  OBVIOUS
<1>2. Fits(host, v, toView, a)
  BY <1>1 DEF ViewInv
<1>3. v \in ViewSet /\ Writing(v) /\ a \in Seq(ToHostSet) /\ Modes(host, v, a)
  BY <1>2, FitsTypes
<1>4. Moves(v, v, Nobody, 0)
  BY <1>3, StillMoves DEF Later
<1>5. m \in ToHostSet /\ m.type # "uiState" /\ m.type # "send"
  BY <1>1 DEF ToHostSet
<1>6. Modes(host, v, Append(a, m))
  BY <1>3, <1>5, ModesAppend
<1>7. Fits(host, v, toView, Append(a, m))
  BY <1>2, <1>4, <1>5, <1>6, PostsFit
<1>8. view' = v /\ host' = host /\ toView' = toView /\ toHost' = Append(a, m)
  BY <1>1 DEF Stop
<1>9. QED
  BY <1>7, <1>8 DEF ViewInv

LEMMA RespondKeeps ==
  ASSUME ViewInv, Respond
  PROVE  ViewInv'
<1>1. PICK v, w, a : v = view /\ w = view' /\ a = toHost
  OBVIOUS
<1>2. Fits(host, v, toView, a)
  BY <1>1 DEF ViewInv
<1>3. v \in ViewSet /\ Writing(v) /\ a \in Seq(ToHostSet) /\ Modes(host, v, a)
  BY <1>2, FitsTypes
<1>4. PICK k \in DOMAIN v.bubbles :
        /\ v.bubbles[k].kind = "card"
        /\ w = [v EXCEPT !.bubbles[k].kind = "answered"]
        /\ toHost' = Append(a, [type |-> "approval", turn |-> v.bubbles[k].turn,
                                n |-> v.bubbles[k].text[1].n])
        /\ host' = host /\ toView' = toView
  BY <1>1 DEF Respond
<1>5. PICK t, n, m : t = v.bubbles[k].turn /\ n = v.bubbles[k].text[1].n /\ m = Approval(t, n)
  OBVIOUS
<1>6. k \in 1 .. Len(v.bubbles) /\ v.bubbles \in Seq(BubbleSet) /\ Len(v.bubbles) \in Nat
  BY <1>3, <1>4, ViewFields
<1>7. v.bubbles[k].text # << >> /\ v.bubbles[k].text \in Seq(PieceSet) /\ t \in Nat
  BY <1>2, <1>3, <1>4, <1>5, <1>6, ViewFields DEF Fits, Numbered
<1>8. n \in Nat
  <2>1. v.bubbles[k].text[1] \in PieceSet
    BY <1>7
  <2>2. QED
    BY <1>5, <2>1 DEF PieceSet
<1>9. m \in ToHostSet /\ m.type = "approval" /\ m.type # "uiState" /\ m.type # "send"
  BY <1>5, <1>7, <1>8 DEF ToHostSet, Approval
<1>10. PICK b, c : b = v.bubbles[k] /\ c = [b EXCEPT !.kind = "answered"]
  OBVIOUS
<1>11. b \in BubbleSet /\ c \in BubbleSet /\ c.kind = "answered" /\ c.turn = b.turn /\ c.text = b.text
  <2>1. PICK z : z = "answered"
    OBVIOUS
  <2>2. z \in Kinds
    BY <2>1 DEF Kinds
  <2>3. b \in BubbleSet /\ c = [b EXCEPT !.kind = z]
    BY <1>6, <1>10, <2>1
  <2>4. c \in BubbleSet /\ c.kind = z /\ c.turn = b.turn /\ c.text = b.text
    BY <2>2, <2>3 DEF BubbleSet
  <2>5. QED
    BY <2>1, <2>3, <2>4
<1>12. PICK all : all = [v.bubbles EXCEPT ![k] = c]
  OBVIOUS
<1>13. /\ all \in Seq(BubbleSet) /\ Len(all) = Len(v.bubbles) /\ all[k] = c
       /\ \A i \in 1 .. Len(v.bubbles) : i # k => all[i] = v.bubbles[i]
  BY <1>6, <1>11, <1>12
<1>14. w = [v EXCEPT !.bubbles = all]
  BY <1>3, <1>4, <1>6, <1>10, <1>12 DEF ViewSet, BubbleSet
<1>15. /\ w \in ViewSet /\ w.bubbles = all /\ w.active = v.active /\ w.busy = v.busy
       /\ w.last = v.last /\ w.sends = v.sends /\ w.pendingPlan = v.pendingPlan
       /\ w.lastPlan = v.lastPlan /\ w.plan = v.plan /\ w.agent = v.agent
       /\ w.mounted = v.mounted /\ w.approved = v.approved
  BY <1>3, <1>13, <1>14 DEF ViewSet
<1>16. AlikeBubbles(v, w, t, n)
  <2>1. SameBubble(v.bubbles[k], all[k], t, n)
    BY <1>4, <1>5, <1>7, <1>10, <1>11, <1>13 DEF SameBubble, IsCard
  <2>2. \A i \in 1 .. Len(v.bubbles) : SameBubble(v.bubbles[i], all[i], t, n)
    BY <1>13, <2>1 DEF SameBubble
  <2>3. QED
    BY <1>13, <1>15, <2>2 DEF AlikeBubbles
<1>17. Writing(w)
  <2>1. v.active # 0 => v.active \in 1 .. Len(v.bubbles) /\ v.active # k
                          /\ v.bubbles[v.active].kind = "assistant"
    BY <1>3, <1>4, ViewFields DEF Writing
  <2>2. DOMAIN w.bubbles = 1 .. Len(v.bubbles)
    BY <1>13, <1>15
  <2>3. QED
    BY <1>13, <1>15, <2>1, <2>2 DEF Writing
<1>18. Moves(v, w, t, n)
  BY <1>15, <1>16, <1>17 DEF Moves, Alike, Later
<1>19. Modes(host, w, Append(a, m))
  BY <1>3, <1>9, <1>15, ModesAppend
<1>20. Fits(host, w, toView, Append(a, m))
  BY <1>2, <1>5, <1>9, <1>18, <1>19, PostsFit
<1>21. toHost' = Append(a, m)
  BY <1>4, <1>5 DEF Approval
<1>22. QED
  BY <1>1, <1>4, <1>20, <1>21 DEF ViewInv

LEMMA UserActsKeep ==
  ASSUME ViewInv, UserActs
  PROVE  ViewInv'
<1>1. CASE Composes
  BY <1>1, ViewSame DEF Composes, viewVars
<1>2. QED
  BY <1>1, TogglesKeep, ToggleIncludeKeeps, SubmitsKeep, StopKeeps, RespondKeeps DEF UserActs

LEMMA MountKeeps ==
  ASSUME ViewInv, Mount
  PROVE  ViewInv'
<1>1. PICK v, w, a, m, r, yes : v = view /\ w = view' /\ a = toHost /\ m = UiState(view)
                             /\ r = [type |-> "ready"] /\ yes = TRUE
  OBVIOUS
<1>2. Fits(host, v, toView, a)
  BY <1>1 DEF ViewInv
<1>3. v \in ViewSet /\ Writing(v) /\ a \in Seq(ToHostSet)
  BY <1>2, FitsTypes
<1>4. w = [v EXCEPT !.mounted = yes]
  BY <1>1 DEF Mount
<1>5. yes \in BOOLEAN
  BY <1>1, Zenon
<1>6. /\ w \in ViewSet /\ w.bubbles = v.bubbles /\ w.active = v.active /\ w.busy = v.busy
      /\ w.last = v.last /\ w.sends = v.sends /\ w.pendingPlan = v.pendingPlan
      /\ w.lastPlan = v.lastPlan /\ w.plan = v.plan /\ w.agent = v.agent
  BY <1>3, <1>4, <1>5 DEF ViewSet
<1>7. Moves(v, w, Nobody, 0)
  BY <1>3, <1>6, StillMoves DEF Later
<1>8. m \in ToHostSet /\ m.type = "uiState" /\ m.plan = w.plan /\ m.agent = w.agent
  <2>1. v.plan \in BOOLEAN /\ v.agent \in BOOLEAN
    BY <1>3, ViewFields
  <2>2. m = [type |-> "uiState", plan |-> v.plan, agent |-> v.agent]
    BY <1>1 DEF UiState
  <2>3. m \in [type : {"uiState"}, plan : BOOLEAN, agent : BOOLEAN]
    BY <2>1, <2>2
  <2>4. QED
    BY <1>6, <2>2, <2>3 DEF ToHostSet
<1>9. r \in ToHostSet /\ r.type # "uiState" /\ r.type # "send"
  BY <1>1 DEF ToHostSet
<1>10. PICK b : b = Append(a, m)
  OBVIOUS
<1>11. Modes(host, w, b)
  BY <1>3, <1>8, <1>10, ModesPosted
<1>12. Fits(host, w, toView, b)
  <2>1. m.type # "send"
    BY <1>8
  <2>2. QED
    BY <1>2, <1>7, <1>8, <1>10, <1>11, <2>1, PostsFit
<1>13. w \in ViewSet /\ Writing(w) /\ b \in Seq(ToHostSet)
  BY <1>12, FitsTypes
<1>14. Moves(w, w, Nobody, 0)
  BY <1>13, StillMoves DEF Later
<1>15. Modes(host, w, Append(b, r))
  BY <1>9, <1>11, <1>13, ModesAppend
<1>16. Fits(host, w, toView, Append(b, r))
  BY <1>9, <1>12, <1>14, <1>15, PostsFit
<1>17. toHost' = Append(b, r)
  <2>1. toHost' = b \o <<r>>
    BY <1>1, <1>10 DEF Mount
  <2>2. b \o <<r>> = Append(b, r)
    BY <1>9, <1>13
  <2>3. QED
    BY <2>1, <2>2
<1>18. host' = host /\ toView' = toView
  BY DEF Mount
<1>19. QED
  BY <1>1, <1>16, <1>17, <1>18 DEF ViewInv

\* A message is taken: what is shown in the end stays the same.
LEMMA TakesFit ==
  ASSUME NEW h, NEW v, NEW queue, NEW answers, Fits(h, v, queue, answers), queue # << >>
  PROVE  Fits(h, Shown(v, Head(queue)), Tail(queue), answers)
<1>1. PICK m, w, rest : m = Head(queue) /\ w = Shown(v, m) /\ rest = Tail(queue)
  OBVIOUS
<1>2. /\ h \in HostSet /\ v \in ViewSet /\ Writing(v)
      /\ queue \in Seq(MsgSet) /\ answers \in Seq(ToHostSet)
      /\ h.turn.phase = "prepare" => h.turn.options \in Asked
      /\ h.chat \in DOMAIN h.store
      /\ Modes(h, v, answers) /\ Plans(h, v, answers)
  BY FitsTypes
<1>3. Lists(h, v) /\ Flight(h, v) /\ Screen(h, Shows(v, queue)) /\ Cards(h, Shows(v, queue), answers)
      /\ Numbered(v, queue) /\ Rows(h, v, queue) /\ Previews(h)
  BY DEF Fits
<1>4. m \in MsgSet /\ rest \in Seq(MsgSet) /\ Shows(w, rest) = Shows(v, queue)
  BY <1>1, <1>2, ShowsTakes
<1>5. w \in ViewSet /\ Writing(w)
  BY <1>1, <1>2, <1>4, ShownType
<1>6. /\ w.mounted = v.mounted /\ w.plan = v.plan /\ w.agent = v.agent
      /\ w.approved = v.approved /\ w.sends = v.sends /\ w.pendingPlan = v.pendingPlan
  <2>1. Framed(v, w)
    BY <1>1, <1>2, <1>4, ShownType
  <2>2. QED
    BY <2>1 DEF Framed
<1>7. Later(v, w)
  BY <1>6 DEF Later
<1>8. Len(h.facts) \in Nat
  BY <1>2, HostFields
<1>9. Wider(h, v, h, w)
  BY <1>2, <1>5, <1>7, <1>8, BegunLater
<1>10. Lists(h, w)
  BY <1>3, <1>9, ListsMore
<1>11. Flight(h, w)
  BY <1>3, <1>9, FlightMore
<1>12. Plans(h, w, answers)
  BY <1>2, <1>5, <1>7, PlansAppend
<1>13. Modes(h, w, answers)
  BY <1>2, <1>6 DEF Modes
<1>14. /\ Len(queue) \in Nat /\ DOMAIN queue = 1 .. Len(queue) /\ 1 \in DOMAIN queue /\ m = queue[1]
       /\ \A i \in DOMAIN rest : i + 1 \in DOMAIN queue /\ rest[i] = queue[i + 1]
  BY <1>1, <1>2
<1>15. Numbered(w, rest)
  <2>1. CardsFrom(v, w, m)
    BY <1>1, <1>2, <1>4, ShownCards
  <2>2. m.type = "card" => m.text # << >>
    BY <1>3, <1>14 DEF Numbered
  <2>3. \A i \in DOMAIN w.bubbles : w.bubbles[i].kind = "card" => w.bubbles[i].text # << >>
    BY <1>3, <2>1, <2>2 DEF Numbered, CardsFrom
  <2>4. \A i \in DOMAIN rest : rest[i].type = "card" => rest[i].text # << >>
    BY <1>3, <1>14 DEF Numbered
  <2>5. QED
    BY <2>3, <2>4 DEF Numbered
<1>16. Begun(h, v) \subseteq Begun(h, w) /\ 0 \in Begun(h, w)
  BY <1>8, <1>9 DEF Wider, Begun, Turns
<1>17. \A i \in DOMAIN rest : rest[i].type \in {"done", "assistant"} => rest[i].turn \in Begun(h, w)
  BY <1>3, <1>14, <1>16 DEF Rows
<1>18. w.last \in Begun(h, w)
       /\ (w.last > 0 /\ w.sends > 0 /\ h.facts[w.last].send = w.sends => w.lastPlan = w.pendingPlan)
  <2>1. CASE m.type \in {"done", "assistant"}
    <3>1. w.last = m.turn /\ w.lastPlan = v.pendingPlan
      BY <1>1, <1>2, <1>4, <2>1, ShownIs
    <3>2. m.turn \in Begun(h, v)
      BY <1>3, <1>14, <2>1 DEF Rows
    <3>3. QED
      BY <1>6, <1>16, <3>1, <3>2
  <2>2. CASE m.type = "clear"
    <3>1. w.last = 0
      BY <1>1, <1>2, <1>4, <2>2, ShownClear
    <3>2. QED
      BY <1>16, <3>1
  <2>3. CASE m.type \notin {"done", "assistant", "clear"}
    <3>1. w.last = v.last /\ w.lastPlan = v.lastPlan
      BY <1>1, <1>2, <1>4, <2>3, ShownLast
    <3>2. v.last \in Begun(h, v)
          /\ (v.last > 0 /\ v.sends > 0 /\ h.facts[v.last].send = v.sends => v.lastPlan = v.pendingPlan)
      BY <1>3 DEF Rows
    <3>3. QED
      BY <1>6, <1>16, <3>1, <3>2
  <2>4. QED
    BY <2>1, <2>2, <2>3
<1>19. Rows(h, w, rest)
  BY <1>17, <1>18 DEF Rows
<1>20. Screen(h, Shows(w, rest)) /\ Cards(h, Shows(w, rest), answers)
  BY <1>3, <1>4
<1>21. TypesFit(h, w, rest, answers)
  BY <1>2, <1>4, <1>5 DEF TypesFit
<1>22. Fits(h, w, rest, answers)
  BY <1>3, <1>10, <1>11, <1>12, <1>13, <1>15, <1>19, <1>20, <1>21 DEF Fits
<1>23. QED
  BY <1>1, <1>22

LEMMA ViewTakesKeeps ==
  ASSUME ViewInv, ViewTakes
  PROVE  ViewInv'
<1>1. Fits(host, Shown(view, Head(toView)), Tail(toView), toHost)
  BY TakesFit DEF ViewInv, ViewTakes
<1>2. QED
  BY <1>1 DEF ViewInv, ViewTakes

-----------------------------------------------------------------------------
(* Steps of the host: more goes to the webview, rest are the messages left.  *)

Posted(g, v, more) ==
  \A i \in DOMAIN more :
    /\ more[i].type \in {"done", "assistant"} => more[i].turn \in Begun(g, v)
    /\ more[i].type = "card" => more[i].text # << >>

\* The turns stay those they were: whose message each is of.
Sends(h, g) == Len(h.facts) <= Len(g.facts) /\ \A t \in 1 .. Len(h.facts) : g.facts[t].send = h.facts[t].send

LEMMA JoinIs ==
  ASSUME NEW T, NEW a \in Seq(T), NEW b \in Seq(T), NEW i \in DOMAIN (a \o b)
  PROVE  \/ i \in DOMAIN a /\ (a \o b)[i] = a[i]
         \/ \E j \in DOMAIN b : (a \o b)[i] = b[j]
<1>1. Len(a) \in Nat /\ Len(b) \in Nat /\ DOMAIN a = 1 .. Len(a) /\ DOMAIN b = 1 .. Len(b)
      /\ DOMAIN (a \o b) = 1 .. Len(a) + Len(b)
  OBVIOUS
<1>2. CASE i <= Len(a)
  BY <1>1, <1>2
<1>3. CASE i > Len(a)
  <2>1. i - Len(a) \in 1 .. Len(b) /\ (a \o b)[i] = b[i - Len(a)]
    BY <1>1, <1>3
  <2>2. QED
    BY <1>1, <2>1
<1>4. QED
  BY <1>1, <1>2, <1>3

LEMMA HostFits ==
  ASSUME NEW h, NEW v, NEW queue, NEW answers, Fits(h, v, queue, answers),
         NEW g \in HostSet, NEW more \in Seq(MsgSet), NEW rest \in Seq(ToHostSet),
         g.turn.phase = "prepare" => g.turn.options \in Asked, g.chat \in DOMAIN g.store,
         Lists(g, v), Flight(g, v), Wider(h, v, g, v), Sends(h, g),
         Screen(g, Shows(Shows(v, queue), more)), Cards(g, Shows(Shows(v, queue), more), rest),
         Modes(g, v, rest), Plans(g, v, rest), Previews(g), Posted(g, v, more)
  PROVE  Fits(g, v, queue \o more, rest)
<1>1. PICK all : all = queue \o more
  OBVIOUS
<1>2. /\ h \in HostSet /\ v \in ViewSet /\ Writing(v) /\ queue \in Seq(MsgSet)
  BY FitsTypes
<1>3. Numbered(v, queue) /\ Rows(h, v, queue)
  BY DEF Fits
<1>4. all \in Seq(MsgSet)
  BY <1>1, <1>2, JoinFacts
<1>5. Shows(v, all) = Shows(Shows(v, queue), more)
  BY <1>1, <1>2, ShowsJoin
<1>6. TypesFit(g, v, all, rest)
  BY <1>2, <1>4 DEF TypesFit
<1>7. ASSUME NEW i \in DOMAIN all
      PROVE  (i \in DOMAIN queue /\ all[i] = queue[i]) \/ \E j \in DOMAIN more : all[i] = more[j]
  BY <1>1, <1>2, JoinIs
<1>8. Begun(h, v) \subseteq Begun(g, v)
  BY DEF Wider
<1>9. \A i \in DOMAIN all : all[i].type \in {"done", "assistant"} => all[i].turn \in Begun(g, v)
  BY <1>3, <1>7, <1>8 DEF Rows, Posted
<1>10. Numbered(v, all)
  BY <1>3, <1>7 DEF Numbered, Posted
<1>11. v.last \in Begun(h, v) /\ v.last \in Begun(g, v)
  BY <1>3, <1>8 DEF Rows
<1>12. v.last > 0 => g.facts[v.last].send = h.facts[v.last].send
  <2>1. v.last \in 0 .. Len(h.facts) /\ Len(h.facts) \in Nat
    BY <1>2, <1>11, HostFields DEF Begun, Turns
  <2>2. v.last > 0 => v.last \in 1 .. Len(h.facts)
    BY <2>1
  <2>3. QED
    BY <2>2 DEF Sends
<1>13. Rows(g, v, all)
  BY <1>3, <1>9, <1>11, <1>12 DEF Rows
<1>14. Fits(g, v, all, rest)
  BY <1>5, <1>6, <1>10, <1>13 DEF Fits
<1>15. QED
  BY <1>1, <1>14

\* Nothing goes to the webview.
LEMMA SilentFits ==
  ASSUME NEW h, NEW v, NEW queue, NEW answers, Fits(h, v, queue, answers),
         NEW g \in HostSet, NEW rest \in Seq(ToHostSet),
         g.turn.phase = "prepare" => g.turn.options \in Asked, g.chat \in DOMAIN g.store,
         Lists(g, v), Flight(g, v), Wider(h, v, g, v), Sends(h, g),
         Screen(g, Shows(v, queue)), Cards(g, Shows(v, queue), rest),
         Modes(g, v, rest), Plans(g, v, rest), Previews(g)
  PROVE  Fits(g, v, queue, rest)
<1>1. PICK e, u : e = << >> /\ u = Shows(v, queue)
  OBVIOUS
<1>2. e \in Seq(MsgSet)
  BY <1>1
<1>3. v \in ViewSet /\ Writing(v) /\ queue \in Seq(MsgSet)
  BY FitsTypes
<1>4. u \in ViewSet /\ Writing(u)
  BY <1>1, <1>3, ShowsType
<1>5. Shows(u, e) = u
  BY <1>1, <1>4, ShowsNone
<1>6. Posted(g, v, e)
  BY <1>1 DEF Posted
<1>7. queue \o e = queue
  BY <1>1, <1>3, JoinEmpty
<1>8. Screen(g, Shows(Shows(v, queue), e)) /\ Cards(g, Shows(Shows(v, queue), e), rest)
  BY <1>1, <1>5
<1>9. Fits(g, v, queue \o e, rest)
  BY <1>2, <1>6, <1>8, HostFits
<1>10. QED
  BY <1>7, <1>9

-----------------------------------------------------------------------------
(* A message of the webview is handled.                                      *)

LEMMA Taken ==
  ASSUME NEW answers \in Seq(ToHostSet), answers # << >>
  PROVE  /\ Head(answers) \in ToHostSet /\ Tail(answers) \in Seq(ToHostSet)
         /\ Len(answers) \in Nat /\ DOMAIN answers = 1 .. Len(answers) /\ 1 \in DOMAIN answers
         /\ Head(answers) = answers[1] /\ DOMAIN Tail(answers) = 1 .. Len(answers) - 1
         /\ \A i \in DOMAIN Tail(answers) : i + 1 \in DOMAIN answers /\ Tail(answers)[i] = answers[i + 1]
OBVIOUS

LEMMA ModesTaken ==
  ASSUME NEW h, NEW g, NEW v, NEW answers \in Seq(ToHostSet), answers # << >>, Modes(h, v, answers),
         IF Head(answers).type = "uiState"
           THEN g.plan = Head(answers).plan /\ g.agent = Head(answers).agent
           ELSE g.plan = h.plan /\ g.agent = h.agent
  PROVE  Modes(g, v, Tail(answers))
<1>1. PICK m, rest, N : m = Head(answers) /\ rest = Tail(answers) /\ N = Len(answers)
  OBVIOUS
<1>2. /\ N \in Nat /\ DOMAIN answers = 1 .. N /\ 1 \in 1 .. N
      /\ m = answers[1] /\ DOMAIN rest = 1 .. N - 1
      /\ \A i \in 1 .. N - 1 : i + 1 \in 1 .. N /\ rest[i] = answers[i + 1]
  BY <1>1, Taken
<1>3. \A i \in 1 .. N : i = 1 \/ i - 1 \in 1 .. N - 1
  BY <1>2
<1>4. SUFFICES ASSUME v.mounted, ~v.approved
               PROVE  /\ \A i \in DOMAIN rest :
                           rest[i].type = "uiState" /\ (\A j \in DOMAIN rest : rest[j].type = "uiState" => j <= i) =>
                             rest[i].plan = v.plan /\ rest[i].agent = v.agent
                      /\ (\A i \in DOMAIN rest : rest[i].type # "uiState") => g.plan = v.plan /\ g.agent = v.agent
  BY <1>1 DEF Modes
<1>5. /\ \A i \in 1 .. N :
           answers[i].type = "uiState" /\ (\A j \in 1 .. N : answers[j].type = "uiState" => j <= i) =>
             answers[i].plan = v.plan /\ answers[i].agent = v.agent
      /\ (\A i \in 1 .. N : answers[i].type # "uiState") => h.plan = v.plan /\ h.agent = v.agent
  BY <1>2, <1>4 DEF Modes
<1>6. ASSUME NEW i \in 1 .. N - 1, rest[i].type = "uiState",
             \A j \in 1 .. N - 1 : rest[j].type = "uiState" => j <= i
      PROVE  rest[i].plan = v.plan /\ rest[i].agent = v.agent
  <2>1. i + 1 \in 1 .. N /\ rest[i] = answers[i + 1]
    BY <1>2
  <2>2. ASSUME NEW j \in 1 .. N, answers[j].type = "uiState" PROVE j <= i + 1
    <3>1. CASE j = 1
      BY <2>1, <3>1
    <3>2. CASE j - 1 \in 1 .. N - 1
      <4>1. rest[j - 1] = answers[j]
        BY <1>2, <2>2, <3>2
      <4>2. j - 1 <= i
        BY <1>6, <2>2, <3>2, <4>1
      <4>3. QED
        BY <1>2, <4>2
    <3>3. QED
      BY <1>3, <3>1, <3>2
  <2>3. QED
    BY <1>5, <1>6, <2>1, <2>2
<1>7. ASSUME \A i \in 1 .. N - 1 : rest[i].type # "uiState" PROVE g.plan = v.plan /\ g.agent = v.agent
  <2>1. ASSUME NEW j \in 1 .. N, j # 1 PROVE answers[j].type # "uiState"
    <3>1. j - 1 \in 1 .. N - 1 /\ rest[j - 1] = answers[j]
      BY <1>2, <1>3, <2>1
    <3>2. QED
      BY <1>7, <3>1
  <2>2. CASE m.type = "uiState"
    <3>1. \A j \in 1 .. N : answers[j].type = "uiState" => j <= 1
      BY <2>1
    <3>2. m.plan = v.plan /\ m.agent = v.agent
      BY <1>2, <1>5, <2>2, <3>1
    <3>3. QED
      BY <1>1, <2>2, <3>2
  <2>3. CASE m.type # "uiState"
    <3>1. \A j \in 1 .. N : answers[j].type # "uiState"
      BY <1>2, <2>1, <2>3
    <3>2. QED
      BY <1>1, <1>5, <2>3, <3>1
  <2>4. QED
    BY <2>2, <2>3
<1>8. QED
  BY <1>2, <1>6, <1>7

LEMMA PlansTaken ==
  ASSUME NEW h, NEW v, NEW answers \in Seq(ToHostSet), answers # << >>, Plans(h, v, answers)
  PROVE  Plans(h, v, Tail(answers))
BY Taken DEF Plans

\* The turn in flight stays, but for the approval it awaits.
Quietly(h, g) ==
  /\ g.facts = h.facts /\ g.history = h.history /\ g.store = h.store /\ g.chat = h.chat
  /\ g.restored = h.restored /\ g.replayed = h.replayed /\ g.open = h.open /\ g.odd = h.odd
  /\ g.turn = h.turn \/ g.turn = [h.turn EXCEPT !.waiting = 0]

LEMMA QuietlyFits ==
  ASSUME NEW h, NEW v, NEW queue, NEW answers, Fits(h, v, queue, answers), answers # << >>,
         NEW g \in HostSet, Quietly(h, g),
         IF Head(answers).type = "uiState"
           THEN g.plan = Head(answers).plan /\ g.agent = Head(answers).agent
           ELSE g.plan = h.plan /\ g.agent = h.agent,
         g.turn = h.turn /\ h.turn.waiting > 0 => Head(answers) # Approval(h.turn.id, h.turn.waiting)
  PROVE  Fits(g, v, queue, Tail(answers))
<1>1. PICK rest, u, m : rest = Tail(answers) /\ u = Shows(v, queue) /\ m = Head(answers)
  OBVIOUS
<1>2. /\ h \in HostSet /\ v \in ViewSet /\ Writing(v)
      /\ queue \in Seq(MsgSet) /\ answers \in Seq(ToHostSet)
      /\ h.turn.phase = "prepare" => h.turn.options \in Asked
      /\ h.chat \in DOMAIN h.store
      /\ Modes(h, v, answers) /\ Plans(h, v, answers)
  BY FitsTypes
<1>3. Lists(h, v) /\ Flight(h, v) /\ Screen(h, u) /\ Cards(h, u, answers) /\ Previews(h)
  BY <1>1 DEF Fits
<1>4. /\ g.facts = h.facts /\ g.history = h.history /\ g.store = h.store /\ g.chat = h.chat
      /\ g.restored = h.restored /\ g.replayed = h.replayed /\ g.open = h.open /\ g.odd = h.odd
      /\ g.turn = h.turn \/ g.turn = [h.turn EXCEPT !.waiting = 0]
  BY DEF Quietly
<1>5. h.turn \in TurnSet
  BY <1>2, HostFields
<1>6. /\ g.turn.phase = h.turn.phase /\ g.turn.id = h.turn.id /\ g.turn.options = h.turn.options
      /\ g.turn.text = h.turn.text /\ g.turn.held = h.turn.held /\ g.turn.emitted = h.turn.emitted
      /\ g.turn.started = h.turn.started /\ g.turn.preview = h.turn.preview
      /\ g.turn.request = h.turn.request
      /\ g.turn = h.turn \/ g.turn.waiting = 0
  BY <1>4, <1>5 DEF TurnSet
<1>7. rest \in Seq(ToHostSet) /\ m \in ToHostSet
  BY <1>1, <1>2, Taken
<1>8. Busy(g) = Busy(h) /\ \A t : Preparing(g, t) <=> Preparing(h, t)
  BY <1>6 DEF Busy, Preparing
<1>9. Len(h.facts) \in Nat
  BY <1>2, HostFields
<1>10. Wider(h, v, g, v)
  BY <1>2, <1>4, <1>8, <1>9, BegunLater DEF Later
<1>11. Lists(g, v)
  BY <1>3, <1>4, <1>10, ListsMore
<1>12. Flight(g, v)
  <2>1. CASE g.turn = h.turn
    BY <1>3, <1>4, <1>8, <1>10, <2>1 DEF Flight, Wider
  <2>2. CASE g.turn = [h.turn EXCEPT !.waiting = 0]
    <3>1. ~Busy(h) => g.turn = NoTurn
      BY <1>3, <2>2 DEF Flight, NoTurn
    <3>2. QED
      BY <1>3, <1>4, <1>6, <1>8, <1>10, <3>1 DEF Flight, Wider
  <2>3. QED
    BY <1>4, <2>1, <2>2
<1>13. u \in ViewSet /\ Writing(u)
  BY <1>1, <1>2, ShowsType
<1>14. \A text \in Seq(PieceSet) : Streamed(h) /\ Streams(h, text) => Streams(g, text)
  BY <1>6 DEF Streams
<1>15. Screen(g, u)
  BY <1>2, <1>3, <1>4, <1>6, <1>8, <1>13, <1>14, ScreenStays
<1>16. Cards(g, u, rest)
  <2>1. SUFFICES ASSUME g.turn.waiting > 0, h.turn.id \notin h.odd
                 PROVE  \/ \E i \in DOMAIN u.bubbles : IsCard(u.bubbles[i], h.turn.id, h.turn.waiting)
                        \/ \E i \in DOMAIN rest : rest[i] = Approval(h.turn.id, h.turn.waiting)
    BY <1>4, <1>6 DEF Cards
  <2>2. g.turn = h.turn /\ h.turn.waiting > 0
    BY <1>6, <2>1
  <2>3. m # Approval(h.turn.id, h.turn.waiting)
    BY <1>1, <2>2
  <2>4. \/ \E i \in DOMAIN u.bubbles : IsCard(u.bubbles[i], h.turn.id, h.turn.waiting)
        \/ \E i \in DOMAIN answers : answers[i] = Approval(h.turn.id, h.turn.waiting)
    BY <1>3, <2>1, <2>2 DEF Cards
  <2>5. ASSUME NEW i \in DOMAIN answers, answers[i] = Approval(h.turn.id, h.turn.waiting)
        PROVE  \E j \in DOMAIN rest : rest[j] = Approval(h.turn.id, h.turn.waiting)
    <3>1. /\ Len(answers) \in Nat /\ DOMAIN answers = 1 .. Len(answers) /\ m = answers[1]
          /\ DOMAIN rest = 1 .. Len(answers) - 1
          /\ \A j \in DOMAIN rest : rest[j] = answers[j + 1]
      BY <1>1, <1>2, Taken
    <3>2. i # 1
      BY <2>3, <2>5, <3>1
    <3>3. i - 1 \in DOMAIN rest /\ (i - 1) + 1 = i
      BY <3>1, <3>2
    <3>4. rest[i - 1] = answers[i]
      BY <3>1, <3>3
    <3>5. QED
      BY <2>5, <3>3, <3>4
  <2>6. QED
    BY <2>4, <2>5
<1>17. Modes(g, v, rest)
  BY <1>1, <1>2, ModesTaken
<1>18. Plans(g, v, rest)
  <2>1. Plans(h, v, rest)
    BY <1>1, <1>2, PlansTaken
  <2>2. QED
    BY <1>4, <1>6, <2>1 DEF Plans
<1>19. Previews(g)
  BY <1>3, <1>6 DEF Previews
<1>20. Sends(h, g)
  BY <1>4, <1>9 DEF Sends
<1>21. (g.turn.phase = "prepare" => g.turn.options \in Asked) /\ g.chat \in DOMAIN g.store
  BY <1>2, <1>4, <1>6
<1>22. Screen(g, Shows(v, queue)) /\ Cards(g, Shows(v, queue), rest)
  BY <1>1, <1>15, <1>16
<1>23. Fits(g, v, queue, rest)
  BY <1>7, <1>10, <1>11, <1>12, <1>17, <1>18, <1>19, <1>20, <1>21, <1>22, SilentFits
<1>24. QED
  BY <1>1, <1>23

LEMMA NoApproval ==
  ASSUME NEW m, NEW t, NEW n, m.type # "approval" \/ ~(t = m.turn /\ n = m.n)
  PROVE  m # Approval(t, n)
BY DEF Approval

LEMMA UiStateKeeps ==
  ASSUME ViewInv, toHost # << >>, NEW m, m = Head(toHost), m.type = "uiState",
         host' = [host EXCEPT !.plan = m.plan, !.agent = m.agent],
         UNCHANGED <<toView, view>>, toHost' = Tail(toHost)
  PROVE  ViewInv'
<1>1. host \in HostSet /\ toHost \in Seq(ToHostSet) /\ Fits(host, view, toView, toHost)
  BY FitsTypes DEF ViewInv
<1>2. m \in ToHostSet
  BY <1>1, Taken
<1>3. m.plan \in BOOLEAN /\ m.agent \in BOOLEAN
  BY <1>2, Answers
<1>4. host' \in HostSet /\ host'.plan = m.plan /\ host'.agent = m.agent
  BY <1>1, <1>3 DEF HostSet
<1>5. Quietly(host, host')
  BY <1>1 DEF Quietly, HostSet
<1>6. m # Approval(host.turn.id, host.turn.waiting)
  BY NoApproval
<1>7. Fits(host', view, toView, Tail(toHost))
  BY <1>1, <1>4, <1>5, <1>6, QuietlyFits
<1>8. QED
  BY <1>7 DEF ViewInv

\* Stop, and an approval, which is answered once.
LEMMA CancelKeeps ==
  ASSUME ViewInv, toHost # << >>, NEW m, m = Head(toHost), m.type \in {"cancel", "approval"},
         \/ host' = [host EXCEPT !.turn.waiting = 0]
         \/ host' = host /\ m.type = "approval" /\ ~(host.turn.id = m.turn /\ host.turn.waiting = m.n),
         UNCHANGED <<toView, view>>, toHost' = Tail(toHost)
  PROVE  ViewInv'
<1>1. host \in HostSet /\ toHost \in Seq(ToHostSet) /\ Fits(host, view, toView, toHost)
  BY FitsTypes DEF ViewInv
<1>2. host.turn \in TurnSet
  BY <1>1, HostFields
<1>3. [host.turn EXCEPT !.waiting = 0] \in TurnSet /\ [host.turn EXCEPT !.waiting = 0].waiting = 0
  BY <1>2 DEF TurnSet
<1>4. PICK t : t = [host.turn EXCEPT !.waiting = 0]
  OBVIOUS
<1>5. CASE host' = [host EXCEPT !.turn.waiting = 0]
  <2>1. host' = [host EXCEPT !.turn = t]
    BY <1>1, <1>4, <1>5 DEF HostSet
  <2>2. host' \in HostSet
    BY <1>1, <1>3, <1>4, <2>1 DEF HostSet
  <2>3. Quietly(host, host') /\ host'.turn = t /\ host'.plan = host.plan /\ host'.agent = host.agent
    BY <1>1, <1>4, <2>1 DEF Quietly, HostSet
  <2>4. host'.turn = host.turn /\ host.turn.waiting > 0 => m # Approval(host.turn.id, host.turn.waiting)
    <3>1. ASSUME host.turn.waiting > 0, host'.turn = host.turn PROVE FALSE
      <4>1. host.turn.waiting = 0
        BY <1>3, <1>4, <2>3, <3>1
      <4>2. QED
        BY <3>1, <4>1
    <3>2. QED
      BY <3>1
  <2>5. Fits(host', view, toView, Tail(toHost))
    BY <1>1, <2>2, <2>3, <2>4, QuietlyFits
  <2>6. QED
    BY <2>5 DEF ViewInv
<1>6. CASE host' = host /\ m.type = "approval" /\ ~(host.turn.id = m.turn /\ host.turn.waiting = m.n)
  <2>1. Quietly(host, host)
    BY DEF Quietly
  <2>2. m # Approval(host.turn.id, host.turn.waiting)
    BY <1>6, NoApproval
  <2>3. Fits(host, view, toView, Tail(toHost))
    BY <1>1, <1>6, <2>1, <2>2, QuietlyFits
  <2>4. QED
    BY <1>6, <2>3 DEF ViewInv
<1>7. QED
  BY <1>5, <1>6

\* A message sent while a turn runs is dropped.
LEMMA DropsKeep ==
  ASSUME ViewInv, toHost # << >>, Head(toHost).type = "send",
         UNCHANGED <<host, toView, view>>, toHost' = Tail(toHost)
  PROVE  ViewInv'
<1>1. Quietly(host, host)
  BY DEF Quietly
<1>2. Head(toHost) # Approval(host.turn.id, host.turn.waiting)
  BY NoApproval
<1>3. Fits(host, view, toView, toHost) /\ host \in HostSet
  BY FitsTypes DEF ViewInv
<1>4. Fits(host, view, toView, Tail(toHost))
  BY <1>1, <1>2, <1>3, QuietlyFits
<1>5. QED
  BY <1>4 DEF ViewInv

\* The restored conversation is shown.
LEMMA ReadyKeeps ==
  ASSUME ViewInv, toHost # << >>, Head(toHost).type = "ready",
         host' = [host EXCEPT !.replayed = TRUE], toView' = toView \o Ready,
         UNCHANGED view, toHost' = Tail(toHost)
  PROVE  ViewInv'
<1>1. PICK m, u, rest : m = Head(toHost) /\ u = Shows(view, toView) /\ rest = Tail(toHost)
  OBVIOUS
<1>2. Fits(host, view, toView, toHost)
  BY DEF ViewInv
<1>3. /\ host \in HostSet /\ view \in ViewSet /\ Writing(view)
      /\ toView \in Seq(MsgSet) /\ toHost \in Seq(ToHostSet)
      /\ host.turn.phase = "prepare" => host.turn.options \in Asked
      /\ host.chat \in DOMAIN host.store
      /\ Modes(host, view, toHost) /\ Plans(host, view, toHost)
  BY <1>2, FitsTypes
<1>4. /\ Lists(host, view) /\ Flight(host, view) /\ Screen(host, u) /\ Cards(host, u, toHost)
      /\ Previews(host)
  BY <1>1, <1>2 DEF Fits
<1>5. rest \in Seq(ToHostSet) /\ m \in ToHostSet
  BY <1>1, <1>3, Taken
<1>6. PICK g : g = [host EXCEPT !.replayed = TRUE]
  OBVIOUS
<1>7. /\ g \in HostSet /\ g.turn = host.turn /\ g.facts = host.facts /\ g.replayed
      /\ g.restored = host.restored /\ g.history = host.history /\ g.open = host.open
      /\ g.odd = host.odd /\ g.store = host.store /\ g.chat = host.chat
      /\ g.plan = host.plan /\ g.agent = host.agent
  BY <1>3, <1>6 DEF HostSet
<1>8. PICK more : more = (IF host.replayed THEN << >> ELSE Replay(host.restored))
  OBVIOUS
<1>9. host.restored \in Seq(ItemSet) /\ Len(host.facts) \in Nat
  BY <1>3, HostFields
<1>10. more \in Seq(Plain) /\ \A i \in DOMAIN more :
         /\ more[i].type \in {"user", "assistant"}
         /\ \E j \in 1 .. Len(host.restored) : more[i].turn = host.restored[j].turn
  <2>1. CASE host.replayed
    BY <1>8, <2>1
  <2>2. CASE ~host.replayed
    BY <1>8, <1>9, <2>2, ReplayPlain
  <2>3. QED
    BY <2>1, <2>2
<1>11. more \in Seq(MsgSet)
  BY <1>10 DEF Plain
<1>12. u \in ViewSet /\ Writing(u)
  BY <1>1, <1>3, ShowsType
<1>13. Readied(host, g)
  <2>1. Lines(host.history, Turns(host))
    BY <1>4, KeptLines DEF Lists
  <2>2. Lines(host.restored, Turns(host))
    BY <1>3, <1>4, RestoredLines
  <2>3. Busy(host) => host.turn.id \in Turns(host) /\ Len(host.facts) > 0
    BY <1>4, <1>9 DEF Flight, Turns
  <2>4. QED
    BY <1>7, <2>1, <2>2, <2>3 DEF Readied
<1>14. Screen(g, Shows(u, more))
  BY <1>3, <1>4, <1>7, <1>8, <1>12, <1>13, ReadyShows
<1>15. Cards(g, Shows(u, more), rest)
  <2>1. Cards(host, u, rest)
    <3>1. SUFFICES ASSUME NEW i \in DOMAIN toHost, NEW t, NEW n, toHost[i] = Approval(t, n)
                   PROVE  \E j \in DOMAIN rest : rest[j] = Approval(t, n)
      BY <1>4 DEF Cards
    <3>2. /\ Len(toHost) \in Nat /\ DOMAIN toHost = 1 .. Len(toHost) /\ m = toHost[1]
          /\ DOMAIN rest = 1 .. Len(toHost) - 1
          /\ \A j \in DOMAIN rest : rest[j] = toHost[j + 1]
      BY <1>1, <1>3, Taken
    <3>3. m # Approval(t, n)
      BY <1>1, NoApproval
    <3>4. i - 1 \in DOMAIN rest /\ (i - 1) + 1 = i
      BY <3>1, <3>2, <3>3
    <3>5. rest[i - 1] = toHost[i]
      BY <3>2, <3>4
    <3>6. QED
      BY <3>1, <3>4, <3>5
  <2>2. QED
    BY <1>7, <1>10, <1>12, <2>1, CardsStay
<1>16. Wider(host, view, g, view)
  BY <1>3, <1>7, <1>9, BegunLater DEF Later, Preparing
<1>17. Lists(g, view)
  BY <1>4, <1>7, <1>16, ListsMore
<1>18. Flight(g, view)
  BY <1>4, <1>7, <1>16 DEF Flight, Busy, Wider
<1>19. Posted(g, view, more)
  <2>1. SUFFICES ASSUME NEW i \in DOMAIN more
                 PROVE  more[i].turn \in Begun(g, view) /\ more[i].type # "card"
    BY DEF Posted
  <2>2. PICK j \in 1 .. Len(host.restored) : more[i].turn = host.restored[j].turn
    BY <1>10
  <2>3. more[i].turn = 0
    BY <1>4, <1>9, <2>2 DEF Lists, Restored
  <2>4. 0 \in Begun(g, view)
    BY <1>7, <1>9 DEF Begun, Turns
  <2>5. QED
    BY <1>10, <2>3, <2>4
<1>20. Modes(g, view, rest)
  BY <1>1, <1>3, <1>7, ModesTaken
<1>21. Plans(g, view, rest)
  <2>1. Plans(host, view, rest)
    BY <1>1, <1>3, PlansTaken
  <2>2. QED
    BY <1>7, <2>1 DEF Plans
<1>22. Previews(g)
  BY <1>4, <1>7 DEF Previews
<1>23. Sends(host, g)
  BY <1>7, <1>9 DEF Sends
<1>24. (g.turn.phase = "prepare" => g.turn.options \in Asked) /\ g.chat \in DOMAIN g.store
  BY <1>3, <1>7
<1>25. Screen(g, Shows(Shows(view, toView), more)) /\ Cards(g, Shows(Shows(view, toView), more), rest)
  BY <1>1, <1>14, <1>15
<1>26. Fits(g, view, toView \o more, rest)
  BY <1>2, <1>5, <1>7, <1>11, <1>16, <1>17, <1>18, <1>19, <1>20, <1>21, <1>22, <1>23, <1>24, <1>25, HostFits
<1>27. QED
  BY <1>1, <1>6, <1>8, <1>26 DEF ViewInv, Ready

-----------------------------------------------------------------------------
(* A question is submitted.                                                  *)

Asks(t, options) == [NoTurn EXCEPT !.phase = "prepare", !.id = t, !.options = options]

LEMMA AsksIs ==
  ASSUME NEW t \in Nat, NEW options \in Asked, NEW u, u = Asks(t, options)
  PROVE  /\ u \in TurnSet
         /\ u.phase = "prepare" /\ u.id = t /\ u.options = options
         /\ u.text = << >> /\ u.held = << >> /\ ~u.emitted /\ ~u.started
         /\ u.waiting = 0 /\ u.preview = {} /\ u.request = {}
<1>1. PICK e, no, yes : e = << >> /\ no = FALSE /\ yes = "prepare"
  OBVIOUS
<1>2. e \in Seq(PieceSet) /\ yes \in Phases
  BY <1>1 DEF Phases
<1>3. no \in BOOLEAN
  BY <1>1, Zenon
<1>4. u = [phase |-> yes, id |-> t, options |-> options, n |-> 0, text |-> e, held |-> e,
           emitted |-> no, started |-> no, reasoned |-> no, caught |-> no, retried |-> no,
           tooled |-> no, waiting |-> 0, preview |-> {}, request |-> {}]
  BY <1>1 DEF Asks, NoTurn
<1>5. u \in TurnSet
  BY <1>2, <1>3, <1>4 DEF TurnSet
<1>6. QED
  BY <1>1, <1>4, <1>5

\* The question of turn t in the history.
Question(t) == <<Piece(t, 0, "text")>>

LEMMA QuestionIs ==
  ASSUME NEW t \in Nat
  PROVE  /\ Question(t) \in Seq(PieceSet) /\ Of(Question(t), {t})
         /\ Item("user", t, Question(t)) \in ItemSet
<1>1. PICK p : p = Piece(t, 0, "text")
  OBVIOUS
<1>2. p \in PieceSet /\ p.turn = t
  BY <1>1 DEF Piece, PieceSet, Sent
<1>3. Question(t) = <<p>>
  BY <1>1 DEF Question
<1>4. Question(t) \in Seq(PieceSet) /\ Of(Question(t), {t})
  BY <1>2, <1>3 DEF Of
<1>5. QED
  BY <1>4, ItemsAreLines

\* What submitMessage does to a host h.
Submits(h, g, options, t) ==
  /\ t = Len(h.facts) + 1
  /\ g = [h EXCEPT
       !.turn = Asks(t, options),
       !.history = Trim(Append(@, Item("user", t, Question(t)))),
       !.facts = Append(@, [send |-> options.send, approval |-> options.approval, plan |-> FALSE]),
       !.odd = IF h.replayed \/ h.restored = << >> THEN @ ELSE @ \cup {0, t}]

\* What the host is then.
AskedNow(h, g, options, t) ==
  /\ g \in HostSet /\ t = Len(h.facts) + 1 /\ t \in Nat /\ t > 0
  /\ g.turn = Asks(t, options)
  /\ g.history = Trim(Append(h.history, Item("user", t, Question(t))))
  /\ Len(g.facts) = t /\ \A i \in 1 .. Len(h.facts) : g.facts[i] = h.facts[i]
  /\ g.facts[t].send = options.send /\ g.facts[t].approval = options.approval
  /\ g.odd = IF Waits(h) THEN h.odd \cup {0, t} ELSE h.odd
  /\ g.restored = h.restored /\ g.replayed = h.replayed /\ g.open = h.open
  /\ g.store = h.store /\ g.chat = h.chat /\ g.plan = h.plan /\ g.agent = h.agent

LEMMA SubmitsIs ==
  ASSUME NEW h \in HostSet, NEW options \in Asked, NEW g, NEW t, Submits(h, g, options, t)
  PROVE  AskedNow(h, g, options, t)
<1>1. /\ h.facts \in Seq(FactSet) /\ Len(h.facts) \in Nat /\ h.history \in Seq(ItemSet)
      /\ h.odd \subseteq Nat
  BY HostFields
<1>2. t \in Nat /\ t > 0
  BY <1>1 DEF Submits
<1>3. PICK no : no = FALSE
  OBVIOUS
<1>4. no \in BOOLEAN
  BY <1>3, Zenon
<1>5. PICK fact : fact = [send |-> options.send, approval |-> options.approval, plan |-> no]
  OBVIOUS
<1>6. options.send \in Nat /\ options.approval \in BOOLEAN
  BY DEF Asked, SendSet, ActionSet
<1>7. fact \in FactSet /\ fact.send = options.send /\ fact.approval = options.approval
  BY <1>4, <1>5, <1>6 DEF FactSet
<1>8. PICK turn, list, facts, odd :
        /\ turn = Asks(t, options) /\ list = Trim(Append(h.history, Item("user", t, Question(t))))
        /\ facts = Append(h.facts, fact)
        /\ odd = IF h.replayed \/ h.restored = << >> THEN h.odd ELSE h.odd \cup {0, t}
  OBVIOUS
<1>9. turn \in TurnSet
  BY <1>2, <1>8, AsksIs
<1>10. Append(h.history, Item("user", t, Question(t))) \in Seq(ItemSet)
  <2>1. PICK item : item = Item("user", t, Question(t))
    OBVIOUS
  <2>2. item \in ItemSet
    BY <1>2, <2>1, QuestionIs
  <2>3. Append(h.history, item) \in Seq(ItemSet)
    BY <1>1, <2>2
  <2>4. QED
    BY <2>1, <2>3
<1>11. list \in Seq(ItemSet)
  BY <1>8, <1>10, TrimIs
<1>12. /\ facts \in Seq(FactSet) /\ Len(facts) = t /\ facts[t] = fact
       /\ \A i \in 1 .. Len(h.facts) : facts[i] = h.facts[i]
  <2>1. Len(h.facts) + 1 = t
    BY DEF Submits
  <2>2. /\ facts \in Seq(FactSet) /\ Len(facts) = Len(h.facts) + 1 /\ facts[Len(h.facts) + 1] = fact
        /\ \A i \in 1 .. Len(h.facts) : facts[i] = h.facts[i]
    BY <1>1, <1>7, <1>8
  <2>3. QED
    BY <2>1, <2>2
<1>13. odd \subseteq Nat
  BY <1>1, <1>2, <1>8
<1>14. g = [h EXCEPT !.turn = turn, !.history = list, !.facts = facts, !.odd = odd]
  BY <1>3, <1>5, <1>8 DEF Submits, HostSet
<1>15. /\ g \in HostSet /\ g.turn = turn /\ g.history = list /\ g.facts = facts /\ g.odd = odd
       /\ g.restored = h.restored /\ g.replayed = h.replayed /\ g.open = h.open
       /\ g.store = h.store /\ g.chat = h.chat /\ g.plan = h.plan /\ g.agent = h.agent
  BY <1>9, <1>11, <1>12, <1>13, <1>14 DEF HostSet
<1>16. odd = IF Waits(h) THEN h.odd \cup {0, t} ELSE h.odd
  BY <1>8 DEF Waits
<1>17. QED
  BY <1>2, <1>7, <1>8, <1>12, <1>15, <1>16 DEF Submits, AskedNow

LEMMA SubmitFits ==
  ASSUME NEW h, NEW v, NEW queue, NEW answers, Fits(h, v, queue, answers),
         ~Busy(h), NEW options \in Asked, NEW g, NEW t, Submits(h, g, options, t), Planned(options, v),
         NEW rest \in Seq(ToHostSet), Modes(h, v, rest), Plans(h, v, rest)
  PROVE  Fits(g, v, queue \o <<Msg("busy", t, << >>), Msg("user", t, Question(t))>>, rest)
<1>1. PICK u, x : u = Shows(v, queue) /\ x = Question(t)
  OBVIOUS
<1>2. /\ h \in HostSet /\ v \in ViewSet /\ Writing(v)
      /\ queue \in Seq(MsgSet) /\ answers \in Seq(ToHostSet) /\ h.chat \in DOMAIN h.store
  BY FitsTypes
<1>3. Lists(h, v) /\ Flight(h, v) /\ Screen(h, u)
  BY <1>1 DEF Fits
<1>4. /\ g \in HostSet /\ t = Len(h.facts) + 1 /\ t \in Nat /\ t > 0
      /\ g.turn = Asks(t, options)
      /\ g.history = Trim(Append(h.history, Item("user", t, x)))
      /\ Len(g.facts) = t /\ \A i \in 1 .. Len(h.facts) : g.facts[i] = h.facts[i]
      /\ g.facts[t].send = options.send /\ g.facts[t].approval = options.approval
      /\ g.odd = IF Waits(h) THEN h.odd \cup {0, t} ELSE h.odd
      /\ g.restored = h.restored /\ g.replayed = h.replayed /\ g.open = h.open
      /\ g.store = h.store /\ g.chat = h.chat /\ g.plan = h.plan /\ g.agent = h.agent
  <2>1. h \in HostSet /\ options \in Asked /\ Submits(h, g, options, t)
    BY <1>2
  <2>2. AskedNow(h, g, options, t)
    BY <2>1, SubmitsIs
  <2>3. QED
    BY <1>1, <2>2 DEF AskedNow
<1>5. /\ g.turn.phase = "prepare" /\ g.turn.id = t /\ g.turn.options = options
      /\ g.turn.text = << >> /\ g.turn.held = << >> /\ ~g.turn.emitted /\ ~g.turn.started
      /\ g.turn.waiting = 0 /\ g.turn.preview = {} /\ g.turn.request = {}
  BY <1>4, AsksIs
<1>6. Len(h.facts) \in Nat /\ h.history \in Seq(ItemSet)
  BY <1>2, HostFields
<1>7. x \in Seq(PieceSet) /\ Of(x, {t}) /\ Item("user", t, x) \in ItemSet
  BY <1>1, <1>4, QuestionIs
<1>8. u \in ViewSet /\ Writing(u)
  BY <1>1, <1>2, ShowsType
<1>9. Wider(h, v, g, v)
  <2>1. ASSUME NEW i \in 1 .. Len(h.facts) PROVE ~Preparing(g, i)
    BY <1>4, <1>5, <1>6 DEF Preparing
  <2>2. QED
    BY <1>2, <1>4, <1>6, <2>1, BegunLater DEF Later
<1>10. t \in Turns(g)
  BY <1>4 DEF Turns
<1>11. Lists(g, v)
  <2>1. PICK all : all = Append(h.history, Item("user", t, x))
    OBVIOUS
  <2>2. all \in Seq(ItemSet) /\ Len(all) = Len(h.history) + 1
        /\ all[Len(h.history) + 1] = Item("user", t, x) /\ \A i \in 1 .. Len(h.history) : all[i] = h.history[i]
    BY <1>6, <1>7, <2>1
  <2>3. Kept(Item("user", t, x), g, v)
    BY <1>7, <1>10 DEF Kept, Item
  <2>4. AllKept(h.history, g, v)
    BY <1>3, <1>9, AllKeptMore DEF Lists
  <2>5. ASSUME NEW i \in 1 .. Len(all) PROVE Kept(all[i], g, v)
    <3>1. CASE i \in 1 .. Len(h.history)
      <4>1. Kept(h.history[i], g, v)
        BY <1>6, <2>4, <3>1 DEF AllKept
      <4>2. QED
        BY <2>2, <3>1, <4>1
    <3>2. CASE i = Len(h.history) + 1
      BY <2>2, <2>3, <3>2
    <3>3. QED
      BY <1>6, <2>2, <3>1, <3>2
  <2>6. g.history \in Seq(ItemSet) /\ \A i \in 1 .. Len(g.history) : \E j \in 1 .. Len(all) : g.history[i] = all[j]
    <3>1. g.history = Trim(all)
      BY <1>4, <2>1
    <3>2. Trim(all) \in Seq(ItemSet) /\ \A i \in 1 .. Len(Trim(all)) : \E j \in 1 .. Len(all) : Trim(all)[i] = all[j]
      BY <2>2, TrimIs
    <3>3. QED
      BY <3>1, <3>2
  <2>7. AllKept(g.history, g, v)
    BY <2>5, <2>6 DEF AllKept
  <2>8. \A c \in DOMAIN h.store : AllKept(h.store[c], g, v)
    BY <1>3, <1>9, AllKeptMore DEF Lists
  <2>9. QED
    BY <1>3, <1>4, <2>7, <2>8 DEF Lists
<1>12. Flight(g, v)
  <2>1. PICK e : e = << >>
    OBVIOUS
  <2>2. \A S : Of(e, S)
    BY <2>1 DEF Of
  <2>3. Of(g.turn.text, {g.turn.id}) /\ Of(g.turn.held, {g.turn.id})
    BY <1>5, <2>1, <2>2
  <2>4. QED
    BY <1>4, <1>5, <2>3 DEF Flight, Busy
<1>13. Screen(g, Asking(u, t, x))
  <2>1. Lines(h.history, Turns(h))
    BY <1>3, KeptLines DEF Lists
  <2>2. \A i \in 1 .. Len(h.history) : Of(h.history[i].text, Turns(h))
    BY <1>6, <2>1 DEF Lines
  <2>3. Busy(g)
    BY <1>5 DEF Busy
  <2>4. PICK w : w = Asking(u, t, x)
    OBVIOUS
  <2>5. Begins(h, g, u, w, t, x)
    BY <1>4, <1>5, <1>7, <2>2, <2>3, <2>4 DEF Begins
  <2>6. Screen(g, w)
    BY <1>2, <1>3, <1>4, <1>7, <1>8, <2>5, AskShows
  <2>7. QED
    BY <2>4, <2>6
<1>14. PICK more : more = <<Msg("busy", t, << >>), Msg("user", t, x)>>
  OBVIOUS
<1>15. more \in Seq(MsgSet) /\ Posted(g, v, more)
  <2>1. PICK e : e = << >>
    OBVIOUS
  <2>2. e \in Seq(PieceSet)
    BY <2>1
  <2>3. PICK a, b : a = Msg("busy", t, e) /\ b = Msg("user", t, x)
    OBVIOUS
  <2>4. "busy" \in MsgTypes /\ "user" \in MsgTypes
    BY DEF MsgTypes, Kinds
  <2>5. a \in MsgSet /\ a.type = "busy" /\ b \in MsgSet /\ b.type = "user"
    BY <1>4, <1>7, <2>2, <2>3, <2>4, Messages
  <2>6. more = <<a, b>>
    BY <1>14, <2>1, <2>3
  <2>7. DOMAIN more = 1 .. 2 /\ more[1] = a /\ more[2] = b /\ more \in Seq(MsgSet)
    BY <2>5, <2>6
  <2>8. \A i \in DOMAIN more : more[i].type \in {"busy", "user"}
    BY <2>5, <2>7
  <2>9. QED
    BY <2>7, <2>8 DEF Posted
<1>16. Shows(u, more) = Asking(u, t, x)
  BY <1>4, <1>7, <1>8, <1>14, AskingIs
<1>17. Cards(g, Shows(u, more), rest)
  BY <1>5 DEF Cards
<1>18. Modes(g, v, rest)
  BY <1>4 DEF Modes
<1>19. Plans(g, v, rest)
  <2>1. ASSUME NEW i \in DOMAIN g.facts PROVE g.facts[i].send <= v.sends
    <3>1. i \in 1 .. Len(g.facts)
      BY <1>4, HostFields
    <3>2. CASE i = t
      BY <1>4, <3>2 DEF Planned
    <3>3. CASE i \in 1 .. Len(h.facts)
      <4>1. i \in DOMAIN h.facts
        BY <1>2, <3>3, HostFields
      <4>2. h.facts[i].send <= v.sends
        BY <4>1 DEF Plans
      <4>3. QED
        BY <1>4, <3>3, <4>2
    <3>4. QED
      BY <1>4, <1>6, <3>1, <3>2, <3>3
  <2>2. QED
    BY <1>4, <1>5, <2>1 DEF Plans
<1>20. Previews(g)
  BY <1>5 DEF Previews
<1>21. Sends(h, g)
  BY <1>4, <1>6 DEF Sends
<1>22. (g.turn.phase = "prepare" => g.turn.options \in Asked) /\ g.chat \in DOMAIN g.store
  BY <1>2, <1>4, <1>5
<1>23. Screen(g, Shows(Shows(v, queue), more)) /\ Cards(g, Shows(Shows(v, queue), more), rest)
  BY <1>1, <1>13, <1>16, <1>17
<1>24. Fits(g, v, queue \o more, rest)
  BY <1>4, <1>9, <1>11, <1>12, <1>15, <1>18, <1>19, <1>20, <1>21, <1>22, <1>23, HostFits
<1>25. QED
  BY <1>1, <1>14, <1>24

LEMMA SubmitIs ==
  ASSUME NEW options, Submit(options)
  PROVE  /\ ~Busy(host) /\ Submits(host, host', options, Len(host.facts) + 1)
         /\ toView' = toView \o <<Msg("busy", Len(host.facts) + 1, << >>),
                                  Msg("user", Len(host.facts) + 1, Question(Len(host.facts) + 1))>>
BY DEF Submit, Running, Busy, Submits, Asks, Question

\* A message of the composer is handled; an action of the editor.
LEMMA SendHandled ==
  ASSUME ViewInv, toHost # << >>, Head(toHost).type = "send", Submit(Head(toHost)),
         UNCHANGED view, toHost' = Tail(toHost)
  PROVE  ViewInv'
<1>1. PICK m, rest : m = Head(toHost) /\ rest = Tail(toHost)
  OBVIOUS
<1>2. Fits(host, view, toView, toHost) /\ host \in HostSet /\ toHost \in Seq(ToHostSet)
      /\ Modes(host, view, toHost) /\ Plans(host, view, toHost)
  BY FitsTypes DEF ViewInv
<1>3. m \in ToHostSet /\ rest \in Seq(ToHostSet) /\ 1 \in DOMAIN toHost /\ m = toHost[1]
  BY <1>1, <1>2, Taken
<1>4. m \in Asked
  BY <1>1, <1>3, Answers DEF Asked
<1>5. Planned(m, view)
  BY <1>1, <1>2, <1>3 DEF Plans
<1>6. Modes(host, view, rest)
  BY <1>1, <1>2, ModesTaken
<1>7. Plans(host, view, rest)
  BY <1>1, <1>2, PlansTaken
<1>8. PICK t : t = Len(host.facts) + 1
  OBVIOUS
<1>9. /\ ~Busy(host) /\ Submits(host, host', m, t)
      /\ toView' = toView \o <<Msg("busy", t, << >>), Msg("user", t, Question(t))>>
  BY <1>1, <1>8, SubmitIs
<1>10. Fits(host', view, toView \o <<Msg("busy", t, << >>), Msg("user", t, Question(t))>>, rest)
  BY <1>2, <1>3, <1>4, <1>5, <1>6, <1>7, <1>8, <1>9, SubmitFits
<1>11. QED
  BY <1>1, <1>9, <1>10 DEF ViewInv

LEMMA EditorActionKeeps ==
  ASSUME ViewInv, EditorAction
  PROVE  ViewInv'
<1>1. PICK o : o = [plan |-> host.plan, agent |-> host.agent, include |-> TRUE, given |-> TRUE,
                    pinned |-> FALSE, send |-> 0, approval |-> FALSE, workspace |-> FALSE]
  OBVIOUS
<1>2. Fits(host, view, toView, toHost) /\ host \in HostSet /\ toHost \in Seq(ToHostSet)
      /\ view \in ViewSet /\ Modes(host, view, toHost) /\ Plans(host, view, toHost)
  BY FitsTypes DEF ViewInv
<1>3. o \in Asked
  <2>1. PICK no, yes : no = FALSE /\ yes = TRUE
    OBVIOUS
  <2>2. no \in BOOLEAN /\ yes \in BOOLEAN
    BY <2>1, Zenon
  <2>3. host.plan \in BOOLEAN /\ host.agent \in BOOLEAN
    BY <1>2, HostFields
  <2>4. o = [plan |-> host.plan, agent |-> host.agent, include |-> yes, given |-> yes,
             pinned |-> no, send |-> 0, approval |-> no, workspace |-> no]
    BY <1>1, <2>1
  <2>5. QED
    BY <2>2, <2>3, <2>4 DEF Asked, ActionSet
<1>4. Planned(o, view)
  <2>1. o.send = 0
    BY <1>1
  <2>2. view.sends \in Nat
    BY <1>2, ViewFields
  <2>3. QED
    BY <2>1, <2>2 DEF Planned
<1>5. PICK t : t = Len(host.facts) + 1
  OBVIOUS
<1>6. Submit(o) /\ UNCHANGED <<view, toHost>>
  BY <1>1 DEF EditorAction, viewVars
<1>7. /\ ~Busy(host) /\ Submits(host, host', o, t)
      /\ toView' = toView \o <<Msg("busy", t, << >>), Msg("user", t, Question(t))>>
  BY <1>5, <1>6, SubmitIs
<1>8. Fits(host', view, toView \o <<Msg("busy", t, << >>), Msg("user", t, Question(t))>>, toHost)
  BY <1>2, <1>3, <1>4, <1>5, <1>7, SubmitFits
<1>9. QED
  BY <1>6, <1>7, <1>8 DEF ViewInv

LEMMA HostTakesKeeps ==
  ASSUME ViewInv, HostTakes
  PROVE  ViewInv'
<1>1. toHost # << >> /\ Handled(Head(toHost)) /\ toHost' = Tail(toHost) /\ UNCHANGED view
  BY DEF HostTakes
<1>2. PICK m : m = Head(toHost)
  OBVIOUS
<1>3. Handled(m)
  BY <1>1, <1>2
<1>4. CASE m.type = "uiState" /\ host' = [host EXCEPT !.plan = m.plan, !.agent = m.agent]
           /\ UNCHANGED toView
  BY <1>1, <1>2, <1>4, UiStateKeeps
<1>5. CASE m.type = "ready" /\ host' = [host EXCEPT !.replayed = TRUE] /\ toView' = toView \o Ready
  BY <1>1, <1>2, <1>5, ReadyKeeps
<1>6. CASE m.type = "cancel" /\ host' = [host EXCEPT !.turn.waiting = 0] /\ UNCHANGED toView
  BY <1>1, <1>2, <1>6, CancelKeeps
<1>7. CASE m.type = "approval" /\ UNCHANGED toView
           /\ host' = IF host.turn.id = m.turn /\ host.turn.waiting = m.n
                        THEN [host EXCEPT !.turn.waiting = 0] ELSE host
  BY <1>1, <1>2, <1>7, CancelKeeps
<1>8. CASE m.type = "send" /\ Submit(m)
  BY <1>1, <1>2, <1>8, SendHandled
<1>9. CASE m.type = "send" /\ UNCHANGED <<host, toView>>
  BY <1>1, <1>2, <1>9, DropsKeep
<1>10. QED
  BY <1>3, <1>4, <1>5, <1>6, <1>7, <1>8, <1>9 DEF Handled

-----------------------------------------------------------------------------
(* Another conversation.                                                     *)

Clear == Msg("clear", 0, << >>)

\* What NewChat and LoadSession do to a host h.
Switches1(h, g, chat, list, store) ==
  g = [h EXCEPT !.chat = chat, !.history = list, !.store = store, !.open = FALSE,
                !.odd = @ \cup (IF Busy(h) THEN {h.turn.id} ELSE {})
                          \cup (IF h.replayed THEN {} ELSE {0})]

LEMMA SwitchesIs ==
  ASSUME NEW h \in HostSet, NEW chat \in Nat, NEW list \in Seq(ItemSet), NEW store \in Seq(Seq(ItemSet)),
         NEW g, Switches1(h, g, chat, list, store)
  PROVE  /\ g \in HostSet /\ g.turn = h.turn /\ g.facts = h.facts /\ g.replayed = h.replayed
         /\ g.restored = h.restored /\ g.history = list /\ g.store = store /\ g.chat = chat
         /\ g.plan = h.plan /\ g.agent = h.agent /\ h.odd \subseteq g.odd
         /\ g.odd = h.odd \cup (IF Busy(h) THEN {h.turn.id} ELSE {}) \cup (IF h.replayed THEN {} ELSE {0})
<1>1. PICK no, odd : /\ no = FALSE
                     /\ odd = h.odd \cup (IF Busy(h) THEN {h.turn.id} ELSE {}) \cup (IF h.replayed THEN {} ELSE {0})
  OBVIOUS
<1>2. no \in BOOLEAN
  BY <1>1, Zenon
<1>3. odd \subseteq Nat /\ h.odd \subseteq odd
  BY <1>1, HostFields
<1>4. g = [h EXCEPT !.chat = chat, !.history = list, !.store = store, !.open = no, !.odd = odd]
  BY <1>1 DEF Switches1, HostSet
<1>5. /\ g \in HostSet /\ g.turn = h.turn /\ g.facts = h.facts /\ g.replayed = h.replayed
      /\ g.restored = h.restored /\ g.history = list /\ g.store = store /\ g.chat = chat
      /\ g.plan = h.plan /\ g.agent = h.agent /\ g.odd = odd
  BY <1>2, <1>3, <1>4 DEF HostSet
<1>6. QED
  BY <1>1, <1>3, <1>5

LEMMA SwitchFits ==
  ASSUME NEW h, NEW v, NEW queue, NEW answers, Fits(h, v, queue, answers),
         NEW store \in Seq(Seq(ItemSet)), \A c \in DOMAIN store : AllKept(store[c], h, v),
         NEW chat \in DOMAIN store, NEW list, list = store[chat],
         NEW g, Switches1(h, g, chat, list, store)
  PROVE  Fits(g, v, queue \o (<<Clear>> \o Replay(list)), answers)
<1>1. PICK u, more : u = Shows(v, queue) /\ more = <<Clear>> \o Replay(list)
  OBVIOUS
<1>2. /\ h \in HostSet /\ v \in ViewSet /\ Writing(v)
      /\ queue \in Seq(MsgSet) /\ answers \in Seq(ToHostSet) /\ h.chat \in DOMAIN h.store
      /\ Modes(h, v, answers) /\ Plans(h, v, answers)
      /\ h.turn.phase = "prepare" => h.turn.options \in Asked
  BY FitsTypes
<1>3. Lists(h, v) /\ Flight(h, v) /\ Screen(h, u) /\ Previews(h)
  BY <1>1 DEF Fits
<1>4. chat \in Nat /\ list \in Seq(ItemSet) /\ AllKept(list, h, v)
  OBVIOUS
<1>5. /\ g \in HostSet /\ g.turn = h.turn /\ g.facts = h.facts /\ g.replayed = h.replayed
      /\ g.restored = h.restored /\ g.history = list /\ g.store = store /\ g.chat = chat
      /\ g.plan = h.plan /\ g.agent = h.agent /\ h.odd \subseteq g.odd
      /\ g.odd = h.odd \cup (IF Busy(h) THEN {h.turn.id} ELSE {}) \cup (IF h.replayed THEN {} ELSE {0})
  BY <1>2, <1>4, SwitchesIs
<1>6. Len(h.facts) \in Nat
  BY <1>2, HostFields
<1>7. Wider(h, v, g, v)
  <2>1. g \in HostSet /\ g.facts = h.facts /\ \A t : Preparing(g, t) <=> Preparing(h, t)
    BY <1>5 DEF Preparing
  <2>2. Later(v, v)
    BY DEF Later
  <2>3. Len(h.facts) <= Len(g.facts)
    BY <1>6, <2>1
  <2>4. QED
    BY <1>2, <2>1, <2>2, <2>3, BegunLater
<1>8. \A c \in DOMAIN store : AllKept(store[c], g, v)
  BY <1>7, AllKeptMore
<1>9. Lists(g, v)
  BY <1>3, <1>4, <1>5, <1>8 DEF Lists
<1>10. Flight(g, v)
  BY <1>3, <1>5, <1>7 DEF Flight, Busy, Wider
<1>11. u \in ViewSet /\ Writing(u)
  BY <1>1, <1>2, ShowsType
<1>12. Clear \in MsgSet /\ Clear.type = "clear"
  BY <1>2, ClearIs DEF Clear
<1>13. Replay(list) \in Seq(Plain) /\ Replay(list) \in Seq(MsgSet)
  <2>1. Replay(list) \in Seq(Plain)
    BY <1>4, ReplayPlain
  <2>2. QED
    BY <2>1 DEF Plain
<1>14. more \in Seq(MsgSet) /\ <<Clear>> \in Seq(MsgSet)
  BY <1>1, <1>12, <1>13
<1>15. PICK w : w = Shows(Shown(u, Clear), Replay(list))
  OBVIOUS
<1>16. Shows(u, more) = w
  <2>1. Shows(u, more) = Shows(Shows(u, <<Clear>>), Replay(list))
    BY <1>1, <1>11, <1>13, <1>14, ShowsJoin
  <2>2. Shows(u, <<Clear>>) = Shown(u, Clear)
    BY <1>11, <1>12, ShowsOne
  <2>3. QED
    BY <1>15, <2>1, <2>2
<1>17. Screen(g, w) /\ (Busy(g) => g.turn.id \in g.odd)
  <2>1. Lines(list, Turns(h))
    BY <1>4, KeptLines
  <2>2. Cleared(h, g, list)
    BY <1>5, <2>1 DEF Cleared
  <2>3. w = Shows(Shown(u, Msg("clear", 0, << >>)), Replay(list))
    BY <1>15 DEF Clear
  <2>4. QED
    BY <1>2, <1>3, <1>4, <1>5, <1>11, <2>2, <2>3, ClearShows
<1>18. Cards(g, w, answers)
  <2>1. ~Busy(g) => g.turn.waiting = 0
    BY <1>10 DEF Flight, NoTurn
  <2>2. QED
    BY <1>17, <2>1 DEF Cards
<1>19. Posted(g, v, more)
  <2>1. ASSUME NEW i \in DOMAIN more
        PROVE  /\ more[i].type # "card"
               /\ more[i].type \in {"done", "assistant"} => more[i].turn \in Begun(g, v)
    <3>1. \/ \E j \in DOMAIN <<Clear>> : more[i] = <<Clear>>[j]
          \/ \E j \in DOMAIN Replay(list) : more[i] = Replay(list)[j]
      BY <1>1, <1>13, <1>14, JoinIs
    <3>2. CASE more[i] = Clear
      BY <1>12, <3>2
    <3>3. ASSUME NEW j \in DOMAIN Replay(list), more[i] = Replay(list)[j]
          PROVE  /\ more[i].type # "card"
                 /\ more[i].type \in {"done", "assistant"} => more[i].turn \in Begun(g, v)
      <4>1. PICK k \in 1 .. Len(list) : more[i].type = list[k].role /\ more[i].turn = list[k].turn
        BY <1>4, <3>3, ReplayPlain
      <4>2. more[i].type \in {"user", "assistant"}
        BY <1>4, <3>3, ReplayPlain
      <4>3. list[k].role = "assistant" => list[k].turn \in Begun(h, v)
        <5>1. k \in DOMAIN list
          BY <1>4
        <5>2. Kept(list[k], h, v)
          BY <1>4, <5>1 DEF AllKept
        <5>3. QED
          BY <5>2 DEF Kept
      <4>4. QED
        BY <1>7, <4>1, <4>2, <4>3 DEF Wider
    <3>4. QED
      BY <3>1, <3>2, <3>3
  <2>2. QED
    BY <2>1 DEF Posted
<1>20. Modes(g, v, answers)
  BY <1>2, <1>5 DEF Modes
<1>21. Plans(g, v, answers)
  BY <1>2, <1>5 DEF Plans
<1>22. Previews(g)
  BY <1>3, <1>5 DEF Previews
<1>23. Sends(h, g)
  BY <1>5, <1>6 DEF Sends
<1>24. (g.turn.phase = "prepare" => g.turn.options \in Asked) /\ g.chat \in DOMAIN g.store
  BY <1>2, <1>5
<1>25. Screen(g, Shows(Shows(v, queue), more)) /\ Cards(g, Shows(Shows(v, queue), more), answers)
  BY <1>1, <1>16, <1>17, <1>18
<1>26. Fits(g, v, queue \o more, answers)
  BY <1>2, <1>5, <1>7, <1>9, <1>10, <1>14, <1>19, <1>20, <1>21, <1>22, <1>23, <1>24, <1>25, HostFits
<1>27. QED
  BY <1>1, <1>26

LEMMA SwitchedIs ==
  ASSUME NEW chat, NEW list, NEW store, host' = Switched(chat, list, store)
  PROVE  Switches1(host, host', chat, list, store)
BY DEF Switched, Switches1, Running, Busy

LEMMA PersistedIs ==
  ASSUME ViewInv, NEW store, store = Persisted(host.history)
  PROVE  /\ store \in Seq(Seq(ItemSet))
         /\ \A c \in DOMAIN store : AllKept(store[c], host, view)
<1>1. host \in HostSet /\ host.chat \in DOMAIN host.store /\ host.history \in Seq(ItemSet)
      /\ Lists(host, view)
  <2>1. host \in HostSet /\ host.chat \in DOMAIN host.store
    BY FitsTypes DEF ViewInv
  <2>2. QED
    BY <2>1, HostFields DEF ViewInv, Fits
<1>2. store = Stored(host, host.history)
  BY DEF Stored, Persisted
<1>3. /\ store \in Seq(Seq(ItemSet)) /\ DOMAIN store = DOMAIN host.store
      /\ \A c \in DOMAIN host.store : store[c] = host.store[c] \/ store[c] = host.history
  BY <1>1, <1>2, StoredIs
<1>4. AllKept(host.history, host, view) /\ \A c \in DOMAIN host.store : AllKept(host.store[c], host, view)
  BY <1>1 DEF Lists
<1>5. \A c \in DOMAIN store : AllKept(store[c], host, view)
  BY <1>3, <1>4
<1>6. QED
  BY <1>3, <1>5

LEMMA NewChatKeeps ==
  ASSUME ViewInv, NewChat, UNCHANGED <<view, toHost>>
  PROVE  ViewInv'
<1>1. PICK store, list, e : store = Persisted(host.history) /\ list = Append(store, e) /\ e = << >>
  OBVIOUS
<1>2. store \in Seq(Seq(ItemSet)) /\ \A c \in DOMAIN store : AllKept(store[c], host, view)
  BY <1>1, PersistedIs
<1>3. e \in Seq(ItemSet) /\ AllKept(e, host, view)
  BY <1>1 DEF AllKept
<1>4. PICK chat : chat = Len(store) + 1
  OBVIOUS
<1>5. list \in Seq(Seq(ItemSet)) /\ chat \in DOMAIN list /\ list[chat] = e
      /\ \A c \in DOMAIN list : c = chat \/ (c \in DOMAIN store /\ list[c] = store[c])
  BY <1>1, <1>2, <1>3, <1>4
<1>6. \A c \in DOMAIN list : AllKept(list[c], host, view)
  BY <1>2, <1>3, <1>5
<1>7. host' = Switched(chat, e, list) /\ toView' = Append(toView, Clear)
  BY <1>1, <1>4 DEF NewChat, Clear
<1>8. Switches1(host, host', chat, e, list)
  BY <1>7, SwitchedIs
<1>9. Fits(host, view, toView, toHost)
  BY DEF ViewInv
<1>10. Fits(host', view, toView \o (<<Clear>> \o Replay(e)), toHost)
  BY <1>5, <1>6, <1>8, <1>9, SwitchFits
<1>11. toView \in Seq(MsgSet) /\ view \in ViewSet /\ Writing(view)
  BY <1>9, FitsTypes
<1>12. Clear \in MsgSet
  BY <1>11, ClearIs DEF Clear
<1>13. Replay(e) = << >>
  <2>1. Filter(e, Talk) = << >>
    <3>1. e \in Seq(ItemSet) /\ Len(e) = 0
      BY <1>1
    <3>2. QED
      BY <3>1, FilterEmpty
  <2>2. Replay(e) = Replays(Filter(e, Talk))
    BY <1>3, ReplayIs
  <2>3. QED
    BY <2>1, <2>2, ReplaysMore
<1>14. toView \o (<<Clear>> \o Replay(e)) = Append(toView, Clear)
  BY <1>11, <1>12, <1>13
<1>15. QED
  BY <1>7, <1>10, <1>14 DEF ViewInv

LEMMA LoadSessionKeeps ==
  ASSUME ViewInv, LoadSession, UNCHANGED <<view, toHost>>
  PROVE  ViewInv'
<1>1. PICK store : store = Persisted(host.history)
  OBVIOUS
<1>2. PICK chat \in DOMAIN store \ {host.chat} :
        /\ host' = Switched(chat, store[chat], store)
        /\ toView' = toView \o <<Clear>> \o Replay(store[chat])
  BY <1>1 DEF LoadSession, Clear
<1>3. store \in Seq(Seq(ItemSet)) /\ \A c \in DOMAIN store : AllKept(store[c], host, view)
  BY <1>1, PersistedIs
<1>4. PICK list : list = store[chat]
  OBVIOUS
<1>5. Switches1(host, host', chat, list, store)
  BY <1>2, <1>4, SwitchedIs
<1>6. Fits(host, view, toView, toHost)
  BY DEF ViewInv
<1>7. Fits(host', view, toView \o (<<Clear>> \o Replay(list)), toHost)
  BY <1>2, <1>3, <1>4, <1>5, <1>6, SwitchFits
<1>8. toView \in Seq(MsgSet) /\ view \in ViewSet /\ Writing(view)
  BY <1>6, FitsTypes
<1>9. <<Clear>> \in Seq(MsgSet)
  <2>1. Clear \in MsgSet
    BY <1>8, ClearIs DEF Clear
  <2>2. QED
    BY <2>1
<1>10. Replay(list) \in Seq(MsgSet)
  <2>1. list \in Seq(ItemSet)
    BY <1>2, <1>3, <1>4
  <2>2. Replay(list) \in Seq(Plain)
    BY <2>1, ReplayPlain
  <2>3. QED
    BY <2>2 DEF Plain
<1>11. toView \o (<<Clear>> \o Replay(list)) = (toView \o <<Clear>>) \o Replay(list)
  BY <1>8, <1>9, <1>10, JoinJoin
<1>12. QED
  BY <1>2, <1>4, <1>7, <1>11 DEF ViewInv

LEMMA CommandedKeeps ==
  ASSUME ViewInv, Commanded
  PROVE  ViewInv'
<1>1. CASE EditorAction
  BY <1>1, EditorActionKeeps
<1>2. CASE Switches
  BY <1>2, NewChatKeeps, LoadSessionKeeps DEF Switches, viewVars
<1>3. QED
  BY <1>1, <1>2 DEF Commanded

-----------------------------------------------------------------------------
(* Steps of a turn that runs.                                                *)

\* What is known of a turn after its context was collected.
Going(t) ==
  /\ t.phase \in {"stream", "complete", "agent"}
  /\ Of(t.text, {t.id}) /\ Of(t.held, {t.id})
  /\ t.phase = "stream" =>
       /\ t.emitted => t.started /\ t.held = << >>
       /\ ~t.emitted => t.held = t.text /\ \A i \in DOMAIN t.text : t.text[i].is = "blank"
       /\ \A i, j \in DOMAIN t.text : i < j /\ t.text[j].is = "blank" => t.text[i].is = "blank"
  /\ t.phase = "agent" =>
       /\ ~t.started => t.text = << >>
       /\ \A i \in DOMAIN t.text : t.text[i].is # "note"

LEMMA GoingIs ==
  ASSUME NEW h \in HostSet, NEW v, Flight(h, v), h.turn.phase \in {"stream", "complete", "agent"}
  PROVE  /\ Going(h.turn) /\ Busy(h)
         /\ h.turn.id = Len(h.facts) /\ h.turn.id > 0 /\ h.turn.id \in Begun(h, v)
         /\ h.turn.id \in Turns(h) /\ h.facts # << >>
<1>1. Busy(h)
  BY DEF Busy
<1>2. Going(h.turn)
  BY DEF Going, Flight
<1>3. h.turn.id = Len(h.facts) /\ h.turn.id > 0 /\ h.turn.id \in Begun(h, v)
  BY <1>1 DEF Flight
<1>4. Len(h.facts) \in Nat
  BY HostFields
<1>5. h.turn.id \in Turns(h) /\ h.facts # << >>
  BY <1>3, <1>4 DEF Turns
<1>6. QED
  BY <1>1, <1>2, <1>3, <1>5

\* The host h with another turn u.
Exchanged(h, g, u, open) == g = [h EXCEPT !.turn = u, !.open = open]

LEMMA ExchangedIs ==
  ASSUME NEW h \in HostSet, NEW u \in TurnSet, NEW open \in BOOLEAN, NEW g, Exchanged(h, g, u, open)
  PROVE  /\ g \in HostSet /\ g.turn = u /\ g.open = open /\ g.facts = h.facts
         /\ g.history = h.history /\ g.store = h.store /\ g.chat = h.chat
         /\ g.restored = h.restored /\ g.replayed = h.replayed /\ g.odd = h.odd
         /\ g.plan = h.plan /\ g.agent = h.agent
BY DEF Exchanged, HostSet

\* The turns stay as they are.
Same(h, g) ==
  /\ g.facts = h.facts /\ g.chat = h.chat /\ g.restored = h.restored
  /\ g.plan = h.plan /\ g.agent = h.agent /\ g.turn.phase # "prepare"

LEMMA SameWider ==
  ASSUME NEW h \in HostSet, NEW v \in ViewSet, NEW g \in HostSet, Same(h, g)
  PROVE  Wider(h, v, g, v) /\ Sends(h, g)
<1>1. g.facts = h.facts /\ \A t : ~Preparing(g, t)
  BY DEF Same, Preparing
<1>2. Len(h.facts) \in Nat
  BY HostFields
<1>3. Later(v, v) /\ Len(h.facts) <= Len(g.facts)
  BY <1>1, <1>2 DEF Later
<1>4. Wider(h, v, g, v)
  BY <1>1, <1>3, BegunLater
<1>5. QED
  BY <1>1, <1>3, <1>4 DEF Sends

LEMMA TurnFits ==
  ASSUME NEW h, NEW v, NEW queue, NEW answers, Fits(h, v, queue, answers),
         NEW g \in HostSet, Same(h, g), g.chat \in DOMAIN g.store,
         NEW more \in Seq(MsgSet), Lists(g, v), Flight(g, v),
         NEW u, u = Shows(Shows(v, queue), more), Screen(g, u), Cards(g, u, answers),
         Previews(g), Posted(g, v, more)
  PROVE  Fits(g, v, queue \o more, answers)
<1>1. /\ h \in HostSet /\ v \in ViewSet /\ answers \in Seq(ToHostSet)
      /\ Modes(h, v, answers) /\ Plans(h, v, answers)
  BY FitsTypes
<1>2. Wider(h, v, g, v) /\ Sends(h, g)
  BY <1>1, SameWider
<1>3. Modes(g, v, answers)
  BY <1>1 DEF Modes, Same
<1>4. Plans(g, v, answers)
  BY <1>1 DEF Plans, Same
<1>5. g.turn.phase = "prepare" => g.turn.options \in Asked
  BY DEF Same
<1>6. Screen(g, Shows(Shows(v, queue), more)) /\ Cards(g, Shows(Shows(v, queue), more), answers)
  OBVIOUS
<1>7. QED
  BY <1>1, <1>2, <1>3, <1>4, <1>5, <1>6, HostFits

\* The turn goes on and more of it is posted; or nothing is.
Goes(h, g, u, open) ==
  /\ h.turn.phase \in {"stream", "complete", "agent"}
  /\ Exchanged(h, g, u, open) /\ Going(u) /\ u.id = h.turn.id
  /\ u.preview = h.turn.preview /\ u.request = h.turn.request

LEMMA GoesIs ==
  ASSUME NEW h, NEW v, NEW queue, NEW answers, Fits(h, v, queue, answers),
         NEW u \in TurnSet, NEW open \in BOOLEAN, NEW g, Goes(h, g, u, open)
  PROVE  /\ g \in HostSet /\ Same(h, g) /\ g.chat \in DOMAIN g.store
         /\ Lists(g, v) /\ Flight(g, v) /\ Previews(g) /\ Busy(g) /\ Busy(h)
         /\ h.turn.id \in Turns(h) /\ h.facts # << >>
<1>1. h \in HostSet /\ v \in ViewSet /\ h.chat \in DOMAIN h.store
  BY FitsTypes
<1>2. Lists(h, v) /\ Flight(h, v) /\ Previews(h)
  BY DEF Fits
<1>3. /\ h.turn.phase \in {"stream", "complete", "agent"}
      /\ Exchanged(h, g, u, open) /\ Going(u) /\ u.id = h.turn.id
      /\ u.preview = h.turn.preview /\ u.request = h.turn.request
  BY DEF Goes
<1>4. /\ g \in HostSet /\ g.turn = u /\ g.facts = h.facts
      /\ g.history = h.history /\ g.store = h.store /\ g.chat = h.chat
      /\ g.restored = h.restored /\ g.plan = h.plan /\ g.agent = h.agent
  BY <1>1, <1>3, ExchangedIs
<1>5. u.phase \in {"stream", "complete", "agent"}
  BY <1>3 DEF Going
<1>6. Same(h, g) /\ Busy(g)
  BY <1>4, <1>5 DEF Same, Busy
<1>7. Wider(h, v, g, v)
  BY <1>1, <1>4, <1>6, SameWider
<1>8. Lists(g, v)
  BY <1>2, <1>4, <1>7, ListsMore
<1>9. /\ Busy(h) /\ h.turn.id = Len(h.facts) /\ h.turn.id > 0 /\ h.turn.id \in Begun(h, v)
      /\ h.turn.id \in Turns(h) /\ h.facts # << >>
  BY <1>1, <1>2, <1>3, GoingIs
<1>10. Flight(g, v)
  <2>1. u.id \in Begun(g, v)
    BY <1>3, <1>7, <1>9 DEF Wider
  <2>2. g.turn.id = Len(g.facts) /\ g.turn.id > 0 /\ g.turn.id \in Begun(g, v)
    BY <1>3, <1>4, <1>9, <2>1
  <2>3. Going(g.turn) /\ g.turn.phase # "prepare"
    BY <1>3, <1>4, <1>5
  <2>4. QED
    BY <1>6, <2>2, <2>3 DEF Flight, Going
<1>11. Previews(g)
  BY <1>2, <1>3, <1>4 DEF Previews
<1>12. QED
  BY <1>1, <1>4, <1>6, <1>8, <1>9, <1>10, <1>11

\* What is posted while a turn runs: no end of it, and no card.
Chatter == {"start", "reasoning", "delta"}

LEMMA GoesFit ==
  ASSUME NEW h, NEW v, NEW queue, NEW answers, Fits(h, v, queue, answers),
         NEW u \in TurnSet, NEW open \in BOOLEAN, NEW g, Goes(h, g, u, open),
         u.waiting = h.turn.waiting,
         NEW more \in Seq(MsgSet), \A i \in DOMAIN more : more[i].type \in Chatter,
         Screen(g, Shows(Shows(v, queue), more))
  PROVE  Fits(g, v, queue \o more, answers)
<1>1. /\ h \in HostSet /\ v \in ViewSet /\ Writing(v) /\ queue \in Seq(MsgSet)
  BY FitsTypes
<1>2. PICK w : w = Shows(v, queue)
  OBVIOUS
<1>3. w \in ViewSet /\ Writing(w)
  BY <1>1, <1>2, ShowsType
<1>4. Cards(h, w, answers)
  BY <1>2 DEF Fits
<1>5. /\ g \in HostSet /\ Same(h, g) /\ g.chat \in DOMAIN g.store
      /\ Lists(g, v) /\ Flight(g, v) /\ Previews(g)
  BY GoesIs
<1>6. g.turn = u /\ g.odd = h.odd /\ u.id = h.turn.id
  BY <1>1, ExchangedIs DEF Goes
<1>7. more \in Seq(Plain)
  <2>1. Len(more) \in Nat /\ DOMAIN more = 1 .. Len(more) /\ more \in [1 .. Len(more) -> MsgSet]
    OBVIOUS
  <2>2. more = [i \in 1 .. Len(more) |-> more[i]]
    BY <2>1
  <2>3. \A i \in 1 .. Len(more) : more[i] \in Plain
    BY <2>1 DEF Plain, Chatter
  <2>4. QED
    BY <2>1, <2>2, <2>3
<1>8. Cards(g, Shows(w, more), answers)
  BY <1>3, <1>4, <1>6, <1>7, CardsStay
<1>9. Posted(g, v, more)
  BY DEF Posted, Chatter
<1>10. Screen(g, Shows(Shows(v, queue), more)) /\ Cards(g, Shows(Shows(v, queue), more), answers)
  BY <1>2, <1>8
<1>11. QED
  BY <1>5, <1>9, <1>10, TurnFits

LEMMA GoesSilent ==
  ASSUME NEW h, NEW v, NEW queue, NEW answers, Fits(h, v, queue, answers),
         NEW u \in TurnSet, NEW g, Goes(h, g, u, h.open),
         u.waiting = h.turn.waiting, u.started = h.turn.started,
         \A text \in Seq(PieceSet) : Streamed(h) /\ Streams(h, text) => Streams(g, text)
  PROVE  Fits(g, v, queue, answers)
<1>1. /\ h \in HostSet /\ v \in ViewSet /\ Writing(v) /\ queue \in Seq(MsgSet)
  BY FitsTypes
<1>2. PICK w, e : w = Shows(v, queue) /\ e = << >>
  OBVIOUS
<1>3. w \in ViewSet /\ Writing(w)
  BY <1>1, <1>2, ShowsType
<1>4. Screen(h, w)
  BY <1>2 DEF Fits
<1>5. h.open \in BOOLEAN
  BY <1>1, HostFields
<1>6. /\ g \in HostSet /\ g.turn = u /\ g.open = h.open /\ g.facts = h.facts
      /\ g.history = h.history
      /\ g.restored = h.restored /\ g.replayed = h.replayed /\ g.odd = h.odd /\ u.id = h.turn.id
  BY <1>1, <1>5, ExchangedIs DEF Goes
<1>7. Busy(g) /\ Busy(h)
  BY <1>5, GoesIs
<1>8. Screen(g, w)
  BY <1>1, <1>3, <1>4, <1>6, <1>7, ScreenStays
<1>9. e \in Seq(MsgSet) /\ \A i \in DOMAIN e : e[i].type \in Chatter
  BY <1>2
<1>10. Shows(w, e) = w
  BY <1>2, <1>3, ShowsNone
<1>11. Screen(g, Shows(Shows(v, queue), e))
  BY <1>2, <1>8, <1>10
<1>12. Fits(g, v, queue \o e, answers)
  BY <1>5, <1>9, <1>11, GoesFit
<1>13. queue \o e = queue
  BY <1>1, <1>2, JoinEmpty
<1>14. QED
  BY <1>12, <1>13

\* Reasoning, a chunk of the answer, a narration or a note: type and x.
Speaks(h, type, x) == Chunk(h.turn.started, h.turn.id, type, x)

LEMMA SpeaksIs ==
  ASSUME NEW h \in HostSet, NEW type \in {"reasoning", "delta"}, NEW x \in Seq(PieceSet)
  PROVE  /\ Speaks(h, type, x) \in Seq(MsgSet)
         /\ \A i \in DOMAIN Speaks(h, type, x) : Speaks(h, type, x)[i].type \in Chatter
<1>1. PICK a, t : a = Msg("start", h.turn.id, << >>) /\ t = h.turn.id
  OBVIOUS
<1>2. t \in Nat
  BY <1>1, HostFields
<1>3. a \in MsgSet /\ a.type = "start"
  BY <1>1, <1>2, StartMsg
<1>4. PICK b : b = Msg(type, t, x)
  OBVIOUS
<1>5. type \in MsgTypes
  BY DEF MsgTypes
<1>6. b \in MsgSet /\ b.type = type
  BY <1>2, <1>4, <1>5, Messages
<1>7. CASE h.turn.started
  <2>1. Speaks(h, type, x) = <<b>>
    BY <1>1, <1>4, <1>6, <1>7 DEF Speaks, Chunk
  <2>2. QED
    BY <1>6, <2>1 DEF Chatter
<1>8. CASE ~h.turn.started
  <2>1. Speaks(h, type, x) = <<a>> \o <<b>>
    BY <1>1, <1>4, <1>8 DEF Speaks, Chunk
  <2>2. Speaks(h, type, x) = <<a, b>>
    BY <1>3, <1>6, <2>1, Joined
  <2>3. QED
    BY <1>3, <1>6, <2>2 DEF Chatter
<1>9. QED
  BY <1>7, <1>8

LEMMA SpeaksFit ==
  ASSUME NEW h, NEW v, NEW queue, NEW answers, Fits(h, v, queue, answers),
         NEW u \in TurnSet, NEW open \in BOOLEAN, open = TRUE, NEW g, Goes(h, g, u, open), u.started,
         u.waiting = h.turn.waiting,
         NEW type \in {"reasoning", "delta"}, NEW x \in Seq(PieceSet), type = "reasoning" => x = << >>,
         Of(x, {h.turn.id}),
         h.turn.started => \A text \in Seq(PieceSet) : Streams(h, text) => Streams(g, text \o x),
         ~h.turn.started => Streams(g, x)
  PROVE  Fits(g, v, queue \o Speaks(h, type, x), answers)
<1>1. /\ h \in HostSet /\ v \in ViewSet /\ Writing(v) /\ queue \in Seq(MsgSet)
  BY FitsTypes
<1>2. PICK w, more : w = Shows(v, queue) /\ more = Speaks(h, type, x)
  OBVIOUS
<1>3. w \in ViewSet /\ Writing(w)
  BY <1>1, <1>2, ShowsType
<1>4. Screen(h, w)
  BY <1>2 DEF Fits
<1>5. more \in Seq(MsgSet) /\ \A i \in DOMAIN more : more[i].type \in Chatter
  BY <1>1, <1>2, SpeaksIs
<1>6. Busy(g) /\ Busy(h) /\ h.turn.id \in Turns(h) /\ h.facts # << >> /\ g \in HostSet
  BY GoesIs
<1>7. /\ g.turn = u /\ g.open = open /\ g.facts = h.facts /\ g.history = h.history
      /\ g.restored = h.restored /\ g.replayed = h.replayed /\ g.odd = h.odd /\ u.id = h.turn.id
  <2>1. Exchanged(h, g, u, open) /\ u.id = h.turn.id
    BY DEF Goes
  <2>2. /\ g.turn = u /\ g.facts = h.facts /\ g.history = h.history
        /\ g.restored = h.restored /\ g.replayed = h.replayed /\ g.odd = h.odd
    BY <1>1, <2>1 DEF Exchanged, HostSet
  <2>3. g.open = open
    BY <1>1, <2>1 DEF Exchanged, HostSet
  <2>4. QED
    BY <2>1, <2>2, <2>3
<1>8. PICK y, t, started : y = Shows(w, more) /\ t = h.turn.id /\ started = h.turn.started
  OBVIOUS
<1>9. t \in Nat /\ started \in BOOLEAN
  BY <1>1, <1>8, HostFields
<1>10. y = Shows(w, Chunk(started, t, type, x))
  BY <1>2, <1>8 DEF Speaks
<1>11. Chunked(w, y, t, x, started)
  BY <1>3, <1>9, <1>10, ChunkMessages
<1>12. Screen(g, y)
  BY <1>1, <1>3, <1>4, <1>6, <1>7, <1>8, <1>11, ChunkShows DEF Chunked
<1>13. Screen(g, Shows(Shows(v, queue), more))
  BY <1>2, <1>8, <1>12
<1>14. Fits(g, v, queue \o more, answers)
  BY <1>5, <1>13, GoesFit
<1>15. QED
  BY <1>2, <1>14

LEMMA OnChunkIs ==
  ASSUME ViewInv, NEW type \in {"reasoning", "delta"}, NEW x \in Seq(PieceSet)
  PROVE  OnChunk(type, x) = toView \o Speaks(host, type, x)
<1>1. host \in HostSet /\ toView \in Seq(MsgSet)
  BY FitsTypes DEF ViewInv
<1>2. PICK a, b : /\ a = IF host.turn.started THEN << >> ELSE <<Msg("start", host.turn.id, << >>)>>
                  /\ b = <<Msg(type, host.turn.id, x)>>
  OBVIOUS
<1>3. host.turn.id \in Nat
  BY <1>1, HostFields
<1>4. a \in Seq(MsgSet)
  <2>1. Msg("start", host.turn.id, << >>) \in MsgSet
    BY <1>3, StartMsg
  <2>2. QED
    BY <1>2, <2>1
<1>5. b \in Seq(MsgSet)
  <2>1. type \in MsgTypes
    BY DEF MsgTypes
  <2>2. Msg(type, host.turn.id, x) \in MsgSet
    BY <1>3, <2>1, Messages
  <2>3. QED
    BY <1>2, <2>2
<1>6. OnChunk(type, x) = (toView \o a) \o b /\ Speaks(host, type, x) = a \o b
  BY <1>2 DEF OnChunk, Speaks, Chunk
<1>7. QED
  BY <1>1, <1>4, <1>5, <1>6, JoinJoin

LEMMA ReasoningKeeps ==
  ASSUME ViewInv, Reasoning, UNCHANGED <<view, toHost>>
  PROVE  ViewInv'
<1>1. Fits(host, view, toView, toHost) /\ host \in HostSet
  BY FitsTypes DEF ViewInv
<1>2. PICK t, u, yes, x : /\ t = host.turn /\ yes = TRUE /\ x = << >>
                          /\ u = [t EXCEPT !.reasoned = yes, !.started = yes]
  OBVIOUS
<1>3. yes \in BOOLEAN
  BY <1>2, Zenon
<1>4. t \in TurnSet /\ t.phase = "stream"
  BY <1>1, <1>2, HostFields DEF Reasoning, Streaming
<1>5. /\ u \in TurnSet /\ u.phase = t.phase /\ u.id = t.id /\ u.text = t.text /\ u.held = t.held
      /\ u.emitted = t.emitted /\ u.started = yes /\ u.waiting = t.waiting
      /\ u.preview = t.preview /\ u.request = t.request
  BY <1>2, <1>3, <1>4 DEF TurnSet
<1>6. Exchanged(host, host', u, yes)
  BY <1>1, <1>2 DEF Reasoning, Exchanged, HostSet
<1>7. Flight(host, view)
  BY <1>1 DEF Fits
<1>8. Going(t)
  BY <1>1, <1>2, <1>4, <1>7, GoingIs
<1>9. Going(u)
  BY <1>2, <1>4, <1>5, <1>8 DEF Going
<1>10. Goes(host, host', u, yes)
  BY <1>2, <1>4, <1>5, <1>6, <1>9 DEF Goes
<1>11. x \in Seq(PieceSet) /\ Of(x, {host.turn.id})
  BY <1>2 DEF Of
<1>12. host'.turn = u
  BY <1>1, <1>3, <1>5, <1>6, ExchangedIs
<1>13. ASSUME NEW text \in Seq(PieceSet), Streams(host, text) PROVE Streams(host', text \o x)
  <2>1. text \o x = text
    BY <1>2, JoinEmpty
  <2>2. Streams(host', text)
    BY <1>2, <1>4, <1>5, <1>12, <1>13 DEF Streams
  <2>3. QED
    BY <2>1, <2>2
<1>14. ASSUME ~host.turn.started PROVE Streams(host', x)
  <2>1. ~u.emitted /\ u.phase = "stream"
    BY <1>2, <1>4, <1>5, <1>8, <1>14 DEF Going
  <2>2. QED
    BY <1>2, <1>5, <1>11, <1>12, <2>1 DEF Streams
<1>15. PICK type : type = "reasoning"
  OBVIOUS
<1>16. Fits(host', view, toView \o Speaks(host, type, x), toHost)
  BY <1>1, <1>2, <1>3, <1>5, <1>10, <1>11, <1>13, <1>14, <1>15, SpeaksFit
<1>17. toView' = toView \o Speaks(host, type, x)
  <2>1. OnChunk(type, x) = toView \o Speaks(host, type, x)
    BY <1>11, <1>15, OnChunkIs
  <2>2. QED
    BY <1>2, <1>15, <2>1 DEF Reasoning
<1>18. QED
  BY <1>16, <1>17 DEF ViewInv

\* The completion is asked for, or asked for again: nothing is posted.
Asks1(t, u) ==
  /\ u.phase = "complete" /\ t.phase \in {"stream", "complete"}
  /\ u.id = t.id /\ u.text = t.text /\ u.held = t.held /\ u.started = t.started
  /\ u.waiting = t.waiting /\ u.preview = t.preview /\ u.request = t.request

LEMMA CompletionKeeps ==
  ASSUME ViewInv, NEW u \in TurnSet, Asks1(host.turn, u), host' = [host EXCEPT !.turn = u],
         UNCHANGED <<toView, view, toHost>>
  PROVE  ViewInv'
<1>1. Fits(host, view, toView, toHost) /\ host \in HostSet
  BY FitsTypes DEF ViewInv
<1>2. Flight(host, view)
  BY <1>1 DEF Fits
<1>3. PICK t, open : t = host.turn /\ open = host.open
  OBVIOUS
<1>4. /\ u.phase = "complete" /\ t.phase \in {"stream", "complete"}
      /\ u.id = t.id /\ u.text = t.text /\ u.held = t.held /\ u.started = t.started
      /\ u.waiting = t.waiting /\ u.preview = t.preview /\ u.request = t.request
  BY <1>3 DEF Asks1
<1>5. Going(t)
  BY <1>1, <1>2, <1>3, <1>4, GoingIs
<1>6. Going(u)
  BY <1>4, <1>5 DEF Going
<1>7. Exchanged(host, host', u, host.open)
  BY <1>1 DEF Exchanged, HostSet
<1>8. Goes(host, host', u, host.open)
  BY <1>3, <1>4, <1>6, <1>7 DEF Goes
<1>9. host'.turn = u
  BY <1>1, <1>7 DEF Exchanged, HostSet
<1>10. \A text \in Seq(PieceSet) : Streamed(host) /\ Streams(host, text) => Streams(host', text)
  BY <1>3, <1>4, <1>9 DEF Streams
<1>11. Fits(host', view, toView, toHost)
  BY <1>1, <1>3, <1>4, <1>8, <1>10, GoesSilent
<1>12. QED
  BY <1>11 DEF ViewInv

LEMMA AsksAgainKeeps ==
  ASSUME ViewInv, UNCHANGED <<toView, view, toHost>>,
         \/ Streaming /\ host' = [host EXCEPT !.turn.phase = "complete", !.turn.caught = TRUE]
         \/ Streaming /\ host' = [host EXCEPT !.turn.phase = "complete"]
         \/ host.turn.phase = "complete" /\ host' = [host EXCEPT !.turn.retried = TRUE]
         \/ /\ host.turn.phase = "complete"
            /\ host' = [host EXCEPT !.turn.caught = FALSE, !.turn.retried = FALSE]
  PROVE  ViewInv'
<1>1. host \in HostSet
  BY FitsTypes DEF ViewInv
<1>2. PICK t, yes, no, done : t = host.turn /\ yes = TRUE /\ no = FALSE /\ done = "complete"
  OBVIOUS
<1>3. yes \in BOOLEAN /\ no \in BOOLEAN
  BY <1>2, Zenon
<1>4. t \in TurnSet /\ done \in Phases
  BY <1>1, <1>2, HostFields DEF Phases
<1>5. PICK u \in TurnSet : Asks1(t, u) /\ host' = [host EXCEPT !.turn = u]
  <2>1. CASE Streaming /\ host' = [host EXCEPT !.turn.phase = "complete", !.turn.caught = TRUE]
    <3>1. PICK u : u = [t EXCEPT !.phase = done, !.caught = yes]
      OBVIOUS
    <3>2. /\ u \in TurnSet /\ u.phase = done /\ u.id = t.id /\ u.text = t.text /\ u.held = t.held
          /\ u.started = t.started /\ u.waiting = t.waiting /\ u.preview = t.preview
          /\ u.request = t.request
      BY <1>3, <1>4, <3>1 DEF TurnSet
    <3>3. Asks1(t, u)
      BY <1>2, <2>1, <3>2 DEF Asks1, Streaming
    <3>4. host' = [host EXCEPT !.turn = u]
      BY <1>1, <1>2, <2>1, <3>1 DEF HostSet
    <3>5. QED
      BY <3>2, <3>3, <3>4
  <2>2. CASE Streaming /\ host' = [host EXCEPT !.turn.phase = "complete"]
    <3>1. PICK u : u = [t EXCEPT !.phase = done]
      OBVIOUS
    <3>2. /\ u \in TurnSet /\ u.phase = done /\ u.id = t.id /\ u.text = t.text /\ u.held = t.held
          /\ u.started = t.started /\ u.waiting = t.waiting /\ u.preview = t.preview
          /\ u.request = t.request
      BY <1>3, <1>4, <3>1 DEF TurnSet
    <3>3. Asks1(t, u)
      BY <1>2, <2>2, <3>2 DEF Asks1, Streaming
    <3>4. host' = [host EXCEPT !.turn = u]
      BY <1>1, <1>2, <2>2, <3>1 DEF HostSet
    <3>5. QED
      BY <3>2, <3>3, <3>4
  <2>3. CASE host.turn.phase = "complete" /\ host' = [host EXCEPT !.turn.retried = TRUE]
    <3>1. PICK u : u = [t EXCEPT !.retried = yes]
      OBVIOUS
    <3>2. /\ u \in TurnSet /\ u.phase = t.phase /\ u.id = t.id /\ u.text = t.text /\ u.held = t.held
          /\ u.started = t.started /\ u.waiting = t.waiting /\ u.preview = t.preview
          /\ u.request = t.request
      BY <1>3, <1>4, <3>1 DEF TurnSet
    <3>3. Asks1(t, u)
      BY <1>2, <2>3, <3>2 DEF Asks1
    <3>4. host' = [host EXCEPT !.turn = u]
      BY <1>1, <1>2, <2>3, <3>1 DEF HostSet
    <3>5. QED
      BY <3>2, <3>3, <3>4
  <2>4. CASE /\ host.turn.phase = "complete"
             /\ host' = [host EXCEPT !.turn.caught = FALSE, !.turn.retried = FALSE]
    <3>1. PICK u : u = [t EXCEPT !.caught = no, !.retried = no]
      OBVIOUS
    <3>2. /\ u \in TurnSet /\ u.phase = t.phase /\ u.id = t.id /\ u.text = t.text /\ u.held = t.held
          /\ u.started = t.started /\ u.waiting = t.waiting /\ u.preview = t.preview
          /\ u.request = t.request
      BY <1>3, <1>4, <3>1 DEF TurnSet
    <3>3. Asks1(t, u)
      BY <1>2, <2>4, <3>2 DEF Asks1
    <3>4. host' = [host EXCEPT !.turn = u]
      BY <1>1, <1>2, <2>4, <3>1 DEF HostSet
    <3>5. QED
      BY <3>2, <3>3, <3>4
  <2>5. QED
    BY <2>1, <2>2, <2>3, <2>4
<1>6. QED
  BY <1>2, <1>5, CompletionKeeps

-----------------------------------------------------------------------------
(* The chunks of an answer.                                                  *)

LEMMA OfAppend ==
  ASSUME NEW text \in Seq(PieceSet), NEW p \in PieceSet, NEW S, Of(text, S), p.turn \in S
  PROVE  Of(Append(text, p), S)
BY DEF Of

LEMMA PieceIs ==
  ASSUME NEW t \in Nat, NEW n \in Nat, NEW is, is \in Pieces \cup {"note"}, NEW p, p = Piece(t, n, is)
  PROVE  p \in PieceSet /\ p.turn = t /\ p.is = is
BY TurnAssumption DEF Piece, PieceSet, Sent

\* Text that comes: it is held back while it is blank.
ContentNext(t, u, is, p, emits) ==
  /\ t.phase = "stream" /\ Going(t) /\ (t.emitted => is # "blank")
  /\ p = Piece(t.id, t.n + 1, is) /\ emits = (t.emitted \/ is # "blank")
  /\ u = [t EXCEPT !.n = @ + 1, !.text = Append(@, p), !.emitted = emits,
                   !.held = IF emits THEN << >> ELSE Append(t.held, p), !.started = @ \/ emits]

ContentDone(t, u, p, emits) ==
  /\ u \in TurnSet /\ Going(u) /\ u.phase = "stream" /\ u.id = t.id
  /\ u.text = Append(t.text, p) /\ u.emitted = emits
  /\ u.started = (t.started \/ emits) /\ u.waiting = t.waiting
  /\ u.preview = t.preview /\ u.request = t.request

LEMMA ContentTurn ==
  ASSUME NEW t \in TurnSet, NEW is \in Pieces, NEW p, NEW emits \in BOOLEAN, NEW u,
         ContentNext(t, u, is, p, emits)
  PROVE  ContentDone(t, u, p, emits)
<1>0. /\ t.phase = "stream" /\ Going(t) /\ (t.emitted => is # "blank")
      /\ p = Piece(t.id, t.n + 1, is) /\ emits = (t.emitted \/ is # "blank")
      /\ u = [t EXCEPT !.n = @ + 1, !.text = Append(@, p), !.emitted = emits,
                       !.held = IF emits THEN << >> ELSE Append(t.held, p), !.started = @ \/ emits]
  BY DEF ContentNext
<1>1. /\ t.id \in Nat /\ t.n \in Nat /\ t.text \in Seq(PieceSet) /\ t.held \in Seq(PieceSet)
      /\ t.emitted \in BOOLEAN /\ t.started \in BOOLEAN
  BY DEF TurnSet
<1>2. p \in PieceSet /\ p.turn = t.id /\ p.is = is
  <2>1. PICK k, n : k = t.id /\ n = t.n + 1
    OBVIOUS
  <2>2. k \in Nat /\ n \in Nat /\ p = Piece(k, n, is) /\ is \in Pieces \cup {"note"}
    BY <1>0, <1>1, <2>1
  <2>3. QED
    BY <2>1, <2>2, PieceIs
<1>3. PICK e, held, text, n, started :
        /\ e = << >> /\ held = (IF emits THEN e ELSE Append(t.held, p))
        /\ text = Append(t.text, p) /\ n = t.n + 1 /\ started = (t.started \/ emits)
  OBVIOUS
<1>4. e \in Seq(PieceSet) /\ Of(e, {t.id})
  BY <1>3 DEF Of
<1>5. started \in BOOLEAN
  BY <1>1, <1>3
<1>6. held \in Seq(PieceSet) /\ text \in Seq(PieceSet) /\ n \in Nat
  BY <1>1, <1>2, <1>3, <1>4
<1>7. u = [t EXCEPT !.n = n, !.text = text, !.emitted = emits, !.held = held, !.started = started]
  BY <1>0, <1>3 DEF TurnSet
<1>8. /\ u \in TurnSet /\ u.phase = t.phase /\ u.id = t.id /\ u.text = text /\ u.held = held
      /\ u.emitted = emits /\ u.started = started /\ u.waiting = t.waiting
      /\ u.preview = t.preview /\ u.request = t.request
  BY <1>5, <1>6, <1>7 DEF TurnSet
<1>9. /\ Of(t.text, {t.id}) /\ Of(t.held, {t.id})
      /\ t.emitted => t.started /\ t.held = << >>
      /\ ~t.emitted => t.held = t.text /\ \A i \in DOMAIN t.text : t.text[i].is = "blank"
      /\ \A i, j \in DOMAIN t.text : i < j /\ t.text[j].is = "blank" => t.text[i].is = "blank"
  BY <1>0 DEF Going
<1>10. Of(text, {t.id}) /\ Of(held, {t.id})
  BY <1>1, <1>2, <1>3, <1>4, <1>9, OfAppend
<1>11. /\ Len(t.text) \in Nat /\ DOMAIN t.text = 1 .. Len(t.text)
       /\ DOMAIN text = 1 .. Len(t.text) + 1 /\ text[Len(t.text) + 1] = p
       /\ \A i \in 1 .. Len(t.text) : text[i] = t.text[i]
  BY <1>1, <1>2, <1>3
<1>12. emits => started /\ held = << >>
  BY <1>3
<1>13. ASSUME ~emits PROVE held = text /\ \A i \in DOMAIN text : text[i].is = "blank"
  <2>1. ~t.emitted /\ is = "blank"
    BY <1>0, <1>13
  <2>2. held = text
    BY <1>3, <1>9, <1>13, <2>1
  <2>3. ASSUME NEW i \in DOMAIN text PROVE text[i].is = "blank"
    <3>1. i \in 1 .. Len(t.text) \/ i = Len(t.text) + 1
      BY <1>11
    <3>2. QED
      BY <1>2, <1>9, <1>11, <2>1, <3>1
  <2>4. QED
    BY <2>2, <2>3
<1>14. ASSUME NEW i \in DOMAIN text, NEW j \in DOMAIN text, i < j, text[j].is = "blank"
       PROVE  text[i].is = "blank"
  <2>1. i \in 1 .. Len(t.text)
    BY <1>11, <1>14
  <2>2. CASE j \in 1 .. Len(t.text)
    BY <1>9, <1>11, <1>14, <2>1, <2>2
  <2>3. CASE j = Len(t.text) + 1
    <3>1. is = "blank"
      BY <1>2, <1>11, <1>14, <2>3
    <3>2. ~t.emitted
      BY <1>0, <3>1
    <3>3. QED
      BY <1>9, <1>11, <2>1, <3>2
  <2>4. QED
    BY <1>11, <2>2, <2>3
<1>15. u.phase = "stream"
  BY <1>0, <1>8
<1>16. Going(u)
  BY <1>8, <1>10, <1>12, <1>13, <1>14, <1>15 DEF Going
<1>17. QED
  BY <1>3, <1>8, <1>15, <1>16 DEF ContentDone

LEMMA ContentSpeaks ==
  ASSUME NEW t \in TurnSet, t.phase = "stream", Going(t), NEW p \in PieceSet,
         NEW out, out = Append(t.held, p)
  PROVE  /\ out \in Seq(PieceSet)
         /\ t.emitted => t.text \o out = Append(t.text, p)
         /\ ~t.emitted => out = Append(t.text, p) /\ << >> \o out = Append(t.text, p)
<1>1. t.text \in Seq(PieceSet) /\ t.held \in Seq(PieceSet)
  BY DEF TurnSet
<1>2. (t.emitted => t.held = << >>) /\ (~t.emitted => t.held = t.text)
  BY DEF Going
<1>3. out \in Seq(PieceSet)
  BY <1>1
<1>4. CASE t.emitted
  <2>1. PICK e, one : e = << >> /\ one = <<p>>
    OBVIOUS
  <2>2. t.held = e /\ e \in Seq(PieceSet)
    BY <1>2, <1>4, <2>1
  <2>3. Append(e, p) = one
    BY <2>1
  <2>4. out = one
    BY <2>2, <2>3
  <2>5. t.text \o one = Append(t.text, p)
    BY <1>1, <2>1
  <2>6. QED
    BY <1>3, <1>4, <2>4, <2>5
<1>5. CASE ~t.emitted
  <2>1. out = Append(t.text, p)
    BY <1>2, <1>5
  <2>2. << >> \o out = out
    BY <1>3, JoinEmpty
  <2>3. QED
    BY <1>3, <1>5, <2>1, <2>2
<1>6. QED
  BY <1>4, <1>5

LEMMA ContentKeeps ==
  ASSUME ViewInv, Content, UNCHANGED <<view, toHost>>
  PROVE  ViewInv'
<1>1. Fits(host, view, toView, toHost) /\ host \in HostSet /\ toView \in Seq(MsgSet)
  BY FitsTypes DEF ViewInv
<1>2. PICK t : t = host.turn
  OBVIOUS
<1>3. PICK is \in IF t.emitted THEN Pieces \ {"blank"} ELSE Pieces :
        LET p == Piece(t.id, t.n + 1, is)
            out == Append(t.held, p)
            emits == t.emitted \/ Solid(p)
        IN /\ host' = [host EXCEPT
                !.turn.n = @ + 1, !.turn.text = Append(@, p), !.turn.emitted = emits,
                !.turn.held = IF emits THEN << >> ELSE out,
                !.turn.started = @ \/ emits, !.open = @ \/ emits]
           /\ toView' = IF emits THEN OnChunk("delta", out) ELSE toView
  BY <1>2 DEF Content
<1>4. PICK p, emits, out, open : /\ p = Piece(t.id, t.n + 1, is) /\ emits = (t.emitted \/ Solid(p))
                                 /\ out = Append(t.held, p) /\ open = (host.open \/ emits)
  OBVIOUS
<1>5. t \in TurnSet /\ t.phase = "stream" /\ host.open \in BOOLEAN
  BY <1>1, <1>2, HostFields DEF Content, Streaming
<1>6. t.emitted \in BOOLEAN
  BY <1>5 DEF TurnSet
<1>7. emits \in BOOLEAN /\ open \in BOOLEAN
  BY <1>4, <1>5, <1>6
<1>8. is \in Pieces /\ (t.emitted => is # "blank")
  BY <1>3
<1>9. p \in PieceSet /\ p.turn = t.id /\ p.is = is
  <2>1. PICK k, n : k = t.id /\ n = t.n + 1
    OBVIOUS
  <2>2. k \in Nat /\ n \in Nat /\ p = Piece(k, n, is) /\ is \in Pieces \cup {"note"}
    BY <1>4, <1>5, <1>8, <2>1 DEF TurnSet
  <2>3. QED
    BY <2>1, <2>2, PieceIs
<1>10. emits = (t.emitted \/ is # "blank")
  BY <1>4, <1>9 DEF Solid
<1>11. PICK u : u = [t EXCEPT !.n = @ + 1, !.text = Append(@, p), !.emitted = emits,
                     !.held = IF emits THEN << >> ELSE Append(t.held, p), !.started = @ \/ emits]
  OBVIOUS
<1>12. Flight(host, view)
  BY <1>1 DEF Fits
<1>13. Going(t)
  BY <1>1, <1>2, <1>5, <1>12, GoingIs
<1>14. /\ u \in TurnSet /\ Going(u) /\ u.phase = "stream" /\ u.id = t.id
       /\ u.text = Append(t.text, p) /\ u.emitted = emits
       /\ u.started = (t.started \/ emits) /\ u.waiting = t.waiting
       /\ u.preview = t.preview /\ u.request = t.request
  <2>1. ContentNext(t, u, is, p, emits)
    BY <1>4, <1>5, <1>8, <1>10, <1>11, <1>13 DEF ContentNext
  <2>2. ContentDone(t, u, p, emits)
    BY <1>5, <1>7, <1>8, <2>1, ContentTurn
  <2>3. QED
    BY <2>2 DEF ContentDone
<1>15. /\ host' = [host EXCEPT
            !.turn.n = @ + 1, !.turn.text = Append(@, p), !.turn.emitted = emits,
            !.turn.held = IF emits THEN << >> ELSE out,
            !.turn.started = @ \/ emits, !.open = @ \/ emits]
       /\ toView' = IF emits THEN OnChunk("delta", out) ELSE toView
  BY <1>3, <1>4
<1>16. Exchanged(host, host', u, open)
  BY <1>1, <1>2, <1>4, <1>11, <1>15 DEF Exchanged, HostSet
<1>17. Goes(host, host', u, open)
  BY <1>2, <1>5, <1>14, <1>16 DEF Goes
<1>18. host'.turn = u
  BY <1>1, <1>16 DEF Exchanged, HostSet
<1>19. /\ out \in Seq(PieceSet)
       /\ t.emitted => t.text \o out = Append(t.text, p)
       /\ ~t.emitted => out = Append(t.text, p) /\ << >> \o out = Append(t.text, p)
  BY <1>4, <1>5, <1>9, <1>13, ContentSpeaks
<1>20. Of(t.held, {t.id}) /\ Of(t.text, {t.id}) /\ (~t.started => ~t.emitted)
  BY <1>5, <1>13 DEF Going
<1>21. t.text \in Seq(PieceSet) /\ t.held \in Seq(PieceSet)
  BY <1>5 DEF TurnSet
<1>22. Of(out, {t.id}) /\ Of(u.text, {t.id})
  BY <1>4, <1>9, <1>14, <1>20, <1>21, OfAppend
<1>23. CASE emits
  <2>1. PICK type : type = "delta"
    OBVIOUS
  <2>2. open = TRUE /\ u.started
    BY <1>4, <1>14, <1>23
  <2>3. Streams(host', u.text)
    BY <1>14, <1>18, <1>22, <1>23 DEF Streams
  <2>4. ASSUME NEW text \in Seq(PieceSet), Streams(host, text) PROVE Streams(host', text \o out)
    <3>1. text = IF t.emitted THEN t.text ELSE << >>
      BY <1>2, <1>5, <2>4 DEF Streams
    <3>2. text \o out = u.text
      BY <1>14, <1>19, <3>1
    <3>3. QED
      BY <2>3, <3>2
  <2>5. ASSUME ~host.turn.started PROVE Streams(host', out)
    <3>1. out = u.text
      BY <1>2, <1>14, <1>19, <1>20, <2>5
    <3>2. QED
      BY <2>3, <3>1
  <2>6. Fits(host', view, toView \o Speaks(host, type, out), toHost)
    BY <1>1, <1>2, <1>7, <1>14, <1>17, <1>19, <1>22, <2>1, <2>2, <2>4, <2>5, SpeaksFit
  <2>7. toView' = toView \o Speaks(host, type, out)
    <3>1. OnChunk(type, out) = toView \o Speaks(host, type, out)
      BY <1>19, <2>1, OnChunkIs
    <3>2. QED
      BY <1>15, <1>23, <2>1, <3>1
  <2>8. QED
    BY <2>6, <2>7 DEF ViewInv
<1>24. CASE ~emits
  <2>1. ~t.emitted /\ u.started = t.started
    BY <1>4, <1>5, <1>6, <1>7, <1>14, <1>24 DEF TurnSet
  <2>2. Exchanged(host, host', u, host.open)
    BY <1>4, <1>5, <1>7, <1>16, <1>24
  <2>3. Goes(host, host', u, host.open)
    BY <1>17, <2>2 DEF Goes
  <2>4. \A text \in Seq(PieceSet) : Streamed(host) /\ Streams(host, text) => Streams(host', text)
    BY <1>2, <1>5, <1>14, <1>18, <1>24, <2>1 DEF Streams
  <2>5. Fits(host', view, toView, toHost)
    BY <1>1, <1>2, <1>14, <2>1, <2>3, <2>4, GoesSilent
  <2>6. QED
    BY <1>15, <1>24, <2>5 DEF ViewInv
<1>25. QED
  BY <1>7, <1>23, <1>24

\* The agent's messages and the notes of its tools.
NarrateNext(t, u, is, p, yes) ==
  /\ t.phase = "agent" /\ Going(t) /\ is \in Pieces \cup {"note"}
  /\ p = Piece(t.id, t.n + 1, is) /\ yes = TRUE
  /\ u = [t EXCEPT !.n = @ + 1, !.text = IF is = "note" THEN @ ELSE Append(@, p),
                   !.tooled = @ \/ is = "note", !.started = yes]

LEMMA NarrateTurn ==
  ASSUME NEW t \in TurnSet, NEW is, NEW p, NEW yes \in BOOLEAN, NEW u, NarrateNext(t, u, is, p, yes)
  PROVE  /\ u \in TurnSet /\ Going(u) /\ u.phase = "agent" /\ u.id = t.id
         /\ u.text = (IF is = "note" THEN t.text ELSE Append(t.text, p))
         /\ u.started /\ u.waiting = t.waiting
         /\ u.preview = t.preview /\ u.request = t.request
<1>0. /\ t.phase = "agent" /\ Going(t) /\ is \in Pieces \cup {"note"}
      /\ p = Piece(t.id, t.n + 1, is) /\ yes = TRUE
      /\ u = [t EXCEPT !.n = @ + 1, !.text = IF is = "note" THEN @ ELSE Append(@, p),
                       !.tooled = @ \/ is = "note", !.started = yes]
  BY DEF NarrateNext
<1>1. /\ t.id \in Nat /\ t.n \in Nat /\ t.text \in Seq(PieceSet) /\ t.held \in Seq(PieceSet)
      /\ t.tooled \in BOOLEAN
  BY DEF TurnSet
<1>2. p \in PieceSet /\ p.turn = t.id /\ p.is = is
  <2>1. PICK k, n : k = t.id /\ n = t.n + 1
    OBVIOUS
  <2>2. k \in Nat /\ n \in Nat /\ p = Piece(k, n, is)
    BY <1>0, <1>1, <2>1
  <2>3. QED
    BY <1>0, <2>1, <2>2, PieceIs
<1>3. PICK text, n, tooled : /\ text = (IF is = "note" THEN t.text ELSE Append(t.text, p))
                             /\ n = t.n + 1 /\ tooled = (t.tooled \/ is = "note")
  OBVIOUS
<1>4. tooled \in BOOLEAN
  BY <1>1, <1>3
<1>5. text \in Seq(PieceSet) /\ n \in Nat
  BY <1>1, <1>2, <1>3
<1>6. u = [t EXCEPT !.n = n, !.text = text, !.tooled = tooled, !.started = yes]
  BY <1>0, <1>3 DEF TurnSet
<1>7. /\ u \in TurnSet /\ u.phase = t.phase /\ u.id = t.id /\ u.text = text /\ u.held = t.held
      /\ u.started = yes /\ u.waiting = t.waiting
      /\ u.preview = t.preview /\ u.request = t.request
  BY <1>4, <1>5, <1>6 DEF TurnSet
<1>8. /\ Of(t.text, {t.id}) /\ Of(t.held, {t.id})
      /\ \A i \in DOMAIN t.text : t.text[i].is # "note"
  BY <1>0 DEF Going
<1>9. Of(text, {t.id})
  BY <1>1, <1>2, <1>3, <1>8, OfAppend
<1>10. \A i \in DOMAIN text : text[i].is # "note"
  BY <1>1, <1>2, <1>3, <1>8
<1>11. Going(u)
  BY <1>0, <1>7, <1>8, <1>9, <1>10 DEF Going
<1>12. QED
  BY <1>0, <1>3, <1>7, <1>11

LEMMA SpokenMore ==
  ASSUME NEW p \in PieceSet
  PROVE  /\ \A text \in Seq(PieceSet) :
              Spoken(text \o <<p>>) = IF p.is = "note" THEN Spoken(text) ELSE Append(Spoken(text), p)
         /\ Spoken(<<p>>) = IF p.is = "note" THEN << >> ELSE Append(<< >>, p)
<1>1. PICK K : K = {q \in PieceSet : q.is # "note"}
  OBVIOUS
<1>2. p \in K <=> p.is # "note"
  BY <1>1
<1>3. ASSUME NEW text \in Seq(PieceSet)
      PROVE  Filter(Append(text, p), K) = IF p \in K THEN Append(Filter(text, K), p) ELSE Filter(text, K)
  BY FilterAppend
<1>4. ASSUME NEW text \in Seq(PieceSet)
      PROVE  Spoken(text \o <<p>>) = IF p.is = "note" THEN Spoken(text) ELSE Append(Spoken(text), p)
  <2>1. text \o <<p>> = Append(text, p)
    OBVIOUS
  <2>2. QED
    BY <1>1, <1>2, <1>3, <2>1 DEF Spoken
<1>5. PICK e : e = << >>
  OBVIOUS
<1>6. e \in Seq(PieceSet) /\ e \o <<p>> = <<p>> /\ Len(e) = 0
  BY <1>5
<1>7. Spoken(e) = << >>
  <2>1. Filter(e, K) = << >>
    BY <1>6, FilterEmpty
  <2>2. QED
    BY <1>1, <2>1 DEF Spoken
<1>8. Spoken(<<p>>) = IF p.is = "note" THEN << >> ELSE Append(<< >>, p)
  BY <1>4, <1>6, <1>7
<1>9. QED
  BY <1>4, <1>8

LEMMA AgentChunkKeeps ==
  ASSUME ViewInv, NEW is \in Pieces \cup {"note"}, AgentChunk(is), UNCHANGED <<view, toHost>>
  PROVE  ViewInv'
<1>1. Fits(host, view, toView, toHost) /\ host \in HostSet /\ toView \in Seq(MsgSet)
  BY FitsTypes DEF ViewInv
<1>2. PICK t, p, x, yes, type : /\ t = host.turn /\ p = Piece(t.id, t.n + 1, is) /\ x = <<p>>
                                /\ yes = TRUE /\ type = "delta"
  OBVIOUS
<1>3. yes \in BOOLEAN
  BY <1>2, Zenon
<1>4. t \in TurnSet /\ t.phase = "agent"
  BY <1>1, <1>2, HostFields DEF AgentChunk, Working
<1>5. PICK u : u = [t EXCEPT !.n = @ + 1, !.text = IF is = "note" THEN @ ELSE Append(@, p),
                             !.tooled = @ \/ is = "note", !.started = yes]
  OBVIOUS
<1>6. Flight(host, view)
  BY <1>1 DEF Fits
<1>7. Going(t)
  BY <1>1, <1>2, <1>4, <1>6, GoingIs
<1>8. /\ u \in TurnSet /\ Going(u) /\ u.phase = "agent" /\ u.id = t.id
      /\ u.text = (IF is = "note" THEN t.text ELSE Append(t.text, p))
      /\ u.started /\ u.waiting = t.waiting
      /\ u.preview = t.preview /\ u.request = t.request
  <2>1. NarrateNext(t, u, is, p, yes)
    BY <1>2, <1>4, <1>5, <1>7 DEF NarrateNext
  <2>2. QED
    BY <1>3, <1>4, <2>1, NarrateTurn
<1>9. p \in PieceSet /\ p.turn = t.id /\ p.is = is
  <2>1. PICK k, n : k = t.id /\ n = t.n + 1
    OBVIOUS
  <2>2. k \in Nat /\ n \in Nat /\ p = Piece(k, n, is)
    BY <1>2, <1>4, <2>1 DEF TurnSet
  <2>3. QED
    BY <2>1, <2>2, PieceIs
<1>10. Exchanged(host, host', u, yes)
  <2>1. p.is = is
    BY <1>9
  <2>2. QED
    BY <1>1, <1>2, <1>5, <2>1 DEF AgentChunk, Exchanged, HostSet
<1>11. Goes(host, host', u, yes)
  BY <1>2, <1>4, <1>8, <1>10 DEF Goes
<1>12. host'.turn = u
  BY <1>1, <1>10 DEF Exchanged, HostSet
<1>13. x \in Seq(PieceSet) /\ Of(x, {t.id})
  BY <1>2, <1>9 DEF Of
<1>14. t.text \in Seq(PieceSet) /\ Of(t.text, {t.id})
  BY <1>4, <1>7 DEF Going, TurnSet
<1>15. ASSUME NEW text \in Seq(PieceSet), Streams(host, text) PROVE Streams(host', text \o x)
  <2>1. Spoken(text) = t.text /\ Of(text, {t.id})
    BY <1>2, <1>4, <1>15 DEF Streams
  <2>2. Spoken(text \o x) = u.text
    BY <1>2, <1>8, <1>9, <2>1, SpokenMore
  <2>3. Of(text \o x, {t.id})
    BY <1>13, <2>1, OfJoin
  <2>4. QED
    BY <1>8, <1>12, <2>2, <2>3 DEF Streams
<1>16. ASSUME ~host.turn.started PROVE Streams(host', x)
  <2>1. t.text = << >>
    BY <1>2, <1>4, <1>7, <1>16 DEF Going
  <2>2. Spoken(x) = u.text
    BY <1>2, <1>8, <1>9, <2>1, SpokenMore
  <2>3. QED
    BY <1>8, <1>12, <1>13, <2>2 DEF Streams
<1>17. Fits(host', view, toView \o Speaks(host, type, x), toHost)
  BY <1>1, <1>2, <1>3, <1>8, <1>11, <1>13, <1>15, <1>16, SpeaksFit
<1>18. toView' = toView \o Speaks(host, type, x)
  <2>1. OnChunk(type, x) = toView \o Speaks(host, type, x)
    BY <1>2, <1>13, OnChunkIs
  <2>2. QED
    BY <1>2, <2>1 DEF AgentChunk
<1>19. QED
  BY <1>17, <1>18 DEF ViewInv

-----------------------------------------------------------------------------
(* The preview of a turn's context, and its cards.                           *)

LEMMA QuietShows ==
  ASSUME NEW h \in HostSet, NEW v \in ViewSet, Writing(v), Screen(h, v), h.facts # << >>,
         NEW m \in MsgSet, m.type \in {"card", "preview"}, Of(m.text, Turns(h)),
         NEW w, w = Shows(v, <<m>>)
  PROVE  /\ w \in ViewSet /\ Writing(w) /\ Screen(h, w)
         /\ Added(v, w, NewBubble(m.type, m.turn, m.text))
<1>1. w = Shown(v, m)
  BY ShowsOne
<1>2. w \in ViewSet /\ Writing(w)
  BY <1>1, ShownType
<1>3. m.type \notin Changing /\ m.type \in Kinds /\ Quiet(m.type) /\ m.type \notin {"busy", "idle"}
  BY DEF Changing, Kinds, Quiet
<1>4. w.active = v.active /\ Added(v, w, NewBubble(m.type, m.turn, m.text))
  BY <1>1, <1>3, ShownAdds
<1>5. w.busy = v.busy
  BY <1>1, <1>3, ShownBusy
<1>6. m.turn \in Nat /\ m.text \in Seq(PieceSet)
  BY MsgFields
<1>7. Screen(h, w)
  BY <1>2, <1>3, <1>4, <1>5, <1>6, AddsQuiet
<1>8. QED
  BY <1>2, <1>4, <1>7

\* The turn that asks waits for the answer to its card.
AsksNext(t, u, n, yes) ==
  /\ t.phase = "agent" /\ Going(t) /\ n = t.n + 1 /\ yes = TRUE
  /\ u = [t EXCEPT !.n = n, !.waiting = n, !.tooled = yes]

LEMMA AsksTurn ==
  ASSUME NEW t \in TurnSet, NEW u, NEW n \in Nat, NEW yes \in BOOLEAN, AsksNext(t, u, n, yes)
  PROVE  /\ u \in TurnSet /\ Going(u) /\ u.phase = "agent" /\ u.id = t.id /\ u.waiting = n
         /\ u.text = t.text /\ u.started = t.started
         /\ u.preview = t.preview /\ u.request = t.request
<1>1. t.phase = "agent" /\ Going(t) /\ u = [t EXCEPT !.n = n, !.waiting = n, !.tooled = yes]
  BY DEF AsksNext
<1>2. /\ u \in TurnSet /\ u.phase = t.phase /\ u.id = t.id /\ u.text = t.text /\ u.held = t.held
      /\ u.started = t.started /\ u.waiting = n
      /\ u.preview = t.preview /\ u.request = t.request
  BY <1>1 DEF TurnSet
<1>3. Going(u)
  BY <1>1, <1>2 DEF Going
<1>4. QED
  BY <1>1, <1>2, <1>3

\* The card of n is the last bubble.
LEMMA CardThere ==
  ASSUME NEW g, NEW v \in ViewSet, NEW w \in ViewSet, NEW t \in Nat, NEW n \in Nat, NEW x \in Seq(PieceSet),
         x # << >>, x[1].n = n, Added(v, w, NewBubble("card", t, x)), g.turn.id = t, g.turn.waiting = n,
         NEW answers
  PROVE  Cards(g, w, answers)
<1>1. PICK kind : kind = "card"
  OBVIOUS
<1>2. kind \in Kinds /\ Added(v, w, NewBubble(kind, t, x))
  BY <1>1 DEF Kinds
<1>3. /\ DOMAIN w.bubbles = 1 .. Len(v.bubbles) + 1 /\ Len(v.bubbles) \in Nat
      /\ w.bubbles[Len(v.bubbles) + 1].kind = kind /\ w.bubbles[Len(v.bubbles) + 1].text = x
  BY <1>2, AddedIs
<1>4. /\ w.bubbles[Len(w.bubbles)].turn = t /\ Len(w.bubbles) = Len(v.bubbles) + 1
  BY <1>2, ScrollAdded
<1>5. PICK b, k : k = Len(v.bubbles) + 1 /\ b = w.bubbles[k]
  OBVIOUS
<1>6. IsCard(b, t, n) /\ k \in DOMAIN w.bubbles
  BY <1>1, <1>3, <1>4, <1>5 DEF IsCard
<1>7. QED
  BY <1>5, <1>6 DEF Cards

LEMMA AsksApprovalKeeps ==
  ASSUME ViewInv, AsksApproval, UNCHANGED <<view, toHost>>
  PROVE  ViewInv'
<1>1. /\ Fits(host, view, toView, toHost) /\ host \in HostSet /\ toView \in Seq(MsgSet)
      /\ view \in ViewSet /\ Writing(view)
  BY FitsTypes DEF ViewInv
<1>2. PICK t, n, k, p, x, yes, m, open :
        /\ t = host.turn /\ n = t.n + 1 /\ k = t.id /\ p = Piece(k, n, "note") /\ x = <<p>>
        /\ yes = TRUE /\ m = Msg("card", k, x) /\ open = host.open
  OBVIOUS
<1>3. yes \in BOOLEAN
  BY <1>2, Zenon
<1>4. t \in TurnSet /\ t.phase = "agent" /\ open \in BOOLEAN
  BY <1>1, <1>2, HostFields DEF AsksApproval, Working
<1>5. k \in Nat /\ n \in Nat
  BY <1>2, <1>4 DEF TurnSet
<1>6. Flight(host, view)
  BY <1>1 DEF Fits
<1>7. /\ Going(t) /\ host.turn.id \in Turns(host) /\ host.facts # << >>
      /\ Busy(host)
  BY <1>1, <1>2, <1>4, <1>6, GoingIs
<1>8. PICK u : u = [t EXCEPT !.n = n, !.waiting = n, !.tooled = yes]
  OBVIOUS
<1>9. /\ u \in TurnSet /\ Going(u) /\ u.phase = "agent" /\ u.id = t.id /\ u.waiting = n
      /\ u.text = t.text /\ u.started = t.started
      /\ u.preview = t.preview /\ u.request = t.request
  <2>1. AsksNext(t, u, n, yes)
    BY <1>2, <1>4, <1>7, <1>8 DEF AsksNext
  <2>2. QED
    BY <1>3, <1>4, <1>5, <2>1, AsksTurn
<1>10. p \in PieceSet /\ p.turn = k /\ p.n = n
  BY <1>2, <1>5 DEF Piece, PieceSet
<1>11. x \in Seq(PieceSet) /\ x # << >> /\ x[1] = p /\ Of(x, {k})
  BY <1>2, <1>10 DEF Of
<1>12. m \in MsgSet /\ m.type = "card" /\ m.turn = k /\ m.text = x
  <2>1. PICK type : type = "card"
    OBVIOUS
  <2>2. type \in MsgTypes /\ m = Msg(type, k, x)
    BY <1>2, <2>1 DEF MsgTypes, Kinds
  <2>3. x \in Seq(PieceSet) /\ k \in Nat
    BY <1>5, <1>11
  <2>4. m \in MsgSet /\ m.type = type /\ m.turn = k /\ m.text = x
    BY <2>2, <2>3, Messages
  <2>5. QED
    BY <2>1, <2>4
<1>13. Exchanged(host, host', u, open)
  BY <1>1, <1>2, <1>8 DEF AsksApproval, Exchanged, HostSet
<1>14. Goes(host, host', u, open)
  BY <1>2, <1>4, <1>9, <1>13 DEF Goes
<1>15. /\ host' \in HostSet /\ Same(host, host') /\ host'.chat \in DOMAIN host'.store
       /\ Lists(host', view) /\ Flight(host', view) /\ Previews(host') /\ Busy(host')
  BY <1>1, <1>4, <1>9, <1>14, GoesIs
<1>16. /\ host'.turn = u /\ host'.open = open /\ host'.facts = host.facts
       /\ host'.history = host.history /\ host'.odd = host.odd
       /\ host'.restored = host.restored /\ host'.replayed = host.replayed
  BY <1>1, <1>4, <1>9, <1>13, ExchangedIs
<1>17. PICK v, more, w : v = Shows(view, toView) /\ more = <<m>> /\ w = Shows(v, more)
  OBVIOUS
<1>18. v \in ViewSet /\ Writing(v)
  BY <1>1, <1>17, ShowsType
<1>19. Screen(host, v)
  BY <1>1, <1>17 DEF Fits
<1>20. w \in ViewSet /\ Writing(w) /\ Screen(host, w) /\ Added(v, w, NewBubble(m.type, m.turn, m.text))
  <2>1. Of(m.text, Turns(host))
    BY <1>2, <1>7, <1>11, <1>12 DEF Of
  <2>2. w = Shows(v, <<m>>) /\ m.type \in {"card", "preview"}
    BY <1>12, <1>17
  <2>3. QED
    BY <1>1, <1>7, <1>12, <1>18, <1>19, <2>1, <2>2, QuietShows
<1>21. Screen(host', w)
  <2>1. \A text \in Seq(PieceSet) : Streamed(host) /\ Streams(host, text) => Streams(host', text)
    BY <1>2, <1>4, <1>9, <1>16 DEF Streams
  <2>2. /\ Len(host'.facts) = Len(host.facts) /\ host'.open = host.open /\ Busy(host') = Busy(host)
    BY <1>2, <1>7, <1>15, <1>16
  <2>3. host'.turn.id = host.turn.id /\ host'.turn.started = host.turn.started
    BY <1>2, <1>9, <1>16
  <2>4. QED
    BY <1>1, <1>15, <1>16, <1>20, <2>1, <2>2, <2>3, ScreenStays
<1>22. Cards(host', w, toHost)
  <2>1. host'.turn.id = k /\ host'.turn.waiting = n
    BY <1>2, <1>9, <1>16
  <2>2. Added(v, w, NewBubble("card", k, x))
    BY <1>12, <1>20
  <2>3. x[1].n = n
    BY <1>10, <1>11
  <2>4. QED
    BY <1>5, <1>11, <1>18, <1>20, <2>1, <2>2, <2>3, CardThere
<1>23. more \in Seq(MsgSet) /\ Posted(host', view, more)
  BY <1>11, <1>12, <1>17 DEF Posted
<1>24. w = Shows(Shows(view, toView), more)
  BY <1>17
<1>25. Fits(host', view, toView \o more, toHost)
  BY <1>1, <1>15, <1>21, <1>22, <1>23, <1>24, TurnFits
<1>26. toView' = toView \o more
  <2>1. toView' = Append(toView, m)
    BY <1>2 DEF AsksApproval
  <2>2. QED
    BY <1>1, <1>12, <1>17, <2>1
<1>27. QED
  BY <1>25, <1>26 DEF ViewInv

\* The context is collected: what the request has is what the preview shows.
LEMMA ContextIs ==
  ASSUME NEW o, NEW always, NEW context, context \subseteq ContextSet(o, always), NEW request,
         request = IF HasIdeContext(context) THEN context ELSE {}
  PROVE  context \subseteq Sources /\ request \subseteq Sources
         /\ (context # {"retrieved"} => request = context)
<1>1. context \subseteq Sources
  BY DEF ContextSet, Sources
<1>2. CASE HasIdeContext(context)
  BY <1>1, <1>2
<1>3. CASE ~HasIdeContext(context)
  <2>1. \A c \in context : c = "retrieved"
    BY <1>1, <1>3 DEF HasIdeContext, Sources
  <2>2. context = {} \/ context = {"retrieved"}
    BY <2>1
  <2>3. QED
    BY <1>1, <1>3, <2>2
<1>4. QED
  BY <1>2, <1>3

\* The turn after that, and what is known of it.
PreparedNext(t, u, phase, context, request) ==
  u = [t EXCEPT !.phase = phase, !.options = << >>, !.preview = context, !.request = request]

LEMMA PreparedTurn ==
  ASSUME NEW t \in TurnSet, NEW u, NEW phase \in {"agent", "stream"}, NEW context \in SUBSET Sources,
         NEW request \in SUBSET Sources, PreparedNext(t, u, phase, context, request),
         ~t.started, t.text = << >>, t.held = << >>, ~t.emitted
  PROVE  /\ u \in TurnSet /\ Going(u) /\ u.id = t.id /\ u.waiting = t.waiting /\ ~u.started
         /\ u.preview = context /\ u.request = request
<1>1. PICK e, no : e = << >> /\ no = << >>
  OBVIOUS
<1>2. phase \in Phases /\ e \in Asked \cup {<< >>} /\ no \in Seq(PieceSet) /\ DOMAIN no = {}
  BY <1>1 DEF Phases
<1>3. u = [t EXCEPT !.phase = phase, !.options = e, !.preview = context, !.request = request]
  BY <1>1 DEF PreparedNext
<1>4. /\ u \in TurnSet /\ u.phase = phase /\ u.id = t.id /\ u.text = t.text /\ u.held = t.held
      /\ u.started = t.started /\ u.emitted = t.emitted /\ u.waiting = t.waiting
      /\ u.preview = context /\ u.request = request
  BY <1>2, <1>3 DEF TurnSet
<1>5. t.text = no /\ t.held = no
  BY <1>1
<1>6. Of(u.text, {u.id}) /\ Of(u.held, {u.id})
  BY <1>2, <1>4, <1>5 DEF Of
<1>7. Going(u)
  BY <1>2, <1>4, <1>5, <1>6 DEF Going
<1>8. QED
  BY <1>4, <1>7

\* The fact of turn k is another.
Facted(h, g, u, k, fact) == g = [h EXCEPT !.turn = u, !.facts = [@ EXCEPT ![k] = fact]]

LEMMA FactedIs ==
  ASSUME NEW h \in HostSet, NEW u \in TurnSet, NEW k \in 1 .. Len(h.facts), NEW fact \in FactSet,
         NEW g, Facted(h, g, u, k, fact)
  PROVE  /\ g \in HostSet /\ g.turn = u /\ g.open = h.open
         /\ g.history = h.history /\ g.store = h.store /\ g.chat = h.chat
         /\ g.restored = h.restored /\ g.replayed = h.replayed /\ g.odd = h.odd
         /\ g.plan = h.plan /\ g.agent = h.agent
         /\ Len(g.facts) = Len(h.facts) /\ Len(h.facts) \in Nat /\ DOMAIN g.facts = 1 .. Len(h.facts)
         /\ g.facts[k] = fact
         /\ \A j \in 1 .. Len(h.facts) : j # k => g.facts[j] = h.facts[j]
<1>1. h.facts \in Seq(FactSet)
  BY HostFields
<1>2. PICK facts : facts = [h.facts EXCEPT ![k] = fact]
  OBVIOUS
<1>3. /\ facts \in Seq(FactSet) /\ Len(facts) = Len(h.facts) /\ DOMAIN facts = 1 .. Len(h.facts)
      /\ facts[k] = fact /\ \A j \in 1 .. Len(h.facts) : j # k => facts[j] = h.facts[j]
  BY <1>1, <1>2
<1>4. g = [h EXCEPT !.turn = u, !.facts = facts]
  BY <1>2 DEF Facted
<1>5. /\ g \in HostSet /\ g.turn = u /\ g.open = h.open /\ g.facts = facts
      /\ g.history = h.history /\ g.store = h.store /\ g.chat = h.chat
      /\ g.restored = h.restored /\ g.replayed = h.replayed /\ g.odd = h.odd
      /\ g.plan = h.plan /\ g.agent = h.agent
  BY <1>3, <1>4 DEF HostSet
<1>6. Len(h.facts) \in Nat
  BY <1>1
<1>7. QED
  BY <1>3, <1>5, <1>6

LEMMA PreparedFits ==
  ASSUME NEW h, NEW v, NEW queue, NEW answers, Fits(h, v, queue, answers),
         h.turn.phase = "prepare", NEW k, k = h.turn.id, NEW o, o = h.turn.options,
         NEW u \in TurnSet, Going(u), u.id = k, u.waiting = h.turn.waiting, ~u.started,
         u.preview # {"retrieved"} => u.request = u.preview,
         NEW fact, fact = [h.facts[k] EXCEPT !.plan = o.plan /\ ~o.approval],
         NEW g, Facted(h, g, u, k, fact),
         NEW m, m = Msg("preview", k, << >>)
  PROVE  Fits(g, v, Append(queue, m), answers)
<1>1. /\ h \in HostSet /\ v \in ViewSet /\ Writing(v) /\ queue \in Seq(MsgSet)
      /\ answers \in Seq(ToHostSet) /\ o \in Asked /\ h.chat \in DOMAIN h.store
      /\ Modes(h, v, answers) /\ Plans(h, v, answers)
  BY FitsTypes
<1>2. Lists(h, v) /\ Flight(h, v) /\ Screen(h, Shows(v, queue)) /\ Cards(h, Shows(v, queue), answers)
  BY DEF Fits
<1>3. Busy(h) /\ k = Len(h.facts) /\ k > 0 /\ ~h.turn.started
  BY <1>2 DEF Flight, Busy
<1>4. /\ Len(h.facts) \in Nat /\ k \in 1 .. Len(h.facts) /\ h.facts # << >> /\ k \in Nat
      /\ h.facts \in Seq(FactSet) /\ DOMAIN h.facts = 1 .. Len(h.facts)
  BY <1>1, <1>3, HostFields
<1>5. Planned(o, v) /\ h.facts[k].send = o.send /\ h.facts[k].approval = o.approval
  BY <1>1 DEF Plans
<1>6. /\ h.facts[k] \in FactSet
  BY <1>4
<1>7. o.plan \in BOOLEAN /\ o.approval \in BOOLEAN
  BY <1>1 DEF Asked, SendSet, ActionSet
<1>8. /\ fact \in FactSet /\ fact.send = o.send /\ fact.approval = o.approval
      /\ ~o.approval => fact.plan = o.plan
  <2>1. PICK plan : plan = (o.plan /\ ~o.approval)
    OBVIOUS
  <2>2. plan \in BOOLEAN /\ (~o.approval => plan = o.plan)
    BY <1>7, <2>1
  <2>3. fact = [h.facts[k] EXCEPT !.plan = plan]
    BY <2>1
  <2>4. fact \in FactSet /\ fact.send = h.facts[k].send /\ fact.approval = h.facts[k].approval
        /\ fact.plan = plan
    BY <1>6, <2>2, <2>3 DEF FactSet
  <2>5. QED
    BY <1>5, <2>2, <2>4
<1>9. /\ g \in HostSet /\ g.turn = u /\ g.open = h.open
      /\ g.history = h.history /\ g.store = h.store /\ g.chat = h.chat
      /\ g.restored = h.restored /\ g.replayed = h.replayed /\ g.odd = h.odd
      /\ g.plan = h.plan /\ g.agent = h.agent
      /\ Len(g.facts) = Len(h.facts) /\ DOMAIN g.facts = 1 .. Len(h.facts)
      /\ g.facts[k] = fact
      /\ \A j \in 1 .. Len(h.facts) : j # k => g.facts[j] = h.facts[j]
  BY <1>1, <1>4, <1>8, FactedIs
<1>10. u.phase \in {"stream", "complete", "agent"}
  BY DEF Going
<1>11. g.turn.phase # "prepare" /\ Busy(g) /\ \A j : ~Preparing(g, j)
  BY <1>9, <1>10 DEF Busy, Preparing
<1>12. Wider(h, v, g, v)
  <2>1. \A j \in 1 .. Len(h.facts) : Preparing(h, j) \/ g.facts[j] = h.facts[j]
    BY <1>9 DEF Preparing
  <2>2. Later(v, v) /\ Len(h.facts) <= Len(g.facts)
    BY <1>4, <1>9 DEF Later
  <2>3. QED
    BY <1>1, <1>9, <1>11, <2>1, <2>2, BegunLater
<1>13. Sends(h, g)
  <2>1. \A j \in 1 .. Len(h.facts) : g.facts[j].send = h.facts[j].send
    BY <1>5, <1>8, <1>9
  <2>2. QED
    BY <1>4, <1>9, <2>1 DEF Sends
<1>14. k \in Begun(g, v)
  <2>1. k \in Turns(g)
    BY <1>3, <1>4, <1>9 DEF Turns
  <2>2. ~g.facts[k].approval => Planned(g.facts[k], v)
    BY <1>5, <1>8, <1>9 DEF Planned
  <2>3. QED
    BY <1>11, <2>1, <2>2 DEF Begun
<1>15. Flight(g, v)
  <2>1. g.turn.id = Len(g.facts) /\ g.turn.id > 0 /\ g.turn.id \in Begun(g, v)
    BY <1>3, <1>9, <1>14
  <2>2. Going(g.turn)
    BY <1>9
  <2>3. QED
    BY <1>11, <2>1, <2>2 DEF Flight, Going
<1>16. Lists(g, v)
  BY <1>2, <1>9, <1>12, ListsMore
<1>17. Previews(g)
  BY <1>9 DEF Previews
<1>18. PICK s, more, w, type, e : /\ s = Shows(v, queue) /\ more = <<m>> /\ w = Shows(s, more)
                                  /\ type = "preview" /\ e = << >>
  OBVIOUS
<1>19. s \in ViewSet /\ Writing(s)
  BY <1>1, <1>18, ShowsType
<1>20. m \in MsgSet /\ m.type = type /\ m.text = e /\ e \in Seq(PieceSet) /\ Of(e, Turns(h))
  <2>1. type \in MsgTypes /\ e \in Seq(PieceSet) /\ Of(e, Turns(h)) /\ m = Msg(type, k, e)
    BY <1>18 DEF MsgTypes, Kinds, Of
  <2>2. QED
    BY <1>4, <2>1, Messages
<1>21. w \in ViewSet /\ Writing(w) /\ Screen(h, w)
  <2>1. Screen(h, s) /\ w = Shows(s, <<m>>) /\ m.type \in {"card", "preview"} /\ Of(m.text, Turns(h))
    BY <1>2, <1>18, <1>20
  <2>2. QED
    BY <1>1, <1>4, <1>19, <1>20, <2>1, QuietShows
<1>22. Screen(g, w)
  <2>1. h.turn.started \in BOOLEAN /\ u.started \in BOOLEAN
    BY <1>1, HostFields DEF TurnSet
  <2>2. g.turn.id = h.turn.id /\ g.turn.started = h.turn.started /\ Busy(g) = Busy(h)
    BY <1>3, <1>9, <1>11, <2>1
  <2>3. \A text \in Seq(PieceSet) : Streamed(h) /\ Streams(h, text) => Streams(g, text)
    BY <1>3 DEF Streamed
  <2>4. QED
    BY <1>1, <1>9, <1>21, <2>2, <2>3, ScreenStays
<1>23. more \in Seq(MsgSet) /\ more \in Seq(Plain)
  <2>1. m \in Plain
    BY <1>18, <1>20 DEF Plain
  <2>2. QED
    BY <1>18, <1>20, <2>1
<1>24. Cards(g, w, answers)
  <2>1. g.turn.waiting = h.turn.waiting /\ g.turn.id = h.turn.id /\ h.odd \subseteq g.odd
    BY <1>9
  <2>2. Cards(h, s, answers)
    BY <1>2, <1>18
  <2>3. QED
    BY <1>18, <1>19, <1>23, <2>1, <2>2, CardsStay
<1>25. Posted(g, v, more)
  BY <1>18, <1>20 DEF Posted
<1>26. Modes(g, v, answers)
  BY <1>1, <1>9 DEF Modes
<1>27. Plans(g, v, answers)
  <2>1. \A j \in DOMAIN h.facts : h.facts[j].send <= v.sends
    BY <1>1 DEF Plans
  <2>2. \A j \in DOMAIN g.facts : g.facts[j].send <= v.sends
    <3>1. o.send <= v.sends
      BY <1>5 DEF Planned
    <3>2. ASSUME NEW j \in 1 .. Len(h.facts) PROVE g.facts[j].send <= v.sends
      <4>1. CASE j = k
        BY <1>8, <1>9, <3>1, <4>1
      <4>2. CASE j # k
        BY <1>4, <1>9, <2>1, <4>2
      <4>3. QED
        BY <4>1, <4>2
    <3>3. QED
      BY <1>9, <3>2
  <2>3. \A i \in DOMAIN answers : answers[i].type = "send" => Planned(answers[i], v)
    BY <1>1 DEF Plans
  <2>4. QED
    BY <1>11, <2>2, <2>3 DEF Plans
<1>28. Screen(g, Shows(Shows(v, queue), more)) /\ Cards(g, Shows(Shows(v, queue), more), answers)
  BY <1>18, <1>22, <1>24
<1>29. Fits(g, v, queue \o more, answers)
  <2>1. (g.turn.phase = "prepare" => g.turn.options \in Asked) /\ g.chat \in DOMAIN g.store
    BY <1>1, <1>9, <1>11
  <2>2. QED
    BY <1>1, <1>9, <1>12, <1>13, <1>15, <1>16, <1>17, <1>23, <1>25, <1>26, <1>27, <1>28, <2>1, HostFits
<1>30. queue \o more = Append(queue, m)
  BY <1>1, <1>18, <1>20
<1>31. QED
  BY <1>29, <1>30

LEMMA PreparedKeeps ==
  ASSUME ViewInv, Prepared, UNCHANGED <<view, toHost>>
  PROVE  ViewInv'
<1>1. Fits(host, view, toView, toHost) /\ host \in HostSet /\ host.turn.phase = "prepare"
  BY FitsTypes DEF ViewInv, Prepared
<1>2. PICK k, o, t : k = host.turn.id /\ o = host.turn.options /\ t = host.turn
  OBVIOUS
<1>3. PICK always \in BOOLEAN, gone \in SUBSET Absent :
        LET context == ContextSet(host.turn.options, always) \
                         (IF host.turn.options.given THEN gone \ {"editor"} ELSE gone)
        IN host' = [host EXCEPT
             !.turn.phase = IF host.turn.options.agent THEN "agent" ELSE "stream",
             !.turn.options = << >>,
             !.facts[host.turn.id].plan = host.turn.options.plan /\ ~host.turn.options.approval,
             !.turn.preview = context,
             !.turn.request = IF HasIdeContext(context) THEN context ELSE {}]
  BY Zenon DEF Prepared
<1>3a. PICK context :
         /\ context = ContextSet(o, always) \ (IF o.given THEN gone \ {"editor"} ELSE gone)
         /\ host' = [host EXCEPT
               !.turn.phase = IF o.agent THEN "agent" ELSE "stream",
               !.turn.options = << >>,
               !.facts[k].plan = o.plan /\ ~o.approval,
               !.turn.preview = context,
               !.turn.request = IF HasIdeContext(context) THEN context ELSE {}]
  BY <1>2, <1>3
<1>4. PICK phase, request : /\ phase = (IF o.agent THEN "agent" ELSE "stream")
                            /\ request = IF HasIdeContext(context) THEN context ELSE {}
  OBVIOUS
<1>5. phase \in {"agent", "stream"}
  BY <1>4
<1>6. context \subseteq Sources /\ request \subseteq Sources
      /\ (context # {"retrieved"} => request = context)
  <2>1. context \subseteq ContextSet(o, always)
    BY <1>3a
  <2>2. QED
    BY <1>4, <2>1, ContextIs
<1>7. PICK u : PreparedNext(t, u, phase, context, request)
  BY DEF PreparedNext
<1>8. t \in TurnSet
  BY <1>1, <1>2, HostFields
<1>9. ~t.started /\ t.text = << >> /\ t.held = << >> /\ ~t.emitted
  BY <1>1, <1>2 DEF Fits, Flight
<1>10. /\ u \in TurnSet /\ Going(u) /\ u.id = t.id /\ u.waiting = t.waiting /\ ~u.started
       /\ u.preview = context /\ u.request = request
  BY <1>5, <1>6, <1>7, <1>8, <1>9, PreparedTurn
<1>11. PICK fact : fact = [host.facts[k] EXCEPT !.plan = o.plan /\ ~o.approval]
  OBVIOUS
<1>12. Facted(host, host', u, k, fact)
  BY <1>1, <1>2, <1>3a, <1>4, <1>7, <1>11 DEF PreparedNext, Facted, HostSet, TurnSet
<1>13. PICK m : m = Msg("preview", k, << >>)
  OBVIOUS
<1>14. Fits(host', view, Append(toView, m), toHost)
  <2>1. u.id = k /\ u.waiting = host.turn.waiting /\ (u.preview # {"retrieved"} => u.request = u.preview)
    BY <1>2, <1>6, <1>10
  <2>2. QED
    BY <1>1, <1>2, <1>10, <1>11, <1>12, <1>13, <2>1, PreparedFits
<1>15. toView' = Append(toView, m)
  BY <1>2, <1>13 DEF Prepared
<1>16. QED
  BY <1>14, <1>15 DEF ViewInv

-----------------------------------------------------------------------------
(* How a turn ends.                                                          *)

LEMMA NoTurnIs ==
  /\ NoTurn \in TurnSet /\ NoTurn.phase = "idle" /\ NoTurn.waiting = 0
  /\ NoTurn.text = << >> /\ NoTurn.held = << >>
  /\ NoTurn.preview = {} /\ NoTurn.request = {}
<1>1. PICK no, e, o, phase : no = FALSE /\ e = << >> /\ o = << >> /\ phase = "idle"
  OBVIOUS
<1>2. no \in BOOLEAN
  BY <1>1, Zenon
<1>3. e \in Seq(PieceSet) /\ o \in Asked \cup {<< >>} /\ phase \in Phases
  BY <1>1 DEF Phases
<1>4. NoTurn = [phase |-> phase, id |-> 0, options |-> o, n |-> 0, text |-> e,
                held |-> e, emitted |-> no, started |-> no, reasoned |-> no,
                caught |-> no, retried |-> no, tooled |-> no, waiting |-> 0,
                preview |-> {}, request |-> {}]
  BY <1>1 DEF NoTurn
<1>5. NoTurn \in TurnSet
  BY <1>2, <1>3, <1>4 DEF TurnSet
<1>6. QED
  BY <1>5 DEF NoTurn

\* The host h with no turn: list is kept.
Ended(h, g, list, open, odd) ==
  g = [h EXCEPT !.turn = NoTurn, !.history = list, !.store = Stored(h, list), !.open = open, !.odd = odd]

\* What is so when a turn is over.
Over(h, g, list, open, odd) ==
  /\ g \in HostSet /\ g.turn = NoTurn /\ g.history = list /\ g.store = Stored(h, list)
  /\ g.open = open /\ g.odd = odd /\ g.facts = h.facts /\ g.chat = h.chat
  /\ g.restored = h.restored /\ g.replayed = h.replayed
  /\ Same(h, g) /\ ~Busy(g) /\ Previews(g)
  /\ \A v : Flight(g, v)
  /\ \A w, answers : Cards(g, w, answers)

LEMMA EndedIs ==
  ASSUME NEW h \in HostSet, h.chat \in DOMAIN h.store, NEW list \in Seq(ItemSet),
         NEW open \in BOOLEAN, NEW odd \in SUBSET Nat, NEW g, Ended(h, g, list, open, odd)
  PROVE  Over(h, g, list, open, odd)
<1>1. PICK no, store : no = NoTurn /\ store = Stored(h, list)
  OBVIOUS
<1>2. store \in Seq(Seq(ItemSet)) /\ no \in TurnSet /\ no.phase = "idle" /\ no.waiting = 0
      /\ no.preview = {} /\ no.request = {} /\ no.text = << >> /\ no.held = << >>
  BY <1>1, StoredIs, NoTurnIs
<1>3. g = [h EXCEPT !.turn = no, !.history = list, !.store = store, !.open = open, !.odd = odd]
  BY <1>1 DEF Ended
<1>4. /\ g \in HostSet /\ g.turn = no /\ g.history = list /\ g.store = store
      /\ g.open = open /\ g.odd = odd /\ g.facts = h.facts /\ g.chat = h.chat
      /\ g.restored = h.restored /\ g.replayed = h.replayed
      /\ g.plan = h.plan /\ g.agent = h.agent
  BY <1>2, <1>3 DEF HostSet
<1>5. Same(h, g) /\ ~Busy(g) /\ Previews(g)
  BY <1>2, <1>4 DEF Same, Busy, Previews
<1>6. ASSUME NEW v PROVE Flight(g, v)
  <2>1. Of(no.text, {no.id}) /\ Of(no.held, {no.id})
    BY <1>2 DEF Of
  <2>2. QED
    BY <1>1, <1>2, <1>4, <1>5, <2>1 DEF Flight
<1>7. ASSUME NEW w, NEW answers PROVE Cards(g, w, answers)
  BY <1>2, <1>4 DEF Cards
<1>8. QED
  BY <1>1, <1>4, <1>5, <1>6, <1>7 DEF Over

LEMMA EndedFits ==
  ASSUME NEW h, NEW v, NEW queue, NEW answers, Fits(h, v, queue, answers),
         NEW list \in Seq(ItemSet), NEW open \in BOOLEAN, NEW odd \in SUBSET Nat,
         NEW g, Ended(h, g, list, open, odd), AllKept(list, g, v),
         NEW more \in Seq(MsgSet), NEW u, u = Shows(Shows(v, queue), more), Screen(g, u),
         Posted(g, v, more)
  PROVE  Fits(g, v, queue \o more, answers)
<1>1. h \in HostSet /\ v \in ViewSet /\ h.chat \in DOMAIN h.store /\ Lists(h, v)
  BY FitsTypes DEF Fits
<1>2. /\ g \in HostSet /\ g.history = list /\ g.store = Stored(h, list) /\ g.chat = h.chat
      /\ g.restored = h.restored /\ Same(h, g) /\ Previews(g) /\ Flight(g, v) /\ Cards(g, u, answers)
  <2>1. Over(h, g, list, open, odd)
    BY <1>1, EndedIs
  <2>2. QED
    BY <2>1 DEF Over
<1>3. Wider(h, v, g, v)
  BY <1>1, <1>2, SameWider
<1>4. Lists(g, v) /\ DOMAIN g.store = DOMAIN h.store
  BY <1>1, <1>2, <1>3, ListsStored
<1>5. g.chat \in DOMAIN g.store
  BY <1>1, <1>2, <1>4
<1>6. QED
  BY <1>2, <1>4, <1>5, TurnFits

\* The two messages of an end.
Tail2(type, t, x) == <<Msg(type, t, x), Msg("idle", t, << >>)>>

OfTurn(more, type, t) ==
  \A i \in DOMAIN more : more[i].turn = t /\ (more[i].type = type \/ more[i].type = "idle")

LEMMA TailIs ==
  ASSUME NEW type \in {"done", "assistant", "error"}, NEW t \in Nat, NEW x \in Seq(PieceSet)
  PROVE  Tail2(type, t, x) \in Seq(MsgSet) /\ OfTurn(Tail2(type, t, x), type, t)
<1>1. PICK a, b : a = Msg(type, t, x) /\ b = Msg("idle", t, << >>)
  OBVIOUS
<1>2. b \in MsgSet /\ b.type = "idle"
  BY <1>1, StartMsg
<1>3. b.turn = t
  BY <1>1 DEF Msg
<1>4. a \in MsgSet /\ a.type = type /\ a.turn = t
  <2>1. type \in MsgTypes
    BY DEF MsgTypes, Kinds
  <2>2. QED
    BY <1>1, <2>1, Messages
<1>5. Tail2(type, t, x) = <<a, b>>
  BY <1>1 DEF Tail2
<1>6. QED
  BY <1>2, <1>3, <1>4, <1>5 DEF OfTurn

\* The turn in flight ends with items, and x is posted: what the items say is what
\* its bubble shows, unless the turn is one of those that are left out.
Replying(h, g, items, x, type, odd) ==
  LET t == h.turn
  IN /\ t.phase \in {"stream", "complete", "agent"}
     /\ Ended(h, g, h.history \o items, FALSE, odd)
     /\ odd = h.odd \/ odd = h.odd \cup {t.id}
     /\ Of(x, {t.id})
     /\ \A i \in 1 .. Len(items) :
          /\ items[i].turn = t.id /\ Of(items[i].text, {t.id})
          /\ items[i].role \notin {"user", "assistant"} => items[i].text = << >>
     /\ type \in {"done", "assistant"} /\ (type = "done" <=> t.started)
     /\ t.id \notin odd /\ ~t.started => ~h.open /\ Said(items, odd) = AnswerHeard(x, odd)
     /\ t.id \notin odd /\ t.started =>
          \A text \in Seq(PieceSet) : Streams(h, text) => Said(items, odd) = AnswerHeard(text, odd)

LEMMA ReplyFits ==
  ASSUME NEW h, NEW v, NEW queue, NEW answers, Fits(h, v, queue, answers),
         NEW items \in Seq(ItemSet), NEW x \in Seq(PieceSet), NEW type, NEW odd,
         NEW g, Replying(h, g, items, x, type, odd)
  PROVE  Fits(g, v, queue \o Tail2(type, h.turn.id, x), answers)
<1>1. /\ h \in HostSet /\ v \in ViewSet /\ Writing(v) /\ queue \in Seq(MsgSet)
      /\ h.chat \in DOMAIN h.store
  BY FitsTypes
<1>2. Lists(h, v) /\ Flight(h, v) /\ Screen(h, Shows(v, queue))
  BY DEF Fits
<1>3. PICK t, no, list, k : /\ t = h.turn /\ no = FALSE /\ list = h.history \o items /\ k = h.turn.id
  OBVIOUS
<1>4. /\ t.phase \in {"stream", "complete", "agent"}
      /\ Ended(h, g, list, no, odd)
      /\ odd = h.odd \/ odd = h.odd \cup {k}
      /\ Of(x, {k})
      /\ \A i \in 1 .. Len(items) :
           /\ items[i].turn = k /\ Of(items[i].text, {k})
           /\ items[i].role \notin {"user", "assistant"} => items[i].text = << >>
      /\ type \in {"done", "assistant"} /\ (type = "done" <=> t.started)
      /\ k \notin odd /\ ~t.started => ~h.open /\ Said(items, odd) = AnswerHeard(x, odd)
      /\ k \notin odd /\ t.started =>
           \A text \in Seq(PieceSet) : Streams(h, text) => Said(items, odd) = AnswerHeard(text, odd)
  BY <1>3 DEF Replying
<1>5. no \in BOOLEAN
  BY <1>3, Zenon
<1>6. /\ Busy(h) /\ k \in Begun(h, v) /\ k \in Turns(h) /\ h.facts # << >>
  BY <1>1, <1>2, <1>3, <1>4, GoingIs
<1>7. h.history \in Seq(ItemSet) /\ h.odd \subseteq Nat /\ k \in Nat
  BY <1>1, <1>3, HostFields
<1>8. list \in Seq(ItemSet) /\ odd \in SUBSET Nat
  BY <1>3, <1>4, <1>7
<1>9. /\ g \in HostSet /\ g.history = list /\ g.odd = odd /\ g.facts = h.facts
      /\ g.restored = h.restored /\ g.replayed = h.replayed /\ Same(h, g) /\ ~Busy(g)
  <2>1. Ended(h, g, list, no, odd)
    BY <1>4
  <2>2. Over(h, g, list, no, odd)
    BY <1>1, <1>5, <1>8, <2>1, EndedIs
  <2>3. QED
    BY <2>2 DEF Over
<1>10. Wider(h, v, g, v)
  BY <1>1, <1>9, SameWider
<1>11. AllKept(list, g, v)
  <2>1. AllKept(h.history, g, v)
    BY <1>2, <1>10, AllKeptMore DEF Lists
  <2>2. \A i \in DOMAIN items : Kept(items[i], g, v)
    <3>1. DOMAIN items = 1 .. Len(items) /\ k \in Turns(g) /\ k \in Begun(g, v)
      BY <1>6, <1>10 DEF Wider
    <3>2. QED
      BY <1>4, <3>1 DEF Kept
  <2>3. ASSUME NEW i \in DOMAIN list PROVE Kept(list[i], g, v)
    <3>1. \/ i \in DOMAIN h.history /\ list[i] = h.history[i]
          \/ \E j \in DOMAIN items : list[i] = items[j]
      BY <1>3, <1>7, JoinIs
    <3>2. QED
      BY <2>1, <2>2, <3>1 DEF AllKept
  <2>4. QED
    BY <2>3 DEF AllKept
<1>12. PICK s, more, w : /\ s = Shows(v, queue) /\ more = Tail2(type, k, x) /\ w = Ending(s, type, k, x)
  OBVIOUS
<1>13. s \in ViewSet /\ Writing(s) /\ Screen(h, s)
  BY <1>1, <1>2, <1>12, ShowsType
<1>14. type \in {"done", "assistant", "error"} /\ type \in MsgTypes
  BY <1>4 DEF MsgTypes, Kinds
<1>15. Shows(s, more) = w
  BY <1>7, <1>12, <1>13, <1>14, EndingIs DEF Tail2
<1>16. more \in Seq(MsgSet) /\ Posted(g, v, more)
  <2>1. /\ more \in Seq(MsgSet)
        /\ \A i \in DOMAIN more : more[i].turn = k /\ (more[i].type = type \/ more[i].type = "idle")
    <3>1. type \in {"done", "assistant", "error"} /\ k \in Nat
      BY <1>7, <1>14
    <3>2. Tail2(type, k, x) \in Seq(MsgSet) /\ OfTurn(Tail2(type, k, x), type, k)
      BY <3>1, TailIs
    <3>3. QED
      BY <1>12, <3>2 DEF OfTurn
  <2>2. k \in Begun(g, v)
    BY <1>6, <1>10 DEF Wider
  <2>3. QED
    BY <1>4, <2>1, <2>2 DEF Posted
<1>17. k \notin odd /\ ~t.started => s.active = 0 /\ Said(items, odd) = Filter(SplitThink(x).answer, Loud(odd))
  BY <1>4, <1>13 DEF Screen, AnswerHeard
<1>18. ASSUME k \notin odd, t.started
       PROVE  Said(items, odd) = Filter(SplitThink(s.bubbles[s.active].text).answer, Loud(odd))
  <2>1. Streamed(h)
    BY <1>3, <1>4, <1>6, <1>18 DEF Streamed
  <2>2. InStep(h, s)
    BY <1>6, <1>13 DEF Screen, Untouched
  <2>3. s.active # 0 /\ Streams(h, s.bubbles[s.active].text)
    BY <2>1, <2>2 DEF InStep
  <2>4. s.active \in 1 .. Len(s.bubbles)
    BY <1>13, <2>3, ViewFields DEF Writing
  <2>5. s.bubbles[s.active].text \in Seq(PieceSet)
    BY <1>13, <2>4, ViewFields
  <2>6. QED
    BY <1>4, <1>18, <2>3, <2>5 DEF AnswerHeard
<1>19. Replied(h, g, s, w, k, items, x, type)
  <2>1. Len(g.facts) = Len(h.facts) /\ (g.odd = h.odd \/ g.odd = h.odd \cup {k})
    BY <1>4, <1>9
  <2>2. /\ k \notin g.odd /\ ~h.turn.started =>
             /\ s.active = 0 /\ Said(items, g.odd) = Filter(SplitThink(x).answer, Loud(g.odd))
        /\ k \notin g.odd /\ h.turn.started =>
             Said(items, g.odd) = Filter(SplitThink(s.bubbles[s.active].text).answer, Loud(g.odd))
    BY <1>3, <1>9, <1>17, <1>18
  <2>3. QED
    BY <1>3, <1>4, <1>6, <1>9, <1>12, <2>1, <2>2 DEF Replied
<1>20. Screen(g, w)
  BY <1>1, <1>7, <1>9, <1>13, <1>19, ReplyShows
<1>21. w = Shows(Shows(v, queue), more)
  BY <1>12, <1>15
<1>22. Fits(g, v, queue \o more, answers)
  BY <1>4, <1>5, <1>8, <1>11, <1>16, <1>20, <1>21, EndedFits
<1>23. QED
  BY <1>3, <1>12, <1>22

\* The last message, and those before it.
LEMMA FrontIs ==
  ASSUME NEW list \in Seq(ItemSet), list # << >>
  PROVE  /\ Front(list) \in Seq(ItemSet) /\ Last(list) \in ItemSet
         /\ list = Append(Front(list), Last(list))
         /\ \A i \in DOMAIN Front(list) : i \in DOMAIN list /\ Front(list)[i] = list[i]
         /\ Len(list) \in DOMAIN list /\ Last(list) = list[Len(list)]
<1>1. PICK n, f, m : n = Len(list) /\ f = SubSeq(list, 1, n - 1) /\ m = list[n]
  OBVIOUS
<1>2. n \in Nat /\ n > 0 /\ DOMAIN list = 1 .. n
  BY <1>1
<1>3. m \in ItemSet
  BY <1>1, <1>2
<1>4. f \in Seq(ItemSet) /\ Len(f) = n - 1 /\ \A i \in 1 .. n - 1 : f[i] = list[i]
  BY <1>1, <1>2
<1>5. PICK all : all = Append(f, m)
  OBVIOUS
<1>6. all \in Seq(ItemSet) /\ Len(all) = n
  BY <1>2, <1>3, <1>4, <1>5
<1>7. \A i \in 1 .. n : all[i] = list[i]
  BY <1>1, <1>2, <1>4, <1>5
<1>8. list = all
  BY <1>1, <1>6, <1>7
<1>9. Front(list) = f /\ Last(list) = m
  BY <1>1 DEF Front, Last
<1>10. \A i \in DOMAIN f : i \in DOMAIN list /\ f[i] = list[i]
  BY <1>2, <1>4
<1>11. list = Append(Front(list), Last(list))
  BY <1>5, <1>8, <1>9
<1>12. Len(list) \in DOMAIN list /\ Last(list) = list[Len(list)]
  BY <1>1, <1>2, <1>9
<1>13. Front(list) \in Seq(ItemSet) /\ Last(list) \in ItemSet
  BY <1>3, <1>4, <1>9
<1>14. \A i \in DOMAIN Front(list) : i \in DOMAIN list /\ Front(list)[i] = list[i]
  BY <1>9, <1>10
<1>15. QED
  BY <1>11, <1>12, <1>13, <1>14

\* The turn fails: its question is dropped if it is the last message.
Pops(h) == h.history # << >> /\ Last(h.history).role = "user"
Failing(h, g) ==
  LET kept == IF Pops(h) THEN Front(h.history) ELSE h.history
  IN Ended(h, g, kept, h.open, h.odd \cup {h.turn.id} \cup (IF Pops(h) THEN {Last(h.history).turn} ELSE {}))

LEMMA FailFits ==
  ASSUME NEW h, NEW v, NEW queue, NEW answers, Fits(h, v, queue, answers), Busy(h),
         NEW g, Failing(h, g)
  PROVE  Fits(g, v, queue \o Tail2("error", h.turn.id, << >>), answers)
<1>1. /\ h \in HostSet /\ v \in ViewSet /\ Writing(v) /\ queue \in Seq(MsgSet)
      /\ h.chat \in DOMAIN h.store
  BY FitsTypes
<1>2. Lists(h, v) /\ Flight(h, v) /\ Screen(h, Shows(v, queue))
  BY DEF Fits
<1>3. PICK k, open, list, odd :
        /\ k = h.turn.id /\ open = h.open /\ list = (IF Pops(h) THEN Front(h.history) ELSE h.history)
        /\ odd = h.odd \cup {h.turn.id} \cup (IF Pops(h) THEN {Last(h.history).turn} ELSE {})
  OBVIOUS
<1>4. Ended(h, g, list, open, odd)
  BY <1>3 DEF Failing
<1>5. /\ h.history \in Seq(ItemSet) /\ h.odd \subseteq Nat /\ k \in Nat /\ open \in BOOLEAN
      /\ Len(h.facts) \in Nat
  BY <1>1, <1>3, HostFields
<1>6. k = Len(h.facts) /\ k > 0 /\ k \in Turns(h) /\ h.facts # << >>
  <2>1. k = Len(h.facts) /\ k > 0
    BY <1>2, <1>3 DEF Flight
  <2>2. QED
    BY <1>5, <2>1 DEF Turns
<1>7. AllKept(h.history, h, v)
  BY <1>2 DEF Lists
<1>8. /\ list \in Seq(ItemSet) /\ AllKept(list, h, v)
      /\ odd \in SUBSET Nat /\ h.odd \subseteq odd /\ k \in odd
      /\ list = h.history \/ \E m \in ItemSet : h.history = Append(list, m) /\ Of(m.text, odd)
  <2>1. CASE Pops(h)
    <3>1. PICK m : m = Last(h.history)
      OBVIOUS
    <3>2. list = Front(h.history) /\ odd = h.odd \cup {k} \cup {m.turn} /\ h.history # << >>
      BY <1>3, <2>1, <3>1 DEF Pops
    <3>3. /\ list \in Seq(ItemSet) /\ m \in ItemSet /\ h.history = Append(list, m)
          /\ \A i \in DOMAIN list : i \in DOMAIN h.history /\ list[i] = h.history[i]
          /\ Len(h.history) \in DOMAIN h.history /\ m = h.history[Len(h.history)]
      BY <1>5, <3>1, <3>2, FrontIs
    <3>4. AllKept(list, h, v)
      BY <1>7, <3>3 DEF AllKept
    <3>5. Of(m.text, {m.turn}) /\ m.turn \in Nat
      <4>1. Kept(m, h, v)
        BY <1>7, <3>3 DEF AllKept
      <4>2. m.turn \in Turns(h)
        BY <4>1 DEF Kept
      <4>3. QED
        BY <1>5, <4>1, <4>2 DEF Kept, Turns
    <3>6. Of(m.text, odd)
      BY <3>2, <3>5 DEF Of
    <3>7. QED
      BY <1>5, <3>2, <3>3, <3>4, <3>5, <3>6
  <2>2. CASE ~Pops(h)
    BY <1>3, <1>5, <1>7, <2>2
  <2>3. QED
    BY <2>1, <2>2
<1>9. /\ g \in HostSet /\ g.history = list /\ g.odd = odd /\ g.facts = h.facts /\ g.open = h.open
      /\ g.restored = h.restored /\ g.replayed = h.replayed /\ Same(h, g) /\ ~Busy(g)
  <2>1. Over(h, g, list, open, odd)
    BY <1>1, <1>4, <1>5, <1>8, EndedIs
  <2>2. QED
    BY <1>3, <2>1 DEF Over
<1>10. Wider(h, v, g, v)
  BY <1>1, <1>9, SameWider
<1>11. AllKept(list, g, v)
  BY <1>8, <1>10, AllKeptMore
<1>12. PICK s, type, x, more, w :
         /\ s = Shows(v, queue) /\ type = "error" /\ x = << >> /\ more = Tail2(type, k, x)
         /\ w = Ending(s, type, k, x)
  OBVIOUS
<1>13. s \in ViewSet /\ Writing(s) /\ Screen(h, s)
  BY <1>1, <1>2, <1>12, ShowsType
<1>14. type \in {"done", "assistant", "error"} /\ type \in MsgTypes /\ x \in Seq(PieceSet)
  BY <1>12 DEF MsgTypes, Kinds
<1>15. Shows(s, more) = w
  BY <1>5, <1>12, <1>13, <1>14, EndingIs DEF Tail2
<1>16. more \in Seq(MsgSet) /\ Posted(g, v, more)
  <2>1. Tail2(type, k, x) \in Seq(MsgSet) /\ OfTurn(Tail2(type, k, x), type, k)
    BY <1>5, <1>14, TailIs
  <2>2. QED
    BY <1>12, <2>1 DEF OfTurn, Posted
<1>17. Failed(h, g, s, w, k)
  <2>1. Len(g.facts) = Len(h.facts)
    BY <1>9
  <2>2. g.history = h.history \/ \E m \in ItemSet : h.history = Append(g.history, m) /\ Of(m.text, g.odd)
    BY <1>8, <1>9
  <2>3. w = Ending(s, "error", k, << >>)
    BY <1>12
  <2>4. QED
    BY <1>3, <1>6, <1>8, <1>9, <2>1, <2>2, <2>3 DEF Failed
<1>18. Screen(g, w)
  BY <1>1, <1>5, <1>9, <1>13, <1>17, FailShows
<1>19. w = Shows(Shows(v, queue), more)
  BY <1>12, <1>15
<1>20. Fits(g, v, queue \o more, answers)
  BY <1>4, <1>5, <1>8, <1>11, <1>16, <1>18, <1>19, EndedFits
<1>21. QED
  BY <1>3, <1>12, <1>20

LEMMA FailsKeeps ==
  ASSUME ViewInv, Fails, Running, UNCHANGED <<view, toHost>>
  PROVE  ViewInv'
<1>1. Fits(host, view, toView, toHost) /\ host \in HostSet
  BY FitsTypes DEF ViewInv
<1>2. Busy(host)
  BY DEF Running, Busy
<1>3. PICK list, odd :
        /\ list = (IF Pops(host) THEN Front(host.history) ELSE host.history)
        /\ odd = host.odd \cup {host.turn.id} \cup (IF Pops(host) THEN {Last(host.history).turn} ELSE {})
  OBVIOUS
<1>4. host' = [host EXCEPT !.turn = NoTurn, !.history = list, !.store = Persisted(list), !.odd = odd]
  BY <1>3 DEF Fails, Pops
<1>5. Persisted(list) = Stored(host, list)
  BY DEF Persisted, Stored
<1>6. Ended(host, host', list, host.open, odd)
  BY <1>1, <1>4, <1>5 DEF Ended, HostSet
<1>7. Failing(host, host')
  BY <1>3, <1>6 DEF Failing
<1>8. Fits(host', view, toView \o Tail2("error", host.turn.id, << >>), toHost)
  BY <1>1, <1>2, <1>7, FailFits
<1>9. toView' = toView \o Tail2("error", host.turn.id, << >>)
  BY DEF Fails, Tail2
<1>10. QED
  BY <1>8, <1>9 DEF ViewInv

\* What one message says.
LEMMA SaidOne ==
  ASSUME NEW x \in LineSet, NEW odd
  PROVE  Said(<<x>>, odd) = Heard(x, odd)
<1>1. PICK e, s, heard : e = << >> /\ s = Said(e, odd) /\ heard = Heard(x, odd)
  OBVIOUS
<1>2. e \in Seq(LineSet) /\ Append(e, x) = <<x>>
  BY <1>1
<1>3. s = << >>
  BY <1>1, SaidEmpty
<1>4. heard \in Seq(PieceSet)
  BY <1>1, HeardIs
<1>5. Said(Append(e, x), odd) = Said(e, odd) \o Heard(x, odd)
  BY <1>2, TellingAppend
<1>6. << >> \o heard = heard
  BY <1>4, JoinEmpty
<1>7. QED
  BY <1>1, <1>2, <1>3, <1>5, <1>6

LEMMA AnswerSaid ==
  ASSUME NEW t \in Nat, NEW text \in Seq(PieceSet), NEW item, item = Item("assistant", t, text)
  PROVE  /\ item \in ItemSet /\ <<item>> \in Seq(ItemSet)
         /\ item.turn = t /\ item.text = text /\ item.role = "assistant"
         /\ \A odd : Said(<<item>>, odd) = AnswerHeard(text, odd)
<1>1. PICK r : r = "assistant"
  OBVIOUS
<1>2. r \in {"system", "user", "assistant", "tool"} /\ r \in Roles
  BY <1>1 DEF Roles
<1>3. item = Item(r, t, text)
  BY <1>1
<1>4. item \in ItemSet /\ item \in LineSet /\ item.role = r /\ item.turn = t /\ item.text = text
  BY <1>2, <1>3, ItemsAreLines
<1>5. ASSUME NEW odd PROVE Said(<<item>>, odd) = AnswerHeard(text, odd)
  <2>1. Said(<<item>>, odd) = Heard(item, odd)
    BY <1>4, SaidOne
  <2>2. Heard(item, odd) = Filter(SplitThink(item.text).answer, Loud(odd))
    BY <1>1, <1>4, HeardIs
  <2>3. QED
    BY <1>4, <2>1, <2>2 DEF AnswerHeard
<1>6. <<item>> \in Seq(ItemSet)
  BY <1>4
<1>7. QED
  BY <1>1, <1>4, <1>5, <1>6

\* The items are what is posted, or what was streamed.
Answering(h, items, response) ==
  LET t == h.turn
  IN /\ t.phase \in {"stream", "complete", "agent"}
     /\ Of(response, {t.id})
     /\ \A i \in 1 .. Len(items) :
          /\ items[i].turn = t.id /\ Of(items[i].text, {t.id})
          /\ items[i].role \notin {"user", "assistant"} => items[i].text = << >>
     /\ ~t.started => Said(items, h.odd) = AnswerHeard(response, h.odd)
     /\ t.started /\ ~Unshown(t) =>
          \A text \in Seq(PieceSet) : Streams(h, text) => Said(items, h.odd) = AnswerHeard(text, h.odd)

LEMMA RepliesKeeps ==
  ASSUME ViewInv, NEW items \in Seq(ItemSet), NEW response \in Seq(PieceSet),
         Answering(host, items, response), Replies(items, response), UNCHANGED <<view, toHost>>
  PROVE  ViewInv'
<1>1. Fits(host, view, toView, toHost) /\ host \in HostSet
  BY FitsTypes DEF ViewInv
<1>2. PICK t, list, odd, e, x, type :
        /\ t = host.turn /\ list = host.history \o items /\ e = << >>
        /\ odd = (IF Unshown(t) THEN host.odd \cup {t.id} ELSE host.odd)
        /\ x = (IF t.started THEN e ELSE response)
        /\ type = (IF t.started THEN "done" ELSE "assistant")
  OBVIOUS
<1>3. x \in Seq(PieceSet) /\ Of(x, {t.id})
  <2>1. e \in Seq(PieceSet) /\ Of(e, {t.id})
    BY <1>2 DEF Of
  <2>2. Of(response, {t.id})
    BY <1>2 DEF Answering
  <2>3. QED
    BY <1>2, <2>1, <2>2
<1>4. host' = [host EXCEPT !.turn = NoTurn, !.history = list, !.store = Persisted(list), !.open = FALSE, !.odd = odd]
  BY <1>2 DEF Replies
<1>5. Persisted(list) = Stored(host, list)
  BY DEF Persisted, Stored
<1>6. Ended(host, host', list, FALSE, odd)
  BY <1>4, <1>5 DEF Ended
<1>7. t.id \notin odd => ~Unshown(t) /\ odd = host.odd
  BY <1>2
<1>8. ~t.started /\ ~Unshown(t) => ~host.open
  BY DEF Unshown
<1>9. Replying(host, host', items, x, type, odd)
  <2>1. /\ t.phase \in {"stream", "complete", "agent"}
        /\ \A i \in 1 .. Len(items) :
             /\ items[i].turn = t.id /\ Of(items[i].text, {t.id})
             /\ items[i].role \notin {"user", "assistant"} => items[i].text = << >>
    BY <1>2 DEF Answering
  <2>2. odd = host.odd \/ odd = host.odd \cup {t.id}
    BY <1>2
  <2>3. type \in {"done", "assistant"} /\ (type = "done" <=> t.started)
    BY <1>2
  <2>4. t.id \notin odd /\ ~t.started => ~host.open /\ Said(items, odd) = AnswerHeard(x, odd)
    BY <1>2, <1>7, <1>8 DEF Answering
  <2>5. t.id \notin odd /\ t.started =>
          \A text \in Seq(PieceSet) : Streams(host, text) => Said(items, odd) = AnswerHeard(text, odd)
    BY <1>2, <1>7 DEF Answering
  <2>6. QED
    BY <1>2, <1>3, <1>6, <2>1, <2>2, <2>3, <2>4, <2>5 DEF Replying
<1>10. Fits(host', view, toView \o Tail2(type, host.turn.id, x), toHost)
  BY <1>1, <1>3, <1>9, ReplyFits
<1>11. toView' = toView \o Tail2(type, host.turn.id, x)
  BY <1>2 DEF Replies, Tail2
<1>12. QED
  BY <1>10, <1>11 DEF ViewInv

LEMMA StreamEndsKeeps ==
  ASSUME ViewInv, StreamEnds, UNCHANGED <<view, toHost>>
  PROVE  ViewInv'
<1>1. Fits(host, view, toView, toHost) /\ host \in HostSet
  BY FitsTypes DEF ViewInv
<1>2. PICK t : t = host.turn
  OBVIOUS
<1>3. t \in TurnSet /\ t.phase = "stream" /\ t.text \in Seq(PieceSet) /\ t.id \in Nat
      /\ DOMAIN t.text = 1 .. Len(t.text)
  BY <1>1, <1>2, HostFields DEF StreamEnds, Streaming
<1>4. Going(t)
  BY <1>1, <1>2, <1>3, GoingIs DEF Fits
<1>5. CASE \E i \in DOMAIN t.text : Solid(t.text[i])
  <2>1. PICK k, r, x, item : k = t.id /\ r = "assistant" /\ x = Trimmed(t.text) /\ item = Item("assistant", k, x)
    OBVIOUS
  <2>2. /\ x \in Seq(PieceSet) /\ \A S : Of(t.text, S) => Of(x, S)
        /\ \A odd : Filter(SplitThink(x).answer, Loud(odd)) = Filter(SplitThink(t.text).answer, Loud(odd))
    BY <1>3, <1>5, <2>1, TrimmedIs
  <2>3. /\ <<item>> \in Seq(ItemSet) /\ item.turn = k /\ item.text = x /\ item.role = "assistant"
        /\ \A odd : Said(<<item>>, odd) = AnswerHeard(x, odd)
    BY <1>3, <2>1, <2>2, AnswerSaid
  <2>4. Of(x, {k})
    BY <1>4, <2>1, <2>2 DEF Going
  <2>5. PICK items : items = <<item>>
    OBVIOUS
  <2>6. \A i \in 1 .. Len(items) :
          /\ items[i].turn = k /\ Of(items[i].text, {k})
          /\ items[i].role \notin {"user", "assistant"} => items[i].text = << >>
    BY <2>3, <2>4, <2>5
  <2>7. t.emitted
    BY <1>3, <1>4, <1>5 DEF Going, Solid
  <2>8. ASSUME NEW text \in Seq(PieceSet), Streams(host, text)
        PROVE  Said(items, host.odd) = AnswerHeard(text, host.odd)
    <3>1. text = t.text
      BY <1>2, <1>3, <2>7, <2>8 DEF Streams
    <3>2. Said(items, host.odd) = AnswerHeard(x, host.odd)
      BY <2>3, <2>5
    <3>3. QED
      BY <2>2, <3>1, <3>2 DEF AnswerHeard
  <2>9. Answering(host, items, x)
    <3>1. Said(items, host.odd) = AnswerHeard(x, host.odd)
      BY <2>3, <2>5
    <3>2. QED
      BY <1>2, <1>3, <2>1, <2>4, <2>6, <2>8, <3>1 DEF Answering
  <2>10. Replies(items, x)
    BY <1>2, <1>5, <2>1, <2>5 DEF StreamEnds
  <2>11. items \in Seq(ItemSet)
    BY <2>3, <2>5
  <2>12. QED
    BY <2>2, <2>9, <2>10, <2>11, RepliesKeeps
<1>6. CASE ~\E i \in DOMAIN t.text : Solid(t.text[i])
  <2>1. Streaming /\ host' = [host EXCEPT !.turn.phase = "complete", !.turn.caught = TRUE] /\ UNCHANGED toView
    BY <1>2, <1>6 DEF StreamEnds
  <2>2. QED
    BY <2>1, AsksAgainKeeps
<1>7. QED
  BY <1>5, <1>6

LEMMA CompletesKeeps ==
  ASSUME ViewInv, Completes, UNCHANGED <<view, toHost>>
  PROVE  ViewInv'
<1>1. Fits(host, view, toView, toHost) /\ host \in HostSet
  BY FitsTypes DEF ViewInv
<1>2. PICK t : t = host.turn
  OBVIOUS
<1>3. t \in TurnSet /\ t.phase = "complete" /\ t.id \in Nat /\ t.n \in Nat
  BY <1>1, <1>2, HostFields DEF Completes
<1>4. ASSUME NEW is \in Pieces, Completed(is) PROVE ViewInv'
  <2>1. PICK k, n, p, x, item, items :
          /\ k = t.id /\ n = t.n + 1 /\ p = Piece(k, n, is) /\ x = <<p>>
          /\ item = Item("assistant", k, x) /\ items = <<item>>
    OBVIOUS
  <2>2. k \in Nat /\ n \in Nat /\ is \in Pieces \cup {"note"}
    BY <1>3, <2>1
  <2>3. p \in PieceSet /\ p.turn = k
    BY <2>1, <2>2, PieceIs
  <2>4. x \in Seq(PieceSet) /\ Of(x, {k})
    BY <2>1, <2>3 DEF Of
  <2>5. /\ <<item>> \in Seq(ItemSet) /\ item.turn = k /\ item.text = x /\ item.role = "assistant"
        /\ \A odd : Said(<<item>>, odd) = AnswerHeard(x, odd)
    <3>1. k \in Nat /\ x \in Seq(PieceSet) /\ item = Item("assistant", k, x)
      BY <2>1, <2>2, <2>4
    <3>2. QED
      BY <3>1, AnswerSaid
  <2>6. \A i \in 1 .. Len(items) :
          /\ items[i].turn = k /\ Of(items[i].text, {k})
          /\ items[i].role \notin {"user", "assistant"} => items[i].text = << >>
    BY <2>1, <2>4, <2>5
  <2>7. t.started => Unshown(t)
    BY <1>3 DEF Unshown
  <2>8. Answering(host, items, x)
    <3>1. Said(items, host.odd) = AnswerHeard(x, host.odd)
      BY <2>1, <2>5
    <3>2. QED
      BY <1>2, <1>3, <2>1, <2>4, <2>6, <2>7, <3>1 DEF Answering
  <2>9. Replies(items, x)
    BY <1>2, <1>4, <2>1 DEF Completed
  <2>10. items \in Seq(ItemSet)
    BY <2>1, <2>5
  <2>11. QED
    BY <2>4, <2>8, <2>9, <2>10, RepliesKeeps
<1>5. CASE \E is \in Pieces \ {"blank"} : Completed(is)
  BY <1>4, <1>5
<1>6. CASE /\ ~host.turn.retried
           /\ host' = [host EXCEPT !.turn.retried = TRUE]
           /\ UNCHANGED toView
  <2>1. host.turn.phase = "complete" /\ host' = [host EXCEPT !.turn.retried = TRUE]
    BY <1>6 DEF Completes
  <2>2. QED
    BY <1>6, <2>1, AsksAgainKeeps
<1>7. QED
  BY <1>5, <1>6 DEF Completes

\* The agent's messages, the tools' first: those of the tools say nothing.
Narrated(t) == [i \in DOMAIN t.text |-> Item("assistant", t.id, <<t.text[i]>>)]
Tooled(t) == IF t.tooled THEN <<Item("tool", t.id, << >>)>> ELSE << >>

\* Items of turn k that say nothing; items that do.
OfItems(items, k) ==
  \A i \in 1 .. Len(items) :
    /\ items[i].turn = k /\ Of(items[i].text, {k})
    /\ items[i].role \notin {"user", "assistant"} => items[i].text = << >>

LEMMA TooledIs ==
  ASSUME NEW t \in TurnSet
  PROVE  /\ Tooled(t) \in Seq(ItemSet) /\ OfItems(Tooled(t), t.id)
         /\ \A odd : Said(Tooled(t), odd) = << >>
<1>1. PICK k, e, r, item : k = t.id /\ e = << >> /\ r = "tool" /\ item = Item(r, k, e)
  OBVIOUS
<1>2. k \in Nat /\ e \in Seq(PieceSet) /\ Of(e, {k})
  BY <1>1 DEF TurnSet, Of
<1>3. r \in {"system", "user", "assistant", "tool"} /\ r \in Roles
  BY <1>1 DEF Roles
<1>4. item \in ItemSet /\ item \in LineSet /\ item.role = r /\ item.turn = k /\ item.text = e
  <2>1. item = Item(r, k, e)
    BY <1>1
  <2>2. k \in Nat /\ e \in Seq(PieceSet)
    BY <1>2
  <2>3. QED
    BY <1>3, <2>1, <2>2, ItemsAreLines
<1>5. CASE t.tooled
  <2>1. Tooled(t) = <<item>>
    BY <1>1, <1>5 DEF Tooled
  <2>2. <<item>> \in Seq(ItemSet) /\ OfItems(<<item>>, k)
    BY <1>1, <1>2, <1>4 DEF OfItems
  <2>3. ASSUME NEW odd PROVE Said(<<item>>, odd) = << >>
    <3>1. Said(<<item>>, odd) = Heard(item, odd)
      BY <1>4, SaidOne
    <3>2. item.role \notin {"user", "assistant"}
      BY <1>1, <1>4
    <3>3. Heard(item, odd) = << >>
      BY <1>4, <3>2, HeardIs
    <3>4. QED
      BY <3>1, <3>3
  <2>4. QED
    BY <1>1, <2>1, <2>2, <2>3
<1>6. CASE ~t.tooled
  <2>1. PICK list : list = Tooled(t)
    OBVIOUS
  <2>2. list = << >>
    BY <1>6, <2>1 DEF Tooled
  <2>3. list \in Seq(ItemSet) /\ OfItems(list, k)
    BY <2>2 DEF OfItems
  <2>4. \A odd : Said(list, odd) = << >>
    BY <2>2, SaidEmpty
  <2>5. QED
    BY <1>1, <2>1, <2>3, <2>4
<1>7. QED
  BY <1>5, <1>6

LEMMA NarratedIs ==
  ASSUME NEW t \in TurnSet, Of(t.text, {t.id})
  PROVE  /\ Narrated(t) \in Seq(ItemSet) /\ OfItems(Narrated(t), t.id)
         /\ t.text = << >> => \A odd : Said(Narrated(t), odd) = << >>
         /\ (\A i \in 1 .. Len(t.text) - 1 : ~SplitThink(SubSeq(t.text, 1, i)).inside) =>
              \A odd : Said(Narrated(t), odd) = AnswerHeard(t.text, odd)
<1>1. PICK k, text, r, list : k = t.id /\ text = t.text /\ r = "assistant" /\ list = Narrated(t)
  OBVIOUS
<1>2. k \in Nat /\ text \in Seq(PieceSet) /\ Of(text, {k}) /\ DOMAIN text = 1 .. Len(text) /\ Len(text) \in Nat
  BY <1>1 DEF TurnSet
<1>3. list = [i \in 1 .. Len(text) |-> Item(r, k, <<text[i]>>)]
  BY <1>1, <1>2 DEF Narrated
<1>4. ASSUME NEW i \in 1 .. Len(text)
      PROVE  /\ Item(r, k, <<text[i]>>) \in ItemSet
             /\ list[i].turn = k /\ Of(list[i].text, {k}) /\ list[i].role = r
  <2>1. PICK x : x = <<text[i]>>
    OBVIOUS
  <2>2. x \in Seq(PieceSet) /\ Of(x, {k})
    BY <1>2, <2>1 DEF Of
  <2>3. r \in {"system", "user", "assistant", "tool"} /\ r \in Roles
    BY <1>1 DEF Roles
  <2>4. /\ Item(r, k, x) \in ItemSet /\ Item(r, k, x).turn = k /\ Item(r, k, x).text = x
        /\ Item(r, k, x).role = r
    BY <1>2, <2>2, <2>3, ItemsAreLines
  <2>5. list[i] = Item(r, k, x)
    BY <1>3, <2>1
  <2>6. QED
    BY <2>1, <2>2, <2>4, <2>5
<1>5. list \in Seq(ItemSet) /\ Len(list) = Len(text)
  <2>1. PICK N : N = Len(text)
    OBVIOUS
  <2>2. list = [i \in 1 .. N |-> Item(r, k, <<text[i]>>)] /\ N \in Nat
    BY <1>2, <1>3, <2>1
  <2>3. \A i \in 1 .. N : Item(r, k, <<text[i]>>) \in ItemSet
    BY <1>4, <2>1
  <2>4. list \in [1 .. N -> ItemSet]
    BY <2>2, <2>3
  <2>5. QED
    BY <2>1, <2>2, <2>4
<1>6. OfItems(list, k)
  BY <1>1, <1>4, <1>5 DEF OfItems
<1>7. ASSUME text = << >>, NEW odd PROVE Said(list, odd) = << >>
  <2>1. Len(list) = 0
    BY <1>5, <1>7
  <2>2. list = << >>
    BY <1>5, <2>1
  <2>3. QED
    BY <2>2, SaidEmpty
<1>8. ASSUME \A i \in 1 .. Len(text) - 1 : ~SplitThink(SubSeq(text, 1, i)).inside, NEW odd
      PROVE  Said(list, odd) = AnswerHeard(text, odd)
  <2>1. list = [i \in DOMAIN text |-> Item("assistant", k, <<text[i]>>)]
    BY <1>1, <1>2, <1>3
  <2>2. Said([i \in DOMAIN text |-> Item("assistant", k, <<text[i]>>)], odd) =
          Filter(SplitThink(text).answer, Loud(odd))
    BY <1>2, <1>8, NarrationsSay
  <2>3. QED
    BY <2>1, <2>2 DEF AnswerHeard
<1>9. QED
  BY <1>1, <1>5, <1>6, <1>7, <1>8

LEMMA ItemsJoin ==
  ASSUME NEW a \in Seq(ItemSet), NEW b \in Seq(ItemSet), NEW k, OfItems(a, k), OfItems(b, k)
  PROVE  /\ a \o b \in Seq(ItemSet) /\ OfItems(a \o b, k)
         /\ \A odd : Said(a, odd) = << >> => Said(a \o b, odd) = Said(b, odd)
<1>1. PICK c : c = a \o b
  OBVIOUS
<1>2. c \in Seq(ItemSet) /\ DOMAIN c = 1 .. Len(c) /\ DOMAIN a = 1 .. Len(a) /\ DOMAIN b = 1 .. Len(b)
  BY <1>1
<1>3. ASSUME NEW i \in 1 .. Len(c)
      PROVE  \/ \E j \in 1 .. Len(a) : c[i] = a[j]
             \/ \E j \in 1 .. Len(b) : c[i] = b[j]
  <2>1. i \in DOMAIN (a \o b)
    BY <1>1, <1>2
  <2>2. \/ i \in DOMAIN a /\ (a \o b)[i] = a[i]
        \/ \E j \in DOMAIN b : (a \o b)[i] = b[j]
    BY <2>1, JoinIs
  <2>3. QED
    BY <1>1, <1>2, <2>2
<1>4. OfItems(c, k)
  BY <1>3 DEF OfItems
<1>5. ASSUME NEW odd, Said(a, odd) = << >> PROVE Said(c, odd) = Said(b, odd)
  <2>1. a \in Seq(LineSet) /\ b \in Seq(LineSet)
    BY ItemsAreLines
  <2>2. Said(a \o b, odd) = Said(a, odd) \o Said(b, odd)
    BY <2>1, SaidJoin
  <2>3. Said(b, odd) \in Seq(PieceSet)
    BY ToldIs
  <2>4. << >> \o Said(b, odd) = Said(b, odd)
    BY <2>3, JoinEmpty
  <2>5. QED
    BY <1>1, <1>5, <2>2, <2>4
<1>6. QED
  BY <1>1, <1>2, <1>4, <1>5

\* What was spoken of a text is heard of it.
LEMMA SpokenHeard ==
  ASSUME NEW text \in Seq(PieceSet), NEW odd
  PROVE  AnswerHeard(Spoken(text), odd) = AnswerHeard(text, odd)
<1>1. PICK K : K = {p \in PieceSet : p.is # "note"}
  OBVIOUS
<1>2. \A p \in PieceSet : p \notin K => p.is \in {"blank", "note"}
  BY <1>1
<1>3. Filter(SplitThink(Filter(text, K)).answer, Loud(odd)) = Filter(SplitThink(text).answer, Loud(odd))
  BY <1>2, QuietLeftOut
<1>4. QED
  BY <1>1, <1>3 DEF AnswerHeard, Spoken

LEMMA AgentEndsKeeps ==
  ASSUME ViewInv, AgentEnds, UNCHANGED <<view, toHost>>
  PROVE  ViewInv'
<1>1. Fits(host, view, toView, toHost) /\ host \in HostSet
  BY FitsTypes DEF ViewInv
<1>2. PICK t, k, e, x, items :
        /\ t = host.turn /\ k = t.id /\ e = << >>
        /\ x = (IF t.text = << >> THEN e ELSE <<Last(t.text)>>)
        /\ items = Tooled(t) \o Narrated(t)
  OBVIOUS
<1>3. t \in TurnSet /\ t.phase = "agent" /\ t.text \in Seq(PieceSet) /\ k \in Nat
      /\ DOMAIN t.text = 1 .. Len(t.text) /\ Len(t.text) \in Nat
  BY <1>1, <1>2, HostFields DEF AgentEnds, Working
<1>4. Going(t)
  BY <1>1, <1>2, <1>3, GoingIs DEF Fits
<1>5. Of(t.text, {k}) /\ (~t.started => t.text = << >>)
  BY <1>2, <1>3, <1>4 DEF Going
<1>6. /\ Tooled(t) \in Seq(ItemSet) /\ OfItems(Tooled(t), k)
      /\ \A odd : Said(Tooled(t), odd) = << >>
  BY <1>2, <1>3, TooledIs
<1>7. /\ Narrated(t) \in Seq(ItemSet) /\ OfItems(Narrated(t), k)
      /\ t.text = << >> => \A odd : Said(Narrated(t), odd) = << >>
      /\ (\A i \in 1 .. Len(t.text) - 1 : ~SplitThink(SubSeq(t.text, 1, i)).inside) =>
           \A odd : Said(Narrated(t), odd) = AnswerHeard(t.text, odd)
  <2>1. Of(t.text, {t.id})
    BY <1>2, <1>5
  <2>2. QED
    BY <1>2, <1>3, <2>1, NarratedIs
<1>8. items \in Seq(ItemSet) /\ OfItems(items, k) /\ \A odd : Said(items, odd) = Said(Narrated(t), odd)
  BY <1>2, <1>6, <1>7, ItemsJoin
<1>9. x \in Seq(PieceSet) /\ Of(x, {k})
  <2>1. CASE t.text = << >>
    <3>1. e \in Seq(PieceSet) /\ Of(e, {k})
      BY <1>2 DEF Of
    <3>2. QED
      BY <1>2, <2>1, <3>1
  <2>2. CASE t.text # << >>
    <3>1. PICK n, p : n = Len(t.text) /\ p = t.text[n]
      OBVIOUS
    <3>2. n \in DOMAIN t.text /\ p \in PieceSet /\ p.turn = k
      BY <1>3, <1>5, <2>2, <3>1 DEF Of
    <3>3. x = <<p>>
      BY <1>2, <2>2, <3>1 DEF Last
    <3>4. QED
      BY <3>2, <3>3 DEF Of
  <2>3. QED
    BY <2>1, <2>2
<1>10. ASSUME ~t.started PROVE Said(items, host.odd) = AnswerHeard(x, host.odd)
  <2>1. t.text = << >> /\ x = e
    BY <1>2, <1>5, <1>10
  <2>2. Said(items, host.odd) = << >>
    BY <1>7, <1>8, <2>1
  <2>3. SplitThink(e).answer = << >>
    BY <1>2, SplitThinkIs
  <2>4. Filter(e, Loud(host.odd)) = << >>
    <3>1. e \in Seq(PieceSet) /\ Len(e) = 0
      BY <1>2
    <3>2. QED
      BY <3>1, FilterEmpty
  <2>5. QED
    BY <1>2, <2>1, <2>2, <2>3, <2>4 DEF AnswerHeard
<1>11. ASSUME ~Unshown(t), NEW text \in Seq(PieceSet), Streams(host, text)
       PROVE  Said(items, host.odd) = AnswerHeard(text, host.odd)
  <2>1. Spoken(text) = t.text
    BY <1>2, <1>3, <1>11 DEF Streams
  <2>2. \A i \in 1 .. Len(t.text) - 1 : ~SplitThink(SubSeq(t.text, 1, i)).inside
    BY <1>3, <1>11 DEF Unshown
  <2>3. Said(items, host.odd) = AnswerHeard(t.text, host.odd)
    BY <1>7, <1>8, <2>2
  <2>4. AnswerHeard(Spoken(text), host.odd) = AnswerHeard(text, host.odd)
    BY SpokenHeard
  <2>5. QED
    BY <2>1, <2>3, <2>4
<1>12. Answering(host, items, x)
  <2>1. \A i \in 1 .. Len(items) :
          /\ items[i].turn = k /\ Of(items[i].text, {k})
          /\ items[i].role \notin {"user", "assistant"} => items[i].text = << >>
    BY <1>8 DEF OfItems
  <2>2. QED
    BY <1>2, <1>3, <1>9, <1>10, <1>11, <2>1 DEF Answering
<1>13. Replies(items, x)
  BY <1>2 DEF AgentEnds, Tooled, Narrated
<1>14. QED
  BY <1>8, <1>9, <1>12, <1>13, RepliesKeeps

-----------------------------------------------------------------------------
(* Every step, and the theorem.                                              *)

LEMMA AgentChunksKeep ==
  ASSUME ViewInv, Narrates \/ Notes, UNCHANGED <<view, toHost>>
  PROVE  ViewInv'
<1>1. CASE Narrates
  <2>1. PICK is \in Pieces \ {"blank"} : AgentChunk(is)
    BY <1>1 DEF Narrates
  <2>2. is \in Pieces \cup {"note"}
    OBVIOUS
  <2>3. QED
    BY <2>1, <2>2, AgentChunkKeeps
<1>2. CASE Notes
  <2>1. PICK is : is = "note"
    OBVIOUS
  <2>2. is \in Pieces \cup {"note"} /\ AgentChunk(is)
    BY <1>2, <2>1 DEF Notes
  <2>3. QED
    BY <2>2, AgentChunkKeeps
<1>3. QED
  BY <1>1, <1>2

LEMMA TurnStepsKeep ==
  ASSUME ViewInv, TurnSteps
  PROVE  ViewInv'
<1>1. UNCHANGED <<view, toHost>> /\ TurnStep
  BY DEF TurnSteps, viewVars
<1>2. CASE PrepareFails
  BY <1>1, <1>2, FailsKeeps DEF PrepareFails, Running
<1>3. CASE StreamThrows
  <2>1. Running
    BY <1>3 DEF StreamThrows, Streaming, Running
  <2>2. CASE host.turn.text # << >>
    BY <1>1, <1>3, <2>1, <2>2, FailsKeeps DEF StreamThrows
  <2>3. CASE host.turn.text = << >>
    <3>1. Streaming /\ host' = [host EXCEPT !.turn.phase = "complete"] /\ UNCHANGED toView
      BY <1>3, <2>3 DEF StreamThrows
    <3>2. QED
      BY <1>1, <3>1, AsksAgainKeeps
  <2>4. QED
    BY <2>2, <2>3
<1>4. CASE CompletionThrows
  <2>1. Running /\ host.turn.phase = "complete"
    BY <1>4 DEF CompletionThrows, Running
  <2>2. CASE host.turn.caught /\ host.turn.text = << >>
    <3>1. host' = [host EXCEPT !.turn.caught = FALSE, !.turn.retried = FALSE] /\ UNCHANGED toView
      BY <1>4, <2>2 DEF CompletionThrows
    <3>2. QED
      BY <1>1, <2>1, <3>1, AsksAgainKeeps
  <2>3. CASE ~(host.turn.caught /\ host.turn.text = << >>)
    BY <1>1, <1>4, <2>1, <2>3, FailsKeeps DEF CompletionThrows
  <2>4. QED
    BY <2>2, <2>3
<1>5. CASE AgentThrows
  BY <1>1, <1>5, FailsKeeps DEF AgentThrows, Working, Running
<1>6. CASE Prepared
  BY <1>1, <1>6, PreparedKeeps
<1>7. CASE Reasoning \/ Content
  BY <1>1, <1>7, ReasoningKeeps, ContentKeeps
<1>8. CASE StreamEnds \/ Completes
  BY <1>1, <1>8, StreamEndsKeeps, CompletesKeeps
<1>9. CASE Narrates \/ Notes
  BY <1>1, <1>9, AgentChunksKeep
<1>10. CASE AsksApproval \/ AgentEnds
  BY <1>1, <1>10, AsksApprovalKeeps, AgentEndsKeeps
<1>11. QED
  BY <1>1, <1>2, <1>3, <1>4, <1>5, <1>6, <1>7, <1>8, <1>9, <1>10 DEF TurnStep

LEMMA ViewStep ==
  ASSUME ViewInv, [Next]_vars
  PROVE  ViewInv'
<1>1. CASE Answered
  BY <1>1, ViewSame DEF Answered, viewVars
<1>2. CASE UNCHANGED vars
  BY <1>2, ViewSame DEF vars, viewVars
<1>3. CASE Mount \/ ViewTakes
  BY <1>3, MountKeeps, ViewTakesKeeps
<1>4. CASE UserActs \/ HostTakes
  BY <1>4, UserActsKeep, HostTakesKeeps
<1>5. CASE Commanded \/ TurnSteps
  BY <1>5, CommandedKeeps, TurnStepsKeep
<1>6. QED
  BY <1>1, <1>2, <1>3, <1>4, <1>5 DEF Next

\* A conversation that is restored, before any turn.
LEMMA RestoredKept ==
  ASSUME NEW h, NEW v, h.facts = << >>, NEW list \in Seq(ItemSet),
         \A i \in DOMAIN list : Restored(list[i])
  PROVE  AllKept(list, h, v)
<1>1. Turns(h) = 0 .. 0
  BY DEF Turns
<1>2. 0 \in Turns(h) /\ 0 \in Begun(h, v)
  BY <1>1 DEF Begun
<1>3. ASSUME NEW i \in DOMAIN list PROVE Kept(list[i], h, v)
  BY <1>2 DEF Restored, Kept, Of
<1>4. QED
  BY <1>3 DEF AllKept

\* The host and the webview, before the first message.
LEMMA HostStart ==
  ASSUME HostInit
  PROVE  /\ host \in HostSet /\ host.turn = NoTurn /\ host.facts = << >> /\ host.odd = {}
         /\ ~host.replayed /\ host.chat \in DOMAIN host.store /\ host.history = host.restored
         /\ ~host.open /\ toView = << >>
         /\ \A c \in DOMAIN host.store : \A i \in DOMAIN host.store[c] : Restored(host.store[c][i])
         /\ \A i \in DOMAIN host.restored : Restored(host.restored[i])
<1>1. PICK saved \in Saved :
        host = [chat |-> 1, store |-> saved, history |-> saved[1], restored |-> saved[1],
                plan |-> FALSE, agent |-> FALSE, replayed |-> FALSE, turn |-> NoTurn,
                facts |-> << >>, open |-> FALSE, odd |-> {}]
  BY Zenon DEF HostInit
<1>2. /\ saved \in Seq(Seq(ItemSet)) /\ saved # << >>
      /\ \A c \in DOMAIN saved : \A i \in DOMAIN saved[c] : Restored(saved[c][i])
  BY TurnAssumption
<1>3. PICK no, e, list, t : no = FALSE /\ e = << >> /\ list = saved[1] /\ t = NoTurn
  OBVIOUS
<1>4. no \in BOOLEAN
  BY <1>3, Zenon
<1>5. e \in Seq(FactSet)
  BY <1>3
<1>6. 1 \in DOMAIN saved /\ list \in Seq(ItemSet) /\ \A i \in DOMAIN list : Restored(list[i])
  BY <1>2, <1>3
<1>7. t \in TurnSet
  BY <1>3, NoTurnIs
<1>8. host = [chat |-> 1, store |-> saved, history |-> list, restored |-> list,
              plan |-> no, agent |-> no, replayed |-> no, turn |-> t,
              facts |-> e, open |-> no, odd |-> {}]
  BY <1>1, <1>3
<1>9. host \in HostSet
  BY <1>2, <1>4, <1>5, <1>6, <1>7, <1>8 DEF HostSet
<1>10. /\ host.turn = t /\ host.facts = e /\ host.odd = {} /\ host.replayed = no /\ host.chat = 1
       /\ host.store = saved /\ host.history = list /\ host.restored = list /\ host.open = no
  BY <1>8
<1>11. ~host.replayed /\ ~host.open
  BY <1>3, <1>10
<1>12. QED
  BY <1>2, <1>3, <1>6, <1>9, <1>10, <1>11 DEF HostInit

LEMMA ViewStart ==
  ASSUME ViewInit
  PROVE  /\ view \in ViewSet /\ Writing(view) /\ ~view.mounted /\ view.bubbles = << >>
         /\ view.active = 0 /\ ~view.busy /\ view.sends = 0 /\ view.last = 0
<1>1. PICK no, yes, e : no = FALSE /\ yes = TRUE /\ e = << >>
  OBVIOUS
<1>2. no \in BOOLEAN /\ yes \in BOOLEAN
  BY <1>1, Zenon
<1>3. e \in Seq(BubbleSet)
  BY <1>1
<1>4. view = [mounted |-> no, bubbles |-> e, active |-> 0, lastPlan |-> no,
              pendingPlan |-> no, plan |-> no, agent |-> yes, include |-> yes,
              busy |-> no, approved |-> no, sends |-> 0, last |-> 0]
  BY <1>1 DEF ViewInit
<1>5. view \in ViewSet /\ view.mounted = no /\ view.bubbles = e /\ view.active = 0 /\ view.busy = no
      /\ view.sends = 0 /\ view.last = 0
  BY <1>2, <1>3, <1>4 DEF ViewSet
<1>6. QED
  BY <1>1, <1>5 DEF Writing

LEMMA ScreenStart ==
  ASSUME HostInit, ViewInit
  PROVE  Screen(host, view)
<1>1. /\ host.turn = NoTurn /\ host.facts = << >> /\ host.odd = {} /\ ~host.replayed
      /\ host.history = host.restored
  BY HostStart
<1>2. view \in ViewSet /\ view.bubbles = << >> /\ view.active = 0 /\ ~view.busy /\ view.busy \in BOOLEAN
  BY ViewStart DEF ViewSet
<1>3. ~Busy(host)
  BY <1>1, NoTurnIs DEF Busy
<1>4. Untouched(host, view) \/ InStep(host, view)
  <2>1. CASE host.restored # << >>
    BY <1>1, <1>2, <2>1 DEF Untouched, Waits
  <2>2. CASE host.restored = << >>
    <3>1. Told(host) = << >>
      BY <1>1, <2>2, SaidEmpty DEF Told
    <3>2. view.bubbles \in Seq(BubbleSet) /\ Len(view.bubbles) = 0
      BY <1>2
    <3>3. Reading(host, view)[0] = << >>
      BY <3>2, ReadingIs DEF Reading
    <3>4. Ends(<< >>, << >>)
      <4>1. PICK e : e = << >>
        OBVIOUS
      <4>2. e \in Seq(PieceSet)
        BY <4>1
      <4>3. QED
        BY <4>1, <4>2, EndsFacts
    <3>5. QED
      BY <1>2, <1>3, <3>1, <3>2, <3>3, <3>4 DEF InStep, Streamed
  <2>3. QED
    BY <2>1, <2>2
<1>5. Waits(host) => Untouched(host, view)
  BY <1>1, <1>2 DEF Untouched, Waits
<1>6. view.busy = Busy(host)
  <2>1. Busy(host) \in BOOLEAN
    BY Zenon DEF Busy
  <2>2. QED
    BY <1>2, <1>3, <2>1, Zenon
<1>7. QED
  BY <1>2, <1>4, <1>5, <1>6 DEF Screen

LEMMA InitFits == Init => ViewInv
<1> SUFFICES ASSUME Init PROVE ViewInv
  OBVIOUS
<1>1. HostInit /\ ViewInit /\ toHost = << >>
  BY DEF Init
<1>2. /\ host \in HostSet /\ host.turn = NoTurn /\ host.facts = << >>
      /\ ~host.replayed /\ host.chat \in DOMAIN host.store /\ host.history = host.restored
      /\ toView = << >>
      /\ \A c \in DOMAIN host.store : \A i \in DOMAIN host.store[c] : Restored(host.store[c][i])
      /\ \A i \in DOMAIN host.restored : Restored(host.restored[i])
  BY <1>1, HostStart
<1>3. /\ view \in ViewSet /\ Writing(view) /\ ~view.mounted /\ view.bubbles = << >>
      /\ view.sends = 0 /\ view.last = 0
  BY <1>1, ViewStart
<1>4. /\ NoTurn.phase = "idle" /\ NoTurn.waiting = 0 /\ NoTurn.text = << >> /\ NoTurn.held = << >>
      /\ NoTurn.preview = {} /\ NoTurn.request = {}
  BY NoTurnIs
<1>5. toView \in Seq(MsgSet) /\ toHost \in Seq(ToHostSet) /\ Shows(view, toView) = view
  BY <1>1, <1>2, <1>3, ShowsNone
<1>6. TypesFit(host, view, toView, toHost)
  BY <1>2, <1>3, <1>4, <1>5 DEF TypesFit
<1>7. Lists(host, view)
  <2>1. AllKept(host.history, host, view)
    BY <1>2, HostFields, RestoredKept
  <2>2. ASSUME NEW c \in DOMAIN host.store PROVE AllKept(host.store[c], host, view)
    <3>1. host.store[c] \in Seq(ItemSet)
      BY <1>2, HostFields
    <3>2. QED
      BY <1>2, <3>1, RestoredKept
  <2>3. QED
    BY <1>2, <2>1, <2>2 DEF Lists
<1>8. Flight(host, view)
  BY <1>2, <1>4 DEF Flight, Busy, Of
<1>9. Screen(host, Shows(view, toView)) /\ Cards(host, Shows(view, toView), toHost)
  BY <1>1, <1>2, <1>4, <1>5, ScreenStart DEF Cards
<1>10. Numbered(view, toView)
  BY <1>2, <1>3 DEF Numbered
<1>11. Modes(host, view, toHost)
  BY <1>3 DEF Modes
<1>12. Plans(host, view, toHost)
  BY <1>1, <1>2, <1>4 DEF Plans
<1>13. Rows(host, view, toView)
  <2>1. 0 \in Begun(host, view)
    BY <1>2 DEF Begun, Turns
  <2>2. QED
    BY <1>2, <1>3, <2>1 DEF Rows
<1>14. Previews(host)
  BY <1>2, <1>4 DEF Previews
<1>15. QED
  BY <1>6, <1>7, <1>8, <1>9, <1>10, <1>11, <1>12, <1>13, <1>14 DEF Fits, ViewInv

LEMMA RestedFits ==
  ASSUME ViewInv, Rested
  PROVE  /\ Screen(host, view) /\ Cards(host, view, toHost) /\ ~Waits(host)
         /\ view.bubbles \in Seq(BubbleSet) /\ host.history \in Seq(ItemSet)
<1>1. view \in ViewSet /\ Writing(view) /\ host \in HostSet
  BY FitsTypes DEF ViewInv
<1>2. Shows(view, toView) = view
  BY <1>1, ShowsNone DEF Rested
<1>3. Screen(host, view) /\ Cards(host, view, toHost)
  BY <1>2 DEF ViewInv, Fits
<1>4. view.bubbles \in Seq(BubbleSet) /\ host.history \in Seq(ItemSet)
  BY <1>1, HostFields DEF ViewSet
<1>5. ~Waits(host)
  BY DEF Rested, Waits
<1>6. QED
  BY <1>3, <1>4, <1>5

LEMMA TranscriptIs == ViewInv => TranscriptFits
<1> SUFFICES ASSUME ViewInv, Rested, ~Running
             PROVE  IsSuffix(Said(host.history, host.odd), Said(OnScreen(view.bubbles), host.odd))
  BY DEF TranscriptFits
<1>1. /\ Screen(host, view) /\ ~Waits(host)
      /\ view.bubbles \in Seq(BubbleSet) /\ host.history \in Seq(ItemSet)
  BY RestedFits
<1>2. InStep(host, view)
  BY <1>1 DEF Screen, Untouched
<1>3. ~Streamed(host)
  BY DEF Streamed, Busy, Running
<1>4. Ends(Told(host), Reading(host, view)[Len(view.bubbles)])
  BY <1>2, <1>3 DEF InStep
<1>5. PICK s, t : s = Said(host.history, host.odd) /\ t = Said(OnScreen(view.bubbles), host.odd)
  OBVIOUS
<1>6. s \in Seq(PieceSet)
  BY <1>1, <1>5, ToldIs
<1>7. Reading(host, view)[Len(view.bubbles)] = t /\ t \in Seq(PieceSet)
  <2>1. PICK list, odd : list = OnScreen(view.bubbles) /\ odd = host.odd
    OBVIOUS
  <2>2. list \in Seq(LineSet) /\ Said(list, odd) \in Seq(PieceSet)
    BY <1>1, <2>1, OnScreenIs, TellingIs
  <2>3. Said(list, odd) = Telling(list, odd)[Len(view.bubbles)]
    BY <1>1, <2>1, ReadingIs
  <2>4. QED
    BY <1>5, <2>1, <2>2, <2>3 DEF Reading
<1>8. Ends(s, t)
  BY <1>4, <1>5, <1>7 DEF Told
<1>9. QED
  BY <1>5, <1>6, <1>7, <1>8, EndsIsSuffix

LEMMA BusyIs == ViewInv => BusyFits
<1> SUFFICES ASSUME ViewInv, Rested
             PROVE  /\ view.busy = Running
                    /\ host.turn.waiting > 0 /\ toHost = << >> /\ host.turn.id \notin host.odd =>
                         \E b \in ToSet(view.bubbles) :
                           b.kind = "card" /\ b.turn = host.turn.id /\ b.text[1].n = host.turn.waiting
  BY DEF BusyFits
<1>1. /\ Screen(host, view) /\ Cards(host, view, toHost) /\ view.bubbles \in Seq(BubbleSet)
  BY RestedFits
<1>2. view.busy = Running
  BY <1>1 DEF Screen, Busy, Running
<1>3. ASSUME host.turn.waiting > 0, toHost = << >>, host.turn.id \notin host.odd
      PROVE  \E b \in ToSet(view.bubbles) :
               b.kind = "card" /\ b.turn = host.turn.id /\ b.text[1].n = host.turn.waiting
  <2>1. PICK i \in DOMAIN view.bubbles : IsCard(view.bubbles[i], host.turn.id, host.turn.waiting)
    BY <1>1, <1>3 DEF Cards
  <2>2. view.bubbles[i] \in ToSet(view.bubbles)
    BY DEF ToSet
  <2>3. QED
    BY <2>1, <2>2 DEF IsCard
<1>4. QED
  BY <1>2, <1>3

LEMMA RowIs == ViewInv => RowFits
<1> SUFFICES ASSUME ViewInv, view.last > 0, view.sends > 0,
                    host.facts[view.last].send = view.sends, ~host.facts[view.last].approval
             PROVE  view.lastPlan = host.facts[view.last].plan
  BY DEF RowFits
<1>1. view.last \in Begun(host, view) /\ view.lastPlan = view.pendingPlan
  BY DEF ViewInv, Fits, Rows
<1>2. Planned(host.facts[view.last], view)
  BY <1>1 DEF Begun
<1>3. QED
  BY <1>1, <1>2 DEF Planned

LEMMA ModesAre == ViewInv => ModesFit
<1> SUFFICES ASSUME ViewInv, Rested, toHost = << >>, ~view.approved
             PROVE  host.plan = view.plan /\ host.agent = view.agent
  BY DEF ModesFit
<1>1. Modes(host, view, toHost) /\ view.mounted
  BY DEF ViewInv, Fits, Rested
<1>2. QED
  BY <1>1 DEF Modes

LEMMA PreviewIs == ViewInv => PreviewFits
BY DEF ViewInv, Fits, Previews, PreviewFits

\* Webview and host agree on what the user sees, for any pieces of the provider's
\* answers, saved conversations, actions of the user and order of the messages:
\* what is kept is what the screen ends with, Stop and the card of an approval that
\* is awaited are there, the row and the modes are those of the host, and the
\* preview is what the request has (handleMessage and submitMessage of chatPanel.ts,
\* the message handler of chatPanelHtml.ts).
THEOREM ViewInStepAlways == Spec => []ViewInStep
<1>1. ViewInv => ViewInStep
  BY TranscriptIs, BusyIs, RowIs, ModesAre, PreviewIs DEF ViewInStep
<1>2. QED
  BY InitFits, ViewStep, <1>1, PTL DEF Spec
=============================================================================
