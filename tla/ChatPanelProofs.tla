--------------------------- MODULE ChatPanelProofs ---------------------------
(***************************************************************************)
(* What holds of ChatPanel for any number of panels, messages and            *)
(* conversations, wherever the lists are cut: turns wait in sight, an agent   *)
(* asks its own question, a switch saves what it leaves, the storage is the   *)
(* panel's list; and, while nothing has to be cut, answers stay saved.        *)
(***************************************************************************)
EXTENDS ChatPanel, ScanProofs, FiniteSetTheorems, TLAPS

-----------------------------------------------------------------------------
(* The inductive invariant: the shape of the panels' state, and a turn that    *)
(* waits for the user is on the open panel.                                  *)

TurnFields == {"at", "no", "mode", "aborted", "copy", "card"}

Shape ==
  /\ DOMAIN turn = Panel /\ DOMAIN sessions = Panel
  /\ \A p \in Panel : DOMAIN turn[p] = TurnFields
  /\ opened \in Nat

PInv == Shape /\ WaitsOnOpenPanel

\* What the steps do to a turn: nothing but RequestApproval makes it wait.
LEMMA TurnShapes ==
  ASSUME NEW t, DOMAIN t = TurnFields
  PROVE  /\ DOMAIN Unblocked(t) = TurnFields /\ Unblocked(t).at # "approval"
         /\ DOMAIN Cleared(t) = TurnFields /\ Cleared(t).at = t.at
         /\ \A b : /\ DOMAIN [t EXCEPT !.aborted = b] = TurnFields
                   /\ [t EXCEPT !.aborted = b].at = t.at
         /\ DOMAIN [t EXCEPT !.at = "asking"] = TurnFields
         /\ [t EXCEPT !.at = "asking"].at = "asking"
         /\ DOMAIN NoTurn = TurnFields /\ NoTurn.at = "idle"
BY DEF Unblocked, Cleared, TurnFields, NoTurn

\* A step that changes the turn of one panel: it must not wait there, unless the
\* panel is the open one.
LEMMA OneTurn ==
  ASSUME PInv, NEW p \in Panel, NEW t, DOMAIN t = TurnFields,
         t.at = "approval" => p = current \/ turn[p].at = "approval",
         turn' = [turn EXCEPT ![p] = t], current' = current, opened' = opened,
         DOMAIN sessions' = Panel
  PROVE  PInv'
<1>1. /\ DOMAIN turn' = Panel /\ turn'[p] = t
      /\ \A q \in Panel \ {p} : turn'[q] = turn[q]
  BY DEF PInv, Shape
<1>2. \A q \in Panel : turn'[q].at = "approval" => q = current
  BY <1>1 DEF PInv, WaitsOnOpenPanel
<1>3. \A q \in Panel : DOMAIN turn'[q] = TurnFields
  BY <1>1 DEF PInv, Shape
<1>4. QED
  BY <1>1, <1>2, <1>3 DEF PInv, Shape, WaitsOnOpenPanel

\* Every step keeps the invariant.
LEMMA NextPInv == PInv /\ [Next]_vars => PInv'
<1> SUFFICES ASSUME PInv, [Next]_vars PROVE PInv'
  OBVIOUS
<1>0. /\ DOMAIN sessions = Panel /\ opened \in Nat
      /\ \A p \in Panel : DOMAIN turn[p] = TurnFields
  BY DEF PInv, Shape
<1>1. CASE Open
  <2>1. \A p \in Panel : turn[p].at # "approval"
    BY <1>1 DEF Open, PInv, WaitsOnOpenPanel, Panel
  <2>2. turn' = turn /\ DOMAIN sessions' = Panel /\ opened' \in Nat
    BY <1>0, <1>1 DEF Open
  <2>3. QED
    BY <2>1, <2>2 DEF PInv, Shape, WaitsOnOpenPanel
<1>2. CASE Close
  <2>1. turn' = [turn EXCEPT ![current] = Unblocked(@)]
    BY <1>2 DEF Close
  <2>2. DOMAIN turn' = Panel /\ \A p \in Panel : turn'[p] = IF p = current THEN Unblocked(turn[p])
                                                            ELSE turn[p]
    BY <2>1 DEF PInv, Shape
  <2>3. \A p \in Panel : DOMAIN turn'[p] = TurnFields /\ turn'[p].at # "approval"
    BY <1>0, <2>2, TurnShapes DEF PInv, WaitsOnOpenPanel
  <2>4. sessions' = sessions /\ opened' = opened
    BY <1>2 DEF Close
  <2>5. QED
    BY <1>0, <2>2, <2>3, <2>4 DEF PInv, Shape, WaitsOnOpenPanel
<1>3. ASSUME NEW p \in Panel, TurnStep(p) PROVE PInv'
  <2>1. current' = current /\ opened' = opened /\ DOMAIN sessions' = Panel
    BY <1>0, <1>3 DEF TurnStep, Ask, RequestApproval, Reply, ReplyNothing, Fail, Finish
  <2>2. CASE Ask(p)
    BY <1>0, <2>1, <2>2, TurnShapes, OneTurn DEF Ask
  <2>3. CASE RequestApproval(p)
    <3>1. PICK t : t = [turn[p] EXCEPT !.at = "approval", !.card = TRUE]
      OBVIOUS
    <3>2. turn' = [turn EXCEPT ![p] = t] /\ p = current
      BY <2>3, <3>1 DEF RequestApproval
    <3>3. DOMAIN t = TurnFields
      BY <1>0, <3>1
    <3>4. QED
      BY <2>1, <3>2, <3>3, OneTurn
  <2>4. CASE Reply(p) \/ ReplyNothing(p) \/ Fail(p)
    <3>1. turn' = [turn EXCEPT ![p] = NoTurn]
      BY <2>4 DEF Reply, ReplyNothing, Fail, Finish
    <3>2. QED
      BY <1>0, <2>1, <3>1, TurnShapes, OneTurn
  <2>5. QED
    BY <1>3, <2>2, <2>3, <2>4 DEF TurnStep
<1>4. ASSUME NEW p \in Panel, UserStep(p) PROVE PInv'
  <2>1. current' = current /\ opened' = opened /\ DOMAIN sessions' = Panel
    BY <1>0, <1>4 DEF UserStep, Submit, AnswerApproval, Stop, NewChat, OpenHistory, HidePicker,
                      Delete, Load
  <2>2. CASE Submit(p)
    <3>1. PICK mode \in Modes, slash \in BOOLEAN :
            turn' = [turn EXCEPT ![p] =
                       [at |-> "preparing", no |-> turns + 1, mode |-> mode,
                        aborted |-> FALSE, card |-> FALSE,
                        copy |-> IF slash THEN history'[p] ELSE << >>]]
      BY <2>2 DEF Submit
    <3>2. PICK t : t = [at |-> "preparing", no |-> turns + 1, mode |-> mode,
                        aborted |-> FALSE, card |-> FALSE,
                        copy |-> IF slash THEN history'[p] ELSE << >>]
      OBVIOUS
    <3>3. DOMAIN t = TurnFields /\ t.at = "preparing"
      BY <3>2 DEF TurnFields
    <3>4. turn' = [turn EXCEPT ![p] = t]
      BY <3>1, <3>2
    <3>5. QED
      BY <2>1, <3>3, <3>4, OneTurn
  <2>3. CASE AnswerApproval(p)
    BY <1>0, <2>1, <2>3, TurnShapes, OneTurn DEF AnswerApproval
  <2>4. CASE Stop(p)
    <3>1. PICK t : t = [Unblocked(turn[p]) EXCEPT !.aborted = TRUE]
      OBVIOUS
    <3>2. turn' = [turn EXCEPT ![p] = t]
      BY <2>4, <3>1 DEF Stop
    <3>3. DOMAIN t = TurnFields /\ t.at # "approval"
      BY <1>0, <3>1, TurnShapes
    <3>4. QED
      BY <2>1, <3>2, <3>3, OneTurn
  <2>5. CASE turn' = [turn EXCEPT ![p] = Cleared(@)]
    <3>1. PICK t : t = Cleared(turn[p])
      OBVIOUS
    <3>2. turn' = [turn EXCEPT ![p] = t]
      BY <2>5, <3>1
    <3>3. DOMAIN t = TurnFields /\ t.at = turn[p].at
      BY <1>0, <3>1, TurnShapes
    <3>4. QED
      BY <2>1, <3>2, <3>3, OneTurn
  <2>6. CASE turn' = [turn EXCEPT ![p].aborted = Busy(p)]
    <3>1. PICK t : t = [turn[p] EXCEPT !.aborted = Busy(p)]
      OBVIOUS
    <3>2. turn' = [turn EXCEPT ![p] = t]
      BY <2>6, <3>1
    <3>3. DOMAIN t = TurnFields /\ t.at = turn[p].at
      BY <1>0, <3>1, TurnShapes
    <3>4. QED
      BY <2>1, <3>2, <3>3, OneTurn
  <2>7. CASE turn' = turn
    BY <1>0, <2>1, <2>7 DEF PInv, Shape, WaitsOnOpenPanel
  <2>8. NewChat(p) => turn' = [turn EXCEPT ![p] = Cleared(@)]
    BY DEF NewChat
  <2>9. ASSUME NEW id \in Id, Load(p, id)
        PROVE  \/ turn' = turn
               \/ turn' = [turn EXCEPT ![p] = Cleared(@)]
               \/ turn' = [turn EXCEPT ![p].aborted = Busy(p)]
    BY <2>9 DEF Load
  <2>10. QED
    BY <1>4, <2>2, <2>3, <2>4, <2>5, <2>6, <2>7, <2>8, <2>9
       DEF UserStep, OpenHistory, HidePicker, Delete
<1>5. CASE UNCHANGED vars
  BY <1>5 DEF vars, PInv, Shape, WaitsOnOpenPanel
<1>6. QED
  BY <1>1, <1>2, <1>3, <1>4, <1>5 DEF Next

\* The invariant holds.
LEMMA PanelInvariance == Spec => []PInv
<1>1. Init => PInv
  BY DEF Init, PInv, Shape, WaitsOnOpenPanel, NoTurn, TurnFields
<1>2. QED
  BY <1>1, NextPInv, PTL DEF Spec

\* Of any number of panels opened one after the other, with turns of closed ones
\* still running: a turn waits for the user only on the panel that is open, so that
\* no turn waits for a click that cannot come for want of a window.
THEOREM WaitsInSight == Spec => []WaitsOnOpenPanel
<1>1. PInv => WaitsOnOpenPanel
  BY DEF PInv
<1>2. QED
  BY <1>1, PanelInvariance, PTL


-----------------------------------------------------------------------------
(* The list of saved conversations.                                          *)

\* Among others: no two of the conversations have the same id.
Distinct(list) == \A i, j \in 1 .. Len(list) : i < j => list[i].id # list[j].id

\* What Others keeps: the conversations with another id, which stay distinct.
LEMMA OthersFacts ==
  ASSUME NEW K, NEW list \in Seq(K), NEW id
  PROVE  /\ Others(list, id) \in Seq(K)
         /\ \A s : s \in ToSet(Others(list, id)) <=> (s \in ToSet(list) /\ s.id # id)
         /\ Distinct(list) => Distinct(Others(list, id))
<1>1. PICK S, f : S = {s \in ToSet(list) : s.id # id} /\ f = Others(list, id)
  OBVIOUS
<1>2. f = Filter(list, S) /\ f \in Seq(K)
  BY <1>1, FilterType DEF Others
<1>3. \A s : s \in ToSet(list) <=> \E i \in 1 .. Len(list) : list[i] = s
  BY DEF ToSet
<1>4. \A s : s \in ToSet(f) <=> \E i \in 1 .. Len(f) : f[i] = s
  BY <1>2 DEF ToSet
<1>5. \A s : s \in ToSet(f) <=> (s \in S /\ s \in ToSet(list))
  BY <1>2, <1>3, <1>4, FilterMembers
<1>6. ASSUME Distinct(list) PROVE Distinct(f)
  <2> SUFFICES ASSUME NEW i \in 1 .. Len(f), NEW j \in 1 .. Len(f), i < j
               PROVE  f[i].id # f[j].id
    BY DEF Distinct
  <2>1. PICK k \in 1 .. Len(list), l \in 1 .. Len(list) :
          k < l /\ list[k] = f[i] /\ list[l] = f[j]
    BY <1>2, FilterOrder
  <2>2. QED
    BY <1>6, <2>1 DEF Distinct
<1>7. QED
  BY <1>1, <1>2, <1>5, <1>6

\* The list after a save: the conversation first, then others of the list.
LEMMA UpsertFacts ==
  ASSUME NEW K, NEW list \in Seq(K), NEW s \in K
  PROVE  /\ Upsert(list, s) \in Seq(K)
         /\ Len(Upsert(list, s)) > 0 /\ Upsert(list, s)[1] = s
         /\ \A x \in ToSet(Upsert(list, s)) : x = s \/ (x \in ToSet(list) /\ x.id # s.id)
         /\ Distinct(list) => Distinct(Upsert(list, s))
         /\ Len(Others(list, s.id)) < MaxSessions =>
              \A x \in ToSet(list) : x.id # s.id => x \in ToSet(Upsert(list, s))
<1>1. PICK rest, all, top, L : /\ rest = Others(list, s.id)
                               /\ all = <<s>> \o rest
                               /\ top = IF Len(all) < MaxSessions THEN Len(all) ELSE MaxSessions
                               /\ L = Len(rest)
  OBVIOUS
<1>2. rest \in Seq(K) /\ L \in Nat
  BY <1>1, OthersFacts
<1>3. /\ all \in Seq(K) /\ Len(all) = L + 1 /\ all[1] = s
      /\ \A i \in 1 .. L : all[i + 1] = rest[i]
  BY <1>1, <1>2
<1>4. top \in 1 .. L + 1 /\ (L < MaxSessions => top = L + 1)
  BY <1>1, <1>3, PanelAssumption
<1>5. PICK up : up = Upsert(list, s)
  OBVIOUS
<1>6. up = SubSeq(all, 1, top)
  BY <1>1, <1>5 DEF Upsert
<1>7. /\ up \in Seq(K) /\ Len(up) = top
      /\ \A i \in 1 .. top : up[i] = all[i]
  BY <1>3, <1>4, <1>6
<1>8. \A x : x \in ToSet(rest) <=> (x \in ToSet(list) /\ x.id # s.id)
  BY <1>1, OthersFacts
<1>9. \A i \in 2 .. L + 1 : i - 1 \in 1 .. L /\ all[i] = rest[i - 1]
  BY <1>2, <1>3
<1>10. ASSUME NEW x \in ToSet(up) PROVE x = s \/ (x \in ToSet(list) /\ x.id # s.id)
  <2>1. PICK i \in 1 .. top : x = all[i]
    BY <1>7 DEF ToSet
  <2>2. CASE i = 1
    BY <1>3, <2>1, <2>2
  <2>3. CASE i # 1
    <3>1. i \in 2 .. L + 1
      BY <1>2, <1>4, <2>3
    <3>2. x \in ToSet(rest)
      BY <1>1, <1>2, <1>9, <2>1, <3>1 DEF ToSet
    <3>3. QED
      BY <1>8, <3>2
  <2>4. QED
    BY <2>2, <2>3
<1>11. ASSUME Distinct(list) PROVE Distinct(up)
  <2> SUFFICES ASSUME NEW i \in 1 .. top, NEW j \in 1 .. top, i < j
               PROVE  all[i].id # all[j].id
    BY <1>7 DEF Distinct
  <2>1. j \in 2 .. L + 1 /\ j - 1 \in 1 .. L /\ all[j] = rest[j - 1]
    BY <1>2, <1>4, <1>9
  <2>2. CASE i = 1
    <3>1. rest[j - 1] \in ToSet(rest)
      BY <1>1, <1>2, <2>1 DEF ToSet
    <3>2. QED
      BY <1>3, <1>8, <2>1, <2>2, <3>1
  <2>3. CASE i # 1
    <3>1. i - 1 \in 1 .. L /\ all[i] = rest[i - 1] /\ i - 1 < j - 1
      BY <1>2, <1>4, <1>9, <2>3
    <3>2. Distinct(rest)
      BY <1>1, <1>11, OthersFacts
    <3>3. QED
      BY <1>1, <2>1, <3>1, <3>2 DEF Distinct
  <2>4. QED
    BY <2>2, <2>3
<1>12. ASSUME L < MaxSessions, NEW x \in ToSet(list), x.id # s.id PROVE x \in ToSet(up)
  <2>1. x \in ToSet(rest)
    BY <1>8, <1>12
  <2>2. PICK i \in 1 .. L : x = rest[i]
    BY <1>1, <1>2, <2>1 DEF ToSet
  <2>3. i + 1 \in 1 .. top /\ up[i + 1] = x
    BY <1>2, <1>3, <1>4, <1>7, <1>12, <2>2
  <2>4. QED
    BY <1>7, <2>3 DEF ToSet
<1>13. QED
  BY <1>1, <1>3, <1>4, <1>5, <1>7, <1>10, <1>11, <1>12

\* Conversations with ids in 1 .. n.
Keep(n) == [id : 1 .. n, messages : Seq(Message)]

\* A list without one of the ids has room for the conversation with that id.
LEMMA Room ==
  ASSUME NEW n \in Nat, NEW list \in Seq(Keep(n)), Distinct(list), NEW id \in 1 .. n,
         \A x \in ToSet(list) : x.id # id
  PROVE  Len(list) < n
<1>1. PICK L, f, rest : /\ L = Len(list) /\ rest = (1 .. n) \ {id}
                        /\ f = [i \in 1 .. L |-> list[i].id]
  OBVIOUS
<1>2. L \in Nat /\ \A i \in 1 .. L : list[i] \in Keep(n) /\ list[i] \in ToSet(list)
  BY <1>1 DEF ToSet
<1>3. \A i \in 1 .. L : f[i] \in rest
  <2> TAKE i \in 1 .. L
  <2>1. list[i] \in Keep(n) /\ list[i].id # id
    BY <1>2
  <2>2. list[i].id \in 1 .. n
    BY <2>1 DEF Keep
  <2>3. QED
    BY <1>1, <2>1, <2>2
<1>4. \A i, j \in 1 .. L : i # j => f[i] # f[j]
  <2> SUFFICES ASSUME NEW i \in 1 .. L, NEW j \in 1 .. L, i # j PROVE list[i].id # list[j].id
    BY <1>1
  <2>1. i < j \/ j < i
    OBVIOUS
  <2>2. QED
    BY <1>1, <2>1 DEF Distinct
<1>5. f \in Injection(1 .. L, rest)
  BY <1>1, <1>3, <1>4 DEF Injection, IsInjective
<1>6. IsFiniteSet(1 .. n) /\ Cardinality(1 .. n) = n
  BY FS_Interval
<1>7. IsFiniteSet(rest) /\ Cardinality(rest) = n - 1
  BY <1>1, <1>6, FS_RemoveElement
<1>8. Cardinality(1 .. L) = L
  BY <1>2, FS_Interval
<1>9. Cardinality(1 .. L) <= Cardinality(rest)
  BY <1>5, <1>7, FS_Injection
<1>10. QED
  BY <1>1, <1>2, <1>7, <1>8, <1>9

-----------------------------------------------------------------------------
(* The inductive invariant of the types and of what an agent asks: per panel,  *)
(* the values of its variables fit together.                                 *)

Turn == [at : {"idle", "preparing", "asking", "approval"}, no : 0 .. MaxTurns,
         mode : {"plain", "agent"}, aborted : BOOLEAN, copy : Seq(Message), card : BOOLEAN]

\* A turn that will read its messages still finds its question at the end of them: in
\* the copy it made, or in the live history unless it was aborted.
Asking(t, h) ==
  t.at = "preparing" =>
    /\ ~ t.aborted => h # << >> /\ Last(h) = User(t.no)
    /\ t.copy # << >> => Last(t.copy) = User(t.no)

\* History h, active conversation a, saved ones s, turn t and picker k of panel p, when m
\* panels were opened, i conversations started and n messages sent.
Fine(h, a, s, t, k, p, m, i, n) ==
  /\ h \in Seq(Message)
  /\ a \in 0 .. i
  /\ s \in Seq(Keep(i)) /\ Distinct(s)
  /\ t \in Turn /\ (t.at # "idle" => t.no \in 1 .. n)
  /\ k \in SUBSET (1 .. i)
  /\ Asking(t, h)
  /\ IF p <= m THEN a # 0 ELSE t.at = "idle" /\ k = {}

Domains ==
  /\ history = [p \in Panel |-> history[p]]
  /\ active = [p \in Panel |-> active[p]]
  /\ sessions = [p \in Panel |-> sessions[p]]
  /\ turn = [p \in Panel |-> turn[p]]
  /\ picker = [p \in Panel |-> picker[p]]

Panels ==
  /\ Domains
  /\ \A p \in Panel : Fine(history[p], active[p], sessions[p], turn[p], picker[p],
                           p, opened, ids, turns)

Counters ==
  /\ current \in 0 .. opened /\ opened \in 0 .. MaxPanels
  /\ turns \in 0 .. MaxTurns /\ ids \in 0 .. MaxIds

Workspace ==
  /\ storage \in Seq(Keep(ids)) /\ Distinct(storage)
  /\ home \in [TurnNo -> 0 .. ids]
  /\ answered \subseteq [no : 1 .. turns, id : 1 .. ids]
  /\ stopped \subseteq 1 .. turns
  /\ deleted \subseteq 1 .. ids

TInv == Panels /\ Counters /\ Workspace /\ AgentAsksItsOwnQuestion

\* More conversations and more messages only widen what is fine.
LEMMA Wider ==
  ASSUME NEW h, NEW a, NEW s, NEW t, NEW k, NEW p, NEW l, NEW m, p <= l <=> p <= m,
         NEW i \in Nat, NEW n \in Nat, NEW i2 \in Nat, NEW n2 \in Nat, i <= i2, n <= n2,
         Fine(h, a, s, t, k, p, l, i, n)
  PROVE  Fine(h, a, s, t, k, p, m, i2, n2)
<1>1. 1 .. i \subseteq 1 .. i2 /\ 0 .. i \subseteq 0 .. i2 /\ 1 .. n \subseteq 1 .. n2
  OBVIOUS
<1>2. Keep(i) \subseteq Keep(i2)
  BY <1>1 DEF Keep
<1>3. Seq(Keep(i)) \subseteq Seq(Keep(i2))
  BY <1>2
<1>4. QED
  BY <1>1, <1>3 DEF Fine

\* The variables of panel p change to these values, those of other panels do not.
Changes(p, h, a, s, t, k) ==
  /\ history' = [history EXCEPT ![p] = h]
  /\ active' = [active EXCEPT ![p] = a]
  /\ sessions' = [sessions EXCEPT ![p] = s]
  /\ turn' = [turn EXCEPT ![p] = t]
  /\ picker' = [picker EXCEPT ![p] = k]

\* A step changes the variables of one panel: they must fit together again, the other
\* panels are as they were.
LEMMA OnePanel ==
  ASSUME Panels, Counters, Counters', ids <= ids', turns <= turns',
         NEW p \in Panel, \A q \in Panel \ {p} : q <= opened' <=> q <= opened,
         NEW h, NEW a, NEW s, NEW t, NEW k, Changes(p, h, a, s, t, k),
         Fine(h, a, s, t, k, p, opened', ids', turns')
  PROVE  Panels'
<1>1. /\ DOMAIN history = Panel /\ DOMAIN active = Panel /\ DOMAIN sessions = Panel
      /\ DOMAIN turn = Panel /\ DOMAIN picker = Panel
  BY DEF Panels, Domains
<1>2. Domains'
  BY <1>1 DEF Changes, Domains
<1>3. /\ history'[p] = h /\ active'[p] = a /\ sessions'[p] = s /\ turn'[p] = t
      /\ picker'[p] = k
  BY <1>1 DEF Changes
<1>4. ASSUME NEW q \in Panel \ {p}
      PROVE  Fine(history'[q], active'[q], sessions'[q], turn'[q], picker'[q],
                  q, opened', ids', turns')
  <2>1. /\ history'[q] = history[q] /\ active'[q] = active[q] /\ sessions'[q] = sessions[q]
        /\ turn'[q] = turn[q] /\ picker'[q] = picker[q]
    BY <1>1 DEF Changes
  <2>4. Fine(history[q], active[q], sessions[q], turn[q], picker[q], q, opened, ids, turns)
    BY DEF Panels
  <2>5. ids \in Nat /\ turns \in Nat /\ ids' \in Nat /\ turns' \in Nat
    BY DEF Counters
  <2>6. Fine(history[q], active[q], sessions[q], turn[q], picker[q], q, opened', ids', turns')
    BY <2>4, <2>5, Wider
  <2>7. QED
    BY <2>1, <2>6
<1>5. QED
  BY <1>2, <1>3, <1>4 DEF Panels

\* A variable a step leaves alone.
LEMMA Unchanged ==
  ASSUME Panels, NEW p \in Panel
  PROVE  /\ history = [history EXCEPT ![p] = history[p]]
         /\ active = [active EXCEPT ![p] = active[p]]
         /\ sessions = [sessions EXCEPT ![p] = sessions[p]]
         /\ turn = [turn EXCEPT ![p] = turn[p]]
         /\ picker = [picker EXCEPT ![p] = picker[p]]
BY DEF Panels, Domains

\* The parts of the workspace grow or stay.
LEMMA SameWorkspace ==
  ASSUME Workspace, Counters, Counters', ids <= ids', turns <= turns',
         home' = home, answered' = answered, stopped' = stopped, deleted' = deleted,
         storage' \in Seq(Keep(ids')), Distinct(storage')
  PROVE  Workspace'
<1>1. /\ 1 .. ids \subseteq 1 .. ids' /\ 0 .. ids \subseteq 0 .. ids'
      /\ 1 .. turns \subseteq 1 .. turns'
  BY DEF Counters
<1>2. home' \in [TurnNo -> 0 .. ids']
  BY <1>1 DEF Workspace
<1>3. answered' \subseteq [no : 1 .. turns', id : 1 .. ids']
  BY <1>1 DEF Workspace
<1>4. stopped' \subseteq 1 .. turns' /\ deleted' \subseteq 1 .. ids'
  BY <1>1 DEF Workspace
<1>5. QED
  BY <1>2, <1>3, <1>4 DEF Workspace

LEMMA StorageWider ==
  ASSUME NEW i \in Nat, NEW j \in Nat, i <= j, NEW s \in Seq(Keep(i))
  PROVE  s \in Seq(Keep(j))
<1>1. Keep(i) \subseteq Keep(j)
  BY DEF Keep
<1>2. QED
  BY <1>1

\* What a panel saves, and what the storage is then.
LEMMA SavedFacts ==
  ASSUME Panels, Counters, Workspace, NEW p \in Panel, p <= opened, NEW h \in Seq(Message)
  PROVE  /\ Saved(p, h) \in Seq(Keep(ids)) /\ Distinct(Saved(p, h))
         /\ Stored(p, h) \in Seq(Keep(ids)) /\ Distinct(Stored(p, h))
<1>1. Fine(history[p], active[p], sessions[p], turn[p], picker[p], p, opened, ids, turns)
  BY DEF Panels
<1>2. PICK s, K : s = Session(active[p], h) /\ K = Keep(ids)
  OBVIOUS
<1>3. active[p] \in 1 .. ids /\ sessions[p] \in Seq(K) /\ Distinct(sessions[p])
  BY <1>1, <1>2 DEF Fine, Counters
<1>4. s \in K
  BY <1>2, <1>3 DEF Session, Keep
<1>5. Upsert(sessions[p], s) \in Seq(K) /\ Distinct(Upsert(sessions[p], s))
  BY <1>3, <1>4, UpsertFacts
<1>6. Saved(p, h) \in Seq(K) /\ Distinct(Saved(p, h))
  BY <1>2, <1>3, <1>5 DEF Saved
<1>7. QED
  BY <1>2, <1>6 DEF Stored, Workspace

\* What the steps do to a turn.
LEMMA TurnFacts ==
  ASSUME NEW t \in Turn
  PROVE  /\ Unblocked(t) \in Turn /\ Unblocked(t).no = t.no
         /\ Unblocked(t).at = (IF t.at = "approval" THEN "asking" ELSE t.at)
         /\ Unblocked(t).aborted = t.aborted /\ Unblocked(t).copy = t.copy
         /\ Cleared(t) \in Turn /\ Cleared(t).no = t.no /\ Cleared(t).at = t.at
         /\ Cleared(t).copy = t.copy /\ (t.at # "idle" => Cleared(t).aborted)
         /\ \A b \in BOOLEAN : /\ [t EXCEPT !.aborted = b] \in Turn
                               /\ [t EXCEPT !.aborted = b].no = t.no
                               /\ [t EXCEPT !.aborted = b].at = t.at
                               /\ [t EXCEPT !.aborted = b].copy = t.copy
                               /\ [t EXCEPT !.aborted = b].aborted = b
         /\ NoTurn \in Turn /\ NoTurn.at = "idle"
<1>1. /\ Unblocked(t) \in Turn /\ Unblocked(t).no = t.no
      /\ Unblocked(t).at = (IF t.at = "approval" THEN "asking" ELSE t.at)
      /\ Unblocked(t).aborted = t.aborted /\ Unblocked(t).copy = t.copy
  BY DEF Unblocked, Turn
<1>2. /\ Cleared(t) \in Turn /\ Cleared(t).no = t.no /\ Cleared(t).at = t.at
      /\ Cleared(t).copy = t.copy /\ (t.at # "idle" => Cleared(t).aborted)
  BY DEF Cleared, Turn
<1>3. \A b \in BOOLEAN : /\ [t EXCEPT !.aborted = b] \in Turn
                         /\ [t EXCEPT !.aborted = b].no = t.no
                         /\ [t EXCEPT !.aborted = b].at = t.at
                         /\ [t EXCEPT !.aborted = b].copy = t.copy
                         /\ [t EXCEPT !.aborted = b].aborted = b
  BY DEF Turn
<1>4. NoTurn \in Turn /\ NoTurn.at = "idle"
  <2>1. << >> \in Seq(Message)
    OBVIOUS
  <2>2. 0 \in 0 .. MaxTurns
    BY PanelAssumption
  <2>3. QED
    BY <2>1, <2>2 DEF NoTurn, Turn
<1>5. QED
  BY <1>1, <1>2, <1>3, <1>4

\* The invariant starts.
LEMMA InitTInv == Init => TInv
<1> SUFFICES ASSUME Init PROVE TInv
  OBVIOUS
<1>1. Counters
  BY PanelAssumption DEF Init, Counters
<1>2. PICK e : e = << >>
  OBVIOUS
<1>3. \A i : e \in Seq(Keep(i)) /\ Distinct(e)
  BY <1>2 DEF Distinct
<1>4. e \in Seq(Message)
  BY <1>2
<1>5. Workspace
  BY <1>2, <1>3 DEF Init, Workspace
<1>6. PICK t : t = NoTurn
  OBVIOUS
<1>7. t \in Turn /\ t.at = "idle"
  <2>1. NoTurn \in Turn
    BY <1>2, <1>4, PanelAssumption DEF NoTurn, Turn
  <2>2. QED
    BY <1>6, <2>1 DEF NoTurn
<1>8. \A p \in Panel : Fine(e, 0, e, t, {}, p, 0, 0, 0)
  BY <1>3, <1>4, <1>7 DEF Fine, Asking, Panel
<1>10. Panels
  <2>1. ASSUME NEW p \in Panel
        PROVE  Fine(history[p], active[p], sessions[p], turn[p], picker[p], p, opened, ids, turns)
    BY <1>2, <1>6, <1>8 DEF Init
  <2>2. Domains
    BY DEF Init, Domains
  <2>3. QED
    BY <2>1, <2>2 DEF Panels
<1>11. QED
  BY <1>1, <1>5, <1>10 DEF TInv, Init, AgentAsksItsOwnQuestion

\* What the invariant says of one panel.
LEMMA PanelFacts ==
  ASSUME TInv, NEW p \in Panel
  PROVE  /\ Fine(history[p], active[p], sessions[p], turn[p], picker[p], p, opened, ids, turns)
         /\ p \in Nat /\ opened \in Nat /\ ids \in Nat /\ turns \in Nat
         /\ p = current => p <= opened
         /\ Busy(p) => p <= opened
         /\ picker[p] # {} => p <= opened
<1>1. Fine(history[p], active[p], sessions[p], turn[p], picker[p], p, opened, ids, turns)
  BY DEF TInv, Panels
<1>2. QED
  BY <1>1 DEF Fine, TInv, Counters, Busy, Panel

\* The transcript of the older version makes a list of at most one conversation.
LEMMA MigratedFacts ==
  ASSUME NEW n, NEW id \in 1 .. n
  PROVE  /\ Legacy \in Seq(Message) /\ Len(Legacy) \in Nat
         /\ Migrated(id) \in Seq(Keep(n)) /\ Distinct(Migrated(id))
         /\ \A s \in ToSet(Migrated(id)) : s.messages = Legacy
<1>1. [role : {"user", "assistant"}, turn : {0}] \subseteq Message
  BY PanelAssumption DEF Message
<1>2. Legacy \in Seq(Message)
  <2>1. PICK A, B : A = [role : {"user", "assistant"}, turn : {0}] /\ B = Message
    OBVIOUS
  <2>2. A \subseteq B /\ Legacy \in Seq(A)
    BY <1>1, <2>1, PanelAssumption
  <2>3. Seq(A) \subseteq Seq(B)
    BY <2>2
  <2>4. QED
    BY <2>1, <2>2, <2>3
<1>3. PICK s, list : s = Session(id, Legacy) /\ list = <<s>>
  OBVIOUS
<1>4. s \in Keep(n) /\ s.messages = Legacy
  BY <1>2, <1>3 DEF Session, Keep
<1>5. /\ list \in Seq(Keep(n)) /\ Len(list) = 1 /\ Distinct(list)
      /\ \A x \in ToSet(list) : x = s
  BY <1>3, <1>4 DEF Distinct, ToSet
<1>6. << >> \in Seq(Keep(n)) /\ Distinct(<< >>) /\ ToSet(<< >>) = {}
  BY DEF Distinct, ToSet
<1>7. CASE Migrated(id) = << >>
  BY <1>2, <1>6, <1>7
<1>8. CASE Migrated(id) = list
  BY <1>2, <1>4, <1>5, <1>8
<1>9. QED
  BY <1>3, <1>7, <1>8 DEF Migrated

\* A panel is opened.
LEMMA OpenTInv == TInv /\ Open => TInv'
<1> SUFFICES ASSUME TInv, Open PROVE TInv'
  OBVIOUS
<1> USE DEF TInv
<1>1. PICK p : p = opened + 1
  OBVIOUS
<1>2. p \in Panel /\ ~ (p <= opened) /\ Counters' /\ ids <= ids' /\ p <= opened'
  BY <1>1, PanelAssumption DEF Open, Counters, Panel
<1>3. \A q \in Panel \ {p} : q <= opened' <=> q <= opened
  BY <1>1 DEF Open, Counters, Panel
<1>4. Fine(history[p], active[p], sessions[p], turn[p], picker[p], p, opened, ids, turns)
  BY <1>2, PanelFacts
<1>5. /\ turn' = [turn EXCEPT ![p] = turn[p]] /\ picker' = [picker EXCEPT ![p] = picker[p]]
  BY <1>1, <1>2, Unchanged DEF Open
<1>6. storage \in Seq(Keep(ids')) /\ Distinct(storage) /\ turns' = turns
  BY <1>2, StorageWider DEF Open, Workspace, Counters
<1>7. Workspace'
  BY <1>2, <1>6, SameWorkspace DEF Open, ghosts, Counters
<1>8. turn[p].at = "idle" /\ turn[p] \in Turn /\ picker[p] = {} /\ history[p] \in Seq(Message)
  BY <1>2, <1>4 DEF Fine
<1>9. ASSUME NEW h \in Seq(Message), NEW a \in 1 .. ids', NEW s \in Seq(Keep(ids')),
             Distinct(s), sessions' = [sessions EXCEPT ![p] = s],
             history' = [history EXCEPT ![p] = h], active' = [active EXCEPT ![p] = a]
      PROVE  Panels'
  <2>1. a \in 0 .. ids' /\ a # 0
    BY <1>2 DEF Counters
  <2>4. Fine(h, a, s, turn[p], picker[p], p, opened', ids', turns')
    BY <1>2, <1>8, <1>9, <2>1 DEF Fine, Asking
  <2>5. turns <= turns'
    BY <1>6 DEF Counters
  <2>6. Changes(p, h, a, s, turn[p], picker[p])
    BY <1>5, <1>9 DEF Changes
  <2>7. QED
    BY <1>2, <1>3, <2>4, <2>5, <2>6, OnePanel
<1>10. Panels'
  <2>1. CASE storage = << >>
    <3>1. /\ ids' = ids + 1 /\ active' = [active EXCEPT ![p] = ids + 1]
          /\ history' = [history EXCEPT ![p] = Legacy]
          /\ sessions' = [sessions EXCEPT ![p] = Migrated(ids + 1)]
      BY <1>1, <2>1 DEF Open
    <3>2. ids + 1 \in 1 .. ids'
      BY <3>1 DEF Counters
    <3>3. /\ Legacy \in Seq(Message)
          /\ Migrated(ids + 1) \in Seq(Keep(ids')) /\ Distinct(Migrated(ids + 1))
      BY <3>2, MigratedFacts
    <3>4. QED
      BY <1>9, <3>1, <3>2, <3>3
  <2>2. CASE storage # << >>
    <3>1. PICK s : s = Head(storage)
      OBVIOUS
    <3>2. s \in Keep(ids')
      BY <1>6, <2>2, <3>1
    <3>3. s.id \in 1 .. ids' /\ s.messages \in Seq(Message)
      BY <3>2 DEF Keep
    <3>4. /\ active' = [active EXCEPT ![p] = s.id]
          /\ history' = [history EXCEPT ![p] = s.messages]
          /\ sessions' = [sessions EXCEPT ![p] = storage]
      BY <1>1, <2>2, <3>1 DEF Open
    <3>5. QED
      BY <1>6, <1>9, <3>3, <3>4
  <2>3. QED
    BY <2>1, <2>2
<1>11. AgentAsksItsOwnQuestion'
  BY DEF Open, ghosts, AgentAsksItsOwnQuestion
<1>12. QED
  BY <1>2, <1>7, <1>10, <1>11

\* Steps that change the turn of an open panel, and no list.
LEMMA TurnOnly ==
  ASSUME TInv, NEW p \in Panel, p <= opened, NEW t \in Turn,
         turn' = [turn EXCEPT ![p] = t],
         t.at # "idle" => t.no \in 1 .. turns,
         Asking(t, history[p]),
         UNCHANGED <<opened, history, active, sessions, picker, storage, turns, ids, home,
                     answered, deleted>>,
         current' \in {0, current},
         stopped' \subseteq 1 .. turns,
         AgentAsksItsOwnQuestion'
  PROVE  TInv'
<1> USE DEF TInv
<1>1. Counters' /\ ids <= ids' /\ turns <= turns'
  BY DEF Counters
<1>2. Workspace'
  BY DEF Workspace
<1>3. PICK h, a, s, k : h = history[p] /\ a = active[p] /\ s = sessions[p] /\ k = picker[p]
  OBVIOUS
<1>4. Fine(h, a, s, turn[p], k, p, opened, ids, turns)
  BY <1>3, PanelFacts
<1>5. Fine(h, a, s, t, k, p, opened', ids', turns')
  BY <1>3, <1>4 DEF Fine
<1>6. Changes(p, h, a, s, t, k)
  BY <1>3, Unchanged DEF Changes
<1>7. \A q \in Panel \ {p} : q <= opened' <=> q <= opened
  OBVIOUS
<1>8. Panels'
  BY <1>1, <1>5, <1>6, <1>7, OnePanel
<1>9. QED
  BY <1>1, <1>2, <1>8

\* The panel is closed, a request for approval comes or is answered, the user stops.
LEMMA TurnStepsTInv ==
  ASSUME TInv
  PROVE  /\ Close => TInv'
         /\ \A p \in Panel : Ask(p) \/ RequestApproval(p) \/ AnswerApproval(p) \/ Stop(p) => TInv'
<1>1. ASSUME NEW p \in Panel
      PROVE  /\ turn[p] \in Turn /\ (turn[p].at # "idle" => turn[p].no \in 1 .. turns)
             /\ Asking(turn[p], history[p]) /\ stopped \subseteq 1 .. turns
             /\ AgentAsksItsOwnQuestion
  BY PanelFacts DEF Fine, TInv, Workspace
<1>2. ASSUME Close PROVE TInv'
  <2>1. current \in Panel /\ current <= opened
    BY <1>2, PanelAssumption DEF Close, TInv, Counters, Panel
  <2>2. PICK t : t = Unblocked(turn[current])
    OBVIOUS
  <2>3. /\ t \in Turn /\ (t.at # "idle" => t.no \in 1 .. turns)
        /\ Asking(t, history[current])
    <3>1. /\ t \in Turn /\ t.no = turn[current].no
          /\ t.at = (IF turn[current].at = "approval" THEN "asking" ELSE turn[current].at)
          /\ t.aborted = turn[current].aborted /\ t.copy = turn[current].copy
      BY <1>1, <2>1, <2>2, TurnFacts
    <3>2. QED
      BY <1>1, <2>1, <3>1 DEF Asking
  <2>4. turn' = [turn EXCEPT ![current] = t]
    BY <1>2, <2>2 DEF Close
  <2>5. AgentAsksItsOwnQuestion'
    BY <1>1, <1>2, <2>1 DEF Close, ghosts, AgentAsksItsOwnQuestion
  <2>6. current' \in {0, current} /\ stopped' \subseteq 1 .. turns
    BY <1>1, <1>2, <2>1 DEF Close, ghosts
  <2>7. QED
    BY <1>2, <2>1, <2>3, <2>4, <2>5, <2>6, TurnOnly DEF Close, ghosts
<1>3. ASSUME NEW p \in Panel, Ask(p) PROVE TInv'
  <2>1. p <= opened /\ turn[p].at = "preparing"
    BY <1>3, PanelFacts DEF Ask
  <2>2. PICK t : t = [turn[p] EXCEPT !.at = "asking"]
    OBVIOUS
  <2>3. t \in Turn /\ t.at = "asking" /\ t.no = turn[p].no
    BY <1>1, <2>2 DEF Turn
  <2>4. PICK r : r = [no |-> turn[p].no, mode |-> turn[p].mode,
                      messages |-> IF turn[p].copy # << >> THEN turn[p].copy ELSE history[p]]
    OBVIOUS
  <2>5. prompts' = prompts \union {r} /\ turn' = [turn EXCEPT ![p] = t]
    BY <1>3, <2>2, <2>4 DEF Ask
  <2>6. r.mode = "agent" => r.messages # << >> /\ Last(r.messages) = User(r.no)
    <3>1. CASE turn[p].copy # << >>
      BY <1>1, <2>1, <2>4, <3>1 DEF Asking
    <3>2. CASE turn[p].copy = << >>
      BY <1>1, <1>3, <2>1, <2>4, <3>2 DEF Asking, Ask
    <3>3. QED
      BY <3>1, <3>2
  <2>7. AgentAsksItsOwnQuestion'
    BY <1>1, <2>5, <2>6 DEF AgentAsksItsOwnQuestion
  <2>8. Asking(t, history[p]) /\ t.no \in 1 .. turns
    BY <1>1, <2>1, <2>3 DEF Asking
  <2>9. QED
    BY <1>1, <1>3, <2>1, <2>3, <2>5, <2>7, <2>8, TurnOnly DEF Ask
<1>4. ASSUME NEW p \in Panel, RequestApproval(p) PROVE TInv'
  <2>1. p <= opened /\ turn[p].at = "asking"
    BY <1>4, PanelFacts DEF RequestApproval
  <2>2. PICK t : t = [turn[p] EXCEPT !.at = "approval", !.card = TRUE]
    OBVIOUS
  <2>3. t \in Turn /\ t.at = "approval" /\ t.no = turn[p].no
    BY <1>1, <2>2 DEF Turn
  <2>4. turn' = [turn EXCEPT ![p] = t]
    BY <1>4, <2>2 DEF RequestApproval
  <2>5. Asking(t, history[p]) /\ t.no \in 1 .. turns
    BY <1>1, <2>1, <2>3 DEF Asking
  <2>6. AgentAsksItsOwnQuestion'
    BY <1>1, <1>4 DEF RequestApproval, ghosts, AgentAsksItsOwnQuestion
  <2>7. QED
    BY <1>1, <1>4, <2>1, <2>3, <2>4, <2>5, <2>6, TurnOnly DEF RequestApproval, ghosts
<1>5. ASSUME NEW p \in Panel, AnswerApproval(p) PROVE TInv'
  <2>1. p <= opened
    BY <1>5, PanelFacts DEF AnswerApproval
  <2>2. PICK t : t = Unblocked(turn[p])
    OBVIOUS
  <2>3. /\ t \in Turn /\ t.no = turn[p].no
        /\ t.at = (IF turn[p].at = "approval" THEN "asking" ELSE turn[p].at)
        /\ t.aborted = turn[p].aborted /\ t.copy = turn[p].copy
    BY <1>1, <2>2, TurnFacts
  <2>4. turn' = [turn EXCEPT ![p] = t]
    BY <1>5, <2>2 DEF AnswerApproval
  <2>5. Asking(t, history[p]) /\ (t.at # "idle" => t.no \in 1 .. turns)
    BY <1>1, <2>3 DEF Asking
  <2>6. AgentAsksItsOwnQuestion'
    BY <1>1, <1>5 DEF AnswerApproval, ghosts, AgentAsksItsOwnQuestion
  <2>7. QED
    BY <1>1, <1>5, <2>1, <2>3, <2>4, <2>5, <2>6, TurnOnly DEF AnswerApproval, ghosts
<1>6. ASSUME NEW p \in Panel, Stop(p) PROVE TInv'
  <2>1. p <= opened /\ turn[p].at # "idle"
    BY <1>6, PanelFacts DEF Stop, Busy
  <2>2. PICK t : t = [Unblocked(turn[p]) EXCEPT !.aborted = TRUE]
    OBVIOUS
  <2>3. /\ t \in Turn /\ t.no = turn[p].no /\ t.aborted /\ t.copy = turn[p].copy
        /\ t.at = (IF turn[p].at = "approval" THEN "asking" ELSE turn[p].at)
    <3>1. PICK u : u = Unblocked(turn[p])
      OBVIOUS
    <3>2. /\ u \in Turn /\ u.no = turn[p].no /\ u.copy = turn[p].copy
          /\ u.at = (IF turn[p].at = "approval" THEN "asking" ELSE turn[p].at)
      BY <1>1, <3>1, TurnFacts
    <3>3. QED
      BY <2>2, <3>1, <3>2, TurnFacts
  <2>4. turn' = [turn EXCEPT ![p] = t]
    BY <1>6, <2>2 DEF Stop
  <2>5. Asking(t, history[p]) /\ (t.at # "idle" => t.no \in 1 .. turns)
    BY <1>1, <2>1, <2>3 DEF Asking
  <2>6. AgentAsksItsOwnQuestion'
    BY <1>1, <1>6 DEF Stop, AgentAsksItsOwnQuestion
  <2>7. stopped' \subseteq 1 .. turns
    BY <1>1, <1>6, <2>1 DEF Stop
  <2>8. QED
    BY <1>6, <2>1, <2>3, <2>4, <2>5, <2>6, <2>7, TurnOnly DEF Stop
<1>7. QED
  BY <1>2, <1>3, <1>4, <1>5, <1>6

\* A step of an opened panel, in general.
LEMMA PanelStep ==
  ASSUME TInv, NEW p \in Panel, p <= opened,
         NEW h \in Seq(Message), NEW a \in 1 .. ids', NEW s \in Seq(Keep(ids')), Distinct(s),
         NEW t \in Turn, t.at # "idle" => t.no \in 1 .. turns', Asking(t, h),
         NEW k \in SUBSET (1 .. ids'), Changes(p, h, a, s, t, k),
         current' = current, opened' = opened,
         ids' \in ids .. MaxIds, turns' \in turns .. MaxTurns,
         Workspace', AgentAsksItsOwnQuestion'
  PROVE  TInv'
<1> USE DEF TInv
<1>1. Counters' /\ ids <= ids' /\ turns <= turns'
  BY PanelAssumption DEF Counters
<1>2. a \in 0 .. ids' /\ a # 0
  BY <1>1 DEF Counters
<1>3. Fine(h, a, s, t, k, p, opened', ids', turns')
  BY <1>2 DEF Fine
<1>4. \A q \in Panel \ {p} : q <= opened' <=> q <= opened
  OBVIOUS
<1>5. Panels'
  BY <1>1, <1>3, <1>4, OnePanel
<1>6. QED
  BY <1>1, <1>5

\* What is known of an opened panel before a step.
LEMMA OpenedFacts ==
  ASSUME TInv, NEW p \in Panel, p <= opened
  PROVE  /\ history[p] \in Seq(Message) /\ active[p] \in 1 .. ids
         /\ sessions[p] \in Seq(Keep(ids)) /\ Distinct(sessions[p])
         /\ turn[p] \in Turn /\ (turn[p].at # "idle" => turn[p].no \in 1 .. turns)
         /\ Asking(turn[p], history[p])
         /\ picker[p] \in SUBSET (1 .. ids)
         /\ ids \in Nat /\ turns \in Nat /\ ids <= MaxIds /\ turns <= MaxTurns
         /\ MaxIds \in Nat /\ MaxTurns \in Nat
<1>1. Fine(history[p], active[p], sessions[p], turn[p], picker[p], p, opened, ids, turns)
  BY PanelFacts
<1>2. /\ ids \in Nat /\ turns \in Nat /\ ids <= MaxIds /\ turns <= MaxTurns
      /\ MaxIds \in Nat /\ MaxTurns \in Nat
  BY PanelAssumption DEF TInv, Counters
<1>3. active[p] \in 1 .. ids
  BY <1>1, <1>2 DEF Fine
<1>4. QED
  BY <1>1, <1>2, <1>3 DEF Fine

\* The messages of the turns are messages.
LEMMA MessageFacts ==
  ASSUME NEW n \in TurnNo
  PROVE  /\ User(n) \in Message /\ User(n).role = "user" /\ User(n).turn = n
         /\ Assistant(n) \in Message /\ Assistant(n).role = "assistant" /\ Assistant(n).turn = n
BY PanelAssumption DEF User, Assistant, Message, TurnNo

\* A trimmed conversation still ends with the message just added.
LEMMA TrimFacts ==
  ASSUME NEW h \in Seq(Message), NEW m \in Message
  PROVE  /\ Trim(Append(h, m)) \in Seq(Message) /\ Trim(Append(h, m)) # << >>
         /\ Last(Trim(Append(h, m))) = m
         /\ Len(h) < MaxHistory => Trim(Append(h, m)) = Append(h, m)
<1>1. PICK g, L : g = Append(h, m) /\ L = Len(h)
  OBVIOUS
<1>2. L \in Nat /\ g \in Seq(Message) /\ Len(g) = L + 1 /\ g[L + 1] = m
  BY <1>1
<1>3. MaxHistory \in Nat /\ MaxHistory > 0
  BY PanelAssumption
<1>4. CASE Len(g) > MaxHistory
  <2>1. PICK f, from : from = Len(g) - MaxHistory + 1 /\ f = SubSeq(g, from, Len(g))
    OBVIOUS
  <2>2. from \in 1 .. L + 1
    BY <1>2, <1>3, <1>4, <2>1
  <2>3. f \in Seq(Message) /\ Len(f) = L + 1 - from + 1 /\ f[L + 1 - from + 1] = g[L + 1]
    BY <1>2, <2>1, <2>2
  <2>4. f # << >> /\ Last(f) = m
    BY <1>2, <2>2, <2>3 DEF Last
  <2>5. Trim(g) = f
    BY <1>4, <2>1 DEF Trim
  <2>6. QED
    BY <1>1, <1>2, <1>3, <1>4, <2>3, <2>4, <2>5
<1>5. CASE ~ (Len(g) > MaxHistory)
  <2>1. Trim(g) = g
    BY <1>5 DEF Trim
  <2>2. g # << >> /\ Last(g) = m
    BY <1>2 DEF Last
  <2>3. QED
    BY <1>1, <1>2, <2>1, <2>2
<1>6. QED
  BY <1>4, <1>5

\* A message is sent.
LEMMA SubmitTInv == ASSUME TInv, NEW p \in Panel, Submit(p) PROVE TInv'
<1>0. p <= opened
  BY PanelFacts DEF Submit
<1>1. PICK n, h : n = turns + 1 /\ h = Trim(Append(history[p], User(turns + 1)))
  OBVIOUS
<1>2. n \in TurnNo /\ n \in Nat
  BY <1>0, <1>1, OpenedFacts DEF Submit, TurnNo
<1>3. h \in Seq(Message) /\ h # << >> /\ Last(h) = User(n)
  BY <1>0, <1>1, <1>2, OpenedFacts, MessageFacts, TrimFacts
<1>4. history' = [history EXCEPT ![p] = h] /\ history'[p] = h
  <2>1. DOMAIN history = Panel
    BY DEF TInv, Panels, Domains
  <2>2. QED
    BY <1>1, <2>1 DEF Submit
<1>5. PICK mode \in Modes, slash \in BOOLEAN :
        turn' = [turn EXCEPT ![p] =
                   [at |-> "preparing", no |-> turns + 1, mode |-> mode,
                    aborted |-> FALSE, card |-> FALSE,
                    copy |-> IF slash THEN history'[p] ELSE << >>]]
  BY DEF Submit
<1>6. PICK copy : copy = IF slash THEN h ELSE << >>
  OBVIOUS
<1>7. PICK t : t = [at |-> "preparing", no |-> n, mode |-> mode, aborted |-> FALSE,
                    card |-> FALSE, copy |-> copy]
  OBVIOUS
<1>8. turn' = [turn EXCEPT ![p] = t]
  BY <1>1, <1>4, <1>5, <1>6, <1>7
<1>9. copy \in Seq(Message) /\ (copy # << >> => Last(copy) = User(n))
  BY <1>3, <1>6
<1>10. t \in Turn
  <2>1. mode \in {"plain", "agent"} /\ n \in 0 .. MaxTurns
    BY <1>2, PanelAssumption DEF TurnNo
  <2>2. QED
    BY <1>7, <1>9, <2>1 DEF Turn
<1>11. t.no \in 1 .. turns' /\ turns' = n /\ turns' \in turns .. MaxTurns /\ ids' = ids
  BY <1>0, <1>1, <1>2, <1>7, OpenedFacts DEF Submit, TurnNo
<1>12. Asking(t, h)
  BY <1>3, <1>7, <1>9 DEF Asking
<1>13. PICK a, s, k : a = active[p] /\ s = sessions[p] /\ k = picker[p]
  OBVIOUS
<1>14. Changes(p, h, a, s, t, k)
  <2>1. Panels
    BY DEF TInv
  <2>2. QED
    BY <1>4, <1>8, <1>13, <2>1, Unchanged DEF Changes, Submit
<1>15. Workspace'
  <2>1. home' = [home EXCEPT ![n] = active[p]] /\ home \in [TurnNo -> 0 .. ids]
    BY <1>1 DEF Submit, TInv, Workspace
  <2>2. active[p] \in 0 .. ids
    BY <1>0, OpenedFacts
  <2>3. home' \in [TurnNo -> 0 .. ids]
    BY <1>2, <2>1, <2>2
  <2>4. 1 .. turns \subseteq 1 .. turns'
    BY <1>0, <1>11, OpenedFacts
  <2>5. stopped' \subseteq 1 .. turns' /\ answered' \subseteq [no : 1 .. turns', id : 1 .. ids]
    BY <2>4 DEF Submit, TInv, Workspace
  <2>6. QED
    BY <1>11, <2>3, <2>5 DEF Submit, TInv, Workspace
<1>16. AgentAsksItsOwnQuestion'
  BY DEF Submit, TInv, AgentAsksItsOwnQuestion
<1>17. a \in 1 .. ids' /\ s \in Seq(Keep(ids')) /\ Distinct(s) /\ k \in SUBSET (1 .. ids')
  BY <1>0, <1>11, <1>13, OpenedFacts
<1>18. ids' \in ids .. MaxIds
  BY <1>0, <1>11, OpenedFacts
<1>19. current' = current /\ opened' = opened
  BY DEF Submit
<1>20. QED
  BY <1>0, <1>3, <1>10, <1>11, <1>12, <1>14, <1>15, <1>16, <1>17, <1>18, <1>19, PanelStep

\* A turn ends: the answer joins the conversation, or the question is dropped, and the
\* conversation is saved.
LEMMA FinishTInv ==
  ASSUME TInv, NEW p \in Panel, Reply(p) \/ ReplyNothing(p) \/ Fail(p)
  PROVE  TInv'
<1>0. p <= opened /\ turn[p].at # "idle"
  BY PanelFacts DEF Reply, ReplyNothing, Fail, Busy
<1>1. turn[p].no \in 1 .. turns /\ turn[p].no \in TurnNo
  BY <1>0, OpenedFacts DEF TurnNo
<1>2. PICK h \in Seq(Message) : Finish(p, h)
  <2>1. CASE Reply(p)
    <3>1. Append(history[p], Assistant(turn[p].no)) \in Seq(Message)
      BY <1>0, <1>1, OpenedFacts, MessageFacts
    <3>2. QED
      BY <2>1, <3>1 DEF Reply
  <2>2. CASE ReplyNothing(p)
    BY <1>0, <2>2, OpenedFacts DEF ReplyNothing
  <2>3. CASE Fail(p)
    <3>1. PICK g : g = history[p]
      OBVIOUS
    <3>2. g \in Seq(Message) /\ (g # << >> => Front(g) \in Seq(Message))
      BY <1>0, <3>1, OpenedFacts DEF Front
    <3>3. PICK h : h = IF g # << >> /\ Last(g).role = "user" THEN Front(g) ELSE g
      OBVIOUS
    <3>4. h \in Seq(Message) /\ Finish(p, h)
      BY <2>3, <3>1, <3>2, <3>3 DEF Fail
    <3>5. QED
      BY <3>4
  <2>4. QED
    BY <2>1, <2>2, <2>3
<1>3. PICK s, t : s = Saved(p, h) /\ t = NoTurn
  OBVIOUS
<1>4. /\ history' = [history EXCEPT ![p] = h] /\ turn' = [turn EXCEPT ![p] = t]
      /\ sessions' = [sessions EXCEPT ![p] = s] /\ storage' = Stored(p, h)
  BY <1>2, <1>3 DEF Finish
<1>5. /\ UNCHANGED <<current, opened, active, picker, turns, ids, home, prompts, stopped, deleted>>
      /\ answered' \subseteq answered \union {[no |-> turn[p].no, id |-> active[p]]}
  BY DEF Reply, ReplyNothing, Fail, ghosts
<1>6. /\ s \in Seq(Keep(ids)) /\ Distinct(s)
      /\ storage' \in Seq(Keep(ids)) /\ Distinct(storage')
  BY <1>0, <1>3, <1>4, SavedFacts DEF TInv
<1>7. t \in Turn /\ t.at = "idle"
  BY <1>0, <1>3, OpenedFacts, TurnFacts
<1>8. PICK a, k : a = active[p] /\ k = picker[p]
  OBVIOUS
<1>9. Changes(p, h, a, s, t, k)
  <2>1. Panels
    BY DEF TInv
  <2>2. QED
    BY <1>4, <1>5, <1>8, <2>1, Unchanged DEF Changes
<1>10. a \in 1 .. ids /\ k \in SUBSET (1 .. ids) /\ Asking(t, h)
  BY <1>0, <1>7, <1>8, OpenedFacts DEF Asking
<1>11. ids \in ids .. MaxIds /\ turns \in turns .. MaxTurns
  BY <1>0, OpenedFacts
<1>12. Workspace'
  <2>1. active[p] \in 1 .. ids
    BY <1>0, OpenedFacts
  <2>2. answered' \subseteq [no : 1 .. turns, id : 1 .. ids]
    BY <1>1, <1>5, <2>1 DEF TInv, Workspace
  <2>3. QED
    BY <1>5, <1>6, <2>2 DEF TInv, Workspace
<1>13. AgentAsksItsOwnQuestion'
  BY <1>5 DEF TInv, AgentAsksItsOwnQuestion
<1>14. s \in Seq(Keep(ids')) /\ a \in 1 .. ids' /\ k \in SUBSET (1 .. ids')
  BY <1>5, <1>6, <1>10
<1>15. ids' \in ids .. MaxIds /\ turns' \in turns .. MaxTurns
  BY <1>5, <1>11
<1>16. t.at # "idle" => t.no \in 1 .. turns'
  BY <1>7
<1>17. current' = current /\ opened' = opened
  BY <1>5
<1>18. QED
  BY <1>0, <1>6, <1>7, <1>9, <1>10, <1>12, <1>13, <1>14, <1>15, <1>16, <1>17, PanelStep

\* A step that saves the conversation, switches to another one or stays, and aborts the
\* turn or leaves it alone if it stays.
LEMMA SwitchTInv ==
  ASSUME TInv, NEW p \in Panel, p <= opened,
         NEW h \in Seq(Message), NEW a \in 1 .. ids', NEW s \in Seq(Keep(ids)), Distinct(s),
         NEW t \in Turn, t.at = turn[p].at, t.no = turn[p].no, t.copy = turn[p].copy,
         t.at # "idle" /\ ~ t.aborted => h = history[p] /\ ~ turn[p].aborted,
         NEW k \in SUBSET (1 .. ids), Changes(p, h, a, s, t, k),
         storage' \in Seq(Keep(ids)), Distinct(storage'),
         UNCHANGED <<current, opened, turns, home, prompts, answered, stopped>>,
         ids' \in ids .. MaxIds, deleted' \subseteq 1 .. ids
  PROVE  TInv'
<1>1. /\ ids \in Nat /\ turns \in Nat /\ turns <= MaxTurns /\ MaxTurns \in Nat
      /\ MaxIds \in Nat /\ ids <= MaxIds
  BY OpenedFacts
<1>2. ids' \in Nat /\ ids <= ids'
  BY <1>1
<1>3. /\ s \in Seq(Keep(ids')) /\ storage' \in Seq(Keep(ids'))
  <2>1. PICK x, i : x = storage' /\ i = ids'
    OBVIOUS
  <2>2. s \in Seq(Keep(i)) /\ x \in Seq(Keep(i))
    BY <1>1, <1>2, <2>1, StorageWider
  <2>3. QED
    BY <2>1, <2>2
<1>4. k \in SUBSET (1 .. ids') /\ turns' \in turns .. MaxTurns
  BY <1>1, <1>2
<1>5. t.at # "idle" => t.no \in 1 .. turns'
  BY OpenedFacts
<1>6. Asking(t, h)
  BY OpenedFacts DEF Asking
<1>7. Workspace'
  <2>1. 1 .. ids \subseteq 1 .. ids' /\ 0 .. ids \subseteq 0 .. ids'
    BY <1>1, <1>2
  <2>2. home' \in [TurnNo -> 0 .. ids']
    BY <2>1 DEF TInv, Workspace
  <2>3. answered' \subseteq [no : 1 .. turns', id : 1 .. ids']
    BY <2>1 DEF TInv, Workspace
  <2>4. stopped' \subseteq 1 .. turns' /\ deleted' \subseteq 1 .. ids'
    BY <2>1 DEF TInv, Workspace
  <2>5. QED
    BY <1>3, <2>2, <2>3, <2>4 DEF Workspace
<1>8. AgentAsksItsOwnQuestion'
  BY DEF TInv, AgentAsksItsOwnQuestion
<1>9. current' = current /\ opened' = opened
  OBVIOUS
<1>10. QED
  BY <1>3, <1>4, <1>5, <1>6, <1>7, <1>8, <1>9, PanelStep

\* The ids of a list are ids, and what is found under one of them is a conversation of it.
LEMMA ListFacts ==
  ASSUME NEW n \in Nat, NEW list \in Seq(Keep(n))
  PROVE  /\ IdsOf(list) \in SUBSET (1 .. n)
         /\ \A id : Holds(list, id) =>
              /\ Find(list, id) \in DOMAIN list /\ list[Find(list, id)].id = id
              /\ list[Find(list, id)].messages \in Seq(Message)
              /\ id \in 1 .. n
<1>1. \A i \in DOMAIN list : list[i] \in Keep(n)
  OBVIOUS
<1>2. \A x \in Keep(n) : x.id \in 1 .. n /\ x.messages \in Seq(Message)
  BY DEF Keep
<1>3. IdsOf(list) \in SUBSET (1 .. n)
  BY <1>1, <1>2 DEF IdsOf
<1>4. ASSUME NEW id, Holds(list, id)
      PROVE  Find(list, id) \in DOMAIN list /\ list[Find(list, id)].id = id
  BY <1>4, Zenon DEF Holds, Find
<1>5. QED
  BY <1>1, <1>2, <1>3, <1>4

\* New Chat, the picker shown and hidden, a conversation deleted.
LEMMA ConversationTInv ==
  ASSUME TInv, NEW p \in Panel
  PROVE  /\ NewChat(p) \/ OpenHistory(p) \/ HidePicker(p) => TInv'
         /\ \A id : Delete(p, id) => TInv'
<1> DEFINE H == history[p] A == active[p] S == sessions[p] T == turn[p] K == picker[p]
<1>1. ASSUME p <= opened
      PROVE  /\ H \in Seq(Message) /\ A \in 1 .. ids /\ S \in Seq(Keep(ids)) /\ Distinct(S)
             /\ T \in Turn /\ K \in SUBSET (1 .. ids)
             /\ ids \in Nat /\ ids <= MaxIds /\ MaxIds \in Nat /\ ids \in ids .. MaxIds
             /\ storage \in Seq(Keep(ids)) /\ Distinct(storage) /\ deleted \subseteq 1 .. ids
             /\ Saved(p, H) \in Seq(Keep(ids)) /\ Distinct(Saved(p, H))
             /\ Stored(p, H) \in Seq(Keep(ids)) /\ Distinct(Stored(p, H))
  BY <1>1, OpenedFacts, SavedFacts DEF TInv, Workspace
<1>2. /\ history = [history EXCEPT ![p] = H] /\ active = [active EXCEPT ![p] = A]
      /\ sessions = [sessions EXCEPT ![p] = S] /\ turn = [turn EXCEPT ![p] = T]
      /\ picker = [picker EXCEPT ![p] = K]
  BY Unchanged DEF TInv
<1>3. ASSUME NewChat(p) PROVE TInv'
  <2>0. p <= opened
    BY <1>3, PanelFacts DEF NewChat
  <2>1. PICK h, a, s, t, k : /\ h = << >> /\ a = ids + 1 /\ s = Saved(p, H) /\ t = Cleared(T)
                             /\ k = K
    OBVIOUS
  <2>2. Changes(p, h, a, s, t, k)
    BY <1>2, <1>3, <2>1 DEF Changes, NewChat
  <2>3. h \in Seq(Message) /\ s \in Seq(Keep(ids)) /\ Distinct(s) /\ k \in SUBSET (1 .. ids)
    BY <1>1, <2>0, <2>1
  <2>4. a \in 1 .. ids' /\ ids' \in ids .. MaxIds
    BY <1>1, <1>3, <2>0, <2>1 DEF NewChat
  <2>5. /\ t \in Turn /\ t.at = turn[p].at /\ t.no = turn[p].no /\ t.copy = turn[p].copy
        /\ (t.at # "idle" => t.aborted)
    BY <1>1, <2>0, <2>1, TurnFacts
  <2>6. /\ storage' \in Seq(Keep(ids)) /\ Distinct(storage') /\ deleted' \subseteq 1 .. ids
        /\ UNCHANGED <<current, opened, turns, home, prompts, answered, stopped>>
    BY <1>1, <1>3, <2>0 DEF NewChat, ghosts
  <2>7. QED
    BY <2>0, <2>2, <2>3, <2>4, <2>5, <2>6, SwitchTInv
<1>4. ASSUME NEW s \in Seq(Keep(ids)), Distinct(s), NEW k \in SUBSET (1 .. ids), p <= opened,
             sessions' = [sessions EXCEPT ![p] = s], picker' = [picker EXCEPT ![p] = k],
             UNCHANGED <<history, active, turn>>,
             UNCHANGED <<current, opened, turns, home, prompts, answered, stopped>>, ids' = ids,
             storage' \in Seq(Keep(ids)), Distinct(storage'), deleted' \subseteq 1 .. ids
      PROVE  TInv'
  <2>1. PICK h, a, t : h = H /\ a = A /\ t = T
    OBVIOUS
  <2>2. Changes(p, h, a, s, t, k)
    BY <1>2, <1>4, <2>1 DEF Changes
  <2>3. h \in Seq(Message) /\ a \in 1 .. ids' /\ t \in Turn /\ ids' \in ids .. MaxIds
    BY <1>1, <1>4, <2>1
  <2>4. /\ t.at = turn[p].at /\ t.no = turn[p].no /\ t.copy = turn[p].copy
        /\ h = history[p] /\ t.aborted = turn[p].aborted
    BY <2>1
  <2>5. QED
    BY <1>4, <2>2, <2>3, <2>4, SwitchTInv
<1>5. ASSUME OpenHistory(p) PROVE TInv'
  <2>0. p <= opened
    BY <1>5, PanelFacts DEF OpenHistory
  <2>1. PICK s, k : s = Saved(p, H) /\ k = IdsOf(Saved(p, H))
    OBVIOUS
  <2>2. s \in Seq(Keep(ids)) /\ Distinct(s) /\ k \in SUBSET (1 .. ids)
    BY <1>1, <2>0, <2>1, ListFacts
  <2>3. /\ storage' \in Seq(Keep(ids)) /\ Distinct(storage') /\ deleted' \subseteq 1 .. ids
    BY <1>1, <1>5, <2>0 DEF OpenHistory, ghosts
  <2>4. QED
    BY <1>4, <1>5, <2>0, <2>1, <2>2, <2>3 DEF OpenHistory, ghosts
<1>6. ASSUME HidePicker(p) PROVE TInv'
  <2>0. p <= opened
    BY <1>6, PanelFacts DEF HidePicker
  <2>1. PICK s, k : s = S /\ k = {}
    OBVIOUS
  <2>2. s \in Seq(Keep(ids)) /\ Distinct(s) /\ k \in SUBSET (1 .. ids)
    BY <1>1, <2>0, <2>1
  <2>3. sessions' = [sessions EXCEPT ![p] = s] /\ picker' = [picker EXCEPT ![p] = k]
    BY <1>2, <1>6, <2>1 DEF HidePicker
  <2>4. /\ storage' \in Seq(Keep(ids)) /\ Distinct(storage') /\ deleted' \subseteq 1 .. ids
    BY <1>1, <1>6, <2>0 DEF HidePicker, ghosts
  <2>5. QED
    BY <1>4, <1>6, <2>0, <2>2, <2>3, <2>4 DEF HidePicker, ghosts
<1>7. ASSUME NEW id, Delete(p, id) PROVE TInv'
  <2>0. p <= opened /\ id \in K
    BY <1>7, PanelFacts DEF Delete
  <2>1. PICK s, k : s = Others(S, id) /\ k = IdsOf(Others(S, id))
    OBVIOUS
  <2>2. s \in Seq(Keep(ids)) /\ Distinct(s)
    BY <1>1, <2>0, <2>1, OthersFacts
  <2>3. k \in SUBSET (1 .. ids)
    BY <1>1, <2>0, <2>1, <2>2, ListFacts
  <2>4. sessions' = [sessions EXCEPT ![p] = s] /\ picker' = [picker EXCEPT ![p] = k]
    BY <1>7, <2>1 DEF Delete
  <2>5. /\ storage' \in Seq(Keep(ids)) /\ Distinct(storage') /\ deleted' \subseteq 1 .. ids
    BY <1>1, <1>7, <2>0, <2>1, <2>2 DEF Delete
  <2>6. QED
    BY <1>4, <1>7, <2>0, <2>2, <2>3, <2>4, <2>5 DEF Delete
<1>8. QED
  BY <1>3, <1>5, <1>6, <1>7

\* A conversation is loaded, or was gone by then.
LEMMA LoadTInv == ASSUME TInv, NEW p \in Panel, NEW id, Load(p, id) PROVE TInv'
<1> DEFINE H == history[p] A == active[p] S == sessions[p] T == turn[p] K == picker[p]
<1>0. p <= opened
  BY PanelFacts DEF Load
<1>1. /\ H \in Seq(Message) /\ A \in 1 .. ids /\ S \in Seq(Keep(ids)) /\ Distinct(S)
      /\ T \in Turn
      /\ ids \in Nat /\ ids <= MaxIds /\ MaxIds \in Nat /\ ids \in ids .. MaxIds
      /\ storage \in Seq(Keep(ids)) /\ Distinct(storage) /\ deleted \subseteq 1 .. ids
      /\ Saved(p, H) \in Seq(Keep(ids)) /\ Distinct(Saved(p, H))
      /\ Stored(p, H) \in Seq(Keep(ids)) /\ Distinct(Stored(p, H))
  BY <1>0, OpenedFacts, SavedFacts DEF TInv, Workspace
<1>2. /\ history = [history EXCEPT ![p] = H] /\ active = [active EXCEPT ![p] = A]
      /\ sessions = [sessions EXCEPT ![p] = S] /\ turn = [turn EXCEPT ![p] = T]
  BY Unchanged DEF TInv
<1>3. PICK k : k = {}
  OBVIOUS
<1>4. k \in SUBSET (1 .. ids) /\ picker' = [picker EXCEPT ![p] = k]
  BY <1>3 DEF Load
<1>5. /\ UNCHANGED <<current, opened, turns, home, prompts, answered, stopped>>
      /\ ids' = ids /\ deleted' = deleted
  BY DEF Load, ghosts
<1>6. ids' \in ids .. MaxIds /\ deleted' \subseteq 1 .. ids
  BY <1>1, <1>5
<1>7. ASSUME NEW h \in Seq(Message), NEW a \in 1 .. ids, NEW s \in Seq(Keep(ids)), Distinct(s),
             NEW t \in Turn, t.at = turn[p].at, t.no = turn[p].no, t.copy = turn[p].copy,
             t.at # "idle" /\ ~ t.aborted => h = history[p] /\ ~ turn[p].aborted,
             history' = [history EXCEPT ![p] = h], active' = [active EXCEPT ![p] = a],
             sessions' = [sessions EXCEPT ![p] = s], turn' = [turn EXCEPT ![p] = t],
             storage' \in Seq(Keep(ids)), Distinct(storage')
      PROVE  TInv'
  <2>1. Changes(p, h, a, s, t, k)
    BY <1>4, <1>7 DEF Changes
  <2>2. a \in 1 .. ids'
    BY <1>5
  <2>3. QED
    BY <1>0, <1>4, <1>5, <1>6, <1>7, <2>1, <2>2, SwitchTInv
<1>8. CASE id = active[p]
  <2>1. PICK h, a, s, t : h = H /\ a = A /\ s = S /\ t = T
    OBVIOUS
  <2>2. /\ history' = [history EXCEPT ![p] = h] /\ active' = [active EXCEPT ![p] = a]
        /\ sessions' = [sessions EXCEPT ![p] = s] /\ turn' = [turn EXCEPT ![p] = t]
        /\ storage' = storage
    BY <1>2, <1>8, <2>1 DEF Load
  <2>3. QED
    BY <1>1, <1>7, <2>1, <2>2
<1>9. CASE id # active[p]
  <2>1. PICK s : s = Saved(p, H)
    OBVIOUS
  <2>2. sessions' = [sessions EXCEPT ![p] = s] /\ storage' = Stored(p, H)
    BY <1>9, <2>1 DEF Load
  <2>3. sessions'[p] = s
    <3>1. DOMAIN sessions = Panel
      BY DEF TInv, Panels, Domains
    <3>2. QED
      BY <2>2, <3>1
  <2>4. CASE Holds(s, id)
    <3>1. PICK h, a, t : h = s[Find(s, id)].messages /\ a = id /\ t = Cleared(T)
      OBVIOUS
    <3>2. /\ history' = [history EXCEPT ![p] = h] /\ active' = [active EXCEPT ![p] = a]
          /\ turn' = [turn EXCEPT ![p] = t]
      BY <1>9, <2>3, <2>4, <3>1 DEF Load
    <3>3. h \in Seq(Message) /\ a \in 1 .. ids
      BY <1>1, <2>1, <2>4, <3>1, ListFacts
    <3>4. /\ t \in Turn /\ t.at = turn[p].at /\ t.no = turn[p].no /\ t.copy = turn[p].copy
          /\ (t.at # "idle" => t.aborted)
      BY <1>1, <3>1, TurnFacts
    <3>5. QED
      BY <1>1, <1>7, <2>1, <2>2, <3>2, <3>3, <3>4
  <2>5. CASE ~ Holds(s, id)
    <3>1. PICK h, a, b : h = H /\ a = A /\ b = Busy(p)
      OBVIOUS
    <3>2. PICK t : t = [T EXCEPT !.aborted = b]
      OBVIOUS
    <3>3. /\ history' = [history EXCEPT ![p] = h] /\ active' = [active EXCEPT ![p] = a]
      BY <1>2, <1>9, <2>3, <2>5, <3>1 DEF Load
    <3>4. turn' = [turn EXCEPT ![p] = t]
      BY <1>9, <2>3, <2>5, <3>1, <3>2 DEF Load
    <3>5. b \in BOOLEAN /\ (b <=> T.at # "idle")
      BY <3>1 DEF Busy
    <3>6. /\ t \in Turn /\ t.at = turn[p].at /\ t.no = turn[p].no /\ t.copy = turn[p].copy
          /\ t.aborted = b
      <4>1. \A c \in BOOLEAN : LET u == [T EXCEPT !.aborted = c]
                              IN /\ u \in Turn /\ u.at = T.at /\ u.no = T.no /\ u.copy = T.copy
                                 /\ u.aborted = c
        BY <1>1 DEF Turn
      <4>2. QED
        BY <3>2, <3>5, <4>1, Zenon
    <3>7. QED
      BY <1>1, <1>7, <2>1, <2>2, <3>1, <3>3, <3>4, <3>5, <3>6
  <2>6. QED
    BY <2>4, <2>5
<1>10. QED
  BY <1>8, <1>9

\* Every step keeps the invariant.
LEMMA NextTInv == TInv /\ [Next]_vars => TInv'
<1> SUFFICES ASSUME TInv, [Next]_vars PROVE TInv'
  OBVIOUS
<1>1. CASE Open
  BY <1>1, OpenTInv
<1>2. CASE Close
  BY <1>2, TurnStepsTInv
<1>3. ASSUME NEW p \in Panel, TurnStep(p) PROVE TInv'
  BY <1>3, TurnStepsTInv, FinishTInv DEF TurnStep
<1>4. ASSUME NEW p \in Panel, UserStep(p) PROVE TInv'
  <2>1. CASE Submit(p)
    BY <2>1, SubmitTInv
  <2>2. CASE AnswerApproval(p) \/ Stop(p)
    BY <2>2, TurnStepsTInv
  <2>3. CASE NewChat(p) \/ OpenHistory(p) \/ HidePicker(p)
    BY <2>3, ConversationTInv
  <2>4. CASE \E id \in Id : Delete(p, id) \/ Load(p, id)
    BY <2>4, ConversationTInv, LoadTInv
  <2>5. QED
    BY <1>4, <2>1, <2>2, <2>3, <2>4 DEF UserStep
<1>5. CASE UNCHANGED vars
  BY <1>5 DEF vars, TInv, Panels, Domains, Counters, Workspace, AgentAsksItsOwnQuestion
<1>6. QED
  BY <1>1, <1>2, <1>3, <1>4, <1>5 DEF Next

\* The invariant holds.
LEMMA TInvariance == Spec => []TInv
BY InitTInv, NextTInv, PTL DEF Spec

\* The conversations, turns and lists have the types stated in ChatPanel, with any number
\* of panels, messages and conversations, wherever the lists are cut.
THEOREM PanelTypes == Spec => []TypeOK
<1>1. TInv => TypeOK
  <2> SUFFICES ASSUME TInv PROVE TypeOK
    OBVIOUS
  <2>1. 1 .. ids \subseteq Id /\ 1 .. turns \subseteq TurnNo
    BY PanelAssumption DEF TInv, Counters, Id, TurnNo
  <2>2. Keep(ids) \subseteq [id : Id, messages : Seq(Message)]
    BY <2>1 DEF Keep
  <2>3. Seq(Keep(ids)) \subseteq Saves
    <3>1. PICK A, B : A = Keep(ids) /\ B = [id : Id, messages : Seq(Message)]
      OBVIOUS
    <3>2. A \subseteq B
      BY <2>2, <3>1
    <3>3. Seq(A) \subseteq Seq(B)
      BY <3>2
    <3>4. QED
      BY <3>1, <3>3 DEF Saves
  <2>4. storage \in Saves /\ {home[n] : n \in TurnNo} \subseteq 0 .. ids
    BY <2>3 DEF TInv, Workspace
  <2>5. answered \subseteq [no : 1 .. turns, id : Id]
    BY <2>1 DEF TInv, Workspace
  <2>6. ASSUME NEW p \in Panel
        PROVE  /\ history[p] \in Seq(Message) /\ active[p] \in 0 .. ids
               /\ sessions[p] \in Saves /\ turn[p] \in Turn /\ picker[p] \in SUBSET Id
    BY <2>1, <2>3 DEF TInv, Panels, Fine
  <2>7. /\ history \in [Panel -> Seq(Message)] /\ active \in [Panel -> 0 .. ids]
        /\ sessions \in [Panel -> Saves] /\ turn \in [Panel -> Turn]
        /\ picker \in [Panel -> SUBSET Id]
    BY <2>6 DEF TInv, Panels, Domains
  <2>8. QED
    BY <2>4, <2>5, <2>7 DEF TInv, Counters, Workspace, TypeOK, Turn
<1>2. QED
  BY <1>1, TInvariance, PTL

\* With one panel, every path that changes the list writes it -- the migration of an
\* older transcript excepted, of which the next of them takes care -- whatever the number
\* of messages and conversations and wherever the lists are cut.
THEOREM StorageMirrored == Spec => []StorageInStep
<1>1. Init => StorageInStep
  BY DEF Init, StorageInStep
<1>2. StorageInStep /\ TInv /\ [Next]_vars => StorageInStep'
  <2> DEFINE Unsaved == storage = << >> /\ sessions[1] \in {Migrated(id) : id \in Id}
             Synced == storage' = sessions'[1]
             Goal == Synced \/ Unsaved'
  <2> SUFFICES ASSUME StorageInStep, TInv, [Next]_vars, MaxPanels = 1, opened' = 1
               PROVE  Goal
    BY DEF StorageInStep
  <2>0. Panel = {1} /\ DOMAIN sessions = {1} /\ opened \in Nat
    BY DEF Panel, TInv, Panels, Domains, Counters
  <2>1. CASE Open
    <3>1. opened + 1 = 1 /\ storage' = storage
      BY <2>1 DEF Open
    <3>2. CASE storage = << >>
      <4>1. sessions' = [sessions EXCEPT ![1] = Migrated(ids + 1)] /\ ids < MaxIds
        BY <2>1, <3>1, <3>2 DEF Open
      <4>2. ids + 1 \in Id
        BY <4>1, PanelAssumption DEF TInv, Counters, Id
      <4>3. QED
        BY <2>0, <3>1, <3>2, <4>1, <4>2
    <3>3. CASE storage # << >>
      <4>1. sessions' = [sessions EXCEPT ![1] = storage]
        BY <2>1, <3>1, <3>3 DEF Open
      <4>2. QED
        BY <2>0, <3>1, <4>1
    <3>4. QED
      BY <3>2, <3>3
  <2>2. CASE opened' = opened /\ UNCHANGED <<storage, sessions>>
    BY <2>2 DEF StorageInStep
  <2>3. ASSUME NEW h, opened' = opened, sessions' = [sessions EXCEPT ![1] = Saved(1, h)],
               storage' = Stored(1, h)
        PROVE  Goal
    <3>1. storage = sessions[1] \/ Unsaved
      BY <2>3 DEF StorageInStep
    <3>2. sessions'[1] = Saved(1, h)
      BY <2>0, <2>3
    <3>3. CASE h = << >>
      BY <2>3, <3>1, <3>2, <3>3 DEF Stored, Saved
    <3>4. CASE h # << >>
      BY <2>3, <3>2, <3>4 DEF Stored
    <3>5. QED
      BY <3>3, <3>4
  <2>4. ASSUME TurnStep(1) PROVE Goal
    <3>1. CASE Ask(1) \/ RequestApproval(1)
      BY <2>2, <3>1 DEF Ask, RequestApproval
    <3>2. CASE Reply(1) \/ ReplyNothing(1) \/ Fail(1)
      <4>1. PICK h : Finish(1, h) /\ opened' = opened
        BY <3>2 DEF Reply, ReplyNothing, Fail
      <4>2. QED
        BY <2>3, <4>1 DEF Finish
    <3>3. QED
      BY <2>4, <3>1, <3>2 DEF TurnStep
  <2>5. ASSUME UserStep(1) PROVE Goal
    <3>1. CASE Submit(1) \/ AnswerApproval(1) \/ Stop(1) \/ HidePicker(1)
      BY <2>2, <3>1 DEF Submit, AnswerApproval, Stop, HidePicker
    <3>2. CASE NewChat(1) \/ OpenHistory(1)
      BY <2>3, <3>2 DEF NewChat, OpenHistory
    <3>3. ASSUME NEW id \in Id, Load(1, id) PROVE Goal
      BY <2>2, <2>3, <3>3 DEF Load
    <3>4. ASSUME NEW id \in Id, Delete(1, id) PROVE Goal
      <4>1. PICK left : sessions' = [sessions EXCEPT ![1] = left] /\ storage' = left
        BY <3>4 DEF Delete
      <4>2. QED
        BY <2>0, <4>1
    <3>5. QED
      BY <2>5, <3>1, <3>2, <3>3, <3>4 DEF UserStep
  <2>6. CASE Close
    BY <2>2, <2>6 DEF Close
  <2>7. CASE UNCHANGED vars
    BY <2>2, <2>7 DEF vars
  <2>8. QED
    BY <2>0, <2>1, <2>4, <2>5, <2>6, <2>7 DEF Next
<1>3. QED
  BY <1>1, <1>2, TInvariance, PTL DEF Spec

\* The provider of an agent turn is only ever sent the conversation that ends with the
\* turn's question, whatever the user switched to while the context was being collected.
THEOREM AsksOwnQuestion == Spec => []AgentAsksItsOwnQuestion
<1>1. TInv => AgentAsksItsOwnQuestion
  BY DEF TInv
<1>2. QED
  BY <1>1, TInvariance, PTL

\* A switch to another conversation, mid-turn or not, saves the one that is left as it is
\* on screen.
THEOREM SwitchSaves == Spec => SwitchSavesConversation
<1> DEFINE Leaves(p) == (opened' = opened /\ active'[p] # active[p] /\ history[p] # << >>)
                          => Session(active[p], history[p]) \in ToSet(sessions'[p])
<1>1. ASSUME TInv, [Next]_vars, NEW p \in Panel PROVE Leaves(p)
  <2> SUFFICES ASSUME opened' = opened, active'[p] # active[p], history[p] # << >>
               PROVE  Session(active[p], history[p]) \in ToSet(sessions'[p])
    OBVIOUS
  <2>1. /\ active = [q \in Panel |-> active[q]] /\ DOMAIN sessions = Panel
        /\ opened \in Nat
    BY <1>1 DEF TInv, Panels, Domains, Counters
  <2>2. ASSUME NEW q \in Panel, sessions' = [sessions EXCEPT ![q] = Saved(q, history[q])],
               q <= opened, NEW a, active' = [active EXCEPT ![q] = a]
        PROVE  Session(active[p], history[p]) \in ToSet(sessions'[p])
    <3>1. q = p
      BY <2>1, <2>2
    <3>2. PICK s, list, K : s = Session(active[p], history[p]) /\ list = sessions[p] /\ K = Keep(ids)
      OBVIOUS
    <3>3. active[p] \in 1 .. ids /\ history[p] \in Seq(Message) /\ list \in Seq(K)
      BY <1>1, <2>2, <3>1, <3>2, OpenedFacts
    <3>4. s \in K
      BY <3>2, <3>3 DEF Session, Keep
    <3>5. PICK up : up = Upsert(list, s)
      OBVIOUS
    <3>6. up \in Seq(K) /\ Len(up) > 0 /\ up[1] = s
      <4>1. Upsert(list, s) \in Seq(K) /\ Len(Upsert(list, s)) > 0 /\ Upsert(list, s)[1] = s
        BY <3>3, <3>4, UpsertFacts
      <4>2. QED
        BY <3>5, <4>1
    <3>7. s \in ToSet(up)
      BY <3>6 DEF ToSet
    <3>8. sessions'[p] = up
      BY <2>1, <2>2, <3>1, <3>2, <3>5 DEF Saved
    <3>9. QED
      BY <3>2, <3>7, <3>8
  <2>3. ~ Open
    BY <2>1 DEF Open
  <2>4. ASSUME NEW q \in Panel, NewChat(q)
        PROVE  Session(active[p], history[p]) \in ToSet(sessions'[p])
    <3>1. PICK a : a = ids + 1
      OBVIOUS
    <3>2. q <= opened /\ active' = [active EXCEPT ![q] = a]
      BY <1>1, <2>4, <3>1, PanelFacts DEF NewChat
    <3>3. QED
      BY <2>2, <2>4, <3>2 DEF NewChat
  <2>5. ASSUME NEW q \in Panel, NEW id, Load(q, id)
        PROVE  Session(active[p], history[p]) \in ToSet(sessions'[p])
    <3>1. q <= opened
      BY <1>1, <2>5, PanelFacts DEF Load
    <3>2. active' # active
      OBVIOUS
    <3>3. /\ sessions' = [sessions EXCEPT ![q] = Saved(q, history[q])]
          /\ active' = [active EXCEPT ![q] = id]
      BY <2>5, <3>2 DEF Load
    <3>4. QED
      BY <2>2, <3>1, <3>3
  <2>6. active' # active
    OBVIOUS
  <2>7. CASE Next
    <3>1. ~ Close
      BY <2>6 DEF Close
    <3>2. PICK q \in Panel : TurnStep(q) \/ UserStep(q)
      BY <2>3, <2>7, <3>1 DEF Next
    <3>3. ~ TurnStep(q)
      BY <2>6 DEF TurnStep, Ask, RequestApproval, Reply, ReplyNothing, Fail
    <3>4. NewChat(q) \/ \E id \in Id : Load(q, id)
      BY <2>6, <3>2, <3>3 DEF UserStep, Submit, AnswerApproval, Stop, OpenHistory, HidePicker, Delete
    <3>5. QED
      BY <2>4, <2>5, <3>4
  <2>8. QED
    BY <1>1, <2>6, <2>7 DEF vars
<1>2. TInv /\ [Next]_vars => [\A p \in Panel : Leaves(p)]_vars
  BY <1>1
<1>3. QED
  BY <1>2, TInvariance, PTL DEF Spec, SwitchSavesConversation

-----------------------------------------------------------------------------
(* The answers of a panel stay saved.  The inductive invariant: what keeps the   *)
(* lists from being cut, and where each answer is.                            *)

\* One panel, with room for every message and every conversation.
Enough == MaxPanels = 1 /\ MaxHistory >= Len(Legacy) + 2 * MaxTurns /\ MaxSessions >= MaxIds

\* What the first conversation may start with.
Base == Len(Legacy)

\* A turn adds a question and an answer to what is the longest conversation.
Budget == IF Busy(1) THEN Base + 2 * turns - 1 ELSE Base + 2 * turns

Within(h, list, b) == Len(h) <= b /\ \A x \in ToSet(list) : Len(x.messages) <= b

InList(a, list) == \E x \in ToSet(list) : x.id = a.id /\ Assistant(a.no) \in ToSet(x.messages)

\* Answer a is in its saved conversation, and in the live one if that is its conversation.
Held(a, gone, h, id, list) ==
  \/ a.id \in gone
  \/ InList(a, list) /\ (a.id = id => Assistant(a.no) \in ToSet(h))

AInv ==
  /\ opened = 0 => storage = << >> /\ answered = {}
  /\ Within(history[1], sessions[1], Budget)
  /\ \A a \in answered : Held(a, deleted, history[1], active[1], sessions[1])

\* A save keeps every conversation of the list: there is room for all the ids.
LEMMA SaveKeeps ==
  ASSUME Enough, TInv, 1 <= opened, NEW h \in Seq(Message), NEW b, Within(h, sessions[1], b)
  PROVE  /\ Within(h, Saved(1, h), b)
         /\ \A a : /\ a.id = active[1] => Assistant(a.no) \in ToSet(h)
                   /\ a.id # active[1] => InList(a, sessions[1])
                   => InList(a, Saved(1, h))
<1>0. 1 \in Panel
  BY DEF Enough, Panel
<1>1. PICK list, s, K, up, id : /\ list = sessions[1] /\ id = active[1] /\ s = Session(id, h)
                                /\ K = Keep(ids) /\ up = Upsert(list, s)
  OBVIOUS
<1>2. /\ id \in 1 .. ids /\ list \in Seq(K) /\ Distinct(list) /\ ids \in Nat /\ ids <= MaxIds
      /\ MaxIds \in Nat
  BY <1>0, <1>1, OpenedFacts
<1>3. s \in K /\ s.id = id /\ s.messages = h
  BY <1>1, <1>2 DEF Session, Keep
<1>4. PICK rest : rest = Others(list, id)
  OBVIOUS
<1>5. /\ rest \in Seq(K) /\ Distinct(rest)
      /\ \A x \in ToSet(rest) : x.id # id
  BY <1>2, <1>4, OthersFacts
<1>6. Len(rest) < ids
  BY <1>1, <1>2, <1>5, Room
<1>7. Len(rest) < MaxSessions
  BY <1>2, <1>5, <1>6, PanelAssumption DEF Enough
<1>8. /\ Upsert(list, s) \in Seq(K) /\ Len(Upsert(list, s)) > 0 /\ Upsert(list, s)[1] = s
      /\ \A x \in ToSet(Upsert(list, s)) : x = s \/ (x \in ToSet(list) /\ x.id # s.id)
      /\ Len(Others(list, s.id)) < MaxSessions =>
           \A x \in ToSet(list) : x.id # s.id => x \in ToSet(Upsert(list, s))
  <2>1. list \in Seq(K) /\ s \in K
    BY <1>2, <1>3
  <2>2. Upsert(list, s) \in Seq(K) /\ Len(Upsert(list, s)) > 0 /\ Upsert(list, s)[1] = s
    BY <2>1, UpsertFacts
  <2>3. \A x \in ToSet(Upsert(list, s)) : x = s \/ (x \in ToSet(list) /\ x.id # s.id)
    BY <2>1, UpsertFacts
  <2>4. Len(Others(list, s.id)) < MaxSessions =>
          \A x \in ToSet(list) : x.id # s.id => x \in ToSet(Upsert(list, s))
    BY <2>1, UpsertFacts
  <2>5. QED
    BY <2>2, <2>3, <2>4
<1>9. /\ up \in Seq(K) /\ Len(up) > 0 /\ up[1] = s
      /\ \A x \in ToSet(up) : x = s \/ (x \in ToSet(list) /\ x.id # id)
      /\ \A x \in ToSet(list) : x.id # id => x \in ToSet(up)
  BY <1>1, <1>3, <1>4, <1>7, <1>8
<1>10. s \in ToSet(up)
  BY <1>9 DEF ToSet
<1>11. CASE h = << >>
  <2>1. Saved(1, h) = list
    BY <1>1, <1>11 DEF Saved
  <2>2. ToSet(h) = {}
    BY <1>11 DEF ToSet
  <2>3. QED
    BY <1>1, <2>1, <2>2
<1>12. CASE h # << >>
  <2>1. Saved(1, h) = up
    BY <1>1, <1>12 DEF Saved
  <2>2. Within(h, up, b)
    BY <1>1, <1>3, <1>9 DEF Within
  <2>3. ASSUME NEW a, a.id = id => Assistant(a.no) \in ToSet(h), a.id # id => InList(a, list)
        PROVE  InList(a, up)
    <3>1. CASE a.id = id
      BY <1>3, <1>10, <2>3, <3>1 DEF InList
    <3>2. CASE a.id # id
      BY <1>9, <2>3, <3>2 DEF InList
    <3>3. QED
      BY <3>1, <3>2
  <2>4. QED
    BY <1>1, <2>1, <2>2, <2>3
<1>13. QED
  BY <1>11, <1>12

\* Members of a sequence, by appending and by dropping the last one.
LEMMA EndFacts ==
  ASSUME NEW h \in Seq(Message), NEW m \in Message
  PROVE  /\ Len(Append(h, m)) = Len(h) + 1
         /\ \A x : x \in ToSet(Append(h, m)) <=> (x \in ToSet(h) \/ x = m)
         /\ h # << >> => /\ Len(Front(h)) < Len(h)
                         /\ \A x \in ToSet(h) : x # Last(h) => x \in ToSet(Front(h))
<1>1. PICK g, L : g = Append(h, m) /\ L = Len(h)
  OBVIOUS
<1>2. /\ L \in Nat /\ g \in Seq(Message) /\ Len(g) = L + 1 /\ g[L + 1] = m
      /\ \A i \in 1 .. L : g[i] = h[i]
  BY <1>1
<1>3. \A x : x \in ToSet(g) <=> (x \in ToSet(h) \/ x = m)
  <2>1. ToSet(h) = {h[i] : i \in 1 .. L} /\ ToSet(g) = {g[i] : i \in 1 .. L + 1}
    BY <1>1, <1>2 DEF ToSet
  <2>2. QED
    BY <1>2, <2>1
<1>4. ASSUME h # << >>
      PROVE  /\ Len(Front(h)) < Len(h)
             /\ \A x \in ToSet(h) : x # Last(h) => x \in ToSet(Front(h))
  <2>1. PICK f : f = Front(h)
    OBVIOUS
  <2>2. L > 0 /\ Len(f) = L - 1 /\ \A i \in 1 .. L - 1 : f[i] = h[i]
    BY <1>1, <1>2, <1>4, <2>1 DEF Front
  <2>3. ToSet(h) = {h[i] : i \in 1 .. L} /\ ToSet(f) = {f[i] : i \in 1 .. L - 1}
    <3>1. f \in Seq(Message)
      BY <1>2, <1>4, <2>1 DEF Front
    <3>2. QED
      BY <1>1, <1>2, <2>2, <3>1 DEF ToSet
  <2>4. Last(h) = h[L]
    BY <1>1 DEF Last
  <2>5. QED
    BY <1>1, <1>2, <2>1, <2>2, <2>3, <2>4
<1>5. QED
  BY <1>1, <1>2, <1>3, <1>4

\* A step after which the lists are within the budget and hold the answers.
LEMMA AnswersAfter ==
  ASSUME NEW h, NEW a, NEW s, opened' # 0,
         history'[1] = h, active'[1] = a, sessions'[1] = s,
         Within(h, s, Budget'), \A x \in answered' : Held(x, deleted', h, a, s)
  PROVE  AInv'
BY DEF AInv

\* What is known of the one panel.
LEMMA OneFacts ==
  ASSUME Enough, TInv, AInv, 1 <= opened
  PROVE  /\ 1 \in Panel /\ opened # 0
         /\ DOMAIN history = {1} /\ DOMAIN active = {1} /\ DOMAIN sessions = {1}
         /\ DOMAIN turn = {1}
         /\ history[1] \in Seq(Message) /\ Len(history[1]) \in Nat
         /\ turns \in Nat /\ Budget \in Int /\ Base \in Nat
         /\ \A x \in ToSet(sessions[1]) : Len(x.messages) \in Nat
<1>1. Panel = {1}
  BY DEF Enough, Panel
<1>2. /\ DOMAIN history = {1} /\ DOMAIN active = {1} /\ DOMAIN sessions = {1}
      /\ DOMAIN turn = {1}
  BY <1>1 DEF TInv, Panels, Domains
<1>3. history[1] \in Seq(Message) /\ turns \in Nat /\ sessions[1] \in Seq(Keep(ids))
  BY <1>1, OpenedFacts
<1>4. Base \in Nat /\ Budget \in Int
  BY <1>3, PanelAssumption DEF Base, Budget
<1>5. ASSUME NEW x \in ToSet(sessions[1]) PROVE Len(x.messages) \in Nat
  <2>1. x \in Keep(ids)
    BY <1>3 DEF ToSet
  <2>2. x.messages \in Seq(Message)
    BY <2>1 DEF Keep
  <2>3. QED
    BY <2>2
<1>6. QED
  BY <1>1, <1>2, <1>3, <1>4, <1>5

\* The panel is opened on nothing, or on what an older version left.
LEMMA OpenAnswers == ASSUME Enough, TInv, AInv, Open PROVE AInv'
<1>1. opened = 0 /\ opened' = 1
  BY DEF Open, TInv, Counters, Enough
<1>2. storage = << >> /\ answered = {} /\ answered' = {}
  BY <1>1 DEF AInv, Open, ghosts
<1>3. 1 \in Panel /\ DOMAIN sessions = Panel /\ DOMAIN history = Panel
  BY DEF TInv, Panels, Domains, Enough, Panel
<1>4. /\ history'[1] = Legacy /\ sessions'[1] = Migrated(ids + 1)
      /\ turn' = turn /\ turns' = turns
  BY <1>1, <1>2, <1>3 DEF Open
<1>5. ~ Busy(1) /\ turns \in Nat
  BY <1>1, <1>3, PanelFacts
<1>6. Base \in Nat /\ Budget' = Base + 2 * turns
  BY <1>4, <1>5, PanelAssumption DEF Budget, Busy, Base
<1>7. ids + 1 \in 1 .. ids + 1
  BY <1>3, PanelFacts
<1>8. /\ Len(Legacy) = Base
      /\ \A x \in ToSet(Migrated(ids + 1)) : x.messages = Legacy
  BY <1>7, MigratedFacts DEF Base
<1>9. Within(Legacy, Migrated(ids + 1), Budget')
  BY <1>5, <1>6, <1>8 DEF Within
<1>10. QED
  BY <1>1, <1>2, <1>4, <1>9 DEF AInv

\* Steps that leave the lists alone and keep the turn running, or idle.
LEMMA SameAnswers ==
  ASSUME AInv, UNCHANGED <<opened, history, active, sessions, storage, turns, answered, deleted>>,
         Busy(1)' <=> Busy(1)
  PROVE  AInv'
<1>1. Budget' = Budget
  BY DEF Budget
<1>2. QED
  BY <1>1 DEF AInv

\* A message is sent: the conversation grows by one, the budget too.
LEMMA SubmitAnswers == ASSUME Enough, TInv, AInv, Submit(1) PROVE AInv'
<1>0. 1 <= opened
  BY PanelFacts DEF Submit, Enough, Panel
<1>1. PICK h, n, m, g : h = history[1] /\ n = turns + 1 /\ m = User(turns + 1)
                        /\ g = Append(history[1], User(turns + 1))
  OBVIOUS
<1>2. /\ h \in Seq(Message) /\ Len(h) <= Base + 2 * turns /\ Budget = Base + 2 * turns /\ turns \in Nat
      /\ Len(h) \in Nat /\ Base \in Nat
  <2>1. Budget = Base + 2 * turns
    BY DEF Budget, Submit
  <2>2. QED
    BY <1>0, <1>1, <2>1, OneFacts DEF AInv, Within
<1>3. n \in TurnNo /\ m \in Message
  <2>1. n \in TurnNo
    BY <1>1, <1>2, PanelAssumption DEF Submit, TurnNo
  <2>2. QED
    BY <1>1, <2>1, MessageFacts
<1>4. Len(h) < MaxHistory
  BY <1>1, <1>2, <1>3, PanelAssumption DEF Enough, TurnNo, Base
<1>5. Trim(g) = g /\ Len(g) = Len(h) + 1 /\ \A x \in ToSet(h) : x \in ToSet(g)
  BY <1>1, <1>2, <1>3, <1>4, TrimFacts, EndFacts
<1>6. history'[1] = g /\ turns' = n /\ Busy(1)'
  <2>1. history' = [history EXCEPT ![1] = g]
    BY <1>1, <1>5 DEF Submit
  <2>2. PICK mode \in Modes, slash \in BOOLEAN :
        turn' = [turn EXCEPT ![1] =
                   [at |-> "preparing", no |-> turns + 1, mode |-> mode,
                    aborted |-> FALSE, card |-> FALSE,
                    copy |-> IF slash THEN history'[1] ELSE << >>]]
    BY DEF Submit
  <2>3. turn'[1].at = "preparing"
    BY <1>0, <2>2, OneFacts
  <2>4. QED
    BY <1>0, <1>1, <2>1, <2>3, OneFacts DEF Submit, Busy
<1>7. Budget' = Base + 2 * turns + 1
  BY <1>1, <1>2, <1>6 DEF Budget
<1>8. PICK s, a : s = sessions[1] /\ a = active[1]
  OBVIOUS
<1>9. Within(g, s, Budget')
  <2>1. \A x \in ToSet(s) : Len(x.messages) <= Base + 2 * turns /\ Len(x.messages) \in Nat
    BY <1>0, <1>2, <1>8, OneFacts DEF AInv, Within
  <2>2. QED
    BY <1>2, <1>5, <1>7, <2>1 DEF Within
<1>10. \A x \in answered : Held(x, deleted, g, a, s)
  BY <1>1, <1>5, <1>8 DEF AInv, Held
<1>11. /\ opened' # 0 /\ active'[1] = a /\ sessions'[1] = s /\ answered' = answered
       /\ deleted' = deleted
  BY <1>0, <1>8, OneFacts DEF Submit
<1>12. QED
  BY <1>6, <1>9, <1>10, <1>11, AnswersAfter

\* A turn ends: its answer joins the live conversation and is saved with it; what a
\* failure drops is no answer.
LEMMA FinishAnswers ==
  ASSUME Enough, TInv, AInv, Reply(1) \/ ReplyNothing(1) \/ Fail(1)
  PROVE  AInv'
<1>0. 1 <= opened /\ Busy(1)
  BY PanelFacts DEF Reply, ReplyNothing, Fail, Busy, Enough, Panel
<1>1. PICK g, a, n : g = history[1] /\ a = active[1] /\ n = turn[1].no
  OBVIOUS
<1>2. /\ g \in Seq(Message) /\ Len(g) <= Base + 2 * turns - 1 /\ Len(g) \in Nat /\ turns \in Nat
      /\ Base \in Nat
      /\ n \in TurnNo /\ Assistant(n) \in Message
      /\ \A x \in ToSet(sessions[1]) : Len(x.messages) <= Base + 2 * turns - 1 /\ Len(x.messages) \in Nat
  <2>1. Budget = Base + 2 * turns - 1
    BY <1>0 DEF Budget
  <2>2. n \in TurnNo
    BY <1>0, <1>1, OneFacts, OpenedFacts DEF TurnNo, Busy
  <2>3. QED
    BY <1>0, <1>1, <2>1, <2>2, OneFacts, MessageFacts DEF AInv, Within
<1>3. \E h \in Seq(Message) :
        /\ Finish(1, h) /\ Len(h) <= Base + 2 * turns
        /\ \A x : x \in ToSet(g) /\ x.role = "assistant" => x \in ToSet(h)
        /\ \A x \in answered' : x \in answered \/ (x.id = a /\ Assistant(x.no) \in ToSet(h))
  <2>1. CASE Reply(1)
    <3>1. PICK h : h = Append(g, Assistant(n))
      OBVIOUS
    <3>2. /\ h \in Seq(Message) /\ Len(h) <= Base + 2 * turns /\ Assistant(n) \in ToSet(h)
          /\ \A x \in ToSet(g) : x \in ToSet(h)
      BY <1>2, <3>1, EndFacts
    <3>3. Finish(1, h)
      BY <1>1, <2>1, <3>1 DEF Reply
    <3>4. \A x \in answered' : x \in answered \/ (x.id = a /\ Assistant(x.no) \in ToSet(h))
      BY <1>1, <2>1, <3>2 DEF Reply
    <3>5. QED
      BY <3>2, <3>3, <3>4
  <2>2. CASE ReplyNothing(1)
    <3>1. Finish(1, g) /\ answered' = answered
      BY <1>1, <2>2 DEF ReplyNothing, ghosts
    <3>2. QED
      BY <1>2, <3>1
  <2>3. CASE Fail(1)
    <3>1. PICK h : h = IF g # << >> /\ Last(g).role = "user" THEN Front(g) ELSE g
      OBVIOUS
    <3>2. h \in Seq(Message) /\ Len(h) <= Base + 2 * turns
      <4>1. g # << >> => Front(g) \in Seq(Message)
        BY <1>2 DEF Front
      <4>2. g # << >> => Len(Front(g)) < Len(g)
        BY <1>2, EndFacts
      <4>3. CASE g # << >> /\ Last(g).role = "user"
        <5>1. h \in Seq(Message) /\ Len(h) < Len(g) /\ Len(h) \in Nat
          BY <3>1, <4>1, <4>2, <4>3
        <5>2. QED
          BY <1>2, <5>1
      <4>4. CASE ~ (g # << >> /\ Last(g).role = "user")
        BY <1>2, <3>1, <4>4
      <4>5. QED
        BY <4>3, <4>4
    <3>3. \A x : x \in ToSet(g) /\ x.role = "assistant" => x \in ToSet(h)
      <4>1. CASE g # << >> /\ Last(g).role = "user"
        <5>1. \A x \in ToSet(g) : x # Last(g) => x \in ToSet(Front(g))
          BY <1>2, <4>1, EndFacts
        <5>2. h = Front(g)
          BY <3>1, <4>1
        <5>3. QED
          BY <4>1, <5>1, <5>2
      <4>2. CASE ~ (g # << >> /\ Last(g).role = "user")
        BY <3>1, <4>2
      <4>3. QED
        BY <4>1, <4>2
    <3>4. Finish(1, h) /\ answered' = answered
      BY <1>1, <2>3, <3>1 DEF Fail, ghosts
    <3>5. QED
      BY <3>2, <3>3, <3>4
  <2>4. QED
    BY <2>1, <2>2, <2>3
<1>4. PICK h \in Seq(Message) :
        /\ Finish(1, h) /\ Len(h) <= Base + 2 * turns
        /\ \A x : x \in ToSet(g) /\ x.role = "assistant" => x \in ToSet(h)
        /\ \A x \in answered' : x \in answered \/ (x.id = a /\ Assistant(x.no) \in ToSet(h))
  BY <1>3
<1>5. PICK s, b : s = Saved(1, h) /\ b = Base + 2 * turns
  OBVIOUS
<1>6. Within(h, sessions[1], b)
  BY <1>2, <1>4, <1>5 DEF Within
<1>7. /\ Within(h, s, b)
      /\ \A x : /\ x.id = a => Assistant(x.no) \in ToSet(h)
                /\ x.id # a => InList(x, sessions[1])
                => InList(x, s)
  BY <1>0, <1>1, <1>5, <1>6, SaveKeeps
<1>8. ASSUME NEW x \in answered' PROVE Held(x, deleted, h, a, s)
  <2>1. CASE x \in answered
    <3>1. Held(x, deleted, g, a, sessions[1])
      BY <1>1, <2>1 DEF AInv
    <3>2. Assistant(x.no).role = "assistant"
      BY DEF Assistant
    <3>3. QED
      BY <1>4, <1>7, <3>1, <3>2 DEF Held
  <2>2. CASE x.id = a /\ Assistant(x.no) \in ToSet(h)
    BY <1>7, <2>2 DEF Held
  <2>3. QED
    BY <1>4, <1>8, <2>1, <2>2
<1>9. history'[1] = h /\ sessions'[1] = s /\ turn'[1] = NoTurn
  BY <1>0, <1>4, <1>5, OneFacts DEF Finish
<1>10. /\ opened' # 0 /\ active'[1] = a /\ deleted' = deleted /\ turns' = turns
  BY <1>0, <1>1, OneFacts DEF Reply, ReplyNothing, Fail, ghosts
<1>11. Budget' = b
  BY <1>5, <1>9, <1>10 DEF Budget, Busy, NoTurn
<1>12. QED
  BY <1>7, <1>8, <1>9, <1>10, <1>11, AnswersAfter

\* The conversation is saved, and the panel stays in it or starts a new one.
LEMMA SaveAnswers ==
  ASSUME Enough, TInv, AInv, NewChat(1) \/ OpenHistory(1)
  PROVE  AInv'
<1>0. 1 <= opened
  BY PanelFacts DEF NewChat, OpenHistory, Enough, Panel
<1>1. PICK g, a, s, b : g = history[1] /\ a = active[1] /\ s = Saved(1, history[1]) /\ b = Budget
  OBVIOUS
<1>2. g \in Seq(Message) /\ Within(g, sessions[1], b)
  BY <1>0, <1>1, OneFacts DEF AInv
<1>3. /\ Within(g, s, b)
      /\ \A x : /\ x.id = a => Assistant(x.no) \in ToSet(g)
                /\ x.id # a => InList(x, sessions[1])
                => InList(x, s)
  BY <1>0, <1>1, <1>2, SaveKeeps
<1>4. \A x \in answered : Held(x, deleted, g, a, s)
  BY <1>1, <1>3 DEF AInv, Held
<1>5. /\ opened' # 0 /\ answered' = answered /\ deleted' = deleted /\ turns' = turns
      /\ sessions'[1] = s
  BY <1>0, <1>1, OneFacts DEF NewChat, OpenHistory, ghosts
<1>6. Busy(1)' <=> Busy(1)
  <2>1. turn[1] \in Turn
    BY <1>0, OneFacts, OpenedFacts
  <2>2. Cleared(turn[1]).at = turn[1].at
    BY <2>1, TurnFacts
  <2>3. NewChat(1) => turn'[1] = Cleared(turn[1])
    BY <1>0, OneFacts DEF NewChat
  <2>4. OpenHistory(1) => turn' = turn
    BY DEF OpenHistory
  <2>5. QED
    BY <2>2, <2>3, <2>4 DEF Busy
<1>7. Budget' = b
  BY <1>1, <1>5, <1>6 DEF Budget
<1>8. CASE OpenHistory(1)
  <2>1. history'[1] = g /\ active'[1] = a
    BY <1>1, <1>8 DEF OpenHistory
  <2>2. QED
    BY <1>3, <1>4, <1>5, <1>7, <2>1, AnswersAfter
<1>9. CASE NewChat(1)
  <2>1. PICK e, i : e = << >> /\ i = ids + 1
    OBVIOUS
  <2>2. history'[1] = e /\ active'[1] = i
    BY <1>0, <1>9, <2>1, OneFacts DEF NewChat
  <2>3. Within(e, s, b)
    <3>1. Len(e) = 0 /\ b \in Int /\ Len(g) \in Nat /\ Len(g) <= b
      BY <1>0, <1>1, <1>2, <2>1, OneFacts DEF Within
    <3>2. QED
      BY <1>3, <3>1 DEF Within
  <2>4. \A x \in answered : Held(x, deleted, e, i, s)
    <3>1. ASSUME NEW x \in answered PROVE x.id # i
      <4>1. x.id \in 1 .. ids /\ ids \in Nat
        BY <3>1 DEF TInv, Workspace, Counters
      <4>2. QED
        BY <2>1, <4>1
    <3>2. QED
      BY <1>4, <3>1 DEF Held
  <2>5. QED
    BY <1>5, <1>7, <2>2, <2>3, <2>4, AnswersAfter
<1>10. QED
  BY <1>8, <1>9

\* A conversation is deleted: the others stay.
LEMMA DeleteAnswers == ASSUME Enough, TInv, AInv, NEW id, Delete(1, id) PROVE AInv'
<1>0. 1 <= opened
  BY PanelFacts DEF Delete, Enough, Panel
<1>1. PICK g, a, list, s, b : /\ g = history[1] /\ a = active[1] /\ list = sessions[1]
                              /\ s = Others(sessions[1], id) /\ b = Budget
  OBVIOUS
<1>2. list \in Seq(Keep(ids))
  BY <1>0, <1>1, OneFacts, OpenedFacts
<1>3. \A x : x \in ToSet(s) <=> (x \in ToSet(list) /\ x.id # id)
  BY <1>1, <1>2, OthersFacts
<1>4. Within(g, s, b)
  BY <1>1, <1>3 DEF AInv, Within
<1>5. deleted' = deleted \union {id} /\ answered' = answered
  BY DEF Delete
<1>6. ASSUME NEW x \in answered PROVE Held(x, deleted', g, a, s)
  <2>1. Held(x, deleted, g, a, list)
    BY <1>1 DEF AInv
  <2>2. CASE x.id \in deleted \/ x.id = id
    BY <1>5, <2>2 DEF Held
  <2>3. CASE ~ (x.id \in deleted \/ x.id = id)
    <3>1. InList(x, list) /\ (x.id = a => Assistant(x.no) \in ToSet(g))
      BY <2>1, <2>3 DEF Held
    <3>2. InList(x, s)
      BY <1>3, <2>3, <3>1 DEF InList
    <3>3. QED
      BY <3>1, <3>2 DEF Held
  <2>4. QED
    BY <2>2, <2>3
<1>7. /\ opened' # 0 /\ history'[1] = g /\ active'[1] = a /\ sessions'[1] = s
      /\ turn' = turn /\ turns' = turns
  BY <1>0, <1>1, OneFacts DEF Delete
<1>8. Budget' = b
  BY <1>1, <1>7 DEF Budget, Busy
<1>9. QED
  BY <1>4, <1>5, <1>6, <1>7, <1>8, AnswersAfter

\* A conversation is loaded: no other one has its id, so that its answers are on screen.
LEMMA LoadAnswers == ASSUME Enough, TInv, AInv, NEW id, Load(1, id) PROVE AInv'
<1>0. 1 <= opened
  BY PanelFacts DEF Load, Enough, Panel
<1>1. PICK g, a, s, b : g = history[1] /\ a = active[1] /\ s = Saved(1, history[1]) /\ b = Budget
  OBVIOUS
<1>2. g \in Seq(Message) /\ Within(g, sessions[1], b)
  BY <1>0, <1>1, OneFacts DEF AInv
<1>3. /\ Within(g, s, b)
      /\ \A x : /\ x.id = a => Assistant(x.no) \in ToSet(g)
                /\ x.id # a => InList(x, sessions[1])
                => InList(x, s)
  BY <1>0, <1>1, <1>2, SaveKeeps
<1>4. \A x \in answered : Held(x, deleted, g, a, s)
  BY <1>1, <1>3 DEF AInv, Held
<1>5. opened' # 0 /\ answered' = answered /\ deleted' = deleted /\ turns' = turns
  BY <1>0, OneFacts DEF Load, ghosts
<1>6. turn[1] \in Turn /\ Cleared(turn[1]).at = turn[1].at
  BY <1>0, OneFacts, OpenedFacts, TurnFacts
<1>7. CASE id = active[1]
  <2>1. UNCHANGED <<opened, history, active, sessions, storage, turns, answered, deleted, turn>>
    BY <1>7 DEF Load, ghosts
  <2>2. QED
    BY <2>1, SameAnswers DEF Busy
<1>8. CASE id # active[1]
  <2>1. sessions'[1] = s
    BY <1>0, <1>1, <1>8, OneFacts DEF Load
  <2>2. CASE ~ Holds(s, id)
    <3>1. /\ turn' = [turn EXCEPT ![1].aborted = Busy(1)] /\ history'[1] = g /\ active'[1] = a
      BY <1>1, <1>8, <2>1, <2>2 DEF Load
    <3>2. PICK t : t = [turn[1] EXCEPT !.aborted = Busy(1)]
      OBVIOUS
    <3>3. turn'[1] = t /\ t.at = turn[1].at
      BY <1>0, <1>6, <3>1, <3>2, OneFacts DEF Turn
    <3>4. Budget' = b
      BY <1>1, <1>5, <3>3 DEF Budget, Busy
    <3>5. QED
      BY <1>3, <1>4, <1>5, <2>1, <3>1, <3>4, AnswersAfter
  <2>3. CASE Holds(s, id)
    <3>1. PICK f, h : f = s[Find(s, id)] /\ h = s[Find(s, id)].messages
      OBVIOUS
    <3>2. turn'[1] = Cleared(turn[1]) /\ active'[1] = id /\ history'[1] = h
      BY <1>0, <1>8, <2>1, <2>3, <3>1, OneFacts DEF Load
    <3>3. s \in Seq(Keep(ids)) /\ Distinct(s) /\ ids \in Nat
      BY <1>0, <1>1, OneFacts, OpenedFacts, SavedFacts DEF TInv
    <3>4. Find(s, id) \in DOMAIN s /\ f.id = id
      BY <2>3, <3>1, <3>3, ListFacts
    <3>5. f \in ToSet(s)
      BY <3>1, <3>4 DEF ToSet
    <3>6. ASSUME NEW x \in ToSet(s), x.id = id PROVE x = f
      <4>1. PICK i \in 1 .. Len(s) : x = s[i]
        BY <3>3, <3>6 DEF ToSet
      <4>2. PICK j \in 1 .. Len(s) : f = s[j]
        BY <3>1, <3>3, <3>4
      <4>3. ~ (i < j) /\ ~ (j < i)
        BY <3>3, <3>4, <3>6, <4>1, <4>2 DEF Distinct
      <4>4. QED
        BY <3>3, <4>1, <4>2, <4>3
    <3>7. Within(h, s, b)
      BY <1>3, <3>1, <3>5 DEF Within
    <3>8. ASSUME NEW x \in answered PROVE Held(x, deleted, h, id, s)
      <4>1. Held(x, deleted, g, a, s)
        BY <1>4
      <4>2. CASE x.id \in deleted
        BY <4>2 DEF Held
      <4>3. CASE InList(x, s)
        <5>1. x.id = id => Assistant(x.no) \in ToSet(h)
          BY <3>1, <3>6, <4>3 DEF InList
        <5>2. QED
          BY <4>3, <5>1 DEF Held
      <4>4. QED
        BY <4>1, <4>2, <4>3 DEF Held
    <3>9. Budget' = b
      BY <1>1, <1>5, <1>6, <3>2 DEF Budget, Busy
    <3>10. QED
      BY <1>5, <2>1, <3>2, <3>7, <3>8, <3>9, AnswersAfter
  <2>4. QED
    BY <2>2, <2>3
<1>9. QED
  BY <1>7, <1>8

\* Every step keeps the answers.
LEMMA NextAnswers == ASSUME Enough, TInv, AInv, [Next]_vars PROVE AInv'
<1>0. Panel = {1}
  BY DEF Enough, Panel
<1>1. CASE Open
  BY <1>1, OpenAnswers
<1>2. ASSUME NEW t, t.at # "idle" <=> turn[1].at # "idle", turn' = [turn EXCEPT ![1] = t],
             UNCHANGED <<opened, history, active, sessions, storage, turns, answered, deleted>>
      PROVE  AInv'
  <2>1. turn'[1] = t
    BY <1>0, <1>2 DEF TInv, Panels, Domains
  <2>2. QED
    BY <1>2, <2>1, SameAnswers DEF Busy
<1>3. turn[1] \in Turn
  BY <1>0, PanelFacts DEF Fine
<1>4. PICK u : u = Unblocked(turn[1])
  OBVIOUS
<1>5. u \in Turn /\ (u.at # "idle" <=> turn[1].at # "idle")
  BY <1>3, <1>4, TurnFacts
<1>6. CASE Close
  <2>1. current = 1
    BY <1>6 DEF Close, TInv, Counters, Enough
  <2>2. QED
    BY <1>2, <1>4, <1>5, <1>6, <2>1 DEF Close, ghosts
<1>7. CASE Ask(1)
  <2>1. PICK t : t = [turn[1] EXCEPT !.at = "asking"]
    OBVIOUS
  <2>2. t.at = "asking" /\ turn' = [turn EXCEPT ![1] = t] /\ turn[1].at # "idle"
    BY <1>3, <1>7, <2>1 DEF Ask, Turn
  <2>3. QED
    BY <1>2, <1>7, <2>2 DEF Ask
<1>8. CASE RequestApproval(1)
  <2>1. PICK t : t = [turn[1] EXCEPT !.at = "approval", !.card = TRUE]
    OBVIOUS
  <2>2. t.at = "approval" /\ turn' = [turn EXCEPT ![1] = t] /\ turn[1].at # "idle"
    BY <1>3, <1>8, <2>1 DEF RequestApproval, Turn
  <2>3. QED
    BY <1>2, <1>8, <2>2 DEF RequestApproval, ghosts
<1>9. CASE AnswerApproval(1)
  BY <1>2, <1>4, <1>5, <1>9 DEF AnswerApproval, ghosts
<1>10. CASE Stop(1)
  <2>1. PICK t : t = [u EXCEPT !.aborted = TRUE]
    OBVIOUS
  <2>2. t.at = u.at /\ turn' = [turn EXCEPT ![1] = t]
    BY <1>4, <1>5, <1>10, <2>1 DEF Stop, Turn
  <2>3. QED
    BY <1>2, <1>5, <1>10, <2>2 DEF Stop
<1>11. CASE HidePicker(1)
  BY <1>11, SameAnswers DEF HidePicker, ghosts, Busy
<1>12. CASE UNCHANGED vars
  BY <1>12, SameAnswers DEF vars, Busy
<1>13. CASE TurnStep(1)
  BY <1>7, <1>8, <1>13, FinishAnswers DEF TurnStep
<1>14. CASE UserStep(1)
  BY <1>9, <1>10, <1>11, <1>14, SubmitAnswers, SaveAnswers, DeleteAnswers, LoadAnswers
     DEF UserStep
<1>15. QED
  BY <1>0, <1>1, <1>6, <1>12, <1>13, <1>14 DEF Next

\* With one panel, an answer the user got stays saved in the conversation it joined until
\* that is deleted -- through switches, failures of later turns and reloads of older
\* conversations, whatever their number, as long as nothing has to be trimmed.
THEOREM AnswersStaySaved == Spec => []AnswersSaved
<1> DEFINE I == Enough => AInv
<1>1. Init => I
  <2> SUFFICES ASSUME Init, Enough PROVE AInv
    OBVIOUS
  <2>1. PICK e : e = << >>
    OBVIOUS
  <2>2. history[1] = e /\ sessions[1] = e /\ turn[1] = NoTurn
    BY <2>1 DEF Init, Enough, Panel
  <2>3. Budget = Base /\ Base \in Nat
    BY <2>2, PanelAssumption DEF Init, Budget, Base, Busy, NoTurn
  <2>4. Len(e) = 0 /\ ToSet(e) = {}
    BY <2>1 DEF ToSet
  <2>5. Within(e, e, Base)
    BY <2>3, <2>4 DEF Within
  <2>6. QED
    BY <2>2, <2>3, <2>5 DEF Init, AInv
<1>2. TInv /\ I /\ [Next]_vars => I'
  BY NextAnswers DEF Enough
<1>3. TInv /\ I /\ StorageInStep => AnswersSaved
  <2> SUFFICES ASSUME TInv, I, StorageInStep, Enough, NEW a \in answered, a.id \notin deleted
               PROVE  \E i \in DOMAIN storage :
                        storage[i].id = a.id /\ Assistant(a.no) \in ToSet(storage[i].messages)
    BY Zenon DEF AnswersSaved, AnswersSurvive, Enough
  <2>1. AInv
    OBVIOUS
  <2>2. opened = 1
    BY <2>1, PanelAssumption DEF AInv, TInv, Counters, Enough
  <2>3. InList(a, sessions[1])
    BY <2>1 DEF AInv, Held
  <2>4. ASSUME NEW id \in Id, sessions[1] = Migrated(id)
        PROVE  FALSE
    <3>1. Assistant(a.no) \in ToSet(Legacy)
      BY <2>3, <2>4, MigratedFacts DEF InList, Id
    <3>2. Assistant(a.no).turn = 0
      <4>1. PICK i \in DOMAIN Legacy : Legacy[i] = Assistant(a.no)
        BY <3>1 DEF ToSet
      <4>2. PICK A, L : A = [role : {"user", "assistant"}, turn : {0}] /\ L = Legacy
        OBVIOUS
      <4>3. L \in Seq(A) /\ i \in DOMAIN L
        BY <4>1, <4>2, PanelAssumption
      <4>4. L[i] \in A
        BY <4>3
      <4>5. Legacy[i].turn = 0
        BY <4>2, <4>4
      <4>6. QED
        BY <4>1, <4>5
    <3>3. Assistant(a.no).turn # 0
      BY DEF TInv, Workspace, Assistant
    <3>4. QED
      BY <3>2, <3>3
  <2>5. storage = sessions[1]
    BY <2>2, <2>4 DEF StorageInStep, Enough
  <2>6. InList(a, storage)
    BY <2>3, <2>5
  <2>7. QED
    BY <2>6 DEF InList, ToSet
<1>4. QED
  BY <1>1, <1>2, <1>3, TInvariance, StorageMirrored, PTL DEF Spec
=============================================================================
