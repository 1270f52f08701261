--------------------------- MODULE AgentToolsProofs ---------------------------
(***************************************************************************)
(* What the agent's tools and the edit command keep for every text, file and  *)
(* cap: the hunks of a diff rebuild either text and, with some of them        *)
(* accepted, what the lines of the diff tell; an edit replaces what it names  *)
(* and leaves the rest; a grep that does not say it stopped is complete; and  *)
(* what the user approved is what is done.                                   *)
(***************************************************************************)
EXTENDS AgentTools, ScanProofs

\* Facts about sequences that the scans keep needing: appending to the right part of
\* a concatenation appends to the whole ...
LEMMA ConcatAppend ==
  ASSUME NEW T, NEW s \in Seq(T), NEW t \in Seq(T), NEW x \in T
  PROVE  s \o Append(t, x) = Append(s \o t, x)
<1>1. PICK u, v, l, r : u = Append(t, x) /\ v = s \o t /\ l = s \o u /\ r = Append(v, x)
  OBVIOUS
<1>2. u \in Seq(T) /\ v \in Seq(T)
  BY <1>1
<1>3. l \in Seq(T) /\ r \in Seq(T)
  BY <1>1, <1>2
<1>4. Len(l) = Len(s) + Len(t) + 1 /\ Len(r) = Len(s) + Len(t) + 1
  BY <1>1, <1>2
<1>5. ASSUME NEW k \in 1 .. Len(s) + Len(t) + 1 PROVE l[k] = r[k]
  <2>1. CASE k <= Len(s)
    BY <1>1, <1>2, <2>1
  <2>2. CASE k > Len(s) /\ k <= Len(s) + Len(t)
    BY <1>1, <1>2, <2>2
  <2>3. CASE k = Len(s) + Len(t) + 1
    BY <1>1, <1>2, <2>3
  <2>4. QED
    BY <2>1, <2>2, <2>3
<1>6. l = r
  BY <1>3, <1>4, <1>5
<1>7. QED
  BY <1>1, <1>6

\* ... a part of a list grows by the next element ...
LEMMA PartAppend ==
  ASSUME NEW T, NEW s \in Seq(T), NEW c \in Nat, NEW k \in Nat, c <= k, k < Len(s)
  PROVE  /\ SubSeq(s, c + 1, k) \in Seq(T)
         /\ SubSeq(s, c + 1, k + 1) = Append(SubSeq(s, c + 1, k), s[k + 1])
<1>1. PICK u, l, r : /\ u = SubSeq(s, c + 1, k) /\ l = SubSeq(s, c + 1, k + 1)
                     /\ r = Append(u, s[k + 1])
  OBVIOUS
<1>2. u \in Seq(T) /\ l \in Seq(T) /\ Len(u) = k - c /\ Len(l) = k - c + 1 /\ s[k + 1] \in T
  BY <1>1
<1>3. r \in Seq(T) /\ Len(r) = k - c + 1
  BY <1>1, <1>2
<1>4. ASSUME NEW i \in 1 .. k - c + 1 PROVE l[i] = r[i]
  <2>1. CASE i <= k - c
    BY <1>1, <1>2, <2>1
  <2>2. CASE i = k - c + 1
    BY <1>1, <1>2, <2>2
  <2>3. QED
    BY <2>1, <2>2
<1>5. l = r
  BY <1>2, <1>3, <1>4
<1>6. QED
  BY <1>1, <1>2, <1>5

LEMMA FrontAppend ==
  ASSUME NEW T, NEW s \in Seq(T), NEW k \in Nat, k < Len(s)
  PROVE  SubSeq(s, 1, k + 1) = Append(SubSeq(s, 1, k), s[k + 1])
<1>1. PICK c : c = 0
  OBVIOUS
<1>2. c \in Nat /\ c <= k /\ c + 1 = 1
  BY <1>1
<1>3. SubSeq(s, c + 1, k + 1) = Append(SubSeq(s, c + 1, k), s[k + 1])
  BY <1>2, PartAppend
<1>4. QED
  BY <1>2, <1>3

\* ... and is empty when it ends before it begins.
LEMMA NoPart ==
  ASSUME NEW T, NEW s \in Seq(T), NEW k \in Nat
  PROVE  SubSeq(s, k + 1, k) = << >>
OBVIOUS

LEMMA PartType ==
  ASSUME NEW T, NEW s \in Seq(T), NEW c \in Nat, NEW k \in Nat, k <= Len(s)
  PROVE  SubSeq(s, c + 1, k) \in Seq(T)
OBVIOUS

LEMMA ConcatEmpty ==
  ASSUME NEW T, NEW s \in Seq(T)
  PROVE  s \o << >> = s /\ << >> \o s = s
OBVIOUS

-----------------------------------------------------------------------------
\* What the loop of diffLines goes through.
LineType(m, T) == [op : {"=", "-", "+"}, text : T, at : 0 .. m]
WalkType(a, b, T) == [i : 0 .. Len(a), j : 0 .. Len(b), out : Seq(LineType(Len(a), T))]

\* A turn keeps, removes or adds a line, or there is none left.
Turned(a, b, s, d) ==
  \/ /\ s.i < Len(a) /\ s.j < Len(b) /\ a[s.i + 1] = b[s.j + 1]
     /\ d = [i |-> s.i + 1, j |-> s.j + 1, out |-> Append(s.out, Line("=", a[s.i + 1], s.i))]
  \/ /\ s.i < Len(a)
     /\ d = [i |-> s.i + 1, j |-> s.j, out |-> Append(s.out, Line("-", a[s.i + 1], s.i))]
  \/ /\ s.j < Len(b)
     /\ d = [i |-> s.i, j |-> s.j + 1, out |-> Append(s.out, Line("+", b[s.j + 1], s.i))]
  \/ s.i = Len(a) /\ s.j = Len(b) /\ d = s

LEMMA DiffTurn ==
  ASSUME NEW T, NEW a \in Seq(T), NEW b \in Seq(T), NEW lcs, NEW s \in WalkType(a, b, T)
  PROVE  Turned(a, b, s, DiffStep(a, b, lcs, s))
<1> SUFFICES \/ /\ s.i < Len(a) /\ s.j < Len(b) /\ a[s.i + 1] = b[s.j + 1]
                /\ DiffStep(a, b, lcs, s) = [i |-> s.i + 1, j |-> s.j + 1,
                                             out |-> Append(s.out, Line("=", a[s.i + 1], s.i))]
             \/ /\ s.i < Len(a)
                /\ DiffStep(a, b, lcs, s) = [i |-> s.i + 1, j |-> s.j,
                                             out |-> Append(s.out, Line("-", a[s.i + 1], s.i))]
             \/ /\ s.j < Len(b)
                /\ DiffStep(a, b, lcs, s) = [i |-> s.i, j |-> s.j + 1,
                                             out |-> Append(s.out, Line("+", b[s.j + 1], s.i))]
             \/ s.i = Len(a) /\ s.j = Len(b) /\ DiffStep(a, b, lcs, s) = s
  BY Zenon DEF Turned
<1>1. PICK i, j, m, n, d : i = s.i /\ j = s.j /\ m = Len(a) /\ n = Len(b) /\ d = DiffStep(a, b, lcs, s)
  OBVIOUS
<1>2. i \in 0 .. m /\ j \in 0 .. n /\ m \in Nat /\ n \in Nat
  BY <1>1 DEF WalkType
<1>3. CASE i < m /\ j < n /\ a[i + 1] = b[j + 1]
  BY <1>1, <1>3 DEF DiffStep
<1>4. CASE ~ (i < m /\ j < n /\ a[i + 1] = b[j + 1]) /\ i < m /\ (i < m /\ j < n => lcs[i + 1, j] >= lcs[i, j + 1])
  <2>1. d = [i |-> i + 1, j |-> j, out |-> Append(s.out, Line("-", a[i + 1], i))]
    BY <1>1, <1>4, Zenon DEF DiffStep
  <2>2. QED
    BY <1>1, <1>4, <2>1
<1>5. CASE ~ (i < m /\ j < n /\ a[i + 1] = b[j + 1]) /\ ~ (i < m /\ (i < m /\ j < n => lcs[i + 1, j] >= lcs[i, j + 1])) /\ j < n
  <2>1. d = [i |-> i, j |-> j + 1, out |-> Append(s.out, Line("+", b[j + 1], i))]
    BY <1>1, <1>5, Zenon DEF DiffStep
  <2>2. QED
    BY <1>1, <1>5, <2>1
<1>6. CASE ~ (i < m /\ j < n /\ a[i + 1] = b[j + 1]) /\ ~ (i < m /\ (i < m /\ j < n => lcs[i + 1, j] >= lcs[i, j + 1])) /\ ~ (j < n)
  <2>1. d = s
    BY <1>1, <1>6, Zenon DEF DiffStep
  <2>2. ~ (i < m) /\ ~ (j < n)
    BY <1>6, Zenon
  <2>2a. i = m /\ j = n
    BY <1>2, <2>2
  <2>3. QED
    BY <1>1, <2>1, <2>2a
<1>7. QED
  BY <1>3, <1>4, <1>5, <1>6, Zenon

\* ... and leaves such a state.
LEMMA DiffTurnType ==
  ASSUME NEW T, NEW a, NEW b, a \in Seq(T), b \in Seq(T), NEW lcs, NEW s \in WalkType(a, b, T)
  PROVE  DiffStep(a, b, lcs, s) \in WalkType(a, b, T)
<1>1. PICK i, j, o, L, d : /\ i = s.i /\ j = s.j /\ o = s.out
                           /\ L = LineType(Len(a), T) /\ d = DiffStep(a, b, lcs, s)
  OBVIOUS
<1>2. i \in 0 .. Len(a) /\ j \in 0 .. Len(b)
  BY <1>1 DEF WalkType
<1>2a. o \in Seq(L)
  BY <1>1 DEF WalkType
<1>3. \A x, y, z : x \in 0 .. Len(a) /\ y \in 0 .. Len(b) /\ z \in Seq(L) =>
        [i |-> x, j |-> y, out |-> z] \in WalkType(a, b, T)
  BY <1>1 DEF WalkType
<1>4. ASSUME NEW op \in {"=", "-", "+"}, NEW x \in T
      PROVE  Append(o, Line(op, x, i)) \in Seq(L)
  <2>1. Line(op, x, i) \in LineType(Len(a), T)
    BY <1>2 DEF LineType, Line
  <2>2. PICK l : l = Line(op, x, i)
    OBVIOUS
  <2>3. l \in L
    BY <1>1, <2>1, <2>2
  <2>4. QED
    BY <1>2a, <2>2, <2>3
<1>5. ASSUME i < Len(a), j < Len(b),
             d = [i |-> i + 1, j |-> j + 1, out |-> Append(o, Line("=", a[i + 1], i))]
      PROVE  d \in WalkType(a, b, T)
  <2>1. PICK z : z = Append(o, Line("=", a[i + 1], i))
    OBVIOUS
  <2>2. a[i + 1] \in T /\ i + 1 \in 0 .. Len(a) /\ j + 1 \in 0 .. Len(b)
    BY <1>2, <1>5
  <2>3. z \in Seq(L)
    BY <1>4, <2>1, <2>2
  <2>4. QED
    BY <1>3, <1>5, <2>1, <2>2, <2>3
<1>6. ASSUME i < Len(a),
             d = [i |-> i + 1, j |-> j, out |-> Append(o, Line("-", a[i + 1], i))]
      PROVE  d \in WalkType(a, b, T)
  <2>1. PICK z : z = Append(o, Line("-", a[i + 1], i))
    OBVIOUS
  <2>2. a[i + 1] \in T /\ i + 1 \in 0 .. Len(a)
    BY <1>2, <1>6
  <2>3. z \in Seq(L)
    BY <1>4, <2>1, <2>2
  <2>4. QED
    BY <1>2, <1>3, <1>6, <2>1, <2>2, <2>3
<1>7. ASSUME j < Len(b),
             d = [i |-> i, j |-> j + 1, out |-> Append(o, Line("+", b[j + 1], i))]
      PROVE  d \in WalkType(a, b, T)
  <2>1. PICK z : z = Append(o, Line("+", b[j + 1], i))
    OBVIOUS
  <2>2. b[j + 1] \in T /\ j + 1 \in 0 .. Len(b)
    BY <1>2, <1>7
  <2>3. z \in Seq(L)
    BY <1>4, <2>1, <2>2
  <2>4. QED
    BY <1>2, <1>3, <1>7, <2>1, <2>2, <2>3
<1>8. \/ /\ i < Len(a) /\ j < Len(b)
         /\ d = [i |-> i + 1, j |-> j + 1, out |-> Append(o, Line("=", a[i + 1], i))]
      \/ /\ i < Len(a)
         /\ d = [i |-> i + 1, j |-> j, out |-> Append(o, Line("-", a[i + 1], i))]
      \/ /\ j < Len(b)
         /\ d = [i |-> i, j |-> j + 1, out |-> Append(o, Line("+", b[j + 1], i))]
      \/ d = s
  <2>1. Turned(a, b, s, d)
    BY <1>1, DiffTurn
  <2>2. QED
    BY <1>1, <2>1 DEF Turned
<1>9. QED
  BY <1>1, <1>5, <1>6, <1>7, <1>8, Zenon

ByTurns(a, b, f) ==
  \A n \in 1 .. Len(a) + Len(b) : f[n] = DiffStep(a, b, Lcs(a, b), f[n - 1])

LEMMA WalkDef ==
  ASSUME NEW T, NEW a, NEW b, a \in Seq(T), b \in Seq(T)
  PROVE  /\ Walk(a, b) \in [0 .. Len(a) + Len(b) -> WalkType(a, b, T)]
         /\ Walk(a, b)[0] = [i |-> 0, j |-> 0, out |-> << >>]
         /\ ByTurns(a, b, Walk(a, b))
<1>0. PICK A, N, e, lcs : /\ A = WalkType(a, b, T) /\ N = Len(a) + Len(b)
                          /\ e = [i |-> 0, j |-> 0, out |-> << >>] /\ lcs = Lcs(a, b)
  OBVIOUS
<1>1. N \in Nat /\ e \in A
  BY <1>0 DEF WalkType
<1>1a. \A s \in A : DiffStep(a, b, lcs, s) \in A
  BY <1>0, DiffTurnType
<1>2. PICK step : step = [n \in 1 .. N |-> [s \in A |-> DiffStep(a, b, lcs, s)]]
  OBVIOUS
<1>3. step \in [1 .. N -> [A -> A]]
  BY <1>1a, <1>2
<1>5. PICK g \in [0 .. N -> A] : g[0] = e /\ \A n \in 1 .. N : g[n] = step[n][g[n - 1]]
  <2>1. e \in A /\ N \in Nat
    BY <1>1
  <2>2. \E h \in [0 .. N -> A] : h[0] = e /\ \A n \in 1 .. N : h[n] = step[n][h[n - 1]]
    BY ONLY <2>1, <1>3, Recursion
  <2>3. QED
    BY <2>2
<1>6. \A n \in 1 .. N : g[n] = DiffStep(a, b, lcs, g[n - 1])
  <2> TAKE n \in 1 .. N
  <2>1. g[n - 1] \in A
    BY <1>1, <1>5
  <2>2. QED
    BY <1>2, <1>5, <2>1
<1>7. g = [n \in 0 .. N |-> IF n = 0 THEN e ELSE DiffStep(a, b, lcs, g[n - 1])]
  BY <1>1, <1>5, <1>6
<1>8. PICK f : f = Walk(a, b)
  OBVIOUS
<1>9. f = CHOOSE walk : walk = [n \in 0 .. N |-> IF n = 0 THEN e ELSE DiffStep(a, b, lcs, walk[n - 1])]
  BY <1>0, <1>8, Zenon DEF Walk
<1>10. f = [n \in 0 .. N |-> IF n = 0 THEN e ELSE DiffStep(a, b, lcs, f[n - 1])]
  BY <1>7, <1>9, Zenon
<1>11. DOMAIN f = 0 .. N /\ f[0] = e /\ \A n \in 1 .. N : f[n] = DiffStep(a, b, lcs, f[n - 1])
  BY <1>1, <1>10
<1>12. \A n \in 0 .. N : f[n] \in A
  <2> DEFINE Typed == {n \in 0 .. N : f[n] \in A}
  <2>1. 0 \in Typed
    BY <1>1, <1>11
  <2>2. \A n \in 1 .. N : n - 1 \in Typed => n \in Typed
    BY <1>1, <1>1a, <1>11
  <2>3. \A n \in 0 .. N : n \in Typed
    <3> HIDE DEF Typed
    <3>1. QED
      BY <1>1, <2>1, <2>2, InductTo
  <2>4. QED
    BY <2>3
<1>13. f = [n \in 0 .. N |-> f[n]]
  BY <1>10
<1>14. f \in [0 .. N -> A]
  BY <1>12, <1>13
<1>15. ByTurns(a, b, f)
  BY <1>0, <1>11 DEF ByTurns
<1>16. QED
  BY <1>0, <1>8, <1>11, <1>14, <1>15

-----------------------------------------------------------------------------
\* A line of the diff takes one line of the old text, of the new one, or the same of
\* both, and says where in the old text it stands; x and y lines have been taken
\* before it, u and v after it.
Takes(a, b, l, x, y, u, v) ==
  /\ u \in 0 .. Len(a) /\ v \in 0 .. Len(b)
  /\ l.at = x
  /\ \/ l.op = "=" /\ u = x + 1 /\ v = y + 1 /\ l.text = a[u] /\ l.text = b[v]
     \/ l.op = "-" /\ u = x + 1 /\ v = y /\ l.text = a[u]
     \/ l.op = "+" /\ u = x /\ v = y + 1 /\ l.text = b[v]

Path(a, b, script, p, q) ==
  /\ p \in [0 .. Len(script) -> Nat] /\ q \in [0 .. Len(script) -> Nat]
  /\ p[0] = 0 /\ q[0] = 0
  /\ \A k \in 1 .. Len(script) : Takes(a, b, script[k], p[k - 1], q[k - 1], p[k], q[k])

Traced(a, b, script, i, j) ==
  \E p, q : Path(a, b, script, p, q) /\ p[Len(script)] = i /\ q[Len(script)] = j

\* No line takes nothing, and one more takes what it takes.
LEMMA TracedNone ==
  ASSUME NEW T, NEW a \in Seq(T), NEW b \in Seq(T), NEW script, Len(script) = 0
  PROVE  Traced(a, b, script, 0, 0)
<1>1. PICK p : p = [k \in 0 .. 0 |-> 0]
  OBVIOUS
<1>2. p \in [0 .. 0 -> Nat] /\ p[0] = 0
  BY <1>1
<1>3. Path(a, b, script, p, p)
  BY <1>2 DEF Path
<1>4. QED
  BY <1>2, <1>3 DEF Traced

LEMMA TracedAppend ==
  ASSUME NEW L, NEW a, NEW b, NEW script \in Seq(L), NEW l \in L,
         NEW i, NEW j, NEW u \in Nat, NEW v \in Nat,
         Traced(a, b, script, i, j), Takes(a, b, l, i, j, u, v)
  PROVE  Traced(a, b, Append(script, l), u, v)
<1>1. PICK p, q : Path(a, b, script, p, q) /\ p[Len(script)] = i /\ q[Len(script)] = j
  BY DEF Traced
<1>2. PICK N, longer : N = Len(script) /\ longer = Append(script, l)
  OBVIOUS
<1>3. N \in Nat /\ Len(longer) = N + 1 /\ longer[N + 1] = l /\ \A k \in 1 .. N : longer[k] = script[k]
  BY <1>2
<1>4. PICK r, s : /\ r = [k \in 0 .. N + 1 |-> IF k = N + 1 THEN u ELSE p[k]]
                  /\ s = [k \in 0 .. N + 1 |-> IF k = N + 1 THEN v ELSE q[k]]
  OBVIOUS
<1>5. p \in [0 .. N -> Nat] /\ q \in [0 .. N -> Nat] /\ p[0] = 0 /\ q[0] = 0
  BY <1>1, <1>2 DEF Path
<1>6. r \in [0 .. N + 1 -> Nat] /\ s \in [0 .. N + 1 -> Nat]
  BY <1>3, <1>4, <1>5
<1>7. /\ \A k \in 0 .. N : r[k] = p[k] /\ s[k] = q[k]
      /\ r[N + 1] = u /\ s[N + 1] = v
  BY <1>3, <1>4
<1>8. \A k \in 1 .. N : Takes(a, b, script[k], p[k - 1], q[k - 1], p[k], q[k])
  BY <1>1, <1>2 DEF Path
<1>9. ASSUME NEW k \in 1 .. N + 1
      PROVE  Takes(a, b, longer[k], r[k - 1], s[k - 1], r[k], s[k])
  <2>1. CASE k \in 1 .. N
    <3>1. k - 1 \in 0 .. N /\ k \in 0 .. N
      BY <1>3, <2>1
    <3>2. QED
      BY <1>3, <1>7, <1>8, <2>1, <3>1
  <2>2. CASE k = N + 1
    <3>1. k - 1 = N /\ N \in 0 .. N
      BY <1>3, <2>2
    <3>2. r[k - 1] = i /\ s[k - 1] = j
      BY <1>1, <1>2, <1>7, <3>1
    <3>3. QED
      BY <1>3, <1>7, <2>2, <3>2
  <2>3. QED
    BY <1>3, <2>1, <2>2
<1>10. r[0] = 0 /\ s[0] = 0
  BY <1>3, <1>5, <1>7
<1>11. Path(a, b, longer, r, s)
  BY <1>3, <1>6, <1>9, <1>10 DEF Path
<1>12. r[Len(longer)] = u /\ s[Len(longer)] = v
  BY <1>3, <1>7
<1>13. QED
  BY <1>2, <1>11, <1>12 DEF Traced

\* The loop leaves a trace, and every turn but the last ones takes a line.
LEMMA WalkTraced ==
  ASSUME NEW T, NEW a, NEW b, a \in Seq(T), b \in Seq(T)
  PROVE  \A n \in 0 .. Len(a) + Len(b) :
           LET w == Walk(a, b)[n]
           IN /\ Traced(a, b, w.out, w.i, w.j)
              /\ w.i + w.j >= n \/ (w.i = Len(a) /\ w.j = Len(b))
<1>1. PICK N, f, lcs, L : /\ N = Len(a) + Len(b) /\ f = Walk(a, b) /\ lcs = Lcs(a, b)
                          /\ L = LineType(Len(a), T)
  OBVIOUS
<1>2. N \in Nat /\ Len(a) \in Nat /\ Len(b) \in Nat
  BY <1>1
<1>3. /\ \A n \in 0 .. N : f[n] \in WalkType(a, b, T)
      /\ f[0] = [i |-> 0, j |-> 0, out |-> << >>]
      /\ \A n \in 1 .. N : f[n] = DiffStep(a, b, lcs, f[n - 1])
  <2>1. f \in [0 .. N -> WalkType(a, b, T)]
    BY <1>1, WalkDef, Zenon
  <2>2. f[0] = [i |-> 0, j |-> 0, out |-> << >>]
    BY <1>1, WalkDef, Zenon
  <2>3. \A n \in 1 .. N : f[n] = DiffStep(a, b, lcs, f[n - 1])
    <3>1. ByTurns(a, b, f)
      BY <1>1, WalkDef, Zenon
    <3>2. QED
      BY <1>1, <3>1 DEF ByTurns
  <2>4. QED
    BY <2>1, <2>2, <2>3
<1> DEFINE Good(w, n) == /\ Traced(a, b, w.out, w.i, w.j)
                         /\ w.i + w.j >= n \/ (w.i = Len(a) /\ w.j = Len(b))
    S == {n \in 0 .. N : Good(f[n], n)}
<1>4. 0 \in S
  <2>1. PICK w : w = f[0]
    OBVIOUS
  <2>2. w.i = 0 /\ w.j = 0 /\ Len(w.out) = 0
    BY <1>3, <2>1
  <2>3. Traced(a, b, w.out, w.i, w.j)
    BY <2>2, TracedNone
  <2>4. QED
    BY <1>2, <2>1, <2>2, <2>3
<1>5. ASSUME NEW n \in 1 .. N, Good(f[n - 1], n - 1) PROVE Good(f[n], n)
  <2>1. PICK w, d, i, j, o : w = f[n - 1] /\ d = f[n] /\ i = w.i /\ j = w.j /\ o = w.out
    OBVIOUS
  <2>2. w \in WalkType(a, b, T)
    BY <1>2, <1>3, <2>1
  <2>3. i \in 0 .. Len(a) /\ j \in 0 .. Len(b)
    BY <2>1, <2>2 DEF WalkType
  <2>4. o \in Seq(L)
    BY <1>1, <2>1, <2>2 DEF WalkType
  <2>5. Traced(a, b, o, i, j)
    BY <1>5, <2>1
  <2>6. i + j >= n - 1 \/ (i = Len(a) /\ j = Len(b))
    BY <1>5, <2>1
  <2>7. d = DiffStep(a, b, lcs, w)
    BY <1>3, <2>1
  <2>8. \A op, x : op \in {"=", "-", "+"} /\ x \in T =>
          Line(op, x, i) \in L /\ Line(op, x, i) = [op |-> op, text |-> x, at |-> i]
    BY <1>1, <2>3 DEF Line, LineType
  <2>9. ASSUME i < Len(a), j < Len(b), a[i + 1] = b[j + 1],
               d = [i |-> i + 1, j |-> j + 1, out |-> Append(o, Line("=", a[i + 1], i))]
        PROVE  Good(d, n)
    <3>1. PICK l, x : x = a[i + 1] /\ l = Line("=", x, i)
      OBVIOUS
    <3>2. x \in T /\ i + 1 \in 0 .. Len(a) /\ j + 1 \in 0 .. Len(b)
      BY <2>3, <2>9, <3>1
    <3>3. l \in L /\ l.op = "=" /\ l.text = x /\ l.at = i
      BY <2>8, <3>1, <3>2
    <3>4. Takes(a, b, l, i, j, i + 1, j + 1)
      BY <2>9, <3>1, <3>2, <3>3 DEF Takes
    <3>5. Traced(a, b, Append(o, l), i + 1, j + 1)
      BY <2>4, <2>5, <3>2, <3>3, <3>4, TracedAppend
    <3>6. d.i = i + 1 /\ d.j = j + 1 /\ d.out = Append(o, l)
      BY <2>9, <3>1
    <3>7. QED
      BY <2>3, <2>6, <2>9, <3>5, <3>6
  <2>10. ASSUME i < Len(a),
                d = [i |-> i + 1, j |-> j, out |-> Append(o, Line("-", a[i + 1], i))]
         PROVE  Good(d, n)
    <3>1. PICK l, x : x = a[i + 1] /\ l = Line("-", x, i)
      OBVIOUS
    <3>2. x \in T /\ i + 1 \in 0 .. Len(a) /\ j \in 0 .. Len(b)
      BY <2>3, <2>10, <3>1
    <3>3. l \in L /\ l.op = "-" /\ l.text = x /\ l.at = i
      BY <2>8, <3>1, <3>2
    <3>4. Takes(a, b, l, i, j, i + 1, j)
      BY <3>1, <3>2, <3>3 DEF Takes
    <3>5. Traced(a, b, Append(o, l), i + 1, j)
      BY <2>4, <2>5, <3>2, <3>3, <3>4, TracedAppend
    <3>6. d.i = i + 1 /\ d.j = j /\ d.out = Append(o, l)
      BY <2>10, <3>1
    <3>7. QED
      BY <2>3, <2>6, <2>10, <3>5, <3>6
  <2>11. ASSUME j < Len(b),
                d = [i |-> i, j |-> j + 1, out |-> Append(o, Line("+", b[j + 1], i))]
         PROVE  Good(d, n)
    <3>1. PICK l, x : x = b[j + 1] /\ l = Line("+", x, i)
      OBVIOUS
    <3>2. x \in T /\ i \in 0 .. Len(a) /\ j + 1 \in 0 .. Len(b)
      BY <2>3, <2>11, <3>1
    <3>3. l \in L /\ l.op = "+" /\ l.text = x /\ l.at = i
      BY <2>8, <3>1, <3>2
    <3>4. Takes(a, b, l, i, j, i, j + 1)
      BY <3>1, <3>2, <3>3 DEF Takes
    <3>5. Traced(a, b, Append(o, l), i, j + 1)
      BY <2>4, <2>5, <3>2, <3>3, <3>4, TracedAppend
    <3>6. d.i = i /\ d.j = j + 1 /\ d.out = Append(o, l)
      BY <2>11, <3>1
    <3>7. QED
      BY <2>3, <2>6, <2>11, <3>5, <3>6
  <2>12. ASSUME i = Len(a), j = Len(b), d = w PROVE Good(d, n)
    BY <2>1, <2>5, <2>12
  <2>13. \/ /\ i < Len(a) /\ j < Len(b) /\ a[i + 1] = b[j + 1]
            /\ d = [i |-> i + 1, j |-> j + 1, out |-> Append(o, Line("=", a[i + 1], i))]
         \/ /\ i < Len(a)
            /\ d = [i |-> i + 1, j |-> j, out |-> Append(o, Line("-", a[i + 1], i))]
         \/ /\ j < Len(b)
            /\ d = [i |-> i, j |-> j + 1, out |-> Append(o, Line("+", b[j + 1], i))]
         \/ i = Len(a) /\ j = Len(b) /\ d = w
    <3>1. Turned(a, b, w, d)
      BY <2>2, <2>7, DiffTurn
    <3>2. QED
      BY <2>1, <3>1 DEF Turned
  <2> HIDE DEF Good
  <2>14. Good(d, n)
    BY <2>9, <2>10, <2>11, <2>12, <2>13, Zenon
  <2>15. QED
    BY <2>1, <2>14
<1>6. \A n \in 1 .. N : n - 1 \in S => n \in S
  <2> HIDE DEF Good
  <2>1. QED
    BY <1>2, <1>5
<1>7. \A n \in 0 .. N : n \in S
  <2> HIDE DEF S
  <2>1. QED
    BY <1>2, <1>4, <1>6, InductTo
<1>8. \A n \in 0 .. N : Good(f[n], n)
  <2> HIDE DEF Good
  <2>1. QED
    BY <1>7
<1>9. QED
  BY <1>1, <1>8, Zenon

\* The diff of two texts takes them whole, from the first line to the last.
LEMMA ScriptTraced ==
  ASSUME NEW T, NEW a, NEW b, a \in Seq(T), b \in Seq(T)
  PROVE  Script(a, b) \in Seq(LineType(Len(a), T)) /\ Traced(a, b, Script(a, b), Len(a), Len(b))
<1>1. PICK N, w : N = Len(a) + Len(b) /\ w = Walk(a, b)[N]
  OBVIOUS
<1>2. N \in Nat /\ Len(a) \in Nat /\ Len(b) \in Nat /\ N \in 0 .. N
  BY <1>1
<1>3. w \in WalkType(a, b, T)
  BY <1>1, <1>2, WalkDef
<1>4. w.i \in 0 .. Len(a) /\ w.j \in 0 .. Len(b) /\ w.out \in Seq(LineType(Len(a), T))
  BY <1>3 DEF WalkType
<1>5. \A n \in 0 .. Len(a) + Len(b) :
        /\ Traced(a, b, Walk(a, b)[n].out, Walk(a, b)[n].i, Walk(a, b)[n].j)
        /\ Walk(a, b)[n].i + Walk(a, b)[n].j >= n
           \/ (Walk(a, b)[n].i = Len(a) /\ Walk(a, b)[n].j = Len(b))
  BY WalkTraced
<1>6. Traced(a, b, w.out, w.i, w.j) /\ (w.i + w.j >= N \/ (w.i = Len(a) /\ w.j = Len(b)))
  BY <1>1, <1>2, <1>5
<1>7. w.i = Len(a) /\ w.j = Len(b)
  BY <1>1, <1>2, <1>4, <1>6
<1>8. Script(a, b) = w.out
  BY <1>1 DEF Script
<1>9. QED
  BY <1>4, <1>6, <1>7, <1>8

-----------------------------------------------------------------------------
\* The scans of the hunks.
HunkType(m, T) == [oldStart : 0 .. m, oldLines : Seq(T), newLines : Seq(T)]
HunksType(m, T) == [done : Seq(HunkType(m, T)), open : BOOLEAN, hunk : HunkType(m, T)]

\* The hunk a changed line goes into, and what it is then.
OpenHunk(s, l) ==
  IF s.open THEN s.hunk ELSE [oldStart |-> l.at, oldLines |-> << >>, newLines |-> << >>]

LEMMA OpenHunkType ==
  ASSUME NEW m \in Nat, NEW T, NEW s \in HunksType(m, T), NEW l \in LineType(m, T)
  PROVE  OpenHunk(s, l) \in HunkType(m, T)
<1>1. s.hunk \in HunkType(m, T) /\ l.at \in 0 .. m
  BY DEF HunksType, LineType
<1>2. PICK e : e = << >>
  OBVIOUS
<1>3. e \in Seq(T)
  BY <1>2
<1>4. [oldStart |-> l.at, oldLines |-> e, newLines |-> e] \in HunkType(m, T)
  BY <1>1, <1>3 DEF HunkType
<1>5. QED
  BY <1>1, <1>2, <1>4 DEF OpenHunk

LEMMA HunkStepSame ==
  ASSUME NEW s, NEW l, l.op = "="
  PROVE  HunkStep(s, l) = IF s.open THEN [done |-> Append(s.done, s.hunk), open |-> FALSE, hunk |-> NoHunk]
                          ELSE s
BY DEF HunkStep

LEMMA HunkStepChange ==
  ASSUME NEW m \in Nat, NEW T, NEW s \in HunksType(m, T), NEW l \in LineType(m, T),
         l.op \in {"-", "+"}
  PROVE  HunkStep(s, l) =
           [done |-> s.done, open |-> TRUE,
            hunk |-> [oldStart |-> OpenHunk(s, l).oldStart,
                      oldLines |-> IF l.op = "-" THEN Append(OpenHunk(s, l).oldLines, l.text)
                                   ELSE OpenHunk(s, l).oldLines,
                      newLines |-> IF l.op = "-" THEN OpenHunk(s, l).newLines
                                   ELSE Append(OpenHunk(s, l).newLines, l.text)]]
<1>1. PICK h : h = OpenHunk(s, l)
  OBVIOUS
<1>2. h \in HunkType(m, T)
  BY <1>1, OpenHunkType
<1>3. [NoHunk EXCEPT !.oldStart = l.at] = [oldStart |-> l.at, oldLines |-> << >>, newLines |-> << >>]
  BY DEF NoHunk
<1>4. (IF s.open THEN s.hunk ELSE [NoHunk EXCEPT !.oldStart = l.at]) = h
  BY <1>1, <1>3, Zenon DEF OpenHunk
<1>5. HunkStep(s, l) =
        [done |-> s.done, open |-> TRUE,
         hunk |-> IF l.op = "-" THEN [h EXCEPT !.oldLines = Append(@, l.text)]
                  ELSE [h EXCEPT !.newLines = Append(@, l.text)]]
  <2>1. l.op # "="
    OBVIOUS
  <2>2. QED
    BY <1>4, <2>1 DEF HunkStep
<1>6. h = [oldStart |-> h.oldStart, oldLines |-> h.oldLines, newLines |-> h.newLines]
  BY <1>2 DEF HunkType
<1>7. CASE l.op = "-"
  <2>1. [h EXCEPT !.oldLines = Append(@, l.text)]
          = [oldStart |-> h.oldStart, oldLines |-> Append(h.oldLines, l.text), newLines |-> h.newLines]
    BY <1>6
  <2>2. QED
    BY <1>1, <1>5, <1>7, <2>1
<1>8. CASE l.op = "+"
  <2>1. [h EXCEPT !.newLines = Append(@, l.text)]
          = [oldStart |-> h.oldStart, oldLines |-> h.oldLines, newLines |-> Append(h.newLines, l.text)]
    BY <1>6
  <2>2. QED
    BY <1>1, <1>5, <1>8, <2>1
<1>9. QED
  BY <1>7, <1>8

LEMMA HunkStepType ==
  ASSUME NEW m \in Nat, NEW T, NEW s \in HunksType(m, T), NEW l \in LineType(m, T)
  PROVE  HunkStep(s, l) \in HunksType(m, T)
<1>1. PICK H, h, d, t, x, none : /\ H = HunkType(m, T) /\ h = OpenHunk(s, l) /\ d = s.done
                              /\ t = s.hunk /\ x = l.text /\ none = NoHunk
  OBVIOUS
<1>2. h \in H
  BY <1>1, OpenHunkType
<1>3. t \in H
  BY <1>1 DEF HunksType
<1>4. d \in Seq(H)
  BY <1>1 DEF HunksType
<1>5. \A dd, oo, hh : dd \in Seq(H) /\ oo \in BOOLEAN /\ hh \in H =>
        [done |-> dd, open |-> oo, hunk |-> hh] \in HunksType(m, T)
  BY <1>1 DEF HunksType
<1>6. \A i, u, v : i \in 0 .. m /\ u \in Seq(T) /\ v \in Seq(T) =>
        [oldStart |-> i, oldLines |-> u, newLines |-> v] \in H
  BY <1>1 DEF HunkType
<1>7. l.op \in {"=", "-", "+"} /\ x \in T
  BY <1>1 DEF LineType
<1>8. CASE l.op = "="
  <2>1. PICK e : e = << >>
    OBVIOUS
  <2>2. e \in Seq(T) /\ 0 \in 0 .. m
    BY <2>1
  <2>3. none \in H
    BY <1>1, <1>6, <2>1, <2>2 DEF NoHunk
  <2>4. PICK dd : dd = Append(d, t)
    OBVIOUS
  <2>5. dd \in Seq(H)
    BY <1>3, <1>4, <2>4
  <2>6. [done |-> dd, open |-> FALSE, hunk |-> none] \in HunksType(m, T)
    BY <1>5, <2>3, <2>5
  <2>7. QED
    BY <1>1, <1>8, <2>4, <2>6, HunkStepSame
<1>9. CASE l.op \in {"-", "+"}
  <2>1. PICK i, u, v : i = h.oldStart /\ u = h.oldLines /\ v = h.newLines
    OBVIOUS
  <2>2. i \in 0 .. m /\ u \in Seq(T) /\ v \in Seq(T)
    BY <1>1, <1>2, <2>1 DEF HunkType
  <2>3. PICK uu, vv : uu = Append(u, x) /\ vv = Append(v, x)
    OBVIOUS
  <2>4. uu \in Seq(T) /\ vv \in Seq(T)
    BY <1>7, <2>2, <2>3
  <2>5. [oldStart |-> i, oldLines |-> uu, newLines |-> v] \in H
    BY <1>6, <2>2, <2>4
  <2>6. [oldStart |-> i, oldLines |-> u, newLines |-> vv] \in H
    BY <1>6, <2>2, <2>4
  <2>7. HunkStep(s, l) =
          [done |-> d, open |-> TRUE,
           hunk |-> IF l.op = "-" THEN [oldStart |-> i, oldLines |-> uu, newLines |-> v]
                    ELSE [oldStart |-> i, oldLines |-> u, newLines |-> vv]]
    BY <1>1, <1>9, <2>1, <2>3, HunkStepChange
  <2>8. QED
    BY <1>4, <1>5, <2>5, <2>6, <2>7
<1>10. QED
  BY <1>7, <1>8, <1>9

LEMMA HunkScanDef ==
  ASSUME NEW m, NEW T, NEW script, m \in Nat, script \in Seq(LineType(m, T))
  PROVE  /\ HunkScan(script) \in [0 .. Len(script) -> HunksType(m, T)]
         /\ HunkScan(script)[0] = [done |-> << >>, open |-> FALSE, hunk |-> NoHunk]
         /\ \A n \in 1 .. Len(script) : HunkScan(script)[n] = HunkStep(HunkScan(script)[n - 1], script[n])
<1>0. PICK A, N, e : /\ A = HunksType(m, T) /\ N = Len(script)
                     /\ e = [done |-> << >>, open |-> FALSE, hunk |-> NoHunk]
  OBVIOUS
<1>1. N \in Nat /\ e \in A
  <2>1. PICK z : z = << >>
    OBVIOUS
  <2>2. z \in Seq(HunkType(m, T)) /\ z \in Seq(T)
    BY <2>1
  <2>3. NoHunk \in HunkType(m, T)
    BY <2>1, <2>2 DEF NoHunk, HunkType
  <2>4. e \in A
    BY <1>0, <2>1, <2>2, <2>3 DEF HunksType
  <2>5. QED
    BY <1>0, <2>4
<1>1a. \A n \in 1 .. N, s \in A : HunkStep(s, script[n]) \in A
  <2> TAKE n \in 1 .. N, s \in A
  <2>1. script[n] \in LineType(m, T)
    BY <1>0
  <2>2. QED
    BY <1>0, <2>1, HunkStepType
<1>2. PICK step : step = [n \in 1 .. N |-> [s \in A |-> HunkStep(s, script[n])]]
  OBVIOUS
<1>3. step \in [1 .. N -> [A -> A]]
  BY <1>1a, <1>2
<1>5. PICK g \in [0 .. N -> A] : g[0] = e /\ \A n \in 1 .. N : g[n] = step[n][g[n - 1]]
  BY ONLY <1>1, <1>3, Recursion, SMTT(60)
<1>6. \A n \in 1 .. N : g[n] = HunkStep(g[n - 1], script[n])
  <2> TAKE n \in 1 .. N
  <2>1. g[n - 1] \in A
    BY <1>1, <1>5
  <2>2. QED
    BY <1>2, <1>5, <2>1
<1>7. g = [n \in 0 .. N |-> IF n = 0 THEN e ELSE HunkStep(g[n - 1], script[n])]
  BY <1>1, <1>5, <1>6
<1>8. PICK f : f = HunkScan(script)
  OBVIOUS
<1>9. f = CHOOSE scan : scan = [n \in 0 .. N |-> IF n = 0 THEN e ELSE HunkStep(scan[n - 1], script[n])]
  BY <1>0, <1>8, Zenon DEF HunkScan
<1>10. f = [n \in 0 .. N |-> IF n = 0 THEN e ELSE HunkStep(f[n - 1], script[n])]
  BY <1>7, <1>9, Zenon
<1>11. DOMAIN f = 0 .. N /\ f[0] = e /\ \A n \in 1 .. N : f[n] = HunkStep(f[n - 1], script[n])
  BY <1>1, <1>10
<1>12. \A n \in 0 .. N : f[n] \in A
  <2> DEFINE Typed == {n \in 0 .. N : f[n] \in A}
  <2>1. 0 \in Typed
    BY <1>1, <1>11
  <2>2. \A n \in 1 .. N : n - 1 \in Typed => n \in Typed
    BY <1>1, <1>1a, <1>11
  <2>3. \A n \in 0 .. N : n \in Typed
    <3> HIDE DEF Typed
    <3>1. QED
      BY <1>1, <2>1, <2>2, InductTo
  <2>4. QED
    BY <2>3
<1>13. f = [n \in 0 .. N |-> f[n]]
  BY <1>10
<1>14. f \in [0 .. N -> A]
  BY <1>12, <1>13
<1>15. QED
  BY <1>0, <1>8, <1>11, <1>14

-----------------------------------------------------------------------------
\* The lines kept, hunk by hunk.
KeptType(T) == [hunk : Nat, out : Seq(T)]

LEMMA KeptStepType ==
  ASSUME NEW m, NEW T, NEW script, script \in Seq(LineType(m, T)), NEW accepted,
         NEW s \in KeptType(T), NEW n \in 1 .. Len(script)
  PROVE  KeptStep(script, accepted, s, n) \in KeptType(T)
<1>1. PICK k, o, x, h, t : /\ k = KeptStep(script, accepted, s, n) /\ o = s.out /\ x = script[n].text
                        /\ h = s.hunk /\ t = Append(o, x)
  OBVIOUS
<1>2. h \in Nat
  BY <1>1 DEF KeptType
<1>3. o \in Seq(T)
  BY <1>1 DEF KeptType
<1>4. script[n] \in LineType(m, T)
  OBVIOUS
<1>5. x \in T
  BY <1>1, <1>4 DEF LineType
<1>6. t \in Seq(T)
  BY <1>1, <1>3, <1>5
<1>7. \A hh, oo : hh \in Nat /\ oo \in Seq(T) => [hunk |-> hh, out |-> oo] \in KeptType(T)
  BY DEF KeptType
<1>8. \E hh \in {h, h + 0, h + 1}, oo \in {o, t} : k = [hunk |-> hh, out |-> oo]
  BY <1>1 DEF KeptStep
<1>9. PICK hh \in {h, h + 0, h + 1}, oo \in {o, t} : k = [hunk |-> hh, out |-> oo]
  BY <1>8
<1>10. hh \in Nat
  BY <1>2
<1>11. oo \in Seq(T)
  BY <1>3, <1>6
<1>12. k \in KeptType(T)
  BY <1>7, <1>9, <1>10, <1>11
<1>13. QED
  BY <1>1, <1>12

LEMMA KeptScanDef ==
  ASSUME NEW m, NEW T, NEW script, script \in Seq(LineType(m, T)), NEW accepted
  PROVE  /\ KeptScan(script, accepted) \in [0 .. Len(script) -> KeptType(T)]
         /\ KeptScan(script, accepted)[0] = [hunk |-> 0, out |-> << >>]
         /\ \A n \in 1 .. Len(script) :
              KeptScan(script, accepted)[n]
                = KeptStep(script, accepted, KeptScan(script, accepted)[n - 1], n)
<1>0. PICK A, N, e : A = KeptType(T) /\ N = Len(script) /\ e = [hunk |-> 0, out |-> << >>]
  OBVIOUS
<1>1. N \in Nat /\ e \in A
  BY <1>0 DEF KeptType
<1>1a. \A n \in 1 .. N, s \in A : KeptStep(script, accepted, s, n) \in A
  BY <1>0, KeptStepType
<1>2. PICK step : step = [n \in 1 .. N |-> [s \in A |-> KeptStep(script, accepted, s, n)]]
  OBVIOUS
<1>3. step \in [1 .. N -> [A -> A]]
  BY <1>1a, <1>2
<1>5. PICK g \in [0 .. N -> A] : g[0] = e /\ \A n \in 1 .. N : g[n] = step[n][g[n - 1]]
  BY <1>1, <1>3, Recursion, SMTT(60)
<1>6. \A n \in 1 .. N : g[n] = KeptStep(script, accepted, g[n - 1], n)
  <2> TAKE n \in 1 .. N
  <2>1. g[n - 1] \in A
    BY <1>1, <1>5
  <2>2. QED
    BY <1>2, <1>5, <2>1
<1>7. g = [n \in 0 .. N |-> IF n = 0 THEN e ELSE KeptStep(script, accepted, g[n - 1], n)]
  BY <1>1, <1>5, <1>6
<1>8. PICK f : f = KeptScan(script, accepted)
  OBVIOUS
<1>9. f = CHOOSE kept : kept = [n \in 0 .. N |-> IF n = 0 THEN e
                                                ELSE KeptStep(script, accepted, kept[n - 1], n)]
  BY <1>0, <1>8, Zenon DEF KeptScan
<1>10. f = [n \in 0 .. N |-> IF n = 0 THEN e ELSE KeptStep(script, accepted, f[n - 1], n)]
  BY <1>7, <1>9, Zenon
<1>11. /\ DOMAIN f = 0 .. N /\ f[0] = e
       /\ \A n \in 1 .. N : f[n] = KeptStep(script, accepted, f[n - 1], n)
  BY <1>1, <1>10
<1>12. \A n \in 0 .. N : f[n] \in A
  <2> DEFINE Typed == {n \in 0 .. N : f[n] \in A}
  <2>1. 0 \in Typed
    BY <1>1, <1>11
  <2>2. \A n \in 1 .. N : n - 1 \in Typed => n \in Typed
    BY <1>1, <1>1a, <1>11
  <2>3. \A n \in 0 .. N : n \in Typed
    <3> HIDE DEF Typed
    <3>1. QED
      BY <1>1, <2>1, <2>2, InductTo
  <2>4. QED
    BY <2>3
<1>13. f = [n \in 0 .. N |-> f[n]]
  BY <1>10
<1>14. f \in [0 .. N -> A]
  BY <1>12, <1>13
<1>15. QED
  BY <1>0, <1>8, <1>11, <1>14

-----------------------------------------------------------------------------
\* The hunks applied one by one.
EndType(T) == [out : Seq(T), cursor : Nat]

\* What a hunk stands for.
Chosen(hunk, accepted, n) == IF n \in accepted THEN hunk.newLines ELSE hunk.oldLines

LEMMA ChosenType ==
  ASSUME NEW m, NEW T, NEW hunk \in HunkType(m, T), NEW accepted, NEW n
  PROVE  Chosen(hunk, accepted, n) \in Seq(T)
BY DEF Chosen, HunkType

LEMMA HunkAppliedType ==
  ASSUME NEW T, NEW a, NEW hunks, a \in Seq(T), hunks \in Seq(HunkType(Len(a), T)),
         NEW accepted, NEW s \in EndType(T), NEW n \in 1 .. Len(hunks)
  PROVE  HunkApplied(a, hunks, accepted, s, n) \in EndType(T)
<1>1. PICK h, o, c, i, d : /\ h = hunks[n] /\ o = s.out /\ c = s.cursor /\ i = h.oldStart
                           /\ d = Chosen(h, accepted, n)
  OBVIOUS
<1>2. h \in HunkType(Len(a), T)
  BY <1>1
<1>3. d \in Seq(T)
  BY <1>1, <1>2, ChosenType
<1>4. i \in 0 .. Len(a) /\ h.oldLines \in Seq(T)
  BY <1>1, <1>2 DEF HunkType
<1>5. c \in Nat
  BY <1>1 DEF EndType
<1>6. o \in Seq(T)
  BY <1>1 DEF EndType
<1>7. PICK p : p = SubSeq(a, c + 1, i)
  OBVIOUS
<1>8. p \in Seq(T)
  BY <1>4, <1>5, <1>7
<1>9. PICK q : q = o \o p
  OBVIOUS
<1>10. q \in Seq(T)
  BY <1>6, <1>8, <1>9
<1>11. PICK r : r = q \o d
  OBVIOUS
<1>12. r \in Seq(T)
  BY <1>3, <1>10, <1>11
<1>13. i + Len(h.oldLines) \in Nat
  BY <1>4
<1>14. HunkApplied(a, hunks, accepted, s, n) = [out |-> r, cursor |-> i + Len(h.oldLines)]
  BY <1>1, <1>7, <1>9, <1>11 DEF HunkApplied, Chosen
<1>15. QED
  BY <1>12, <1>13, <1>14 DEF EndType

IsApplied(a, hunks, accepted, f) ==
  /\ f[0] = [out |-> << >>, cursor |-> 0]
  /\ \A n \in 1 .. Len(hunks) : f[n] = HunkApplied(a, hunks, accepted, f[n - 1], n)

LEMMA AppliedDef ==
  ASSUME NEW T, NEW a, NEW hunks, a \in Seq(T), hunks \in Seq(HunkType(Len(a), T)), NEW accepted
  PROVE  /\ Applied(a, hunks, accepted) \in [0 .. Len(hunks) -> EndType(T)]
         /\ IsApplied(a, hunks, accepted, Applied(a, hunks, accepted))
<1>0. PICK A, N, e : A = EndType(T) /\ N = Len(hunks) /\ e = [out |-> << >>, cursor |-> 0]
  OBVIOUS
<1>1. N \in Nat /\ e \in A
  BY <1>0 DEF EndType
<1>1a. \A n \in 1 .. N, s \in A : HunkApplied(a, hunks, accepted, s, n) \in A
  BY <1>0, HunkAppliedType
<1>2. PICK step : step = [n \in 1 .. N |-> [s \in A |-> HunkApplied(a, hunks, accepted, s, n)]]
  OBVIOUS
<1>3. step \in [1 .. N -> [A -> A]]
  BY <1>1a, <1>2
<1>5. PICK g \in [0 .. N -> A] : g[0] = e /\ \A n \in 1 .. N : g[n] = step[n][g[n - 1]]
  BY ONLY <1>1, <1>3, Recursion, SMTT(60)
<1>6. \A n \in 1 .. N : g[n] = HunkApplied(a, hunks, accepted, g[n - 1], n)
  <2> TAKE n \in 1 .. N
  <2>1. g[n - 1] \in A
    BY <1>1, <1>5
  <2>2. QED
    BY <1>2, <1>5, <2>1
<1>7. g = [n \in 0 .. N |-> IF n = 0 THEN e ELSE HunkApplied(a, hunks, accepted, g[n - 1], n)]
  BY <1>1, <1>5, <1>6
<1>8. PICK f : f = Applied(a, hunks, accepted)
  OBVIOUS
<1>9. f = CHOOSE applied : applied = [n \in 0 .. N |-> IF n = 0 THEN e
                               ELSE HunkApplied(a, hunks, accepted, applied[n - 1], n)]
  BY <1>0, <1>8, Zenon DEF Applied
<1>10. f = [n \in 0 .. N |-> IF n = 0 THEN e ELSE HunkApplied(a, hunks, accepted, f[n - 1], n)]
  BY <1>7, <1>9, Zenon
<1>11. /\ DOMAIN f = 0 .. N /\ f[0] = e
       /\ \A n \in 1 .. N : f[n] = HunkApplied(a, hunks, accepted, f[n - 1], n)
  BY <1>1, <1>10
<1>12. \A n \in 0 .. N : f[n] \in A
  <2> DEFINE Typed == {n \in 0 .. N : f[n] \in A}
  <2>1. 0 \in Typed
    BY <1>1, <1>11
  <2>2. \A n \in 1 .. N : n - 1 \in Typed => n \in Typed
    BY <1>1, <1>1a, <1>11
  <2>3. \A n \in 0 .. N : n \in Typed
    <3> HIDE DEF Typed
    <3>1. QED
      BY <1>1, <2>1, <2>2, InductTo
  <2>4. QED
    BY <2>3
<1>13. f = [n \in 0 .. N |-> f[n]]
  BY <1>10
<1>14. f \in [0 .. N -> A]
  BY <1>12, <1>13
<1>15. IsApplied(a, hunks, accepted, f)
  BY <1>0, <1>11 DEF IsApplied
<1>16. QED
  BY <1>0, <1>8, <1>14, <1>15

AppliedEnd(a, hunks, accepted) == Applied(a, hunks, accepted)[Len(hunks)]

LEMMA AppliedEndType ==
  ASSUME NEW T, NEW a, NEW hunks, a \in Seq(T), hunks \in Seq(HunkType(Len(a), T)), NEW accepted
  PROVE  AppliedEnd(a, hunks, accepted) \in EndType(T)
<1>1. PICK f : f = Applied(a, hunks, accepted)
  OBVIOUS
<1>2. f \in [0 .. Len(hunks) -> EndType(T)]
  BY <1>1, AppliedDef
<1>3. Len(hunks) \in 0 .. Len(hunks)
  OBVIOUS
<1>4. QED
  BY <1>1, <1>2, <1>3 DEF AppliedEnd

LEMMA AppliedNone ==
  ASSUME NEW T, NEW a, NEW hunks, a \in Seq(T), hunks \in Seq(HunkType(Len(a), T)), NEW accepted,
         Len(hunks) = 0
  PROVE  AppliedEnd(a, hunks, accepted) = [out |-> << >>, cursor |-> 0]
<1>1. PICK f : f = Applied(a, hunks, accepted)
  OBVIOUS
<1>2. IsApplied(a, hunks, accepted, f)
  BY <1>1, AppliedDef
<1>3. QED
  BY <1>1, <1>2 DEF AppliedEnd, IsApplied

\* One hunk more goes after the ones before it.
EndAfter(a, e, h, accepted, n) ==
  [out |-> (e.out \o SubSeq(a, e.cursor + 1, h.oldStart)) \o Chosen(h, accepted, n),
   cursor |-> h.oldStart + Len(h.oldLines)]

LEMMA AppliedAppend ==
  ASSUME NEW T, NEW a, NEW hunks, a \in Seq(T), hunks \in Seq(HunkType(Len(a), T)), NEW accepted,
         NEW h \in HunkType(Len(a), T)
  PROVE  AppliedEnd(a, Append(hunks, h), accepted)
           = EndAfter(a, AppliedEnd(a, hunks, accepted), h, accepted, Len(hunks) + 1)
<1>0. PICK longer, f, g, N, H :
        /\ longer = Append(hunks, h)
        /\ f = Applied(a, hunks, accepted)
        /\ g = Applied(a, longer, accepted)
        /\ N = Len(hunks)
        /\ H = HunkType(Len(a), T)
  OBVIOUS
<1>1. longer \in Seq(H) /\ N \in Nat /\ Len(longer) = N + 1 /\ longer[N + 1] = h
  BY <1>0
<1>2. \A n \in 1 .. N : longer[n] = hunks[n]
  BY <1>0
<1>3. /\ f[0] = [out |-> << >>, cursor |-> 0]
      /\ \A n \in 1 .. N : f[n] = HunkApplied(a, hunks, accepted, f[n - 1], n)
  <2>1. IsApplied(a, hunks, accepted, f)
    BY <1>0, AppliedDef
  <2>2. QED
    BY <1>0, <2>1 DEF IsApplied
<1>4. /\ g[0] = [out |-> << >>, cursor |-> 0]
      /\ \A n \in 1 .. N + 1 : g[n] = HunkApplied(a, longer, accepted, g[n - 1], n)
  <2>1. IsApplied(a, longer, accepted, g)
    BY <1>0, <1>1, AppliedDef
  <2>2. QED
    BY <1>1, <2>1 DEF IsApplied
<1>5. \A n \in 1 .. N : \A s : HunkApplied(a, hunks, accepted, s, n) = HunkApplied(a, longer, accepted, s, n)
  BY <1>2 DEF HunkApplied
<1>6. \A n \in 0 .. N : g[n] = f[n]
  <2> DEFINE Same == {n \in 0 .. N : g[n] = f[n]}
  <2>1. 0 \in Same
    BY <1>1, <1>3, <1>4
  <2>2. \A n \in 1 .. N : n - 1 \in Same => n \in Same
    <3> SUFFICES ASSUME NEW n \in 1 .. N, g[n - 1] = f[n - 1] PROVE g[n] = f[n]
      BY <1>1
    <3>1. g[n] = HunkApplied(a, longer, accepted, f[n - 1], n)
      BY <1>1, <1>4
    <3>2. f[n] = HunkApplied(a, hunks, accepted, f[n - 1], n)
      BY <1>3
    <3>3. QED
      BY <1>5, <3>1, <3>2
  <2>3. \A n \in 0 .. N : n \in Same
    <3> HIDE DEF Same
    <3>1. QED
      BY <1>1, <2>1, <2>2, InductTo
  <2>4. QED
    BY <2>3
<1>7. g[N + 1] = HunkApplied(a, longer, accepted, f[N], N + 1)
  BY <1>1, <1>4, <1>6
<1>8. AppliedEnd(a, longer, accepted) = HunkApplied(a, longer, accepted, AppliedEnd(a, hunks, accepted), N + 1)
  BY <1>0, <1>1, <1>7 DEF AppliedEnd
<1>9. PICK e : e = AppliedEnd(a, hunks, accepted)
  OBVIOUS
<1>10. HunkApplied(a, longer, accepted, e, N + 1) = EndAfter(a, e, h, accepted, N + 1)
  BY <1>1 DEF HunkApplied, Chosen, EndAfter
<1>11. QED
  BY <1>0, <1>8, <1>9, <1>10

-----------------------------------------------------------------------------
\* The two scans side by side.  Of an open hunk, the d-th: the text up to it and what
\* stands for it are the lines kept, and it ends where the old text was read to.
OpenMatch(a, accepted, e, h, d, out, x) ==
  /\ e.cursor <= h.oldStart
  /\ h.oldStart + Len(h.oldLines) = x
  /\ out = (e.out \o SubSeq(a, e.cursor + 1, h.oldStart)) \o Chosen(h, accepted, d)

ShutMatch(a, e, out, x) ==
  /\ e.cursor <= x
  /\ out = e.out \o SubSeq(a, e.cursor + 1, x)

Matched(a, accepted, s, k, x) ==
  LET e == AppliedEnd(a, s.done, accepted)
  IN IF s.open
       THEN k.hunk = Len(s.done) + 1 /\ OpenMatch(a, accepted, e, s.hunk, Len(s.done) + 1, k.out, x)
       ELSE k.hunk = Len(s.done) /\ ShutMatch(a, e, k.out, x)

\* A kept line after no hunk.
LEMMA SameShut ==
  ASSUME NEW T, NEW a \in Seq(T), NEW e \in EndType(T), NEW out, NEW x \in Nat, x < Len(a),
         ShutMatch(a, e, out, x)
  PROVE  ShutMatch(a, e, Append(out, a[x + 1]), x + 1)
<1>1. PICK o, c, p : o = e.out /\ c = e.cursor /\ p = SubSeq(a, c + 1, x)
  OBVIOUS
<1>2. o \in Seq(T)
  BY <1>1 DEF EndType
<1>3. c \in Nat /\ c <= x
  BY <1>1 DEF EndType, ShutMatch
<1>4. p \in Seq(T) /\ SubSeq(a, c + 1, x + 1) = Append(p, a[x + 1])
  BY <1>1, <1>3, PartAppend
<1>5. a[x + 1] \in T
  OBVIOUS
<1>6. o \o Append(p, a[x + 1]) = Append(o \o p, a[x + 1])
  BY <1>2, <1>4, <1>5, ConcatAppend
<1>7. out = o \o p
  BY <1>1 DEF ShutMatch
<1>8. Append(out, a[x + 1]) = o \o SubSeq(a, c + 1, x + 1)
  BY <1>4, <1>6, <1>7
<1>9. c <= x + 1
  BY <1>3
<1>10. QED
  BY <1>1, <1>8, <1>9 DEF ShutMatch

\* A kept line after the end of what was done.
LEMMA SameAfter ==
  ASSUME NEW T, NEW a \in Seq(T), NEW e, NEW out \in Seq(T), NEW x \in Nat, x < Len(a),
         e = [out |-> out, cursor |-> x]
  PROVE  ShutMatch(a, e, Append(out, a[x + 1]), x + 1)
<1>1. e \in EndType(T)
  BY DEF EndType
<1>2. SubSeq(a, x + 1, x) = << >>
  BY NoPart
<1>3. out \o << >> = out
  BY ConcatEmpty
<1>4. ShutMatch(a, e, out, x)
  BY <1>2, <1>3 DEF ShutMatch
<1>5. QED
  BY <1>1, <1>4, SameShut

\* A hunk begins.
LEMMA HunkBegins ==
  ASSUME NEW T, NEW a \in Seq(T), NEW accepted, NEW e \in EndType(T), NEW out, NEW h, NEW d,
         NEW x \in Nat, x <= Len(a),
         ShutMatch(a, e, out, x),
         h = [oldStart |-> x, oldLines |-> << >>, newLines |-> << >>]
  PROVE  OpenMatch(a, accepted, e, h, d, out, x)
<1>1. PICK o, c, p, z : o = e.out /\ c = e.cursor /\ p = SubSeq(a, c + 1, x) /\ z = << >>
  OBVIOUS
<1>2. o \in Seq(T)
  BY <1>1 DEF EndType
<1>3. c \in Nat /\ c <= x
  BY <1>1 DEF EndType, ShutMatch
<1>4. p \in Seq(T)
  BY <1>1, <1>3
<1>5. PICK q : q = o \o p
  OBVIOUS
<1>6. q \in Seq(T)
  BY <1>2, <1>4, <1>5
<1>7. q \o z = q
  BY <1>1, <1>6, ConcatEmpty
<1>8. out = q
  BY <1>1, <1>5 DEF ShutMatch
<1>9. h.oldStart = x /\ h.oldLines = z /\ h.newLines = z /\ Len(z) = 0
  BY <1>1
<1>10. Chosen(h, accepted, d) = z
  BY <1>9 DEF Chosen
<1>11. out = (e.out \o SubSeq(a, e.cursor + 1, h.oldStart)) \o Chosen(h, accepted, d)
  BY <1>1, <1>5, <1>7, <1>8, <1>9, <1>10
<1>12. h.oldStart + Len(h.oldLines) = x /\ e.cursor <= h.oldStart
  BY <1>1, <1>3, <1>9
<1>13. QED
  BY <1>11, <1>12 DEF OpenMatch

\* A removed line, an added one.
LEMMA HunkGrows ==
  ASSUME NEW T, NEW a \in Seq(T), NEW accepted, NEW e \in EndType(T), NEW out, NEW d,
         NEW h \in HunkType(Len(a), T), NEW g \in HunkType(Len(a), T),
         NEW x, NEW t \in T,
         OpenMatch(a, accepted, e, h, d, out, x),
         g.oldStart = h.oldStart
  PROVE  /\ g.oldLines = Append(h.oldLines, t) /\ g.newLines = h.newLines =>
              OpenMatch(a, accepted, e, g, d, IF d \in accepted THEN out ELSE Append(out, t), x + 1)
         /\ g.oldLines = h.oldLines /\ g.newLines = Append(h.newLines, t) =>
              OpenMatch(a, accepted, e, g, d, IF d \in accepted THEN Append(out, t) ELSE out, x)
<1>1. PICK o, c, i, p, z, y : /\ o = e.out /\ c = e.cursor /\ i = h.oldStart /\ p = SubSeq(a, c + 1, i)
                              /\ z = Chosen(h, accepted, d) /\ y = Chosen(g, accepted, d)
  OBVIOUS
<1>2. o \in Seq(T)
  BY <1>1 DEF EndType
<1>3. c \in Nat
  BY <1>1 DEF EndType
<1>4. i \in 0 .. Len(a)
  BY <1>1 DEF HunkType
<1>5. p \in Seq(T)
  BY <1>1, <1>3, <1>4
<1>6. z \in Seq(T)
  BY <1>1, ChosenType
<1>7. PICK q : q = o \o p
  OBVIOUS
<1>8. q \in Seq(T)
  BY <1>2, <1>5, <1>7
<1>9. q \o Append(z, t) = Append(q \o z, t)
  BY <1>6, <1>8, ConcatAppend
<1>10. out = q \o z /\ c <= i /\ i + Len(h.oldLines) = x
  BY <1>1, <1>7 DEF OpenMatch
<1>10a. h.oldLines \in Seq(T)
  <2>1. h \in HunkType(Len(a), T)
    OBVIOUS
  <2>2. QED
    BY ONLY <2>1 DEF HunkType
<1>11. ASSUME g.oldLines = Append(h.oldLines, t), g.newLines = h.newLines
       PROVE  OpenMatch(a, accepted, e, g, d, IF d \in accepted THEN out ELSE Append(out, t), x + 1)
  <2>1. Len(g.oldLines) = Len(h.oldLines) + 1 /\ Len(h.oldLines) \in Nat
    BY <1>10a, <1>11
  <2>2. i + Len(g.oldLines) = x + 1
    BY <1>4, <1>10, <2>1
  <2>3. (IF d \in accepted THEN out ELSE Append(out, t)) = q \o y
    <3>1. CASE d \in accepted
      BY <1>1, <1>10, <1>11, <3>1 DEF Chosen
    <3>2. CASE d \notin accepted
      <4>1. y = Append(z, t)
        BY <1>1, <1>11, <3>2 DEF Chosen
      <4>2. QED
        BY <1>9, <1>10, <3>2, <4>1
    <3>3. QED
      BY <3>1, <3>2
  <2>4. QED
    BY <1>1, <1>7, <1>10, <2>2, <2>3 DEF OpenMatch
<1>12. ASSUME g.oldLines = h.oldLines, g.newLines = Append(h.newLines, t)
       PROVE  OpenMatch(a, accepted, e, g, d, IF d \in accepted THEN Append(out, t) ELSE out, x)
  <2>3. (IF d \in accepted THEN Append(out, t) ELSE out) = q \o y
    <3>1. CASE d \in accepted
      <4>1. y = Append(z, t)
        BY <1>1, <1>12, <3>1 DEF Chosen
      <4>2. QED
        BY <1>9, <1>10, <3>1, <4>1
    <3>2. CASE d \notin accepted
      BY <1>1, <1>10, <1>12, <3>2 DEF Chosen
    <3>3. QED
      BY <3>1, <3>2
  <2>4. QED
    BY <1>1, <1>7, <1>10, <1>12, <2>3 DEF OpenMatch
<1>13. QED
  BY <1>11, <1>12

LEMMA KeptSame ==
  ASSUME NEW script, NEW accepted, NEW k, NEW n, script[n].op = "=", k.hunk \in Nat
  PROVE  KeptStep(script, accepted, k, n) = [hunk |-> k.hunk, out |-> Append(k.out, script[n].text)]
<1>1. KeptStep(script, accepted, k, n)
        = [hunk |-> k.hunk + 0, out |-> Append(k.out, script[n].text)]
  BY DEF KeptStep
<1>2. k.hunk + 0 = k.hunk
  OBVIOUS
<1>3. QED
  BY <1>1, <1>2

\* The number of the hunk a changed line belongs to.
HunkOf(s, k) == IF s.open THEN k.hunk ELSE k.hunk + 1

KeptAfter(l, accepted, k, d) ==
  [hunk |-> d,
   out |-> IF l.op = "-" THEN IF d \in accepted THEN k.out ELSE Append(k.out, l.text)
           ELSE IF d \in accepted THEN Append(k.out, l.text) ELSE k.out]

LEMMA KeptChange ==
  ASSUME NEW script, NEW accepted, NEW k, NEW n, NEW s, k.hunk \in Nat,
         s.open \in BOOLEAN,
         s.open <=> ~ (n = 1 \/ script[n - 1].op = "="),
         script[n].op \in {"-", "+"}
  PROVE  KeptStep(script, accepted, k, n) = KeptAfter(script[n], accepted, k, HunkOf(s, k))
<1>1. PICK l, d : l = script[n] /\ d = HunkOf(s, k)
  OBVIOUS
<1>2. k.hunk + (IF l.op # "=" /\ (n = 1 \/ script[n - 1].op = "=") THEN 1 ELSE 0) = d
  <2>1. l.op # "="
    BY <1>1
  <2>2. CASE s.open
    <3>1. ~ (n = 1 \/ script[n - 1].op = "=")
      BY <2>2
    <3>2. QED
      BY <1>1, <2>2, <3>1 DEF HunkOf
  <2>3. CASE ~ s.open
    <3>1. n = 1 \/ script[n - 1].op = "="
      BY <2>3
    <3>2. QED
      BY <1>1, <2>1, <2>3, <3>1 DEF HunkOf
  <2>4. QED
    BY <2>2, <2>3
<1>3. KeptStep(script, accepted, k, n) =
        [hunk |-> d, out |-> IF l.op = "=" \/ (l.op = "+" /\ d \in accepted) \/ (l.op = "-" /\ d \notin accepted)
                               THEN Append(k.out, l.text) ELSE k.out]
  BY <1>1, <1>2, Zenon DEF KeptStep
<1>4. l.op = "-" \/ l.op = "+"
  BY <1>1
<1>5. QED
  BY <1>1, <1>3, <1>4 DEF KeptAfter

\* The scans take a line: they match again, up to the line that is taken.
LEMMA MatchSame ==
  ASSUME NEW T, NEW a \in Seq(T), NEW accepted, NEW script, NEW n,
         NEW s \in HunksType(Len(a), T), NEW k \in KeptType(T), NEW x \in Nat, x < Len(a),
         Matched(a, accepted, s, k, x),
         script[n].op = "=", script[n].text = a[x + 1]
  PROVE  /\ Matched(a, accepted, HunkStep(s, script[n]), KeptStep(script, accepted, k, n), x + 1)
         /\ HunkStep(s, script[n]).open = FALSE
<1>1. PICK l, s2, k2, t, done, hunk :
        /\ l = script[n] /\ s2 = HunkStep(s, l) /\ k2 = KeptStep(script, accepted, k, n)
        /\ t = a[x + 1] /\ done = s.done /\ hunk = s.hunk
  OBVIOUS
<1>2. done \in Seq(HunkType(Len(a), T))
  BY <1>1 DEF HunksType
<1>3. hunk \in HunkType(Len(a), T)
  BY <1>1 DEF HunksType
<1>3a. s.open \in BOOLEAN
  BY DEF HunksType
<1>4. k.hunk \in Nat /\ k.out \in Seq(T)
  BY DEF KeptType
<1>5. k2.hunk = k.hunk /\ k2.out = Append(k.out, t)
  BY <1>1, <1>4, KeptSame
<1>6. PICK e : e = AppliedEnd(a, done, accepted)
  OBVIOUS
<1>7. e \in EndType(T)
  BY <1>1, <1>2, <1>6, AppliedEndType
<1>8. CASE ~ s.open
  <2>1. s2 = s
    BY <1>1, <1>8, HunkStepSame
  <2>2. k.hunk = Len(done) /\ ShutMatch(a, e, k.out, x)
    BY <1>1, <1>6, <1>8 DEF Matched
  <2>3. ShutMatch(a, e, k2.out, x + 1)
    BY <1>1, <1>5, <1>7, <2>2, SameShut
  <2>4. Matched(a, accepted, s2, k2, x + 1)
    BY <1>1, <1>5, <1>6, <1>8, <2>1, <2>2, <2>3 DEF Matched
  <2>5. s2.open = FALSE
    BY <1>3a, <1>8, <2>1
  <2>6. QED
    BY <1>1, <2>4, <2>5
<1>9. CASE s.open
  <2>1. s2 = [done |-> Append(done, hunk), open |-> FALSE, hunk |-> NoHunk]
    BY <1>1, <1>9, HunkStepSame
  <2>2. k.hunk = Len(done) + 1 /\ OpenMatch(a, accepted, e, hunk, Len(done) + 1, k.out, x)
    BY <1>1, <1>6, <1>9 DEF Matched
  <2>3. PICK e2 : e2 = AppliedEnd(a, Append(done, hunk), accepted)
    OBVIOUS
  <2>4. e2 = [out |-> (e.out \o SubSeq(a, e.cursor + 1, hunk.oldStart))
                      \o Chosen(hunk, accepted, Len(done) + 1),
              cursor |-> hunk.oldStart + Len(hunk.oldLines)]
    <3>1. AppliedEnd(a, Append(done, hunk), accepted)
            = EndAfter(a, AppliedEnd(a, done, accepted), hunk, accepted, Len(done) + 1)
      BY <1>2, <1>3, AppliedAppend
    <3>2. QED
      BY <1>6, <2>3, <3>1 DEF EndAfter
  <2>5. e2 = [out |-> k.out, cursor |-> x]
    BY <2>2, <2>4 DEF OpenMatch
  <2>6. ShutMatch(a, e2, k2.out, x + 1)
    BY <1>1, <1>4, <1>5, <2>5, SameAfter
  <2>7. Len(Append(done, hunk)) = Len(done) + 1
    BY <1>2, <1>3
  <2>8. k2.hunk = Len(Append(done, hunk))
    BY <1>5, <2>2, <2>7
  <2>9. s2.done = Append(done, hunk) /\ s2.open = FALSE
    BY <2>1
  <2>10. Matched(a, accepted, s2, k2, x + 1)
    BY <2>3, <2>6, <2>8, <2>9 DEF Matched
  <2>11. QED
    BY <1>1, <2>9, <2>10
<1>10. QED
  BY <1>8, <1>9

\* Before a changed line is taken, a hunk is open that it goes into.
LEMMA MatchOpens ==
  ASSUME NEW T, NEW a \in Seq(T), NEW accepted, NEW l \in LineType(Len(a), T),
         NEW s \in HunksType(Len(a), T), NEW k \in KeptType(T), NEW x \in Nat, x <= Len(a),
         Matched(a, accepted, s, k, x), l.at = x
  PROVE  /\ HunkOf(s, k) = Len(s.done) + 1
         /\ OpenMatch(a, accepted, AppliedEnd(a, s.done, accepted), OpenHunk(s, l), HunkOf(s, k), k.out, x)
<1>1. PICK e, done, h : /\ done = s.done /\ e = AppliedEnd(a, done, accepted) /\ h = OpenHunk(s, l)
  OBVIOUS
<1>2. done \in Seq(HunkType(Len(a), T))
  BY <1>1 DEF HunksType
<1>3. e \in EndType(T)
  BY <1>1, <1>2, AppliedEndType
<1>4. CASE ~ s.open
  <2>1. k.hunk = Len(done) /\ ShutMatch(a, e, k.out, x)
    BY <1>1, <1>4 DEF Matched
  <2>2. h = [oldStart |-> x, oldLines |-> << >>, newLines |-> << >>]
    BY <1>1, <1>4 DEF OpenHunk
  <2>3. OpenMatch(a, accepted, e, h, HunkOf(s, k), k.out, x)
    BY <1>3, <2>1, <2>2, HunkBegins
  <2>4. QED
    BY <1>1, <1>4, <2>1, <2>3 DEF HunkOf
<1>5. CASE s.open
  BY <1>1, <1>5 DEF Matched, HunkOf, OpenHunk
<1>6. QED
  BY <1>4, <1>5

LEMMA MatchChange ==
  ASSUME NEW T, NEW a \in Seq(T), NEW accepted, NEW script, NEW n, script[n] \in LineType(Len(a), T),
         NEW s \in HunksType(Len(a), T), NEW k \in KeptType(T), NEW x \in Nat, x <= Len(a),
         Matched(a, accepted, s, k, x),
         s.open <=> ~ (n = 1 \/ script[n - 1].op = "="),
         script[n].op \in {"-", "+"}, script[n].at = x
  PROVE  /\ Matched(a, accepted, HunkStep(s, script[n]), KeptStep(script, accepted, k, n),
                    IF script[n].op = "-" THEN x + 1 ELSE x)
         /\ HunkStep(s, script[n]).open = TRUE
<1>1. PICK l, s2, k2, t, done, h, g, d, e :
        /\ l = script[n] /\ s2 = HunkStep(s, l) /\ k2 = KeptStep(script, accepted, k, n)
        /\ t = l.text /\ done = s.done /\ h = OpenHunk(s, l) /\ g = s2.hunk
        /\ d = HunkOf(s, k) /\ e = AppliedEnd(a, done, accepted)
  OBVIOUS
<1>2. done \in Seq(HunkType(Len(a), T))
  BY <1>1 DEF HunksType
<1>2a. s.open \in BOOLEAN
  BY DEF HunksType
<1>3. e \in EndType(T)
  BY <1>1, <1>2, AppliedEndType
<1>4. k.hunk \in Nat
  BY DEF KeptType
<1>5. t \in T /\ l.op \in {"-", "+"}
  BY <1>1 DEF LineType
<1>5a. l \in LineType(Len(a), T)
  BY <1>1
<1>6. h \in HunkType(Len(a), T)
  BY <1>1, OpenHunkType
<1>7. s2 \in HunksType(Len(a), T)
  BY <1>1, HunkStepType
<1>8. g \in HunkType(Len(a), T)
  BY <1>1, <1>7 DEF HunksType
<1>9. s2 = [done |-> done, open |-> TRUE,
            hunk |-> [oldStart |-> h.oldStart,
                      oldLines |-> IF l.op = "-" THEN Append(h.oldLines, t) ELSE h.oldLines,
                      newLines |-> IF l.op = "-" THEN h.newLines ELSE Append(h.newLines, t)]]
  <2>1. HunkStep(s, l) =
          [done |-> s.done, open |-> TRUE,
           hunk |-> [oldStart |-> OpenHunk(s, l).oldStart,
                     oldLines |-> IF l.op = "-" THEN Append(OpenHunk(s, l).oldLines, l.text)
                                  ELSE OpenHunk(s, l).oldLines,
                     newLines |-> IF l.op = "-" THEN OpenHunk(s, l).newLines
                                  ELSE Append(OpenHunk(s, l).newLines, l.text)]]
    <3>1. Len(a) \in Nat
      OBVIOUS
    <3>2. QED
      BY <1>5, <1>5a, <3>1, HunkStepChange
  <2>2. QED
    BY <1>1, <2>1
<1>10. k2 = [hunk |-> d,
             out |-> IF l.op = "-" THEN IF d \in accepted THEN k.out ELSE Append(k.out, t)
                     ELSE IF d \in accepted THEN Append(k.out, t) ELSE k.out]
  <2>1. KeptStep(script, accepted, k, n) = KeptAfter(script[n], accepted, k, HunkOf(s, k))
    BY <1>2a, <1>4, KeptChange
  <2>2. QED
    BY <1>1, <2>1 DEF KeptAfter
<1>11. d = Len(done) + 1 /\ OpenMatch(a, accepted, e, h, d, k.out, x)
  BY <1>1, MatchOpens
<1>12. g.oldStart = h.oldStart
  BY <1>1, <1>9
<1>13. CASE l.op = "-"
  <2>1. g.oldLines = Append(h.oldLines, t) /\ g.newLines = h.newLines
    BY <1>1, <1>9, <1>13
  <2>2. OpenMatch(a, accepted, e, g, d, IF d \in accepted THEN k.out ELSE Append(k.out, t), x + 1)
    BY <1>3, <1>5, <1>6, <1>8, <1>11, <1>12, <2>1, HunkGrows
  <2>3. k2.hunk = d /\ k2.out = IF d \in accepted THEN k.out ELSE Append(k.out, t)
    BY <1>10, <1>13
  <2>4. s2.open = TRUE /\ s2.done = done
    BY <1>9
  <2>5. Matched(a, accepted, s2, k2, x + 1)
    BY <1>1, <1>11, <2>2, <2>3, <2>4 DEF Matched
  <2>6. QED
    BY <1>1, <1>13, <2>4, <2>5
<1>14. CASE l.op = "+"
  <2>1. g.oldLines = h.oldLines /\ g.newLines = Append(h.newLines, t)
    BY <1>1, <1>9, <1>14
  <2>2. OpenMatch(a, accepted, e, g, d, IF d \in accepted THEN Append(k.out, t) ELSE k.out, x)
    BY <1>3, <1>5, <1>6, <1>8, <1>11, <1>12, <2>1, HunkGrows
  <2>3. k2.hunk = d /\ k2.out = IF d \in accepted THEN Append(k.out, t) ELSE k.out
    BY <1>10, <1>14
  <2>4. s2.open = TRUE /\ s2.done = done
    BY <1>9
  <2>5. Matched(a, accepted, s2, k2, x)
    BY <1>1, <1>11, <2>2, <2>3, <2>4 DEF Matched
  <2>6. QED
    BY <1>1, <1>14, <2>4, <2>5
<1>15. QED
  BY <1>5, <1>13, <1>14

LEMMA ScansMatch ==
  ASSUME NEW T, NEW a, NEW b, NEW script, a \in Seq(T), b \in Seq(T),
         script \in Seq(LineType(Len(a), T)), NEW accepted,
         NEW p, NEW q, Path(a, b, script, p, q)
  PROVE  \A n \in 0 .. Len(script) :
           /\ Matched(a, accepted, HunkScan(script)[n], KeptScan(script, accepted)[n], p[n])
           /\ HunkScan(script)[n].open <=> ~ (n = 0 \/ script[n].op = "=")
<1>1. PICK N, f, g : N = Len(script) /\ f = HunkScan(script) /\ g = KeptScan(script, accepted)
  OBVIOUS
<1>2. N \in Nat /\ Len(a) \in Nat
  BY <1>1
<1>3. f \in [0 .. N -> HunksType(Len(a), T)]
  BY <1>1, <1>2, HunkScanDef
<1>4. /\ f[0] = [done |-> << >>, open |-> FALSE, hunk |-> NoHunk]
      /\ \A n \in 1 .. N : f[n] = HunkStep(f[n - 1], script[n])
  BY <1>1, <1>2, HunkScanDef
<1>5. g \in [0 .. N -> KeptType(T)]
  BY <1>1, KeptScanDef
<1>6. /\ g[0] = [hunk |-> 0, out |-> << >>]
      /\ \A n \in 1 .. N : g[n] = KeptStep(script, accepted, g[n - 1], n)
  BY <1>1, KeptScanDef
<1>7. /\ p[0] = 0 /\ p \in [0 .. N -> Nat]
      /\ \A n \in 1 .. N : Takes(a, b, script[n], p[n - 1], q[n - 1], p[n], q[n])
  BY <1>1 DEF Path
<1> DEFINE Good(n) == /\ Matched(a, accepted, f[n], g[n], p[n])
                      /\ f[n].open <=> ~ (n = 0 \/ script[n].op = "=")
                      /\ p[n] <= Len(a)
           S == {n \in 0 .. N : Good(n)}
<1>8. Good(0)
  <2>1. PICK s, k, z : s = f[0] /\ k = g[0] /\ z = << >>
    OBVIOUS
  <2>2. s.done = z /\ s.open = FALSE /\ k.hunk = 0 /\ k.out = z
    BY <1>4, <1>6, <2>1
  <2>3. z \in Seq(HunkType(Len(a), T)) /\ Len(z) = 0
    BY <2>1
  <2>4. PICK e : e = AppliedEnd(a, z, accepted)
    OBVIOUS
  <2>5. e = [out |-> << >>, cursor |-> 0]
    BY <2>3, <2>4, AppliedNone
  <2>6. SubSeq(a, 0 + 1, 0) = << >>
    BY NoPart
  <2>7. ShutMatch(a, e, z, 0)
    BY <2>1, <2>5, <2>6 DEF ShutMatch
  <2>8. Matched(a, accepted, s, k, 0)
    BY <2>2, <2>3, <2>4, <2>7 DEF Matched
  <2>9. QED
    BY <1>2, <1>7, <2>1, <2>2, <2>8
<1>9. ASSUME NEW n \in 1 .. N, Good(n - 1) PROVE Good(n)
  <2>1. PICK s, k, x, y, l, u, v :
          /\ s = f[n - 1] /\ k = g[n - 1] /\ x = p[n - 1] /\ y = q[n - 1] /\ l = script[n]
          /\ u = p[n] /\ v = q[n]
    OBVIOUS
  <2>2. n - 1 \in 0 .. N
    BY <1>2
  <2>3. s \in HunksType(Len(a), T)
    BY <1>3, <2>1, <2>2
  <2>4. k \in KeptType(T)
    BY <1>5, <2>1, <2>2
  <2>5. x \in Nat
    BY <1>7, <2>1, <2>2
  <2>6. l \in LineType(Len(a), T)
    BY <1>1, <2>1
  <2>7. Takes(a, b, l, x, y, u, v)
    BY <1>7, <2>1
  <2>8. Matched(a, accepted, s, k, x) /\ x <= Len(a)
    BY <1>9, <2>1
  <2>9. s.open <=> ~ (n = 1 \/ script[n - 1].op = "=")
    <3>1. f[n - 1].open <=> ~ (n - 1 = 0 \/ script[n - 1].op = "=")
      BY <1>9
    <3>2. (n - 1 = 0) <=> (n = 1)
      BY <1>2
    <3>3. QED
      BY <2>1, <3>1, <3>2
  <2>10. f[n] = HunkStep(s, l) /\ g[n] = KeptStep(script, accepted, k, n)
    BY <1>4, <1>6, <2>1
  <2>11. u \in 0 .. Len(a)
    BY <2>7 DEF Takes
  <2>12. n # 0
    BY <1>2
  <2>13. CASE l.op = "="
    <3>1. u = x + 1 /\ l.text = a[x + 1]
      BY <2>7, <2>13 DEF Takes
    <3>2. x < Len(a)
      BY <2>5, <2>11, <3>1
    <3>3. /\ Matched(a, accepted, HunkStep(s, script[n]), KeptStep(script, accepted, k, n), x + 1)
          /\ HunkStep(s, script[n]).open = FALSE
      <4>1. script[n].op = "=" /\ script[n].text = a[x + 1]
        BY <2>1, <2>13, <3>1
      <4>2. QED
        BY <2>3, <2>4, <2>5, <2>8, <3>2, <4>1, MatchSame
    <3>4. Matched(a, accepted, f[n], g[n], p[n]) /\ f[n].open = FALSE
      BY <2>1, <2>10, <3>1, <3>3
    <3>5. QED
      BY <2>1, <2>11, <2>13, <3>4
  <2>14. CASE l.op \in {"-", "+"}
    <3>1. u = (IF l.op = "-" THEN x + 1 ELSE x) /\ l.at = x
      BY <2>7, <2>14 DEF Takes
    <3>2. /\ Matched(a, accepted, HunkStep(s, script[n]), KeptStep(script, accepted, k, n),
                     IF script[n].op = "-" THEN x + 1 ELSE x)
          /\ HunkStep(s, script[n]).open = TRUE
      BY <2>1, <2>3, <2>4, <2>5, <2>6, <2>8, <2>9, <2>14, <3>1, MatchChange
    <3>3. Matched(a, accepted, f[n], g[n], p[n]) /\ f[n].open = TRUE
      BY <2>1, <2>10, <3>1, <3>2
    <3>4. QED
      BY <2>1, <2>11, <2>12, <2>14, <3>3
  <2>15. l.op \in {"=", "-", "+"}
    BY <2>6 DEF LineType
  <2> HIDE DEF Good
  <2>16. QED
    BY <2>13, <2>14, <2>15
<1>10. \A n \in 0 .. N : n \in S
  <2>1. 0 \in S
    <3> HIDE DEF Good
    <3>1. QED
      BY <1>2, <1>8
  <2>2. \A n \in 1 .. N : n - 1 \in S => n \in S
    <3> HIDE DEF Good
    <3>1. QED
      BY <1>2, <1>9
  <2> HIDE DEF S
  <2>3. QED
    BY <1>2, <2>1, <2>2, InductTo
<1>11. \A n \in 0 .. N : Good(n)
  <2> HIDE DEF Good
  <2>1. QED
    BY <1>10
<1>12. QED
  BY <1>1, <1>11, Zenon

\* The hunks of a change, some of them accepted, make the text that the lines of its
\* diff tell: its unchanged lines, the new ones of the hunks that are accepted, the old
\* ones of the others; and there are as many hunks as runs of changed lines.
Rebuilt(T, a, b, accepted) ==
  /\ ApplyHunks(a, ComputeHunks(a, b), accepted) = Kept(a, b, accepted)
  /\ Len(ComputeHunks(a, b)) = KeptScan(Script(a, b), accepted)[Len(Script(a, b))].hunk
  /\ ComputeHunks(a, b) \in Seq(HunkType(Len(a), T))

LEMMA AppliedIsKept ==
  ASSUME NEW T, NEW a, NEW b, a \in Seq(T), b \in Seq(T), NEW accepted
  PROVE  Rebuilt(T, a, b, accepted)
<1>1. PICK script, N, m : script = Script(a, b) /\ N = Len(script) /\ m = Len(a)
  OBVIOUS
<1>2. script \in Seq(LineType(m, T)) /\ Traced(a, b, script, m, Len(b))
  BY <1>1, ScriptTraced
<1>3. N \in Nat /\ m \in Nat /\ N \in 0 .. N
  BY <1>1, <1>2
<1>4. PICK p, q : Path(a, b, script, p, q) /\ p[N] = m
  BY <1>1, <1>2 DEF Traced
<1>5. PICK s, k, hunks : /\ s = HunkScan(script)[N] /\ k = KeptScan(script, accepted)[N]
                         /\ hunks = ComputeHunks(a, b)
  OBVIOUS
<1>6. Matched(a, accepted, s, k, m)
  <2>1. \A n \in 0 .. Len(script) :
           /\ Matched(a, accepted, HunkScan(script)[n], KeptScan(script, accepted)[n], p[n])
           /\ HunkScan(script)[n].open <=> ~ (n = 0 \/ script[n].op = "=")
    BY <1>1, <1>2, <1>4, ScansMatch
  <2>2. QED
    BY <1>1, <1>3, <1>4, <1>5, <2>1
<1>7. s \in HunksType(m, T)
  <2>1. PICK f : f = HunkScan(script)
    OBVIOUS
  <2>2. f \in [0 .. N -> HunksType(m, T)]
    BY <1>1, <1>2, <1>3, <2>1, HunkScanDef
  <2>3. QED
    BY <1>3, <1>5, <2>1, <2>2
<1>8. k \in KeptType(T)
  <2>1. PICK f : f = KeptScan(script, accepted)
    OBVIOUS
  <2>2. f \in [0 .. N -> KeptType(T)]
    BY <1>1, <1>2, <2>1, KeptScanDef
  <2>3. QED
    BY <1>3, <1>5, <2>1, <2>2
<1>9. PICK done, hunk : done = s.done /\ hunk = s.hunk
  OBVIOUS
<1>10. done \in Seq(HunkType(m, T))
  BY <1>7, <1>9 DEF HunksType
<1>11. hunk \in HunkType(m, T)
  BY <1>7, <1>9 DEF HunksType
<1>12. k.out \in Seq(T)
  BY <1>8 DEF KeptType
<1>13. hunks = IF s.open THEN Append(done, hunk) ELSE done
  BY <1>1, <1>5, <1>9 DEF ComputeHunks, Flushed
<1>14. hunks \in Seq(HunkType(m, T))
  BY <1>10, <1>11, <1>13
<1>15. PICK e, d : e = AppliedEnd(a, hunks, accepted) /\ d = AppliedEnd(a, done, accepted)
  OBVIOUS
<1>16. ApplyHunks(a, hunks, accepted) = e.out \o SubSeq(a, e.cursor + 1, m)
  BY <1>1, <1>15 DEF ApplyHunks, AppliedEnd
<1>17. Kept(a, b, accepted) = k.out
  BY <1>1, <1>5 DEF Kept
<1>18. CASE s.open
  <2>1. k.hunk = Len(done) + 1 /\ OpenMatch(a, accepted, d, hunk, Len(done) + 1, k.out, m)
    BY <1>6, <1>9, <1>15, <1>18 DEF Matched
  <2>2. e = EndAfter(a, d, hunk, accepted, Len(done) + 1)
    <3>1. AppliedEnd(a, Append(done, hunk), accepted)
            = EndAfter(a, AppliedEnd(a, done, accepted), hunk, accepted, Len(done) + 1)
      BY <1>1, <1>10, <1>11, AppliedAppend
    <3>2. QED
      BY <1>13, <1>15, <1>18, <3>1
  <2>3. e.out = k.out /\ e.cursor = m
    BY <2>1, <2>2 DEF EndAfter, OpenMatch
  <2>4. SubSeq(a, m + 1, m) = << >>
    BY <1>3, NoPart
  <2>5. k.out \o << >> = k.out
    BY <1>12, ConcatEmpty
  <2>6. Len(hunks) = Len(done) + 1
    BY <1>10, <1>11, <1>13, <1>18
  <2>7. ApplyHunks(a, hunks, accepted) = Kept(a, b, accepted)
    BY <1>16, <1>17, <2>3, <2>4, <2>5
  <2>8. QED
    BY <1>1, <1>5, <1>14, <2>1, <2>6, <2>7 DEF Rebuilt
<1>19. CASE ~ s.open
  <2>1. k.hunk = Len(done) /\ ShutMatch(a, d, k.out, m)
    BY <1>6, <1>9, <1>15, <1>19 DEF Matched
  <2>2. hunks = done /\ e = d
    BY <1>13, <1>15, <1>19
  <2>3. ApplyHunks(a, hunks, accepted) = Kept(a, b, accepted)
    BY <1>16, <1>17, <2>1, <2>2 DEF ShutMatch
  <2>4. QED
    BY <1>1, <1>5, <1>14, <2>1, <2>2, <2>3 DEF Rebuilt
<1>20. QED
  BY <1>18, <1>19

\* A line that is taken is kept or not, by the number of its hunk, and the numbers grow.
KeptLine(T, l, accepted, k, k2) ==
  /\ k \in KeptType(T) /\ k2 \in KeptType(T) /\ k.hunk <= k2.hunk
  /\ l.op = "=" => k2.out = Append(k.out, l.text)
  /\ l.op \in {"-", "+"} => 1 <= k2.hunk /\ k2.out = KeptAfter(l, accepted, k, k2.hunk).out

LEMMA KeptTakes ==
  ASSUME NEW T, NEW a, NEW b, NEW script, a \in Seq(T), b \in Seq(T),
         script \in Seq(LineType(Len(a), T)), NEW accepted,
         NEW p, NEW q, Path(a, b, script, p, q),
         NEW n \in 1 .. Len(script), NEW k, NEW k2, NEW l,
         k = KeptScan(script, accepted)[n - 1], k2 = KeptScan(script, accepted)[n], l = script[n]
  PROVE  KeptLine(T, l, accepted, k, k2)
<1>1. PICK N, f, g, s : /\ N = Len(script) /\ f = HunkScan(script) /\ g = KeptScan(script, accepted)
                        /\ s = f[n - 1]
  OBVIOUS
<1>2. N \in Nat /\ Len(a) \in Nat /\ n \in 1 .. N /\ n - 1 \in 0 .. N /\ n \in 0 .. N
  BY <1>1
<1>3. f \in [0 .. N -> HunksType(Len(a), T)]
  BY <1>1, <1>2, HunkScanDef
<1>4. s \in HunksType(Len(a), T)
  BY <1>1, <1>2, <1>3
<1>5. g \in [0 .. N -> KeptType(T)]
  BY <1>1, KeptScanDef
<1>6. \A j \in 1 .. N : g[j] = KeptStep(script, accepted, g[j - 1], j)
  BY <1>1, KeptScanDef
<1>7. k \in KeptType(T) /\ k2 \in KeptType(T)
  BY <1>1, <1>2, <1>5
<1>8. k2 = KeptStep(script, accepted, k, n)
  BY <1>1, <1>2, <1>6
<1>9. k.hunk \in Nat
  BY <1>7 DEF KeptType
<1>10. l.op \in {"=", "-", "+"}
  <2>1. l \in LineType(Len(a), T)
    OBVIOUS
  <2>2. QED
    BY <2>1 DEF LineType
<1>11. /\ Matched(a, accepted, s, k, p[n - 1])
       /\ s.open <=> ~ (n = 1 \/ script[n - 1].op = "=")
  <2>1. \A j \in 0 .. Len(script) :
           /\ Matched(a, accepted, HunkScan(script)[j], KeptScan(script, accepted)[j], p[j])
           /\ HunkScan(script)[j].open <=> ~ (j = 0 \/ script[j].op = "=")
    BY ScansMatch
  <2>2. /\ Matched(a, accepted, s, k, p[n - 1])
        /\ s.open <=> ~ (n - 1 = 0 \/ script[n - 1].op = "=")
    BY <1>1, <1>2, <2>1
  <2>3. (n - 1 = 0) <=> (n = 1)
    BY <1>2
  <2>4. QED
    BY <2>2, <2>3
<1>12. CASE l.op = "="
  <2>1. k2 = [hunk |-> k.hunk, out |-> Append(k.out, l.text)]
    <3>1. l = script[n]
      OBVIOUS
    <3>2. script[n].op = "="
      BY ONLY <1>12, <3>1
    <3>3. KeptStep(script, accepted, k, n)
            = [hunk |-> k.hunk, out |-> Append(k.out, script[n].text)]
      BY ONLY <1>9, <3>2, KeptSame
    <3>4. QED
      BY ONLY <1>8, <3>1, <3>3
  <2>2. QED
    BY <1>7, <1>9, <1>12, <2>1 DEF KeptLine
<1>13. CASE l.op \in {"-", "+"}
  <2>1. PICK d : d = HunkOf(s, k)
    OBVIOUS
  <2>2. s.open \in BOOLEAN
    BY <1>4 DEF HunksType
  <2>3. k2 = KeptAfter(l, accepted, k, d)
    BY <1>8, <1>9, <1>11, <1>13, <2>1, <2>2, KeptChange
  <2>4. k2.hunk = d
    BY <2>3 DEF KeptAfter
  <2>5. k.hunk <= d /\ 1 <= d
    <3>1. CASE s.open
      <4>1. k.hunk = Len(s.done) + 1
        BY <1>11, <3>1 DEF Matched
      <4>2. PICK done : done = s.done
        OBVIOUS
      <4>3. done \in Seq(HunkType(Len(a), T))
        BY <1>4, <4>2 DEF HunksType
      <4>4. Len(done) \in Nat
        BY <4>3
      <4>5. d = k.hunk
        BY <2>1, <3>1 DEF HunkOf
      <4>6. QED
        BY <4>1, <4>2, <4>4, <4>5
    <3>2. CASE ~ s.open
      BY <1>9, <2>1, <3>2 DEF HunkOf
    <3>3. QED
      BY <3>1, <3>2
  <2>6. QED
    BY <1>7, <1>13, <2>3, <2>4, <2>5 DEF KeptLine
<1>14. QED
  BY <1>10, <1>12, <1>13

LEMMA NumbersGrow ==
  ASSUME NEW T, NEW a, NEW b, NEW script, a \in Seq(T), b \in Seq(T),
         script \in Seq(LineType(Len(a), T)), NEW accepted,
         NEW p, NEW q, Path(a, b, script, p, q)
  PROVE  \A n \in 0 .. Len(script) :
           KeptScan(script, accepted)[n].hunk <= KeptScan(script, accepted)[Len(script)].hunk
<1>1. PICK N, g : N = Len(script) /\ g = KeptScan(script, accepted)
  OBVIOUS
<1>2. N \in Nat
  BY <1>1
<1>3. g \in [0 .. N -> KeptType(T)]
  BY <1>1, KeptScanDef
<1>4. \A n \in 0 .. N : g[n].hunk \in Nat
  BY <1>3 DEF KeptType
<1>5. ASSUME NEW n \in 1 .. N PROVE g[n - 1].hunk <= g[n].hunk
  <2>1. PICK k, k2, l : k = g[n - 1] /\ k2 = g[n] /\ l = script[n]
    OBVIOUS
  <2>2. KeptLine(T, l, accepted, k, k2)
    BY <1>1, <2>1, KeptTakes
  <2>3. QED
    BY <2>1, <2>2 DEF KeptLine
<1> DEFINE S == {j \in 0 .. N : g[N - j].hunk <= g[N].hunk}
<1>6. 0 \in S
  <2>1. g[N].hunk <= g[N].hunk /\ N - 0 = N
    BY <1>2, <1>4
  <2>2. QED
    BY <1>2, <2>1
<1>7. \A j \in 1 .. N : j - 1 \in S => j \in S
  <2> SUFFICES ASSUME NEW j \in 1 .. N, g[N - (j - 1)].hunk <= g[N].hunk PROVE g[N - j].hunk <= g[N].hunk
    BY <1>2
  <2>1. PICK n : n = N - (j - 1)
    OBVIOUS
  <2>2. n \in 1 .. N /\ n - 1 = N - j
    BY <1>2, <2>1
  <2>3. g[n - 1].hunk <= g[n].hunk
    BY <1>5, <2>2
  <2>4. g[n - 1].hunk \in Nat /\ g[n].hunk \in Nat /\ g[N].hunk \in Nat
    BY <1>2, <1>4, <2>2
  <2>5. QED
    BY <2>1, <2>2, <2>3, <2>4
<1>8. \A j \in 0 .. N : j \in S
  <2> HIDE DEF S
  <2>1. QED
    BY <1>2, <1>6, <1>7, InductTo
<1>9. ASSUME NEW n \in 0 .. N PROVE g[n].hunk <= g[N].hunk
  <2>1. N - n \in 0 .. N /\ N - (N - n) = n
    BY <1>2
  <2>2. g[N - (N - n)].hunk <= g[N].hunk
    BY <1>8, <2>1
  <2>3. QED
    BY <2>1, <2>2
<1>10. QED
  BY <1>1, <1>9

\* With every hunk accepted the new text is kept ...
LEMMA KeptAll ==
  ASSUME NEW T, NEW a, NEW b, a \in Seq(T), b \in Seq(T), NEW accepted,
         DOMAIN ComputeHunks(a, b) \subseteq accepted
  PROVE  Kept(a, b, accepted) = b
<1>1. PICK script, N, m, g : /\ script = Script(a, b) /\ N = Len(script) /\ m = Len(b)
                             /\ g = KeptScan(script, accepted)
  OBVIOUS
<1>2. script \in Seq(LineType(Len(a), T)) /\ Traced(a, b, script, Len(a), m)
  BY <1>1, ScriptTraced
<1>3. N \in Nat /\ m \in Nat
  BY <1>1, <1>2
<1>4. PICK p, q : Path(a, b, script, p, q) /\ q[N] = m
  BY <1>1, <1>2 DEF Traced
<1>5. /\ q[0] = 0 /\ q \in [0 .. N -> Nat]
      /\ \A n \in 1 .. N : Takes(a, b, script[n], p[n - 1], q[n - 1], p[n], q[n])
  BY <1>1, <1>4 DEF Path
<1>6. g \in [0 .. N -> KeptType(T)] /\ g[0] = [hunk |-> 0, out |-> << >>]
  BY <1>1, <1>2, KeptScanDef
<1>7. \A d \in Nat : 1 <= d /\ d <= g[N].hunk => d \in accepted
  <2>1. PICK hunks : hunks = ComputeHunks(a, b)
    OBVIOUS
  <2>2. Len(hunks) = g[N].hunk
    <3>1. Rebuilt(T, a, b, accepted)
      BY AppliedIsKept
    <3>2. QED
      BY <1>1, <2>1, <3>1 DEF Rebuilt
  <2>3. hunks \in Seq(HunkType(Len(a), T))
    <3>1. Rebuilt(T, a, b, accepted)
      BY AppliedIsKept
    <3>2. QED
      BY <2>1, <3>1 DEF Rebuilt
  <2>4. DOMAIN hunks = 1 .. Len(hunks) /\ Len(hunks) \in Nat
    BY <2>3
  <2>5. QED
    BY <2>1, <2>2, <2>4
<1> DEFINE S == {n \in 0 .. N : g[n].out = SubSeq(b, 1, q[n]) /\ q[n] <= m}
<1>8. 0 \in S
  <2>1. SubSeq(b, 0 + 1, 0) = << >> /\ 0 + 1 = 1
    BY NoPart
  <2>2. g[0].out = SubSeq(b, 1, q[0]) /\ q[0] <= m
    BY <1>3, <1>5, <1>6, <2>1
  <2>3. QED
    BY <1>3, <2>2
<1>9. ASSUME NEW n \in 1 .. N, g[n - 1].out = SubSeq(b, 1, q[n - 1]), q[n - 1] <= m
      PROVE  g[n].out = SubSeq(b, 1, q[n]) /\ q[n] <= m
  <2>1. PICK k, k2, l, y, v : /\ k = g[n - 1] /\ k2 = g[n] /\ l = script[n]
                              /\ y = q[n - 1] /\ v = q[n]
    OBVIOUS
  <2>2. n - 1 \in 0 .. N /\ n \in 0 .. N
    BY <1>3
  <2>3. y \in Nat /\ v \in Nat
    BY <1>5, <2>1, <2>2
  <2>4. Takes(a, b, l, p[n - 1], y, p[n], v)
    BY <1>5, <2>1
  <2>5. v <= m
    BY <1>1, <1>3, <2>4 DEF Takes
  <2>6. /\ l.op = "=" => k2.out = Append(k.out, l.text)
        /\ l.op \in {"-", "+"} => 1 <= k2.hunk /\ k2.out = KeptAfter(l, accepted, k, k2.hunk).out
        /\ k2 \in KeptType(T)
    <3>1. KeptLine(T, l, accepted, k, k2)
      BY <1>1, <1>2, <1>4, <2>1, KeptTakes
    <3>2. QED
      BY <3>1 DEF KeptLine
  <2>7. k2.hunk <= g[N].hunk
    BY <1>1, <1>2, <1>4, <2>1, <2>2, NumbersGrow
  <2>8. k2.hunk \in Nat
    BY <2>6 DEF KeptType
  <2>9. l.op \in {"-", "+"} => k2.hunk \in accepted
    BY <1>7, <2>6, <2>7, <2>8
  <2>10. ASSUME v = y + 1, l.text = b[v] PROVE Append(k.out, l.text) = SubSeq(b, 1, v)
    <3>1. y < Len(b)
      BY <1>1, <2>3, <2>5, <2>10
    <3>3. SubSeq(b, 1, y + 1) = Append(SubSeq(b, 1, y), b[y + 1])
      BY <2>3, <3>1, FrontAppend
    <3>4. k.out = SubSeq(b, 1, y)
      BY <1>9, <2>1
    <3>5. QED
      BY <2>10, <3>3, <3>4
  <2>11. CASE l.op = "="
    BY <2>1, <2>4, <2>5, <2>6, <2>10, <2>11 DEF Takes
  <2>12. CASE l.op = "-"
    <3>1. v = y
      BY <2>4, <2>12 DEF Takes
    <3>2. k2.out = k.out
      BY <2>6, <2>9, <2>12 DEF KeptAfter
    <3>3. QED
      BY <1>9, <2>1, <3>1, <3>2
  <2>13. CASE l.op = "+"
    <3>1. v = y + 1 /\ l.text = b[v]
      BY <2>4, <2>13 DEF Takes
    <3>2. k2.out = Append(k.out, l.text)
      BY <2>6, <2>9, <2>13 DEF KeptAfter
    <3>3. QED
      BY <2>1, <2>5, <2>10, <3>1, <3>2
  <2>14. l.op = "=" \/ l.op = "-" \/ l.op = "+"
    BY <2>4 DEF Takes
  <2>15. QED
    BY <2>11, <2>12, <2>13, <2>14
<1>10. \A n \in 1 .. N : n - 1 \in S => n \in S
  BY <1>3, <1>9
<1>11. \A n \in 0 .. N : n \in S
  <2> HIDE DEF S
  <2>1. QED
    BY <1>3, <1>8, <1>10, InductTo
<1>12. g[N].out = SubSeq(b, 1, m)
  BY <1>3, <1>4, <1>11
<1>13. SubSeq(b, 1, m) = b
  BY <1>1
<1>14. QED
  BY <1>1, <1>12, <1>13 DEF Kept

\* ... and with none the old one.
LEMMA KeptNone ==
  ASSUME NEW T, NEW a, NEW b, a \in Seq(T), b \in Seq(T)
  PROVE  Kept(a, b, {}) = a
<1>1. PICK script, N, m, g : /\ script = Script(a, b) /\ N = Len(script) /\ m = Len(a)
                             /\ g = KeptScan(script, {})
  OBVIOUS
<1>2. script \in Seq(LineType(m, T)) /\ Traced(a, b, script, m, Len(b))
  BY <1>1, ScriptTraced
<1>3. N \in Nat /\ m \in Nat
  BY <1>1, <1>2
<1>4. PICK p, q : Path(a, b, script, p, q) /\ p[N] = m
  BY <1>1, <1>2 DEF Traced
<1>5. /\ p[0] = 0 /\ p \in [0 .. N -> Nat]
      /\ \A n \in 1 .. N : Takes(a, b, script[n], p[n - 1], q[n - 1], p[n], q[n])
  BY <1>1, <1>4 DEF Path
<1>6. g \in [0 .. N -> KeptType(T)] /\ g[0] = [hunk |-> 0, out |-> << >>]
  BY <1>1, <1>2, KeptScanDef
<1> DEFINE S == {n \in 0 .. N : g[n].out = SubSeq(a, 1, p[n]) /\ p[n] <= m}
<1>8. 0 \in S
  <2>1. SubSeq(a, 0 + 1, 0) = << >> /\ 0 + 1 = 1
    BY NoPart
  <2>2. g[0].out = SubSeq(a, 1, p[0]) /\ p[0] <= m
    BY <1>3, <1>5, <1>6, <2>1
  <2>3. QED
    BY <1>3, <2>2
<1>9. ASSUME NEW n \in 1 .. N, g[n - 1].out = SubSeq(a, 1, p[n - 1]), p[n - 1] <= m
      PROVE  g[n].out = SubSeq(a, 1, p[n]) /\ p[n] <= m
  <2>1. PICK k, k2, l, x, u : /\ k = g[n - 1] /\ k2 = g[n] /\ l = script[n]
                              /\ x = p[n - 1] /\ u = p[n]
    OBVIOUS
  <2>2. n - 1 \in 0 .. N /\ n \in 0 .. N
    BY <1>3
  <2>3. x \in Nat /\ u \in Nat
    BY <1>5, <2>1, <2>2
  <2>4. Takes(a, b, l, x, q[n - 1], u, q[n])
    BY <1>5, <2>1
  <2>5. u <= m
    BY <1>1, <1>3, <2>4 DEF Takes
  <2>6. /\ l.op = "=" => k2.out = Append(k.out, l.text)
        /\ l.op \in {"-", "+"} => 1 <= k2.hunk /\ k2.out = KeptAfter(l, {}, k, k2.hunk).out
        /\ k2 \in KeptType(T)
    <3>1. KeptLine(T, l, {}, k, k2)
      BY <1>1, <1>2, <1>4, <2>1, KeptTakes
    <3>2. QED
      BY <3>1 DEF KeptLine
  <2>10. ASSUME u = x + 1, l.text = a[u] PROVE Append(k.out, l.text) = SubSeq(a, 1, u)
    <3>1. x < Len(a)
      BY <1>1, <2>3, <2>5, <2>10
    <3>3. SubSeq(a, 1, x + 1) = Append(SubSeq(a, 1, x), a[x + 1])
      BY <2>3, <3>1, FrontAppend
    <3>4. k.out = SubSeq(a, 1, x)
      BY <1>9, <2>1
    <3>5. QED
      BY <2>10, <3>3, <3>4
  <2>11. CASE l.op = "="
    BY <2>1, <2>4, <2>5, <2>6, <2>10, <2>11 DEF Takes
  <2>12. CASE l.op = "+"
    <3>1. u = x
      BY <2>4, <2>12 DEF Takes
    <3>2. k2.out = k.out
      BY <2>6, <2>12 DEF KeptAfter
    <3>3. QED
      BY <1>9, <2>1, <3>1, <3>2
  <2>13. CASE l.op = "-"
    <3>1. u = x + 1 /\ l.text = a[u]
      BY <2>4, <2>13 DEF Takes
    <3>2. k2.out = Append(k.out, l.text)
      BY <2>6, <2>13 DEF KeptAfter
    <3>3. QED
      BY <2>1, <2>5, <2>10, <3>1, <3>2
  <2>14. l.op = "=" \/ l.op = "-" \/ l.op = "+"
    BY <2>4 DEF Takes
  <2>15. QED
    BY <2>11, <2>12, <2>13, <2>14
<1>10. \A n \in 1 .. N : n - 1 \in S => n \in S
  BY <1>3, <1>9
<1>11. \A n \in 0 .. N : n \in S
  <2> HIDE DEF S
  <2>1. QED
    BY <1>3, <1>8, <1>10, InductTo
<1>12. g[N].out = SubSeq(a, 1, m)
  BY <1>3, <1>4, <1>11
<1>13. SubSeq(a, 1, m) = a
  BY <1>1
<1>14. QED
  BY <1>1, <1>12, <1>13 DEF Kept

\* Of any two texts: accepting every hunk of the change from the one to the other
\* gives the other, accepting none gives the one back, and accepting some gives the
\* unchanged lines of their diff, the added lines of the hunks that are accepted and
\* the removed lines of those that are not (computeHunks, applyHunks, diffLines).
THEOREM HunksRebuild ==
  ASSUME NEW T, NEW a, NEW b, a \in Seq(T), b \in Seq(T)
  PROVE  /\ ApplyHunks(a, ComputeHunks(a, b), DOMAIN ComputeHunks(a, b)) = b
         /\ ApplyHunks(a, ComputeHunks(a, b), {}) = a
         /\ \A accepted : ApplyHunks(a, ComputeHunks(a, b), accepted) = Kept(a, b, accepted)
<1>1. \A accepted : ApplyHunks(a, ComputeHunks(a, b), accepted) = Kept(a, b, accepted)
  <2> TAKE accepted
  <2>1. Rebuilt(T, a, b, accepted)
    BY AppliedIsKept
  <2>2. QED
    BY <2>1 DEF Rebuilt
<1>2. PICK all : all = DOMAIN ComputeHunks(a, b)
  OBVIOUS
<1>3. Kept(a, b, all) = b
  BY <1>2, KeptAll
<1>4. Kept(a, b, {}) = a
  BY KeptNone
<1>5. QED
  BY <1>1, <1>2, <1>3, <1>4

-----------------------------------------------------------------------------
\* The places of a text: each is one, and the next begins after it ends.
Spaced(text, old, places, free) ==
  /\ \A k \in 1 .. Len(places) : places[k] \in 1 .. Len(text) /\ At(text, places[k], old)
  /\ \A k \in 1 .. Len(places) - 1 : places[k] + Len(old) <= places[k + 1]
  /\ Len(places) > 0 => places[Len(places)] + Len(old) <= free

PlacesType == [places : Seq(Nat), free : Nat]

LEMMA OccurrenceStepType ==
  ASSUME NEW T, NEW text, NEW old, old \in Seq(T), NEW s \in PlacesType, NEW i \in Nat
  PROVE  OccurrenceStep(text, old, s, i) \in PlacesType
<1>1. PICK p, f : p = s.places /\ f = s.free
  OBVIOUS
<1>2. p \in Seq(Nat)
  BY <1>1 DEF PlacesType
<1>3. PICK r, j : r = Append(p, i) /\ j = i + Len(old)
  OBVIOUS
<1>4. r \in Seq(Nat)
  BY <1>2, <1>3
<1>5. j \in Nat
  BY <1>3
<1>6. [places |-> r, free |-> j] \in PlacesType
  BY <1>4, <1>5 DEF PlacesType
<1>7. QED
  BY <1>1, <1>3, <1>6 DEF OccurrenceStep

LEMMA SpacedStep ==
  ASSUME NEW T, NEW text, NEW old, text \in Seq(T), old \in Seq(T), NEW s \in PlacesType,
         NEW i \in 1 .. Len(text), NEW r, r = OccurrenceStep(text, old, s, i),
         Spaced(text, old, s.places, s.free)
  PROVE  Spaced(text, old, r.places, r.free)
<1>1. PICK p, f, n : p = s.places /\ f = s.free /\ n = Len(p)
  OBVIOUS
<1>2. p \in Seq(Nat)
  BY <1>1 DEF PlacesType
<1>3. n \in Nat
  BY <1>1, <1>2
<1>4. CASE i >= f /\ At(text, i, old)
  <2>1. PICK q : q = Append(p, i)
    OBVIOUS
  <2>2. Len(q) = n + 1 /\ q[n + 1] = i /\ \A k \in 1 .. n : q[k] = p[k]
    BY <1>1, <1>2, <2>1
  <2>3. r.places = q /\ r.free = i + Len(old)
    BY <1>1, <1>4, <2>1 DEF OccurrenceStep
  <2>4. Len(old) \in Nat
    OBVIOUS
  <2>5. /\ \A k \in 1 .. n : p[k] \in 1 .. Len(text) /\ At(text, p[k], old)
        /\ \A k \in 1 .. n - 1 : p[k] + Len(old) <= p[k + 1]
        /\ n > 0 => p[n] + Len(old) <= f
    BY <1>1 DEF Spaced
  <2>6. ASSUME NEW k \in 1 .. n + 1
        PROVE  q[k] \in 1 .. Len(text) /\ At(text, q[k], old)
    <3>1. CASE k = n + 1
      <4>1. q[k] = i
        BY <2>2, <3>1
      <4>2. QED
        BY <1>4, <4>1
    <3>2. CASE k <= n
      <4>1. k \in 1 .. n
        BY <1>3, <3>2
      <4>2. q[k] = p[k]
        BY <2>2, <4>1
      <4>3. QED
        BY <2>5, <4>1, <4>2
    <3>3. QED
      BY <1>3, <3>1, <3>2
  <2>7. f \in Nat
    BY <1>1 DEF PlacesType
  <2>8. ASSUME NEW k \in 1 .. n PROVE q[k] + Len(old) <= q[k + 1]
    <3>1. CASE k = n
      <4>1. p[n] + Len(old) <= f /\ p[n] \in 1 .. Len(text)
        BY <2>5, <3>1
      <4>2. q[k] = p[n] /\ q[k + 1] = i
        BY <2>2, <3>1
      <4>3. QED
        BY <1>4, <2>4, <2>7, <4>1, <4>2
    <3>2. CASE k < n
      <4>1. k \in 1 .. n - 1 /\ k + 1 \in 1 .. n
        BY <1>3, <3>2
      <4>2. QED
        BY <2>2, <2>5, <4>1
    <3>3. QED
      BY <1>3, <3>1, <3>2
  <2>9. (n + 1) - 1 = n
    BY <1>3
  <2>10. Spaced(text, old, q, i + Len(old))
    <3>1. \A k \in 1 .. Len(q) : q[k] \in 1 .. Len(text) /\ At(text, q[k], old)
      BY <2>2, <2>6
    <3>2. \A k \in 1 .. Len(q) - 1 : q[k] + Len(old) <= q[k + 1]
      BY <2>2, <2>8, <2>9
    <3>3. q[Len(q)] + Len(old) <= i + Len(old)
      BY <2>2, <2>4
    <3>4. QED
      BY <3>1, <3>2, <3>3 DEF Spaced
  <2>11. QED
    BY <2>3, <2>10
<1>5. CASE ~ (i >= f /\ At(text, i, old))
  <2>1. r = s
    BY <1>1, <1>5 DEF OccurrenceStep
  <2>2. QED
    BY <2>1
<1>6. QED
  BY <1>4, <1>5

IsOccurrenceScan(text, old, f) ==
  /\ f[0] = [places |-> << >>, free |-> 1]
  /\ \A i \in 1 .. Len(text) : f[i] = OccurrenceStep(text, old, f[i - 1], i)

LEMMA OccurrenceScanDef ==
  ASSUME NEW T, NEW text, NEW old, text \in Seq(T), old \in Seq(T)
  PROVE  /\ OccurrenceScan(text, old) \in [0 .. Len(text) -> PlacesType]
         /\ IsOccurrenceScan(text, old, OccurrenceScan(text, old))
<1>0. PICK A, N, e : A = PlacesType /\ N = Len(text) /\ e = [places |-> << >>, free |-> 1]
  OBVIOUS
<1>1. N \in Nat /\ e \in A
  BY <1>0 DEF PlacesType
<1>1a. \A n \in 1 .. N, s \in A : OccurrenceStep(text, old, s, n) \in A
  BY <1>0, OccurrenceStepType
<1>2. PICK step : step = [n \in 1 .. N |-> [s \in A |-> OccurrenceStep(text, old, s, n)]]
  OBVIOUS
<1>3. step \in [1 .. N -> [A -> A]]
  BY <1>1a, <1>2
<1>5. PICK g \in [0 .. N -> A] : g[0] = e /\ \A n \in 1 .. N : g[n] = step[n][g[n - 1]]
  BY ONLY <1>1, <1>3, Recursion, SMTT(60)
<1>6. \A n \in 1 .. N : g[n] = OccurrenceStep(text, old, g[n - 1], n)
  <2> TAKE n \in 1 .. N
  <2>1. g[n - 1] \in A
    BY <1>1, <1>5
  <2>2. QED
    BY <1>2, <1>5, <2>1
<1>7. g = [i \in 0 .. N |-> IF i = 0 THEN e ELSE OccurrenceStep(text, old, g[i - 1], i)]
  BY <1>1, <1>5, <1>6
<1>8. PICK f : f = OccurrenceScan(text, old)
  OBVIOUS
<1>9. f = CHOOSE scan : scan = [i \in 0 .. N |-> IF i = 0 THEN e
                                                ELSE OccurrenceStep(text, old, scan[i - 1], i)]
  BY <1>0, <1>8, Zenon DEF OccurrenceScan
<1>10. f = [i \in 0 .. N |-> IF i = 0 THEN e ELSE OccurrenceStep(text, old, f[i - 1], i)]
  BY <1>7, <1>9, Zenon
<1>11. /\ DOMAIN f = 0 .. N /\ f[0] = e
       /\ \A n \in 1 .. N : f[n] = OccurrenceStep(text, old, f[n - 1], n)
  BY <1>1, <1>10
<1>12. \A n \in 0 .. N : f[n] \in A
  <2> DEFINE Typed == {n \in 0 .. N : f[n] \in A}
  <2>1. 0 \in Typed
    BY <1>1, <1>11
  <2>2. \A n \in 1 .. N : n - 1 \in Typed => n \in Typed
    BY <1>1, <1>1a, <1>11
  <2>3. \A n \in 0 .. N : n \in Typed
    <3> HIDE DEF Typed
    <3>1. QED
      BY <1>1, <2>1, <2>2, InductTo
  <2>4. QED
    BY <2>3
<1>13. f = [n \in 0 .. N |-> f[n]]
  BY <1>10
<1>14. f \in [0 .. N -> A]
  BY <1>12, <1>13
<1>15. IsOccurrenceScan(text, old, f)
  BY <1>0, <1>11 DEF IsOccurrenceScan
<1>16. QED
  BY <1>0, <1>8, <1>14, <1>15

LEMMA OccurrencesSpaced ==
  ASSUME NEW T, NEW text, NEW old, text \in Seq(T), old \in Seq(T)
  PROVE  /\ Occurrences(text, old) \in Seq(Nat)
         /\ \E free : Spaced(text, old, Occurrences(text, old), free)
<1>1. PICK N, f : N = Len(text) /\ f = OccurrenceScan(text, old)
  OBVIOUS
<1>2. N \in Nat /\ N \in 0 .. N
  BY <1>1
<1>3. f \in [0 .. N -> PlacesType]
  BY <1>1, OccurrenceScanDef
<1>4. IsOccurrenceScan(text, old, f)
  BY <1>1, OccurrenceScanDef
<1>5. f[0] = [places |-> << >>, free |-> 1] /\ \A i \in 1 .. N : f[i] = OccurrenceStep(text, old, f[i - 1], i)
  BY <1>1, <1>4 DEF IsOccurrenceScan
<1> DEFINE S == {n \in 0 .. N : Spaced(text, old, f[n].places, f[n].free)}
<1>5a. PICK z : z = << >>
  OBVIOUS
<1>5b. z \in Seq(Nat) /\ Len(z) = 0
  BY <1>5a
<1>5c. \A j : Spaced(text, old, z, j)
  BY <1>5b DEF Spaced
<1>6. 0 \in S
  <2>1. f[0].places = z
    BY <1>5, <1>5a
  <2>2. Spaced(text, old, f[0].places, f[0].free)
    BY <1>5c, <2>1
  <2>3. QED
    BY <1>2, <2>2
<1>7. ASSUME NEW n \in 1 .. N, Spaced(text, old, f[n - 1].places, f[n - 1].free)
      PROVE  Spaced(text, old, f[n].places, f[n].free)
  <2>1. PICK s, r : s = f[n - 1] /\ r = f[n]
    OBVIOUS
  <2>2. s \in PlacesType
    BY <1>2, <1>3, <2>1
  <2>3. r = OccurrenceStep(text, old, s, n)
    BY <1>5, <2>1
  <2>4. Spaced(text, old, s.places, s.free)
    BY <1>7, <2>1
  <2>5. n \in 1 .. Len(text)
    BY <1>1
  <2>6. Spaced(text, old, r.places, r.free)
    BY <2>2, <2>3, <2>4, <2>5, SpacedStep
  <2>7. QED
    BY <2>1, <2>6
<1>8. \A n \in 1 .. N : n - 1 \in S => n \in S
  BY <1>2, <1>7
<1>9. \A n \in 0 .. N : n \in S
  <2> HIDE DEF S
  <2>1. QED
    BY <1>2, <1>6, <1>8, InductTo
<1>10. Spaced(text, old, f[N].places, f[N].free)
  BY <1>2, <1>9
<1>11. f[N].places \in Seq(Nat)
  <2>1. PICK s : s = f[N]
    OBVIOUS
  <2>2. s \in PlacesType
    BY <1>2, <1>3, <2>1
  <2>3. QED
    BY <2>1, <2>2 DEF PlacesType
<1>12. Occurrences(text, old) = z \/ Occurrences(text, old) = f[N].places
  BY <1>1, <1>5a DEF Occurrences
<1>13. QED
  BY <1>5b, <1>5c, <1>10, <1>11, <1>12

-----------------------------------------------------------------------------
\* The replacement as it is put in: a replacement pattern for what it stands for.
ExpandStep(new, old, s, n) == s \o (IF new[n] = "$&" THEN old ELSE <<new[n]>>)

LEMMA ExpandStepType ==
  ASSUME NEW T, NEW new, NEW old, new \in Seq(T), old \in Seq(T), NEW s, s \in Seq(T),
         NEW n \in 1 .. Len(new)
  PROVE  ExpandStep(new, old, s, n) \in Seq(T)
<1>1. PICK w : w = IF new[n] = "$&" THEN old ELSE <<new[n]>>
  OBVIOUS
<1>2. <<new[n]>> \in Seq(T)
  OBVIOUS
<1>3. w \in Seq(T)
  BY <1>1, <1>2
<1>4. s \o w \in Seq(T)
  BY <1>3
<1>5. QED
  BY <1>1, <1>4 DEF ExpandStep

IsExpanded(new, old, f) ==
  /\ f[0] = << >>
  /\ \A n \in 1 .. Len(new) : f[n] = ExpandStep(new, old, f[n - 1], n)

LEMMA ExpandedDef ==
  ASSUME NEW T, NEW new, NEW old, new \in Seq(T), old \in Seq(T)
  PROVE  /\ Expanded(new, old) \in [0 .. Len(new) -> Seq(T)]
         /\ IsExpanded(new, old, Expanded(new, old))
<1>0. PICK A, N, e : A = Seq(T) /\ N = Len(new) /\ e = << >>
  OBVIOUS
<1>1. N \in Nat /\ e \in A
  BY <1>0
<1>1a. \A n \in 1 .. N, s \in A : ExpandStep(new, old, s, n) \in A
  BY <1>0, ExpandStepType
<1>2. PICK step : step = [n \in 1 .. N |-> [s \in A |-> ExpandStep(new, old, s, n)]]
  OBVIOUS
<1>3. step \in [1 .. N -> [A -> A]]
  BY <1>1a, <1>2
<1>5. PICK g \in [0 .. N -> A] : g[0] = e /\ \A n \in 1 .. N : g[n] = step[n][g[n - 1]]
  BY ONLY <1>1, <1>3, Recursion, SMTT(60)
<1>6. \A n \in 1 .. N : g[n] = ExpandStep(new, old, g[n - 1], n)
  <2> TAKE n \in 1 .. N
  <2>1. g[n - 1] \in A
    BY <1>1, <1>5
  <2>2. QED
    BY <1>2, <1>5, <2>1
<1>7. g = [n \in 0 .. N |-> IF n = 0 THEN e ELSE ExpandStep(new, old, g[n - 1], n)]
  BY <1>1, <1>5, <1>6
<1>8. PICK f : f = Expanded(new, old)
  OBVIOUS
<1>9. f = CHOOSE out : out = [n \in 0 .. N |-> IF n = 0 THEN e ELSE ExpandStep(new, old, out[n - 1], n)]
  BY <1>0, <1>8, Zenon DEF Expanded, ExpandStep
<1>10. f = [n \in 0 .. N |-> IF n = 0 THEN e ELSE ExpandStep(new, old, f[n - 1], n)]
  BY <1>7, <1>9, Zenon
<1>11. /\ DOMAIN f = 0 .. N /\ f[0] = e
       /\ \A n \in 1 .. N : f[n] = ExpandStep(new, old, f[n - 1], n)
  BY <1>1, <1>10
<1>12. \A n \in 0 .. N : f[n] \in A
  <2> DEFINE Typed == {n \in 0 .. N : f[n] \in A}
  <2>1. 0 \in Typed
    BY <1>1, <1>11
  <2>2. \A n \in 1 .. N : n - 1 \in Typed => n \in Typed
    BY <1>1, <1>1a, <1>11
  <2>3. \A n \in 0 .. N : n \in Typed
    <3> HIDE DEF Typed
    <3>1. QED
      BY <1>1, <2>1, <2>2, InductTo
  <2>4. QED
    BY <2>3
<1>13. f = [n \in 0 .. N |-> f[n]]
  BY <1>10
<1>14. f \in [0 .. N -> A]
  BY <1>12, <1>13
<1>15. IsExpanded(new, old, f)
  BY <1>0, <1>11 DEF IsExpanded
<1>16. QED
  BY <1>0, <1>8, <1>14, <1>15

LEMMA ExpandType ==
  ASSUME NEW T, NEW new, NEW old, new \in Seq(T), old \in Seq(T)
  PROVE  Expand(new, old) \in Seq(T)
<1>1. PICK f : f = Expanded(new, old)
  OBVIOUS
<1>2. f \in [0 .. Len(new) -> Seq(T)]
  BY <1>1, ExpandedDef
<1>3. Len(new) \in 0 .. Len(new)
  OBVIOUS
<1>4. f[Len(new)] \in Seq(T)
  BY <1>2, <1>3
<1>5. QED
  BY <1>1, <1>4 DEF Expand

\* Without one it is put in as it is.
LEMMA ExpandPlain ==
  ASSUME NEW T, NEW new, NEW old, new \in Seq(T), old \in Seq(T), "$&" \notin ToSet(new)
  PROVE  Expand(new, old) = new
<1>1. PICK f, N : f = Expanded(new, old) /\ N = Len(new)
  OBVIOUS
<1>2. N \in Nat
  BY <1>1
<1>3. f[0] = << >> /\ \A n \in 1 .. N : f[n] = ExpandStep(new, old, f[n - 1], n)
  BY <1>1, ExpandedDef DEF IsExpanded
<1>4. \A n \in 1 .. N : new[n] # "$&"
  BY <1>1 DEF ToSet
<1> DEFINE S == {n \in 0 .. N : f[n] = SubSeq(new, 1, n)}
<1>5. 0 \in S
  <2>1. SubSeq(new, 1, 0) = << >>
    BY PrefixFacts
  <2>2. f[0] = SubSeq(new, 1, 0)
    BY ONLY <1>3, <2>1, Zenon
  <2>3. 0 \in 0 .. N
    BY <1>2
  <2>4. QED
    BY <2>2, <2>3
<1>6. ASSUME NEW n \in 1 .. N, f[n - 1] = SubSeq(new, 1, n - 1)
      PROVE  f[n] = SubSeq(new, 1, n)
  <2>1. f[n] = ExpandStep(new, old, f[n - 1], n)
    BY <1>3
  <2>2. f[n] = SubSeq(new, 1, n - 1) \o <<new[n]>>
    BY <1>4, <1>6, <2>1 DEF ExpandStep
  <2>3. PICK k, u : k = n - 1 /\ u = SubSeq(new, 1, k)
    OBVIOUS
  <2>4. k \in Nat /\ k < Len(new) /\ n = k + 1
    BY <1>1, <1>2, <2>3
  <2>5. SubSeq(new, 1, k + 1) = Append(u, new[k + 1])
    BY <2>3, <2>4, FrontAppend
  <2>6. u \in Seq(T)
    BY <2>3, <2>4
  <2>7. new[n] \in T
    BY <1>1
  <2>8. Append(u, new[n]) = u \o <<new[n]>>
    BY <2>6, <2>7
  <2>9. QED
    BY <2>2, <2>3, <2>4, <2>5, <2>8
<1>7. \A n \in 1 .. N : n - 1 \in S => n \in S
  BY <1>2, <1>6
<1>8. \A n \in 0 .. N : n \in S
  <2> HIDE DEF S
  <2>1. QED
    BY <1>2, <1>5, <1>7, InductTo
<1>9. f[N] = SubSeq(new, 1, N)
  BY <1>2, <1>8
<1>10. SubSeq(new, 1, N) = new
  BY <1>1, PrefixFacts
<1>11. QED
  BY <1>1, <1>9, <1>10 DEF Expand

-----------------------------------------------------------------------------
\* split and join.
LEMMA PartStepType ==
  ASSUME NEW T, NEW text, NEW places, NEW old, NEW new, text \in Seq(T), old \in Seq(T), new \in Seq(T),
         places \in Seq(1 .. Len(text)), NEW s \in EndType(T), NEW n \in 1 .. Len(places)
  PROVE  PartStep(text, places, old, new, s, n) \in EndType(T)
<1>1. PICK o, c, i : o = s.out /\ c = s.cursor /\ i = places[n]
  OBVIOUS
<1>2. i \in 1 .. Len(text)
  BY <1>1
<1>3. c \in Nat
  BY <1>1 DEF EndType
<1>4. o \in Seq(T)
  BY <1>1 DEF EndType
<1>5. PICK p : p = SubSeq(text, c + 1, i - 1)
  OBVIOUS
<1>6. p \in Seq(T)
  BY <1>2, <1>3, <1>5
<1>7. PICK q : q = o \o p
  OBVIOUS
<1>8. q \in Seq(T)
  BY <1>4, <1>6, <1>7
<1>9. PICK r : r = q \o new
  OBVIOUS
<1>10. r \in Seq(T)
  BY <1>8, <1>9
<1>11. i + Len(old) - 1 \in Nat
  BY <1>2
<1>12. PartStep(text, places, old, new, s, n) = [out |-> r, cursor |-> i + Len(old) - 1]
  BY <1>1, <1>5, <1>7, <1>9 DEF PartStep
<1>13. QED
  BY <1>10, <1>11, <1>12 DEF EndType

IsParts(text, places, old, new, f) ==
  /\ f[0] = [out |-> << >>, cursor |-> 0]
  /\ \A n \in 1 .. Len(places) : f[n] = PartStep(text, places, old, new, f[n - 1], n)

LEMMA PartsDef ==
  ASSUME NEW T, NEW text, NEW places, NEW old, NEW new, text \in Seq(T), old \in Seq(T), new \in Seq(T),
         places \in Seq(1 .. Len(text))
  PROVE  /\ Parts(text, places, old, new) \in [0 .. Len(places) -> EndType(T)]
         /\ IsParts(text, places, old, new, Parts(text, places, old, new))
<1>0. PICK A, N, e : A = EndType(T) /\ N = Len(places) /\ e = [out |-> << >>, cursor |-> 0]
  OBVIOUS
<1>1. N \in Nat /\ e \in A
  BY <1>0 DEF EndType
<1>1a. \A n \in 1 .. N, s \in A : PartStep(text, places, old, new, s, n) \in A
  BY <1>0, PartStepType
<1>2. PICK step : step = [n \in 1 .. N |-> [s \in A |-> PartStep(text, places, old, new, s, n)]]
  OBVIOUS
<1>3. step \in [1 .. N -> [A -> A]]
  BY <1>1a, <1>2
<1>5. PICK g \in [0 .. N -> A] : g[0] = e /\ \A n \in 1 .. N : g[n] = step[n][g[n - 1]]
  BY ONLY <1>1, <1>3, Recursion, SMTT(60)
<1>6. \A n \in 1 .. N : g[n] = PartStep(text, places, old, new, g[n - 1], n)
  <2> TAKE n \in 1 .. N
  <2>1. g[n - 1] \in A
    BY <1>1, <1>5
  <2>2. QED
    BY <1>2, <1>5, <2>1
<1>7. g = [n \in 0 .. N |-> IF n = 0 THEN e ELSE PartStep(text, places, old, new, g[n - 1], n)]
  BY <1>1, <1>5, <1>6
<1>8. PICK f : f = Parts(text, places, old, new)
  OBVIOUS
<1>9. f = CHOOSE parts : parts = [n \in 0 .. N |-> IF n = 0 THEN e
                               ELSE PartStep(text, places, old, new, parts[n - 1], n)]
  BY <1>0, <1>8, Zenon DEF Parts
<1>10. f = [n \in 0 .. N |-> IF n = 0 THEN e ELSE PartStep(text, places, old, new, f[n - 1], n)]
  BY <1>7, <1>9, Zenon
<1>11. /\ DOMAIN f = 0 .. N /\ f[0] = e
       /\ \A n \in 1 .. N : f[n] = PartStep(text, places, old, new, f[n - 1], n)
  BY <1>1, <1>10
<1>12. \A n \in 0 .. N : f[n] \in A
  <2> DEFINE Typed == {n \in 0 .. N : f[n] \in A}
  <2>1. 0 \in Typed
    BY <1>1, <1>11
  <2>2. \A n \in 1 .. N : n - 1 \in Typed => n \in Typed
    BY <1>1, <1>1a, <1>11
  <2>3. \A n \in 0 .. N : n \in Typed
    <3> HIDE DEF Typed
    <3>1. QED
      BY <1>1, <2>1, <2>2, InductTo
  <2>4. QED
    BY <2>3
<1>13. f = [n \in 0 .. N |-> f[n]]
  BY <1>10
<1>14. f \in [0 .. N -> A]
  BY <1>12, <1>13
<1>15. IsParts(text, places, old, new, f)
  BY <1>0, <1>11 DEF IsParts
<1>16. QED
  BY <1>0, <1>8, <1>14, <1>15


LEMMA PartLength ==
  ASSUME NEW T, NEW s \in Seq(T), NEW c \in Nat, NEW k \in Nat, c <= k, k <= Len(s)
  PROVE  Len(SubSeq(s, c + 1, k)) = k - c
OBVIOUS

LEMMA ConcatLength ==
  ASSUME NEW T, NEW s \in Seq(T), NEW t \in Seq(T)
  PROVE  s \o t \in Seq(T) /\ Len(s \o t) = Len(s) + Len(t)
OBVIOUS

LEMMA MembersIn ==
  ASSUME NEW T, NEW s \in Seq(T), NEW S, \A k \in 1 .. Len(s) : s[k] \in S
  PROVE  s \in Seq(S)
OBVIOUS

LEMMA TimesNext ==
  ASSUME NEW k \in Int, NEW d \in Int
  PROVE  (k - 1) * d + d = k * d
OBVIOUS

\* How long the parts are so far, and that they end where the next place begins, or sooner.
PartsLength(text, places, old, new, s, n) ==
  /\ Len(s.out) = s.cursor + n * (Len(new) - Len(old))
  /\ n < Len(places) => s.cursor <= places[n + 1] - 1
  /\ s.cursor <= Len(text)

LEMMA PartStepLength ==
  ASSUME NEW T, NEW text, NEW places, NEW old, NEW new, text \in Seq(T), old \in Seq(T), new \in Seq(T),
         places \in Seq(1 .. Len(text)), NEW free, Spaced(text, old, places, free),
         NEW s \in EndType(T), NEW n \in 1 .. Len(places), NEW r,
         r = PartStep(text, places, old, new, s, n),
         PartsLength(text, places, old, new, s, n - 1)
  PROVE  PartsLength(text, places, old, new, r, n)
<1>1. PICK o, c, i, N, M, u, v : /\ o = s.out /\ c = s.cursor /\ i = places[n] /\ N = Len(places)
                                 /\ M = Len(text) /\ u = Len(old) /\ v = Len(new)
  OBVIOUS
<1>2. i \in 1 .. M /\ N \in Nat /\ M \in Nat /\ u \in Nat /\ v \in Nat /\ n \in 1 .. N
  BY <1>1
<1>3. c \in Nat
  BY <1>1 DEF EndType
<1>4. o \in Seq(T)
  BY <1>1 DEF EndType
<1>5. Len(o) = c + (n - 1) * (v - u) /\ c <= i - 1
  BY <1>1, <1>2 DEF PartsLength
<1>6. i + u - 1 <= M
  BY <1>1, <1>2 DEF Spaced, At
<1>7. n < N => i + u <= places[n + 1]
  BY <1>1, <1>2 DEF Spaced
<1>8. PICK p : p = SubSeq(text, c + 1, i - 1)
  OBVIOUS
<1>8a. PICK k : k = i - 1
  OBVIOUS
<1>8b. k \in Nat /\ k <= Len(text) /\ c <= k
  BY <1>1, <1>2, <1>3, <1>5, <1>8a
<1>9. p \in Seq(T) /\ Len(p) = i - 1 - c
  BY <1>3, <1>8, <1>8a, <1>8b, PartType, PartLength
<1>10. PICK q : q = o \o p
  OBVIOUS
<1>11. q \in Seq(T) /\ Len(q) = Len(o) + (i - 1 - c)
  BY <1>4, <1>9, <1>10, ConcatLength
<1>12. PICK w : w = q \o new
  OBVIOUS
<1>13. Len(w) = Len(q) + v
  BY <1>1, <1>11, <1>12, ConcatLength
<1>14. r.out = w /\ r.cursor = i + u - 1
  BY <1>1, <1>8, <1>10, <1>12 DEF PartStep
<1>15. PICK d, x, y : d = v - u /\ x = (n - 1) * d /\ y = n * d
  OBVIOUS
<1>16. d \in Int /\ n \in Int
  BY <1>2, <1>15
<1>17. x \in Int /\ y \in Int /\ x + d = y
  BY <1>15, <1>16, TimesNext
<1>18. Len(o) = c + x
  BY <1>5, <1>15
<1>19. Len(w) = (i + u - 1) + y
  BY <1>2, <1>3, <1>11, <1>13, <1>15, <1>17, <1>18
<1>20. Len(r.out) = r.cursor + n * (Len(new) - Len(old))
  BY <1>1, <1>14, <1>15, <1>19
<1>21. n < Len(places) => r.cursor <= places[n + 1] - 1
  <2> SUFFICES ASSUME n < N PROVE i + u - 1 <= places[n + 1] - 1
    BY <1>1, <1>14
  <2>1. places[n + 1] \in 1 .. M
    BY <1>1, <1>2
  <2>2. QED
    BY <1>2, <1>7, <2>1
<1>22. r.cursor <= Len(text)
  BY <1>1, <1>6, <1>14
<1>23. QED
  BY <1>20, <1>21, <1>22 DEF PartsLength

\* Every place's old lines are replaced, and nothing else.
LEMMA ReplaceEveryLength ==
  ASSUME NEW T, NEW text, NEW old, NEW new, text \in Seq(T), old \in Seq(T), new \in Seq(T)
  PROVE  /\ ReplaceEvery(text, old, new) \in Seq(T)
         /\ Len(ReplaceEvery(text, old, new))
              = Len(text) + Len(Occurrences(text, old)) * (Len(new) - Len(old))
<1>1. PICK places, N, M, f : /\ places = Occurrences(text, old) /\ N = Len(places) /\ M = Len(text)
                             /\ f = Parts(text, places, old, new)
  OBVIOUS
<1>2. places \in Seq(Nat)
  BY <1>1, OccurrencesSpaced
<1>3. PICK free : Spaced(text, old, places, free)
  BY <1>1, OccurrencesSpaced
<1>4. places \in Seq(1 .. Len(text))
  <2>1. \A k \in 1 .. Len(places) : places[k] \in 1 .. Len(text)
    BY <1>3 DEF Spaced
  <2>2. QED
    BY <1>2, <2>1, MembersIn
<1>5. N \in Nat /\ M \in Nat
  BY <1>1, <1>4
<1>6. f \in [0 .. N -> EndType(T)]
  BY <1>1, <1>4, PartsDef
<1>7. IsParts(text, places, old, new, f)
  BY <1>1, <1>4, PartsDef
<1>8. f[0] = [out |-> << >>, cursor |-> 0]
      /\ \A n \in 1 .. N : f[n] = PartStep(text, places, old, new, f[n - 1], n)
  BY <1>1, <1>7 DEF IsParts
<1> DEFINE S == {n \in 0 .. N : PartsLength(text, places, old, new, f[n], n)}
<1>9. 0 \in S
  <2>1. f[0].out = << >> /\ f[0].cursor = 0
    BY <1>8
  <2>2. Len(f[0].out) = 0
    BY <2>1
  <2>3. PICK d : d = Len(new) - Len(old)
    OBVIOUS
  <2>4. d \in Int
    BY <2>3
  <2>5. 0 * d = 0
    BY <2>4
  <2>6. 0 < Len(places) => 0 <= places[0 + 1] - 1
    <3>1. 0 < Len(places) => places[1] \in 1 .. Len(text)
      BY <1>4
    <3>2. QED
      BY <3>1
  <2>7. PartsLength(text, places, old, new, f[0], 0)
    BY <1>1, <1>5, <2>1, <2>2, <2>3, <2>5, <2>6 DEF PartsLength
  <2>8. QED
    BY <1>5, <2>7
<1>10. ASSUME NEW n \in 1 .. N, PartsLength(text, places, old, new, f[n - 1], n - 1)
       PROVE  PartsLength(text, places, old, new, f[n], n)
  <2>1. PICK s, r : s = f[n - 1] /\ r = f[n]
    OBVIOUS
  <2>2. s \in EndType(T)
    BY <1>5, <1>6, <2>1
  <2>3. r = PartStep(text, places, old, new, s, n)
    BY <1>8, <2>1
  <2>4. n \in 1 .. Len(places)
    BY <1>1
  <2>5. PartsLength(text, places, old, new, s, n - 1)
    BY <1>10, <2>1
  <2>6. PartsLength(text, places, old, new, r, n)
    BY <1>3, <1>4, <2>2, <2>3, <2>4, <2>5, PartStepLength
  <2>7. QED
    BY <2>1, <2>6
<1>11. \A n \in 1 .. N : n - 1 \in S => n \in S
  BY <1>5, <1>10
<1>12. \A n \in 0 .. N : n \in S
  <2> HIDE DEF S
  <2>1. QED
    BY <1>5, <1>9, <1>11, InductTo
<1>13. PICK e, o, c, p, r : /\ e = f[N] /\ o = e.out /\ c = e.cursor
                            /\ p = SubSeq(text, c + 1, M) /\ r = o \o p
  OBVIOUS
<1>14. e \in EndType(T)
  BY <1>5, <1>6, <1>13
<1>15. c \in Nat
  BY <1>13, <1>14 DEF EndType
<1>16. o \in Seq(T)
  BY <1>13, <1>14 DEF EndType
<1>17. PartsLength(text, places, old, new, e, N)
  BY <1>5, <1>12, <1>13
<1>18. Len(o) = c + N * (Len(new) - Len(old)) /\ c <= M
  BY <1>1, <1>13, <1>17 DEF PartsLength
<1>19. p \in Seq(T) /\ Len(p) = M - c
  <2>1. M \in Nat /\ M <= Len(text) /\ c <= M
    BY <1>1, <1>5, <1>18
  <2>2. p = SubSeq(text, c + 1, M)
    BY <1>13
  <2>3. p \in Seq(T)
    BY <1>15, <2>1, <2>2, PartType
  <2>4. Len(p) = M - c
    BY <1>15, <2>1, <2>2, PartLength
  <2>5. QED
    BY <2>3, <2>4
<1>20. r \in Seq(T) /\ Len(r) = Len(o) + (M - c)
  BY <1>13, <1>16, <1>19, ConcatLength
<1>21. ReplaceEvery(text, old, new) = r
  BY <1>1, <1>13 DEF ReplaceEvery
<1>22. PICK x : x = N * (Len(new) - Len(old))
  OBVIOUS
<1>23. x \in Int
  BY <1>5, <1>22
<1>24. Len(r) = M + x
  BY <1>5, <1>15, <1>18, <1>20, <1>22, <1>23
<1>25. QED
  BY <1>1, <1>20, <1>21, <1>22, <1>24

\* The first place's old lines are replaced, and nothing else.
LEMMA SpliceType ==
  ASSUME NEW T, NEW text, NEW piece, text \in Seq(T), piece \in Seq(T),
         NEW start \in 0 .. Len(text), NEW end \in Nat
  PROVE  Splice(text, start, end, piece) \in Seq(T)
<1>1. PICK p, q, u : p = SubSeq(text, 1, start) /\ q = SubSeq(text, end + 1, Len(text)) /\ u = p \o piece
  OBVIOUS
<1>2. p \in Seq(T)
  BY <1>1
<1>3. q \in Seq(T)
  BY <1>1
<1>4. u \in Seq(T)
  BY <1>1, <1>2
<1>5. u \o q \in Seq(T)
  BY <1>3, <1>4
<1>6. QED
  BY <1>1, <1>5 DEF Splice

LEMMA ReplaceFirstFacts ==
  ASSUME NEW T, NEW text, NEW old, NEW new, text \in Seq(T), old \in Seq(T), new \in Seq(T),
         Occurrences(text, old) # << >>
  PROVE  /\ ReplaceFirst(text, old, new) \in Seq(T)
         /\ \E i \in 0 .. Len(text) :
              /\ At(text, i + 1, old)
              /\ ReplaceFirst(text, old, new) = Splice(text, i, i + Len(old), Expand(new, old))
<1>1. PICK places, at, x : /\ places = Occurrences(text, old) /\ at = places[1] /\ x = Expand(new, old)
  OBVIOUS
<1>2. places \in Seq(Nat)
  BY <1>1, OccurrencesSpaced
<1>3. PICK free : Spaced(text, old, places, free)
  BY <1>1, OccurrencesSpaced
<1>4. Len(places) > 0
  BY <1>1, <1>2
<1>5. at \in 1 .. Len(text) /\ At(text, at, old)
  BY <1>1, <1>2, <1>3, <1>4 DEF Spaced
<1>6. x \in Seq(T)
  BY <1>1, ExpandType
<1>7. PICK i, j : i = at - 1 /\ j = i + Len(old)
  OBVIOUS
<1>8. i \in 0 .. Len(text) /\ j \in Nat /\ at = i + 1 /\ j = at + Len(old) - 1
  BY <1>5, <1>7
<1>9. ReplaceFirst(text, old, new) = Splice(text, i, j, x)
  BY <1>1, <1>7, <1>8 DEF ReplaceFirst
<1>10. Splice(text, i, j, x) \in Seq(T)
  BY <1>6, <1>8, SpliceType
<1>11. At(text, i + 1, old)
  BY <1>5, <1>8
<1>12. QED
  BY <1>1, <1>7, <1>8, <1>9, <1>10, <1>11

-----------------------------------------------------------------------------
\* What is left of the model's answer.
LEMMA Furthest ==
  ASSUME NEW n \in Nat, NEW S \in SUBSET (1 .. n), S # {}
  PROVE  (CHOOSE i \in S : \A k \in S : i >= k) \in S
<1>1. PICK R : R = {n - i : i \in S}
  OBVIOUS
<1>2. R \in SUBSET Nat /\ R # {}
  <2>1. \A i \in S : n - i \in Nat
    OBVIOUS
  <2>2. QED
    BY <1>1, <2>1
<1>3. PICK m \in R : \A k \in R : m <= k
  BY <1>2, Least
<1>4. PICK i \in S : m = n - i
  BY <1>1
<1>5. \A k \in S : i >= k
  BY <1>1, <1>3, <1>4
<1>6. QED
  BY <1>5

LEMMA StripType ==
  ASSUME NEW T, NEW text \in Seq(T)
  PROVE  StripCodeFences(text) \in Seq(T)
<1>1. PICK rest, closing, last : /\ rest = Tail(text)
                                 /\ closing = {i \in DOMAIN rest : rest[i] = Fence}
                                 /\ last = CHOOSE i \in closing : \A k \in closing : i >= k
  OBVIOUS
<1>2. CASE Len(text) < 2 \/ text[1] # Fence
  BY <1>2 DEF StripCodeFences
<1>3. CASE ~ (Len(text) < 2 \/ text[1] # Fence)
  <2>1. text # << >>
    BY <1>3
  <2>2. rest \in Seq(T)
    BY <1>1, <2>1
  <2>3. CASE closing = {}
    <3>1. StripCodeFences(text) = rest
      BY <1>1, <1>3, <2>3 DEF StripCodeFences
    <3>2. QED
      BY <2>2, <3>1
  <2>4. CASE closing # {}
    <3>1. closing \in SUBSET (1 .. Len(rest)) /\ Len(rest) \in Nat
      BY <1>1, <2>2
    <3>2. last \in 1 .. Len(rest)
      BY <1>1, <2>4, <3>1, Furthest
    <3>3. SubSeq(rest, 1, last - 1) \in Seq(T)
      BY <2>2, <3>2
    <3>4. StripCodeFences(text) = SubSeq(rest, 1, last - 1)
      BY <1>1, <1>3, <2>4 DEF StripCodeFences
    <3>5. QED
      BY <3>3, <3>4
  <2>5. QED
    BY <2>3, <2>4
<1>4. QED
  BY <1>2, <1>3

-----------------------------------------------------------------------------
\* The places of a word in a text.
LEMMA PlacesFacts ==
  ASSUME NEW T, NEW text \in Seq(T), NEW word
  PROVE  /\ Places(text, word) \in Seq(Nat)
         /\ \A i : (\E k \in 1 .. Len(Places(text, word)) : Places(text, word)[k] = i)
                     <=> (i \in 1 .. Len(text) /\ text[i] = word)
<1>1. PICK all, S, N : /\ all = [i \in DOMAIN text |-> i] /\ S = {i \in DOMAIN text : text[i] = word}
                       /\ N = Len(text)
  OBVIOUS
<1>2. DOMAIN text = 1 .. N /\ N \in Nat
  BY <1>1
<1>3. all \in Seq(Nat)
  BY <1>1, <1>2
<1>4. Len(all) = N /\ \A i \in 1 .. N : all[i] = i
  BY <1>1, <1>2
<1>5. PICK p : p = Filter(all, S) /\ p = Places(text, word)
  BY <1>1 DEF Places
<1>6. p \in Seq(Nat)
  BY <1>3, <1>5, FilterType
<1>7. \A i : (\E k \in 1 .. Len(p) : p[k] = i) <=> (i \in S /\ \E k \in 1 .. Len(all) : all[k] = i)
  <2>1. \A i : (\E k \in 1 .. Len(Filter(all, S)) : Filter(all, S)[k] = i)
                 <=> (i \in S /\ \E k \in 1 .. Len(all) : all[k] = i)
    <3>1. \A list \in Seq(Nat) : \A x :
            (\E i \in 1 .. Len(Filter(list, S)) : Filter(list, S)[i] = x)
              <=> (x \in S /\ \E i \in 1 .. Len(list) : list[i] = x)
      BY FilterMembers
    <3>2. QED
      BY ONLY <1>3, <3>1
  <2>2. QED
    BY ONLY <1>5, <2>1
<1>8. \A i : (i \in S /\ \E k \in 1 .. Len(all) : all[k] = i) <=> (i \in 1 .. N /\ text[i] = word)
  BY <1>1, <1>2, <1>4
<1>9. \A i : (\E k \in 1 .. Len(p) : p[k] = i) <=> (i \in 1 .. Len(text) /\ text[i] = word)
  BY <1>1, <1>7, <1>8
<1>10. QED
  BY <1>5, <1>6, <1>9

-----------------------------------------------------------------------------
(* The invariant: the types of the state, and what each phase of a call and  *)
(* of the edit command has to say of what is there now.                      *)

CallOf(c) ==
  [phase : {c.phase}, tool : {c.tool}, file : FileSet, old : Seq(Words), new : Seq(Words),
   all : BOOLEAN, shown : {c.shown}, seen : Seq(Words), moved : BOOLEAN,
   matches : Seq(FileSet \X Nat), files : Seq(FileSet), next : Nat \ {0}, touched : SUBSET FileSet,
   unread : SUBSET FileSet, result : {c.result}]

CommandOf(c) ==
  [phase : {c.phase}, start : Nat, end : Nat, target : Seq(Words), new : Seq(Words),
   proposed : {c.proposed}, moved : BOOLEAN]

ShellOf(s) ==
  [on : BOOLEAN, child : {s.child}, heir : {s.heir}, timer : {s.timer},
   listens : {s.listens}, timedOut : {s.timedOut}, code : {s.code}]

TypeOK ==
  /\ disk \in [FileSet -> Seq(Words)]
  /\ doc \in [text : Seq(Words), dirty : BOOLEAN]
  /\ call \in CallOf(call)
  /\ command \in CommandOf(command)
  /\ shell \in ShellOf(shell)

\* What a phase says of the call.
Handling ==
  /\ call.phase = "grep" => call.tool = "grep"
  /\ call.phase = "write" => call.tool = "edit_file"
  /\ call.phase = "refs" => call.tool = "find_references"
  /\ call.phase = "shell" => call.tool = "bash"
  /\ shell.on => call.phase = "shell"
  /\ call.phase \notin {"grep", "done"} => call.matches = << >>

\* What was learnt of a file holds of it until it is written.
Read(c, text) == IF c.file \in c.unread THEN << >> ELSE text

Shown ==
  call.tool = "write_file" /\ call.phase \in {"ask", "run"} /\ ~call.moved =>
    call.shown = DiffLines(Read(call, disk[call.file]), call.new, MaxDiffLines)

Seen ==
  call.phase = "write" =>
    /\ Occurrences(call.seen, call.old) # << >>
    /\ ~call.moved => call.seen = disk[call.file]

\* What was learnt of the document, until it changes.
Resolved ==
  call.phase = "refs" /\ ~call.moved => Lines(Pattern) # << >> /\ call.next = Lines(Pattern)[1]

Reviewed ==
  command.phase # "none" /\ ~command.moved =>
    /\ command.start < command.end /\ command.end <= Len(doc.text)
    /\ command.phase = "review" =>
         command.proposed = Splice(doc.text, command.start, command.end, command.new)

\* The matches there are of a file, and its lines that match.
FoundIn(matches, f) == {matches[k][2] : k \in {j \in DOMAIN matches : matches[j][1] = f}}
There(text) == {i \in DOMAIN text : text[i] = Pattern}

\* A file has been read to its end, and is told of.
Passed(f) ==
  /\ f \notin call.unread
  /\ IF call.phase = "grep"
       THEN /\ \E k \in DOMAIN call.files : k < call.next /\ call.files[k] = f
            /\ Len(call.matches) < MaxGrepMatches
       ELSE /\ ~call.result.stopped /\ ~call.result.truncated
            /\ Len(call.files) <= MaxGrepFiles

Tells(f) ==
  /\ Binary \in ToSet(disk[f]) => FoundIn(call.matches, f) = {}
  /\ Binary \notin ToSet(disk[f]) =>
       /\ FoundIn(call.matches, f) \subseteq There(disk[f])
       /\ Passed(f) => There(disk[f]) \subseteq FoundIn(call.matches, f)

Grepped ==
  call.tool = "grep" /\ (call.phase = "grep" \/ (call.phase = "done" /\ ~call.result.error)) =>
    /\ Len(call.matches) <= MaxGrepMatches
    /\ \A f \in ToSet(call.files) \ call.touched : Tells(f)

ToolsInv == TypeOK /\ Handling /\ Shown /\ Seen /\ Resolved /\ Reviewed /\ Grepped

NoCallFacts ==
  /\ NoCall \in CallOf(NoCall)
  /\ NoCall.phase = "none" /\ NoCall.matches = << >> /\ ~NoCall.moved

LEMMA NoCallIs == NoCallFacts
<1>1. PICK e : e = << >>
  OBVIOUS
<1>2. e \in Seq(Words) /\ e \in Seq(FileSet \X Nat) /\ e \in Seq(FileSet)
  BY <1>1
<1>3. Opened \in FileSet
  BY ToolsAssumption
<1>4. QED
  BY <1>1, <1>2, <1>3 DEF NoCallFacts, NoCall, CallOf

NoCommandFacts == NoCommand \in CommandOf(NoCommand) /\ NoCommand.phase = "none"

LEMMA NoCommandIs == NoCommandFacts
<1>1. PICK e : e = << >>
  OBVIOUS
<1>2. e \in Seq(Words)
  BY <1>1
<1>3. QED
  BY <1>1, <1>2 DEF NoCommandFacts, NoCommand, CommandOf

LEMMA NoShellIs == NoShell \in ShellOf(NoShell) /\ ~NoShell.on
BY DEF NoShell, ShellOf

LEMMA ToolsStart == Init => ToolsInv
<1> SUFFICES ASSUME Init PROVE ToolsInv
  OBVIOUS
<1>1. call = NoCall /\ command = NoCommand /\ shell = NoShell
  BY DEF Init, ShellInit
<1>2. disk \in [FileSet -> Seq(Words)]
  BY ToolsAssumption DEF Init
<1>3. doc \in [text : Seq(Words), dirty : BOOLEAN]
  BY <1>2, ToolsAssumption DEF Init
<1>4. call \in CallOf(call) /\ call.phase = "none" /\ call.matches = << >>
  BY <1>1, NoCallIs DEF NoCallFacts
<1>5. command \in CommandOf(command) /\ command.phase = "none"
  BY <1>1, NoCommandIs DEF NoCommandFacts
<1>6. shell \in ShellOf(shell) /\ ~shell.on
  BY <1>1, NoShellIs
<1>7. TypeOK
  BY <1>2, <1>3, <1>4, <1>5, <1>6 DEF TypeOK
<1>8. Handling
  BY <1>4, <1>6 DEF Handling
<1>9. Shown /\ Seen /\ Resolved /\ Grepped
  BY <1>4 DEF Shown, Seen, Resolved, Grepped
<1>10. Reviewed
  BY <1>5 DEF Reviewed
<1>11. QED
  BY <1>7, <1>8, <1>9, <1>10 DEF ToolsInv

-----------------------------------------------------------------------------
\* A call that is over, or not begun, has nothing to say of what is there ...
Quiet(c) ==
  /\ c \in CallOf(c) /\ ~c.moved
  /\ \/ c.phase = "none"
     \/ c.phase = "done" /\ (c.tool # "grep" \/ c.result.error)
     \/ c.phase = "preview"
     \/ c.phase \in {"ask", "run"} /\ c.tool # "write_file"
  /\ c.phase # "done" => c.matches = << >>

\* ... so it may follow whatever the files hold by then.
LEMMA QuietKeeps ==
  ASSUME ToolsInv, Quiet(call'), disk' \in [FileSet -> Seq(Words)], UNCHANGED <<doc, command>>,
         shell' \in ShellOf(shell'), ~shell'.on
  PROVE  ToolsInv'
<1>1. PICK c : c = call'
  OBVIOUS
<1>2. c \in CallOf(c)
  BY <1>1 DEF Quiet
<1>3. /\ \/ c.phase = "none"
         \/ c.phase = "done" /\ (c.tool # "grep" \/ c.result.error)
         \/ c.phase = "preview"
         \/ c.phase \in {"ask", "run"} /\ c.tool # "write_file"
      /\ c.phase # "done" => c.matches = << >>
  BY <1>1 DEF Quiet
<1>4. TypeOK'
  BY <1>1, <1>2 DEF ToolsInv, TypeOK
<1>5. Handling'
  BY <1>1, <1>3 DEF Handling
<1>6. Shown' /\ Seen' /\ Resolved' /\ Grepped'
  BY <1>1, <1>3 DEF Shown, Seen, Resolved, Grepped
<1>7. Reviewed'
  BY DEF ToolsInv, Reviewed
<1>8. QED
  BY <1>4, <1>5, <1>6, <1>7 DEF ToolsInv

LEMMA DoneIsQuiet ==
  ASSUME ToolsInv, NEW result, Done(result), call.tool # "grep" \/ result.error
  PROVE  Quiet(call')
<1>1. PICK c, e : c = call /\ e = << >>
  OBVIOUS
<1>2. c \in CallOf(c)
  BY <1>1 DEF ToolsInv, TypeOK
<1>3. c.files \in Seq(FileSet) /\ c.matches \in Seq(FileSet \X Nat) /\ c.touched \in SUBSET FileSet
      /\ c.unread \in SUBSET FileSet
  BY <1>2 DEF CallOf
<1>4. NoCall \in CallOf(NoCall)
  BY NoCallIs DEF NoCallFacts
<1>5. PICK n : n = NoCall
  OBVIOUS
<1>6. PICK d : d = [n EXCEPT !.phase = "done", !.tool = c.tool, !.result = result,
             !.matches = c.matches, !.files = c.files, !.touched = c.touched, !.unread = c.unread]
  OBVIOUS
<1>7. d \in CallOf(d) /\ d.phase = "done" /\ d.tool = c.tool /\ d.result = result
  BY <1>3, <1>4, <1>5, <1>6 DEF CallOf
<1>7a. d.moved = n.moved
  BY <1>4, <1>5, <1>6 DEF CallOf
<1>8. call' = d
  BY <1>1, <1>5, <1>6 DEF Done, Answer
<1>9. QED
  BY <1>1, <1>5, <1>7, <1>7a, <1>8, NoCallIs DEF Quiet, NoCallFacts

\* No shell runs but for the call that waits for it.
LEMMA NoShellRuns ==
  ASSUME ToolsInv, call.phase # "shell", UNCHANGED shell
  PROVE  shell' \in ShellOf(shell') /\ ~shell'.on
BY DEF ToolsInv, TypeOK, Handling

LEMMA DoneKeeps ==
  ASSUME ToolsInv, NEW result, Done(result), call.tool # "grep" \/ result.error, call.phase # "shell",
         UNCHANGED <<doc, command, shell>>, disk' \in [FileSet -> Seq(Words)]
  PROVE  ToolsInv'
BY NoShellRuns, DoneIsQuiet, QuietKeeps

LEMMA DiskStays ==
  ASSUME ToolsInv, UNCHANGED disk
  PROVE  disk' \in [FileSet -> Seq(Words)]
BY DEF ToolsInv, TypeOK

LEMMA AsksKeeps ==
  ASSUME ToolsInv, NEW c, Asks(c), Quiet(c)
  PROVE  ToolsInv'
<1>1. call' = c /\ call.phase \in {"none", "done"} /\ UNCHANGED <<disk, doc, command, shell>>
  BY DEF Asks
<1>2. QED
  BY <1>1, DiskStays, NoShellRuns, QuietKeeps

LEMMA AsksWriteKeeps == ToolsInv /\ AsksWrite => ToolsInv'
<1> SUFFICES ASSUME ToolsInv, NEW f \in FileSet, NEW text \in Texts,
                    Asks([NoCall EXCEPT !.phase = "preview", !.tool = "write_file", !.file = f, !.new = text])
             PROVE  ToolsInv'
  BY DEF AsksWrite
<1>1. PICK n, c : /\ n = NoCall
                  /\ c = [n EXCEPT !.phase = "preview", !.tool = "write_file", !.file = f, !.new = text]
  OBVIOUS
<1>2. n \in CallOf(n) /\ n.matches = << >> /\ ~n.moved
  BY <1>1, NoCallIs DEF NoCallFacts
<1>3. text \in Seq(Words)
  BY ToolsAssumption
<1>4. Quiet(c)
  BY <1>1, <1>2, <1>3 DEF Quiet, CallOf
<1>5. QED
  BY <1>1, <1>4, AsksKeeps

LEMMA AsksEditKeeps == ToolsInv /\ AsksEdit => ToolsInv'
<1> SUFFICES ASSUME ToolsInv, NEW f \in FileSet, NEW old \in Olds, NEW new \in News, NEW all \in BOOLEAN,
                    Asks([NoCall EXCEPT !.phase = "preview", !.tool = "edit_file", !.file = f,
                                        !.old = old, !.new = new, !.all = all])
             PROVE  ToolsInv'
  BY DEF AsksEdit
<1>1. PICK n, c : /\ n = NoCall
                  /\ c = [n EXCEPT !.phase = "preview", !.tool = "edit_file", !.file = f,
                                   !.old = old, !.new = new, !.all = all]
  OBVIOUS
<1>2. n \in CallOf(n) /\ n.matches = << >> /\ ~n.moved
  BY <1>1, NoCallIs DEF NoCallFacts
<1>3. old \in Seq(Words) /\ new \in Seq(Words)
  BY ToolsAssumption
<1>4. Quiet(c)
  BY <1>1, <1>2, <1>3 DEF Quiet, CallOf
<1>5. QED
  BY <1>1, <1>4, AsksKeeps

LEMMA AsksBashKeeps == ToolsInv /\ AsksBash => ToolsInv'
<1> SUFFICES ASSUME ToolsInv, Asks([NoCall EXCEPT !.phase = "ask", !.tool = "bash"])
             PROVE  ToolsInv'
  BY DEF AsksBash
<1>1. PICK n, c : n = NoCall /\ c = [n EXCEPT !.phase = "ask", !.tool = "bash"]
  OBVIOUS
<1>2. n \in CallOf(n) /\ n.matches = << >> /\ ~n.moved
  BY <1>1, NoCallIs DEF NoCallFacts
<1>3. Quiet(c)
  BY <1>1, <1>2 DEF Quiet, CallOf
<1>4. QED
  BY <1>1, <1>3, AsksKeeps

LEMMA AsksSafeKeeps == ToolsInv /\ AsksSafe => ToolsInv'
<1> SUFFICES ASSUME ToolsInv,
                    NEW tool \in {"read_file", "grep", "glob", "list_dir", "todo_write",
                                  "find_symbol", "find_references"},
                    NEW f \in FileSet,
                    Asks([NoCall EXCEPT !.phase = "run", !.tool = tool, !.file = f])
             PROVE  ToolsInv'
  <2>1. Opened \in FileSet
    BY ToolsAssumption
  <2>2. QED
    BY <2>1 DEF AsksSafe
<1>1. PICK n, c : n = NoCall /\ c = [n EXCEPT !.phase = "run", !.tool = tool, !.file = f]
  OBVIOUS
<1>2. n \in CallOf(n) /\ n.matches = << >> /\ ~n.moved
  BY <1>1, NoCallIs DEF NoCallFacts
<1>3. tool # "write_file"
  OBVIOUS
<1>4. Quiet(c)
  BY <1>1, <1>2, <1>3 DEF Quiet, CallOf
<1>5. QED
  BY <1>1, <1>4, AsksKeeps

LEMMA DeniesKeeps == ToolsInv /\ Denies => ToolsInv'
<1> SUFFICES ASSUME ToolsInv, Denies PROVE ToolsInv'
  OBVIOUS
<1>1. call' = NoCall /\ call.phase = "ask" /\ UNCHANGED <<disk, doc, command, shell>>
  BY DEF Denies
<1>2. Quiet(call')
  BY <1>1, NoCallIs DEF Quiet, NoCallFacts
<1>3. QED
  BY <1>1, <1>2, DiskStays, NoShellRuns, QuietKeeps

LEMMA WriteFailsKeeps == ToolsInv /\ WriteFails => ToolsInv'
<1> SUFFICES ASSUME ToolsInv, WriteFails PROVE ToolsInv'
  OBVIOUS
<1>1. (call.tool = "write_file" /\ call.phase = "run") \/ call.phase = "write"
  BY DEF WriteFails
<1>2. Done(Fail) /\ UNCHANGED <<disk, doc, command, shell>>
  BY DEF WriteFails
<1>3. call.tool # "grep" /\ call.phase # "shell"
  BY <1>1 DEF ToolsInv, Handling
<1>4. QED
  BY <1>2, <1>3, DiskStays, DoneKeeps

LEMMA ExecuteWriteKeeps == ToolsInv /\ ExecuteWrite => ToolsInv'
<1> SUFFICES ASSUME ToolsInv, ExecuteWrite PROVE ToolsInv'
  OBVIOUS
<1>1. call.tool = "write_file" /\ call.phase = "run" /\ Done(Ok) /\ UNCHANGED <<doc, command, shell>>
  BY DEF ExecuteWrite
<1>2. call.file \in FileSet /\ call.new \in Seq(Words) /\ disk \in [FileSet -> Seq(Words)]
  BY DEF ToolsInv, TypeOK, CallOf
<1>3. disk' = [disk EXCEPT ![call.file] = call.new]
  BY DEF ExecuteWrite, WriteDisk
<1>4. disk' \in [FileSet -> Seq(Words)]
  BY <1>2, <1>3
<1>5. QED
  BY <1>1, <1>4, DoneKeeps

\* What edit_file makes of a text is a text.
LEMMA ExecuteEditKeeps == ToolsInv /\ ExecuteEdit => ToolsInv'
<1> SUFFICES ASSUME ToolsInv, ExecuteEdit PROVE ToolsInv'
  OBVIOUS
<1>1. call.phase = "write" /\ Done(Ok) /\ UNCHANGED <<doc, command, shell>>
  BY DEF ExecuteEdit
<1>2. call.tool = "edit_file" /\ Occurrences(call.seen, call.old) # << >>
  BY <1>1 DEF ToolsInv, Handling, Seen
<1>3. PICK f, seen, old, new : f = call.file /\ seen = call.seen /\ old = call.old /\ new = call.new
  OBVIOUS
<1>4. f \in FileSet /\ disk \in [FileSet -> Seq(Words)]
  BY <1>3 DEF ToolsInv, TypeOK, CallOf
<1>5. seen \in Seq(Words) /\ old \in Seq(Words) /\ new \in Seq(Words)
  BY <1>3 DEF ToolsInv, TypeOK, CallOf
<1>6. PICK r : r = IF call.all THEN ReplaceEvery(seen, old, new) ELSE ReplaceFirst(seen, old, new)
  OBVIOUS
<1>7. r \in Seq(Words)
  <2>1. ReplaceEvery(seen, old, new) \in Seq(Words)
    BY <1>5, ReplaceEveryLength
  <2>2. Occurrences(seen, old) # << >>
    BY <1>2, <1>3
  <2>3. ReplaceFirst(seen, old, new) \in Seq(Words)
    BY <1>5, <2>2, ReplaceFirstFacts
  <2>4. QED
    BY <1>6, <2>1, <2>3
<1>8. disk' = [disk EXCEPT ![f] = r]
  BY <1>3, <1>6 DEF ExecuteEdit, WriteDisk
<1>9. disk' \in [FileSet -> Seq(Words)]
  BY <1>4, <1>7, <1>8
<1>10. QED
  BY <1>1, <1>2, <1>9, DoneKeeps

LEMMA ToolRunKeeps ==
  ToolsInv /\ (ExecuteRead \/ ExecuteGlob \/ ExecuteList \/ ExecuteTodo \/ FindsSymbol \/ SpawnFails)
    => ToolsInv'
<1> SUFFICES ASSUME ToolsInv,
                    ExecuteRead \/ ExecuteGlob \/ ExecuteList \/ ExecuteTodo \/ FindsSymbol \/ SpawnFails
             PROVE  ToolsInv'
  OBVIOUS
<1>1. call.phase = "run" /\ call.tool # "grep" /\ UNCHANGED <<disk, doc, command, shell>>
  BY DEF ExecuteRead, ExecuteGlob, ExecuteList, ExecuteTodo, FindsSymbol, SpawnFails
<1>2. \E result : Done(result)
  <2>1. CASE ExecuteRead
    BY <2>1 DEF ExecuteRead
  <2>2. CASE ExecuteGlob
    BY <2>2 DEF ExecuteGlob
  <2>3. CASE ExecuteList
    BY <2>3 DEF ExecuteList
  <2>4. CASE ExecuteTodo
    BY <2>4 DEF ExecuteTodo
  <2>5. CASE FindsSymbol
    BY <2>5 DEF FindsSymbol
  <2>6. CASE SpawnFails
    BY <2>6 DEF SpawnFails
  <2>7. QED
    BY <2>1, <2>2, <2>3, <2>4, <2>5, <2>6
<1>3. PICK result : Done(result)
  BY <1>2
<1>4. QED
  BY <1>1, <1>3, DiskStays, DoneKeeps

LEMMA FindsReferencesKeeps == ToolsInv /\ FindsReferences => ToolsInv'
<1> SUFFICES ASSUME ToolsInv, FindsReferences PROVE ToolsInv'
  OBVIOUS
<1>1. call.phase = "refs" /\ UNCHANGED <<disk, doc, command, shell>>
  BY DEF FindsReferences
<1>2. PICK result : Done(result)
  BY DEF FindsReferences
<1>3. call.tool # "grep"
  BY <1>1 DEF ToolsInv, Handling
<1>4. QED
  BY <1>1, <1>2, <1>3, DiskStays, DoneKeeps

LEMMA FinishedKeeps == ToolsInv /\ Finished => ToolsInv'
<1> SUFFICES ASSUME ToolsInv, Finished PROVE ToolsInv'
  OBVIOUS
<1>1. shell.on /\ shell' = NoShell /\ Done(ShellResult) /\ UNCHANGED <<disk, doc, command>>
  BY DEF Finished, Closed
<1>2. call.tool # "grep"
  BY <1>1 DEF ToolsInv, Handling
<1>3. Quiet(call')
  BY <1>1, <1>2, DoneIsQuiet
<1>4. QED
  BY <1>1, <1>3, DiskStays, NoShellIs, QuietKeeps

\* What there is to say of the files stays, when neither they nor the call change but
\* that the call may have been moved.
LEMMA DocumentChanges ==
  ASSUME ToolsInv, NEW text \in Seq(Words), NEW dirty \in BOOLEAN, NEW cmd, cmd \in CommandOf(cmd),
         DocChanges(text, dirty, cmd), UNCHANGED <<disk, shell>>
  PROVE  ToolsInv'
<1>1. PICK c, d : c = call /\ d = call'
  OBVIOUS
<1>2. c \in CallOf(c)
  BY <1>1 DEF ToolsInv, TypeOK
<1>3. d = IF c.phase = "refs" THEN [c EXCEPT !.moved = TRUE] ELSE c
  BY <1>1 DEF DocChanges
<1>4. /\ d \in CallOf(d) /\ d.phase = c.phase /\ d.tool = c.tool /\ d.file = c.file /\ d.old = c.old
      /\ d.new = c.new /\ d.shown = c.shown /\ d.seen = c.seen /\ d.matches = c.matches
      /\ d.files = c.files /\ d.next = c.next /\ d.touched = c.touched /\ d.unread = c.unread
      /\ d.result = c.result
  BY <1>2, <1>3 DEF CallOf
<1>5. c.phase = "refs" => d.moved
  BY <1>2, <1>3 DEF CallOf
<1>6. c.phase # "refs" => d = c
  BY <1>3
<1>7. doc' \in [text : Seq(Words), dirty : BOOLEAN]
  BY DEF DocChanges
<1>8. PICK m : m = command'
  OBVIOUS
<1>9. m = IF cmd.phase = "none" THEN cmd ELSE [cmd EXCEPT !.moved = TRUE]
  BY <1>8 DEF DocChanges
<1>10. m \in CommandOf(m) /\ m.phase = cmd.phase /\ (cmd.phase # "none" => m.moved)
  BY <1>9 DEF CommandOf
<1>11. TypeOK'
  BY <1>1, <1>4, <1>7, <1>8, <1>10 DEF ToolsInv, TypeOK
<1>12. Handling'
  BY <1>1, <1>4 DEF ToolsInv, Handling
<1>13. Shown'
  BY <1>1, <1>4, <1>6 DEF ToolsInv, Shown, Read
<1>14. Seen'
  BY <1>1, <1>4, <1>6 DEF ToolsInv, Seen
<1>15. Resolved'
  BY <1>1, <1>4, <1>5 DEF Resolved
<1>16. Reviewed'
  BY <1>8, <1>10 DEF Reviewed
<1>17. Grepped'
  <2>1. CASE c.phase = "refs"
    BY <1>1, <1>4, <2>1 DEF Grepped
  <2>2. CASE c.phase # "refs"
    BY <1>1, <1>6, <2>2 DEF ToolsInv, Grepped, Tells, Passed
  <2>3. QED
    BY <2>1, <2>2
<1>18. QED
  BY <1>11, <1>12, <1>13, <1>14, <1>15, <1>16, <1>17 DEF ToolsInv

LEMMA TypesKeeps == ToolsInv /\ Types => ToolsInv'
<1> SUFFICES ASSUME ToolsInv, Types PROVE ToolsInv'
  OBVIOUS
<1>1. PICK text \in Texts : DocChanges(text, TRUE, command)
  BY DEF Types
<1>2. text \in Seq(Words)
  BY ToolsAssumption
<1>3. command \in CommandOf(command)
  BY DEF ToolsInv, TypeOK
<1>4. UNCHANGED <<disk, shell>>
  BY DEF Types
<1>5. QED
  BY <1>1, <1>2, <1>3, <1>4, DocumentChanges

LEMMA ReloadsKeeps == ToolsInv /\ Reloads => ToolsInv'
<1> SUFFICES ASSUME ToolsInv, Reloads PROVE ToolsInv'
  OBVIOUS
<1>1. DocChanges(disk[Opened], FALSE, command)
  BY DEF Reloads
<1>2. disk[Opened] \in Seq(Words)
  BY ToolsAssumption DEF ToolsInv, TypeOK
<1>3. command \in CommandOf(command)
  BY DEF ToolsInv, TypeOK
<1>4. UNCHANGED <<disk, shell>>
  BY DEF Reloads
<1>5. QED
  BY <1>1, <1>2, <1>3, <1>4, DocumentChanges

LEMMA WithinText ==
  ASSUME ToolsInv, NEW i \in Nat
  PROVE  Within(i) \in 0 .. Len(doc.text)
BY DEF ToolsInv, TypeOK, Within

LEMMA ReplacedType ==
  ASSUME ToolsInv, NEW piece, piece \in Seq(Words)
  PROVE  Replaced(piece) \in Seq(Words)
<1>1. PICK t, i, j : t = doc.text /\ i = Within(command.start) /\ j = Within(command.end)
  OBVIOUS
<1>2. t \in Seq(Words)
  BY <1>1 DEF ToolsInv, TypeOK
<1>3. command.start \in Nat /\ command.end \in Nat
  BY DEF ToolsInv, TypeOK, CommandOf
<1>4. i \in 0 .. Len(t) /\ j \in Nat
  <2>1. Within(command.start) \in 0 .. Len(doc.text) /\ Within(command.end) \in 0 .. Len(doc.text)
    BY <1>3, WithinText
  <2>2. QED
    BY ONLY <1>1, <2>1
<1>5. Splice(t, i, j, piece) \in Seq(Words)
  BY <1>2, <1>4, SpliceType
<1>6. QED
  BY <1>1, <1>5 DEF Replaced

LEMMA KeptIsText ==
  ASSUME NEW T, NEW a, NEW b, a \in Seq(T), b \in Seq(T), NEW accepted
  PROVE  Kept(a, b, accepted) \in Seq(T)
<1>1. PICK script, N, f : script = Script(a, b) /\ N = Len(script) /\ f = KeptScan(script, accepted)
  OBVIOUS
<1>2. script \in Seq(LineType(Len(a), T))
  BY <1>1, ScriptTraced
<1>3. f \in [0 .. N -> KeptType(T)]
  BY <1>1, <1>2, KeptScanDef
<1>4. N \in 0 .. N
  BY <1>1, <1>2
<1>5. f[N] \in KeptType(T)
  BY <1>3, <1>4
<1>6. f[N].out \in Seq(T)
  BY <1>5 DEF KeptType
<1>7. QED
  BY <1>1, <1>6 DEF Kept

\* The range as it is put in: with all hunks the new lines, with some of them those.
LEMMA AcceptedPiece ==
  ASSUME ToolsInv, NEW accepted, CommandApplies(accepted)
  PROVE  /\ Kept(command.target, command.new, accepted) \in Seq(Words)
         /\ DocChanges(Replaced(Kept(command.target, command.new, accepted)), TRUE, NoCommand)
         /\ accepted = DOMAIN ComputeHunks(command.target, command.new) =>
              Kept(command.target, command.new, accepted) = command.new
<1>1. PICK a, b : a = command.target /\ b = command.new
  OBVIOUS
<1>2. a \in Seq(Words)
  BY <1>1 DEF ToolsInv, TypeOK, CommandOf
<1>3. b \in Seq(Words)
  BY <1>1 DEF ToolsInv, TypeOK, CommandOf
<1>4. PICK hunks, k : hunks = ComputeHunks(a, b) /\ k = Kept(a, b, accepted)
  OBVIOUS
<1>5. Rebuilt(Words, a, b, accepted)
  BY <1>2, <1>3, AppliedIsKept
<1>6. k \in Seq(Words) /\ ApplyHunks(a, hunks, accepted) = k
  BY <1>2, <1>3, <1>4, <1>5, KeptIsText DEF Rebuilt
<1>7. accepted = DOMAIN hunks => k = b
  BY <1>2, <1>3, <1>4, KeptAll
<1>8. DocChanges(Replaced(IF accepted = DOMAIN hunks THEN b ELSE ApplyHunks(a, hunks, accepted)),
                 TRUE, NoCommand)
  BY <1>1, <1>4 DEF CommandApplies
<1>9. (IF accepted = DOMAIN hunks THEN b ELSE ApplyHunks(a, hunks, accepted)) = k
  BY <1>6, <1>7
<1>10. QED
  BY <1>1, <1>4, <1>6, <1>7, <1>8, <1>9

LEMMA CommandAppliesKeeps ==
  ASSUME ToolsInv, NEW accepted, CommandApplies(accepted)
  PROVE  ToolsInv'
<1>1. PICK k, text : k = Kept(command.target, command.new, accepted) /\ text = Replaced(k)
  OBVIOUS
<1>2. k \in Seq(Words) /\ DocChanges(text, TRUE, NoCommand)
  BY <1>1, AcceptedPiece
<1>3. text \in Seq(Words)
  BY <1>1, <1>2, ReplacedType
<1>4. UNCHANGED <<disk, shell>>
  BY DEF CommandApplies
<1>5. NoCommand \in CommandOf(NoCommand)
  BY NoCommandIs DEF NoCommandFacts
<1>6. QED
  BY <1>2, <1>3, <1>4, <1>5, DocumentChanges

-----------------------------------------------------------------------------
\* The command's own steps.
LEMMA CommandKeeps ==
  ASSUME ToolsInv, UNCHANGED <<disk, doc, call, shell>>, command' \in CommandOf(command'), Reviewed'
  PROVE  ToolsInv'
<1>1. TypeOK'
  BY DEF ToolsInv, TypeOK
<1>2. Handling' /\ Shown' /\ Seen'
  BY DEF ToolsInv, Handling, Shown, Read, Seen
<1>3. Resolved'
  BY DEF ToolsInv, Resolved, Lines
<1>4. Grepped'
  BY DEF ToolsInv, Grepped, Tells, Passed
<1>5. QED
  BY <1>1, <1>2, <1>3, <1>4 DEF ToolsInv

LEMMA CommandStartsKeeps == ToolsInv /\ CommandStarts => ToolsInv'
<1> SUFFICES ASSUME ToolsInv, CommandStarts PROVE ToolsInv'
  OBVIOUS
<1>1. PICK start \in 0 .. Len(doc.text), end \in 0 .. Len(doc.text) :
        /\ start < end
        /\ command' = [NoCommand EXCEPT !.phase = "asked", !.start = start, !.end = end,
                         !.target = SubSeq(doc.text, start + 1, end)]
  BY DEF CommandStarts
<1>2. PICK n, t, p, m : n = NoCommand /\ t = doc.text /\ p = SubSeq(t, start + 1, end) /\ m = command'
  OBVIOUS
<1>3. t \in Seq(Words)
  BY <1>2 DEF ToolsInv, TypeOK
<1>4. p \in Seq(Words)
  BY <1>1, <1>2, <1>3
<1>5. n \in CommandOf(n)
  BY <1>2, NoCommandIs DEF NoCommandFacts
<1>6. m = [n EXCEPT !.phase = "asked", !.start = start, !.end = end, !.target = p]
  BY <1>1, <1>2
<1>7. start \in Nat /\ end \in Nat
  BY <1>2, <1>3
<1>8. m \in CommandOf(m) /\ m.phase = "asked" /\ m.start = start /\ m.end = end
  BY <1>4, <1>5, <1>6, <1>7 DEF CommandOf
<1>9. UNCHANGED <<disk, doc, call, shell>>
  BY DEF CommandStarts
<1>10. Reviewed'
  BY <1>1, <1>2, <1>8, <1>9 DEF Reviewed
<1>11. QED
  BY <1>2, <1>8, <1>9, <1>10, CommandKeeps

LEMMA CommandEndsKeeps == ToolsInv /\ CommandEnds => ToolsInv'
<1> SUFFICES ASSUME ToolsInv, CommandEnds PROVE ToolsInv'
  OBVIOUS
<1>1. command' = NoCommand /\ UNCHANGED <<disk, doc, call, shell>>
  BY DEF CommandEnds
<1>2. command' \in CommandOf(command') /\ command'.phase = "none"
  BY <1>1, NoCommandIs DEF NoCommandFacts
<1>3. Reviewed'
  BY <1>2 DEF Reviewed
<1>4. QED
  BY <1>1, <1>2, <1>3, CommandKeeps

LEMMA CommandAnsweredKeeps == ToolsInv /\ CommandAnswered => ToolsInv'
<1> SUFFICES ASSUME ToolsInv, CommandAnswered PROVE ToolsInv'
  OBVIOUS
<1>1. command.phase = "asked" /\ UNCHANGED <<disk, doc, call, shell>>
  BY DEF CommandAnswered
<1>2. PICK code \in Texts, fenced \in BOOLEAN :
        LET new == StripCodeFences(IF fenced THEN <<Fence>> \o code \o <<Fence>> ELSE code)
        IN command' = IF new = << >> THEN NoCommand
                      ELSE [command EXCEPT !.phase = "review", !.new = new, !.proposed = Replaced(new)]
  BY DEF CommandAnswered
<1>3. PICK answer, new, m, r, e : /\ answer = IF fenced THEN <<Fence>> \o code \o <<Fence>> ELSE code
                                  /\ new = StripCodeFences(answer) /\ m = command /\ r = Replaced(new)
                                  /\ e = command'
  OBVIOUS
<1>4. code \in Seq(Words) /\ <<Fence>> \in Seq(Words)
  BY ToolsAssumption
<1>5. answer \in Seq(Words)
  <2>1. PICK u : u = <<Fence>> \o code
    OBVIOUS
  <2>2. u \in Seq(Words)
    BY <1>4, <2>1
  <2>3. u \o <<Fence>> \in Seq(Words)
    BY <1>4, <2>2
  <2>4. QED
    BY <1>3, <1>4, <2>1, <2>3
<1>6. new \in Seq(Words)
  BY <1>3, <1>5, StripType
<1>7. e = IF new = << >> THEN NoCommand
          ELSE [m EXCEPT !.phase = "review", !.new = new, !.proposed = r]
  BY <1>2, <1>3
<1>8. CASE new = << >>
  <2>1. e \in CommandOf(e) /\ e.phase = "none"
    BY <1>7, <1>8, NoCommandIs DEF NoCommandFacts
  <2>2. Reviewed'
    BY <1>3, <2>1 DEF Reviewed
  <2>3. QED
    BY <1>1, <1>3, <2>1, <2>2, CommandKeeps
<1>9. CASE new # << >>
  <2>1. m \in CommandOf(m)
    BY <1>3 DEF ToolsInv, TypeOK
  <2>2. e = [m EXCEPT !.phase = "review", !.new = new, !.proposed = r]
    BY <1>7, <1>9
  <2>3. /\ e \in CommandOf(e) /\ e.start = m.start /\ e.end = m.end /\ e.new = new
        /\ e.proposed = r /\ e.moved = m.moved
    BY <1>6, <2>1, <2>2 DEF CommandOf
  <2>4. m.start \in Nat /\ m.end \in Nat
    BY <2>1 DEF CommandOf
  <2>5. ~m.moved => m.start < m.end /\ m.end <= Len(doc.text)
    BY <1>1, <1>3 DEF ToolsInv, Reviewed
  <2>6. ~m.moved => r = Splice(doc.text, m.start, m.end, new)
    <3> SUFFICES ASSUME ~m.moved PROVE r = Splice(doc.text, m.start, m.end, new)
      OBVIOUS
    <3>1. Len(doc.text) \in Nat
      BY DEF ToolsInv, TypeOK
    <3>2. Within(m.start) = m.start /\ Within(m.end) = m.end
      BY <2>4, <2>5, <3>1 DEF Within
    <3>3. QED
      BY <1>3, <3>2 DEF Replaced
  <2>7. Reviewed'
    BY <1>1, <1>3, <2>3, <2>5, <2>6 DEF Reviewed
  <2>8. QED
    BY <1>1, <1>3, <2>3, <2>7, CommandKeeps
<1>10. QED
  BY <1>8, <1>9

\* A save writes the opened file: what is said of it is withdrawn.
LEMMA SavesDocumentKeeps == ToolsInv /\ SavesDocument => ToolsInv'
<1> SUFFICES ASSUME ToolsInv, SavesDocument PROVE ToolsInv'
  OBVIOUS
<1>1. UNCHANGED <<command, shell>> /\ doc' = [doc EXCEPT !.dirty = FALSE]
  BY DEF SavesDocument
<1>2. doc' \in [text : Seq(Words), dirty : BOOLEAN] /\ doc'.text = doc.text
  BY <1>1 DEF ToolsInv, TypeOK
<1>3. disk' = [disk EXCEPT ![Opened] = doc.text]
  BY DEF SavesDocument, WriteDisk
<1>4. disk \in [FileSet -> Seq(Words)] /\ Opened \in FileSet /\ doc.text \in Seq(Words)
  BY ToolsAssumption DEF ToolsInv, TypeOK
<1>5. disk' \in [FileSet -> Seq(Words)] /\ \A f \in FileSet : f # Opened => disk'[f] = disk[f]
  BY <1>3, <1>4
<1>6. PICK c, d : c = call /\ d = call'
  OBVIOUS
<1>7. c \in CallOf(c)
  BY <1>6 DEF ToolsInv, TypeOK
<1>8. d = IF c.phase = "none" THEN c
          ELSE [c EXCEPT !.moved = c.moved \/ Opened = c.file,
                         !.touched = IF c.tool = "grep" THEN c.touched \cup {Opened} ELSE c.touched]
  BY <1>6 DEF SavesDocument, Outdated
<1>9. /\ d \in CallOf(d) /\ d.phase = c.phase /\ d.tool = c.tool /\ d.file = c.file /\ d.old = c.old
      /\ d.new = c.new /\ d.shown = c.shown /\ d.seen = c.seen /\ d.matches = c.matches
      /\ d.files = c.files /\ d.next = c.next /\ d.unread = c.unread /\ d.result = c.result
  BY <1>4, <1>7, <1>8 DEF CallOf
<1>10. c.phase # "none" /\ ~d.moved => ~c.moved /\ c.file # Opened
  BY <1>7, <1>8 DEF CallOf
<1>11. c.phase # "none" /\ c.tool = "grep" => d.touched = c.touched \cup {Opened}
  BY <1>7, <1>8 DEF CallOf
<1>12. c.file \in FileSet /\ c.files \in Seq(FileSet)
  BY <1>7 DEF CallOf
<1>13. TypeOK'
  BY <1>1, <1>2, <1>5, <1>6, <1>9 DEF ToolsInv, TypeOK
<1>14. Handling'
  BY <1>1, <1>6, <1>9 DEF ToolsInv, Handling
<1>15. Shown'
  <2> SUFFICES ASSUME d.tool = "write_file", d.phase \in {"ask", "run"}, ~d.moved
               PROVE  d.shown = DiffLines(Read(d, disk'[d.file]), d.new, MaxDiffLines)
    BY <1>6 DEF Shown, Read
  <2>1. ~c.moved /\ c.file # Opened
    BY <1>9, <1>10
  <2>2. disk'[c.file] = disk[c.file]
    BY <1>5, <1>12, <2>1
  <2>3. c.shown = DiffLines(Read(c, disk[c.file]), c.new, MaxDiffLines)
    BY <1>6, <1>9, <2>1 DEF ToolsInv, Shown
  <2>4. QED
    BY <1>9, <2>2, <2>3 DEF Read
<1>16. Seen'
  <2> SUFFICES ASSUME d.phase = "write"
               PROVE  /\ Occurrences(d.seen, d.old) # << >>
                      /\ ~d.moved => d.seen = disk'[d.file]
    BY <1>6 DEF Seen
  <2>1. Occurrences(c.seen, c.old) # << >> /\ (~c.moved => c.seen = disk[c.file])
    BY <1>6, <1>9 DEF ToolsInv, Seen
  <2>2. ~d.moved => ~c.moved /\ disk'[c.file] = disk[c.file]
    BY <1>5, <1>9, <1>10, <1>12
  <2>3. QED
    BY <1>9, <2>1, <2>2
<1>17. Resolved'
  BY <1>2, <1>6, <1>9, <1>10 DEF ToolsInv, Resolved, Lines
<1>18. Reviewed'
  BY <1>1, <1>2 DEF ToolsInv, Reviewed
<1>19. Grepped'
  <2> SUFFICES ASSUME d.tool = "grep", d.phase = "grep" \/ (d.phase = "done" /\ ~d.result.error)
               PROVE  /\ Len(d.matches) <= MaxGrepMatches
                      /\ \A f \in ToSet(d.files) \ d.touched : Tells(f)'
    BY <1>6 DEF Grepped
  <2>1. /\ Len(c.matches) <= MaxGrepMatches
        /\ \A f \in ToSet(c.files) \ c.touched : Tells(f)
    BY <1>6, <1>9 DEF ToolsInv, Grepped
  <2>2. ASSUME NEW f \in ToSet(d.files) \ d.touched PROVE Tells(f)'
    <3>1. f \in ToSet(c.files) \ c.touched /\ f # Opened
      BY <1>9, <1>11
    <3>2. f \in FileSet
      BY <1>12, <3>1 DEF ToSet
    <3>3. disk'[f] = disk[f]
      BY <1>5, <3>1, <3>2
    <3>4. Tells(f)
      BY <2>1, <3>1
    <3>5. QED
      BY <1>6, <1>9, <3>3, <3>4 DEF Tells, Passed
  <2>3. QED
    BY <1>9, <2>1, <2>2
<1>20. QED
  BY <1>13, <1>14, <1>15, <1>16, <1>17, <1>18, <1>19 DEF ToolsInv

-----------------------------------------------------------------------------
\* A step of the shell is one of its own.
LEMMA ShellStepKeeps == ToolsInv /\ ShellStep => ToolsInv'
<1> SUFFICES ASSUME ToolsInv, ShellStep PROVE ToolsInv'
  OBVIOUS
<1>1. UNCHANGED <<disk, doc, call, command>>
  BY DEF ShellStep
<1>2. PICK s, t : s = shell /\ t = shell'
  OBVIOUS
<1>3. s \in ShellOf(s)
  BY <1>2 DEF ToolsInv, TypeOK
<1>4. PICK k : k = Killed
  OBVIOUS
<1>5. k \in ShellOf(k) /\ k.on = s.on
  BY <1>2, <1>3, <1>4 DEF Killed, ShellOf
<1>6. t \in ShellOf(t) /\ t.on = s.on
  <2>1. CASE Forks
    <3>1. t = [s EXCEPT !.heir = TRUE]
      BY <1>2, <2>1 DEF Forks
    <3>2. QED
      BY <1>3, <3>1 DEF ShellOf
  <2>2. CASE Exits
    <3>1. PICK code : t = [s EXCEPT !.child = "gone", !.code = code]
      BY <1>2, <2>2 DEF Exits
    <3>2. QED
      BY <1>3, <3>1 DEF ShellOf
  <2>3. CASE HeirExits
    <3>1. t = [s EXCEPT !.heir = FALSE]
      BY <1>2, <2>3 DEF HeirExits
    <3>2. QED
      BY <1>3, <3>1 DEF ShellOf
  <2>4. CASE TimerFires
    <3>1. t = [k EXCEPT !.timer = FALSE, !.timedOut = TRUE]
      BY <1>2, <1>4, <2>4 DEF TimerFires
    <3>2. QED
      BY <1>5, <3>1 DEF ShellOf
  <2>5. CASE Stop
    <3>1. t = [k EXCEPT !.listens = FALSE] \/ t = s
      BY <1>2, <1>4, <2>5 DEF Stop
    <3>2. [k EXCEPT !.listens = FALSE] \in ShellOf([k EXCEPT !.listens = FALSE])
          /\ [k EXCEPT !.listens = FALSE].on = s.on
      BY <1>5 DEF ShellOf
    <3>3. QED
      BY <1>3, <3>1, <3>2
  <2>6. QED
    BY <2>1, <2>2, <2>3, <2>4, <2>5 DEF ShellStep
<1>7. TypeOK'
  BY <1>1, <1>2, <1>6 DEF ToolsInv, TypeOK
<1>8. Handling'
  BY <1>1, <1>2, <1>6 DEF ToolsInv, Handling
<1>9. Shown' /\ Seen' /\ Reviewed'
  BY <1>1 DEF ToolsInv, Shown, Read, Seen, Reviewed
<1>10. Resolved'
  BY <1>1 DEF ToolsInv, Resolved, Lines
<1>11. Grepped'
  BY <1>1 DEF ToolsInv, Grepped, Tells, Passed
<1>12. QED
  BY <1>7, <1>8, <1>9, <1>10, <1>11 DEF ToolsInv

-----------------------------------------------------------------------------
\* The call goes on: nothing but it changes.
LEMMA CallGoesOn ==
  ASSUME ToolsInv, UNCHANGED <<disk, doc, command>>, call' \in CallOf(call'),
         shell' \in ShellOf(shell'), Handling', Shown', Seen', Resolved', Grepped'
  PROVE  ToolsInv'
<1>1. TypeOK'
  BY DEF ToolsInv, TypeOK
<1>2. Reviewed'
  BY DEF ToolsInv, Reviewed
<1>3. QED
  BY <1>1, <1>2 DEF ToolsInv

LEMMA PreviewKeeps == ToolsInv /\ Preview => ToolsInv'
<1> SUFFICES ASSUME ToolsInv, Preview PROVE ToolsInv'
  OBVIOUS
<1>1. call.phase = "preview" /\ UNCHANGED <<disk, doc, command, shell>>
  BY DEF Preview
<1>2. PICK c, d : c = call /\ d = call'
  OBVIOUS
<1>3. c \in CallOf(c)
  BY <1>2 DEF ToolsInv, TypeOK
<1>4. PICK unread \in IF c.tool = "write_file" THEN {{}, {c.file}} ELSE {{}} :
        d = [c EXCEPT !.phase = "ask", !.moved = FALSE, !.unread = unread,
               !.shown = DiffLines(IF unread # {} THEN << >>
                                   ELSE IF c.tool = "write_file" THEN disk[c.file]
                                   ELSE c.old, c.new, MaxDiffLines)]
  BY <1>2 DEF Preview
<1>4a. PICK x : x = DiffLines(IF unread # {} THEN << >>
                              ELSE IF c.tool = "write_file" THEN disk[c.file] ELSE c.old,
                              c.new, MaxDiffLines)
  OBVIOUS
<1>4b. d = [c EXCEPT !.phase = "ask", !.moved = FALSE, !.unread = unread, !.shown = x]
  BY <1>4, <1>4a
<1>4c. unread \in SUBSET FileSet /\ (unread # {} <=> c.file \in unread)
  BY <1>3 DEF CallOf
<1>5. /\ d \in CallOf(d) /\ d.phase = "ask" /\ d.tool = c.tool /\ d.file = c.file
      /\ d.new = c.new /\ d.shown = x /\ d.matches = c.matches /\ d.unread = unread
  BY <1>3, <1>4b, <1>4c DEF CallOf
<1>6. shell' \in ShellOf(shell') /\ ~shell'.on
  BY <1>1, NoShellRuns
<1>7. Handling'
  BY <1>1, <1>2, <1>5, <1>6 DEF ToolsInv, Handling
<1>8. d.tool = "write_file" => d.shown = DiffLines(Read(d, disk[d.file]), d.new, MaxDiffLines)
  BY <1>4a, <1>4c, <1>5 DEF Read
<1>9. Shown'
  BY <1>1, <1>2, <1>8 DEF Shown, Read
<1>10. Seen' /\ Resolved' /\ Grepped'
  BY <1>2, <1>5 DEF Seen, Resolved, Grepped
<1>11. QED
  BY <1>1, <1>2, <1>5, <1>6, <1>7, <1>9, <1>10, CallGoesOn

LEMMA ApprovesKeeps == ToolsInv /\ Approves => ToolsInv'
<1> SUFFICES ASSUME ToolsInv, Approves PROVE ToolsInv'
  OBVIOUS
<1>1. call.phase = "ask" /\ UNCHANGED <<disk, doc, command, shell>>
  BY DEF Approves
<1>2. PICK c, d : c = call /\ d = call'
  OBVIOUS
<1>3. c \in CallOf(c)
  BY <1>2 DEF ToolsInv, TypeOK
<1>4. d = [c EXCEPT !.phase = "run"]
  BY <1>2 DEF Approves
<1>5. /\ d \in CallOf(d) /\ d.phase = "run" /\ d.tool = c.tool /\ d.file = c.file
      /\ d.new = c.new /\ d.shown = c.shown /\ d.matches = c.matches /\ d.moved = c.moved
      /\ d.unread = c.unread
  BY <1>3, <1>4 DEF CallOf
<1>6. shell' \in ShellOf(shell') /\ ~shell'.on
  BY <1>1, NoShellRuns
<1>7. Handling'
  BY <1>1, <1>2, <1>5, <1>6 DEF ToolsInv, Handling
<1>8. d.tool = "write_file" /\ ~d.moved =>
        d.shown = DiffLines(Read(d, disk[d.file]), d.new, MaxDiffLines)
  BY <1>1, <1>2, <1>5 DEF ToolsInv, Shown, Read
<1>9. Shown'
  BY <1>1, <1>2, <1>8 DEF Shown, Read
<1>10. Seen' /\ Resolved' /\ Grepped'
  BY <1>2, <1>5 DEF Seen, Resolved, Grepped
<1>11. QED
  BY <1>1, <1>2, <1>5, <1>6, <1>7, <1>9, <1>10, CallGoesOn

LEMMA ReadsForEditKeeps == ToolsInv /\ ReadsForEdit => ToolsInv'
<1> SUFFICES ASSUME ToolsInv, ReadsForEdit PROVE ToolsInv'
  OBVIOUS
<1>1. call.phase = "run" /\ call.tool = "edit_file" /\ UNCHANGED <<disk, doc, command, shell>>
  BY DEF ReadsForEdit
<1>2. PICK c, d, x, places : /\ c = call /\ d = call' /\ x = disk[c.file]
                             /\ places = Occurrences(x, c.old)
  OBVIOUS
<1>3. c \in CallOf(c)
  BY <1>2 DEF ToolsInv, TypeOK
<1>4. Done(Fail) \/ (places # << >> /\ d = [c EXCEPT !.phase = "write", !.seen = x, !.moved = FALSE])
  BY <1>2 DEF ReadsForEdit
<1>5. CASE Done(Fail)
  <2>1. call.tool # "grep" /\ call.phase # "shell"
    BY <1>1
  <2>2. QED
    BY <1>1, <1>5, <2>1, DiskStays, DoneKeeps
<1>6. CASE places # << >> /\ d = [c EXCEPT !.phase = "write", !.seen = x, !.moved = FALSE]
  <2>1. x \in Seq(Words)
    <3>1. disk \in [FileSet -> Seq(Words)]
      BY DEF ToolsInv, TypeOK
    <3>2. c.file \in FileSet
      BY <1>3 DEF CallOf
    <3>3. QED
      BY <1>2, <3>1, <3>2
  <2>2. /\ d \in CallOf(d) /\ d.phase = "write" /\ d.tool = c.tool /\ d.file = c.file
        /\ d.old = c.old /\ d.seen = x /\ d.matches = c.matches
    BY <1>3, <1>6, <2>1 DEF CallOf
  <2>3. shell' \in ShellOf(shell') /\ ~shell'.on
    BY <1>1, NoShellRuns
  <2>4. Handling'
    BY <1>1, <1>2, <2>2, <2>3 DEF ToolsInv, Handling
  <2>5. Occurrences(d.seen, d.old) # << >> /\ d.seen = disk[d.file]
    BY <1>2, <1>6, <2>2
  <2>6. Seen'
    BY <1>1, <1>2, <2>5 DEF Seen
  <2>7. Shown' /\ Resolved' /\ Grepped'
    BY <1>2, <2>2 DEF Shown, Resolved, Grepped
  <2>8. QED
    BY <1>1, <1>2, <2>2, <2>3, <2>4, <2>6, <2>7, CallGoesOn
<1>7. QED
  BY <1>4, <1>5, <1>6

LEMMA ResolvesSymbolKeeps == ToolsInv /\ ResolvesSymbol => ToolsInv'
<1> SUFFICES ASSUME ToolsInv, ResolvesSymbol PROVE ToolsInv'
  OBVIOUS
<1>1. call.phase = "run" /\ call.tool = "find_references" /\ UNCHANGED <<disk, doc, command, shell>>
  BY DEF ResolvesSymbol
<1>2. PICK c, d, p : c = call /\ d = call' /\ p = Lines(Pattern)
  OBVIOUS
<1>3. c \in CallOf(c)
  BY <1>2 DEF ToolsInv, TypeOK
<1>4. Done(Capped(<< >>)) \/ (p # << >> /\ d = [c EXCEPT !.phase = "refs", !.next = p[1], !.moved = FALSE])
  BY <1>2 DEF ResolvesSymbol
<1>5. CASE Done(Capped(<< >>))
  <2>1. call.tool # "grep" /\ call.phase # "shell"
    BY <1>1
  <2>2. QED
    BY <1>1, <1>5, <2>1, DiskStays, DoneKeeps
<1>6. CASE p # << >> /\ d = [c EXCEPT !.phase = "refs", !.next = p[1], !.moved = FALSE]
  <2>1. p \in Seq(Nat) /\ \A i : (\E k \in 1 .. Len(p) : p[k] = i) => i \in 1 .. Len(doc.text)
    <3>1. doc.text \in Seq(Words)
      BY DEF ToolsInv, TypeOK
    <3>2. QED
      BY <1>2, <3>1, PlacesFacts DEF Lines
  <2>2. p[1] \in Nat \ {0}
    <3>1. 1 \in 1 .. Len(p)
      BY <1>6, <2>1
    <3>2. p[1] \in 1 .. Len(doc.text)
      BY <2>1, <3>1
    <3>3. QED
      BY <3>2
  <2>3. /\ d \in CallOf(d) /\ d.phase = "refs" /\ d.tool = c.tool /\ d.next = p[1]
        /\ d.matches = c.matches
    BY <1>3, <1>6, <2>2 DEF CallOf
  <2>4. shell' \in ShellOf(shell') /\ ~shell'.on
    BY <1>1, NoShellRuns
  <2>5. Handling'
    BY <1>1, <1>2, <2>3, <2>4 DEF ToolsInv, Handling
  <2>6. Lines(Pattern)' = p
    BY <1>1, <1>2 DEF Lines
  <2>7. Resolved'
    BY <1>2, <1>6, <2>3, <2>6 DEF Resolved
  <2>8. Shown' /\ Seen' /\ Grepped'
    BY <1>2, <2>3 DEF Shown, Seen, Grepped
  <2>9. QED
    BY <1>1, <1>2, <2>3, <2>4, <2>5, <2>7, <2>8, CallGoesOn
<1>7. QED
  BY <1>4, <1>5, <1>6

LEMMA StartsShellKeeps == ToolsInv /\ StartsShell => ToolsInv'
<1> SUFFICES ASSUME ToolsInv, StartsShell PROVE ToolsInv'
  OBVIOUS
<1>1. call.phase = "run" /\ call.tool = "bash" /\ shell' = Spawned /\ UNCHANGED <<disk, doc, command>>
  BY DEF StartsShell
<1>2. PICK c, d : c = call /\ d = call'
  OBVIOUS
<1>3. c \in CallOf(c)
  BY <1>2 DEF ToolsInv, TypeOK
<1>4. d = [c EXCEPT !.phase = "shell"]
  BY <1>2 DEF StartsShell
<1>5. d \in CallOf(d) /\ d.phase = "shell" /\ d.tool = c.tool /\ d.matches = c.matches
  BY <1>3, <1>4 DEF CallOf
<1>6. shell' \in ShellOf(shell')
  BY <1>1 DEF Spawned, NoShell, ShellOf
<1>7. Handling'
  BY <1>1, <1>2, <1>5 DEF ToolsInv, Handling
<1>8. Shown' /\ Seen' /\ Resolved' /\ Grepped'
  BY <1>2, <1>5 DEF Shown, Seen, Resolved, Grepped
<1>9. QED
  BY <1>1, <1>2, <1>5, <1>6, <1>7, <1>8, CallGoesOn

-----------------------------------------------------------------------------
(* grep.                                                                     *)

FoundAt(matches, f, i) == \E k \in 1 .. Len(matches) : matches[k][1] = f /\ matches[k][2] = i

LEMMA FoundIs ==
  ASSUME NEW T, NEW matches \in Seq(T), NEW f
  PROVE  \A i : i \in FoundIn(matches, f) <=> FoundAt(matches, f, i)
BY DEF FoundIn, FoundAt

LEMMA ConcatPlaces ==
  ASSUME NEW T, NEW s, NEW t, s \in Seq(T), t \in Seq(T)
  PROVE  /\ \A k \in 1 .. Len(s) : (s \o t)[k] = s[k]
         /\ \A k \in 1 .. Len(t) : (s \o t)[Len(s) + k] = t[k]
OBVIOUS

LEMMA FoundConcat ==
  ASSUME NEW T, NEW s, NEW t, s \in Seq(T), t \in Seq(T), NEW f, NEW i
  PROVE  FoundAt(s \o t, f, i) <=> FoundAt(s, f, i) \/ FoundAt(t, f, i)
<1>1. PICK u, m, n : u = s \o t /\ m = Len(s) /\ n = Len(t)
  OBVIOUS
<1>2. u \in Seq(T) /\ Len(u) = m + n
  BY <1>1, ConcatLength
<1>3. m \in Nat /\ n \in Nat
  BY <1>1
<1>4. \A k \in 1 .. m : u[k] = s[k]
  BY <1>1, ConcatPlaces
<1>5. \A k \in 1 .. n : u[m + k] = t[k]
  BY <1>1, ConcatPlaces
<1>6. ASSUME NEW k \in 1 .. m + n, u[k][1] = f, u[k][2] = i
      PROVE  FoundAt(s, f, i) \/ FoundAt(t, f, i)
  <2>1. CASE k <= m
    <3>1. k \in 1 .. m
      BY <1>3, <2>1
    <3>2. QED
      BY <1>1, <1>4, <1>6, <3>1 DEF FoundAt
  <2>2. CASE k > m
    <3>1. PICK l : l = k - m
      OBVIOUS
    <3>2. l \in 1 .. n /\ k = m + l
      BY <1>3, <2>2, <3>1
    <3>3. t[l] = u[k]
      BY <1>5, <3>2
    <3>4. QED
      BY <1>1, <1>6, <3>2, <3>3 DEF FoundAt
  <2>3. QED
    BY <1>3, <2>1, <2>2
<1>7. ASSUME NEW k \in 1 .. m, s[k][1] = f, s[k][2] = i
      PROVE  \E l \in 1 .. m + n : u[l][1] = f /\ u[l][2] = i
  <2>1. k \in 1 .. m + n
    BY <1>3
  <2>2. u[k] = s[k]
    BY <1>4
  <2>3. QED
    BY <1>7, <2>1, <2>2
<1>8. ASSUME NEW k \in 1 .. n, t[k][1] = f, t[k][2] = i
      PROVE  \E l \in 1 .. m + n : u[l][1] = f /\ u[l][2] = i
  <2>1. m + k \in 1 .. m + n
    BY <1>3
  <2>2. u[m + k] = t[k]
    BY <1>5
  <2>3. QED
    BY <1>8, <2>1, <2>2
<1>9. FoundAt(u, f, i) <=> \E k \in 1 .. m + n : u[k][1] = f /\ u[k][2] = i
  BY <1>2 DEF FoundAt
<1>10. QED
  BY <1>1, <1>6, <1>7, <1>8, <1>9 DEF FoundAt

\* The matches of a file: no more than there is room for, each at a line that
\* matches, and every line that does when room is left.
Matching(f, text, room, r) ==
  /\ r \in Seq(FileSet \X Nat)
  /\ Len(r) <= room
  /\ \A g, i : FoundAt(r, g, i) => g = f /\ i \in There(text)
  /\ Len(r) < room => \A i \in There(text) : FoundAt(r, f, i)

LEMMA MatchesFacts ==
  ASSUME NEW f \in FileSet, NEW text \in Seq(Words), NEW room \in Nat
  PROVE  Matching(f, text, room, Matches(f, text, room))
<1>1. PICK lines, kept, r : /\ lines = Places(text, Pattern)
                            /\ kept = IF Len(lines) <= room THEN Len(lines) ELSE room
                            /\ r = [k \in 1 .. kept |-> <<f, lines[k]>>]
  OBVIOUS
<1>2. /\ lines \in Seq(Nat)
      /\ \A i : (\E k \in 1 .. Len(lines) : lines[k] = i) <=> (i \in 1 .. Len(text) /\ text[i] = Pattern)
  BY <1>1, PlacesFacts
<1>3. \A i : (\E k \in 1 .. Len(lines) : lines[k] = i) <=> i \in There(text)
  BY <1>2 DEF There
<1>4. kept \in Nat /\ kept <= room /\ kept <= Len(lines) /\ (kept < room => kept = Len(lines))
  BY <1>1, <1>2
<1>5. \A k \in 1 .. kept : lines[k] \in Nat /\ k \in 1 .. Len(lines)
  BY <1>2, <1>4
<1>6. \A k \in 1 .. kept : <<f, lines[k]>> \in FileSet \X Nat
  BY <1>5
<1>7. r \in Seq(FileSet \X Nat) /\ Len(r) = kept
  BY <1>1, <1>4, <1>6
<1>8. \A k \in 1 .. kept : r[k][1] = f /\ r[k][2] = lines[k]
  BY <1>1
<1>9. ASSUME NEW g, NEW i, FoundAt(r, g, i) PROVE g = f /\ i \in There(text)
  <2>1. PICK k \in 1 .. kept : r[k][1] = g /\ r[k][2] = i
    BY <1>7, <1>9 DEF FoundAt
  <2>2. g = f /\ lines[k] = i /\ k \in 1 .. Len(lines)
    BY <1>5, <1>8, <2>1
  <2>3. QED
    BY <1>3, <2>2
<1>10. ASSUME kept < room, NEW i \in There(text) PROVE FoundAt(r, f, i)
  <2>1. PICK k \in 1 .. Len(lines) : lines[k] = i
    BY <1>3
  <2>2. k \in 1 .. kept
    BY <1>4, <1>10
  <2>3. QED
    BY <1>7, <1>8, <2>1, <2>2 DEF FoundAt
<1>11. Matching(f, text, room, r)
  BY <1>4, <1>7, <1>9, <1>10 DEF Matching
<1>12. Matches(f, text, room) = r
  BY <1>1 DEF Matches
<1>13. QED
  BY <1>11, <1>12

LEMMA GrepStartsKeeps == ToolsInv /\ GrepStarts => ToolsInv'
<1> SUFFICES ASSUME ToolsInv, GrepStarts PROVE ToolsInv'
  OBVIOUS
<1>1. call.phase = "run" /\ call.tool = "grep" /\ UNCHANGED <<disk, doc, command, shell>>
  BY DEF GrepStarts
<1>1a. CASE Done(Fail)
  BY <1>1, <1>1a, DiskStays, DoneKeeps DEF Fail
<1>1b. CASE \E found \in Globbed :
         call' = [call EXCEPT !.phase = "grep", !.next = 1, !.touched = {}, !.files = Filter(Files, found)]
  <2>2. PICK found \in Globbed :
          call' = [call EXCEPT !.phase = "grep", !.next = 1, !.touched = {}, !.files = Filter(Files, found)]
    BY <1>1b
  <2>3. PICK c, d, files : c = call /\ d = call' /\ files = Filter(Files, found)
    OBVIOUS
  <2>4. c \in CallOf(c)
    BY <2>3 DEF ToolsInv, TypeOK
  <2>5. files \in Seq(FileSet)
    BY <2>3, ToolsAssumption, FilterType
  <2>6. d = [c EXCEPT !.phase = "grep", !.next = 1, !.touched = {}, !.files = files]
    BY <2>2, <2>3
  <2>7. /\ d \in CallOf(d) /\ d.phase = "grep" /\ d.tool = c.tool /\ d.matches = c.matches /\ d.next = 1
        /\ d.files = files
    <3>1. d \in CallOf(d)
      <4>1. PICK one, none : one = 1 /\ none = {}
        OBVIOUS
      <4>2. one \in Nat \ {0} /\ none \in SUBSET FileSet
        BY <4>1
      <4>3. d = [c EXCEPT !.phase = "grep", !.next = one, !.touched = none, !.files = files]
        BY <2>6, <4>1
      <4>4. QED
        BY <2>4, <2>5, <4>2, <4>3 DEF CallOf
    <3>2. d.phase = "grep" /\ d.tool = c.tool /\ d.matches = c.matches
      BY <2>4, <2>6 DEF CallOf
    <3>3. d.next = 1 /\ d.files = files
      BY <2>4, <2>6 DEF CallOf
    <3>4. QED
      BY <3>1, <3>2, <3>3
  <2>8. shell' \in ShellOf(shell') /\ ~shell'.on
    BY <1>1, NoShellRuns
  <2>9. Handling'
    BY <1>1, <2>3, <2>7, <2>8 DEF Handling
  <2>10. d.matches = << >>
    BY <1>1, <2>3, <2>7 DEF ToolsInv, Handling
  <2>11. Len(d.matches) = 0
    BY <2>10
  <2>12. Len(d.matches) <= MaxGrepMatches
    BY <2>11, ToolsAssumption
  <2>13. ASSUME NEW f PROVE Tells(f)'
    <3>1. FoundIn(d.matches, f) = {}
      <4>1. DOMAIN d.matches = {}
        BY <2>10
      <4>2. QED
        BY <4>1 DEF FoundIn
    <3>2. ~ \E k \in DOMAIN d.files : k < 1 /\ d.files[k] = f
      BY <2>5, <2>7
    <3>3. ~ Passed(f)'
      BY <2>3, <2>7, <3>2 DEF Passed
    <3>4. FoundIn(call.matches, f)' = {}
      BY <2>3, <3>1 DEF FoundIn
    <3>5. QED
      BY <3>3, <3>4 DEF Tells
  <2>14. Grepped'
    BY <2>3, <2>12, <2>13 DEF Grepped
  <2>15. Shown' /\ Seen' /\ Resolved'
    BY <2>3, <2>7 DEF Shown, Seen, Resolved
  <2>16. QED
    BY <1>1, <2>3, <2>7, <2>8, <2>9, <2>14, <2>15, CallGoesOn
<1>2. QED
  BY <1>1a, <1>1b, <1>1 DEF GrepStarts

\* A file that is passed over: nothing more is found, and it is not told of.
LEMMA GrepSkips ==
  ASSUME ToolsInv, call.phase = "grep", UNCHANGED <<disk, doc, command, shell>>, NEW c, NEW d, c = call,
         d = call', c.next \in 1 .. Len(c.files), Len(c.matches) < MaxGrepMatches,
         NEW f \in FileSet, f = c.files[c.next],
         d = [c EXCEPT !.next = c.next + 1, !.unread = c.unread \cup {f}]
  PROVE  ToolsInv'
<1>1. c \in CallOf(c)
  BY DEF ToolsInv, TypeOK
<1>2. PICK m, files, next : m = c.matches /\ files = c.files /\ next = c.next
  OBVIOUS
<1>3. m \in Seq(FileSet \X Nat) /\ files \in Seq(FileSet) /\ next \in 1 .. Len(files)
  BY <1>1, <1>2 DEF CallOf
<1>4. /\ d \in CallOf(d) /\ d.phase = "grep" /\ d.tool = c.tool /\ d.matches = m /\ d.next = next + 1
      /\ d.files = files /\ d.touched = c.touched /\ d.unread = c.unread \cup {f}
  <2>1. PICK n, u : n = next + 1 /\ u = c.unread \cup {f}
    OBVIOUS
  <2>2. n \in Nat \ {0} /\ u \in SUBSET FileSet
    BY <1>1, <1>3, <2>1 DEF CallOf
  <2>3. d = [c EXCEPT !.next = n, !.unread = u]
    BY <1>2, <2>1
  <2>4. QED
    BY <1>1, <1>2, <2>1, <2>2, <2>3 DEF CallOf
<1>5. shell' \in ShellOf(shell') /\ ~shell'.on
  BY NoShellRuns
<1>6. c.tool = "grep"
  BY DEF ToolsInv, Handling
<1>7. Handling'
  BY <1>4, <1>5, <1>6 DEF Handling
<1>8. Len(m) <= MaxGrepMatches /\ \A g \in ToSet(files) \ c.touched : Tells(g)
  BY <1>2, <1>6 DEF ToolsInv, Grepped
<1>9. ASSUME NEW g \in ToSet(files) \ c.touched PROVE Tells(g)'
  <2>1. Tells(g)
    BY <1>8
  <2>2. Passed(g)' => Passed(g)
    <3> SUFFICES ASSUME Passed(g)' PROVE Passed(g)
      OBVIOUS
    <3>1. g \notin c.unread /\ g # f
      BY <1>4 DEF Passed
    <3>2. PICK k \in DOMAIN files : k < next + 1 /\ files[k] = g
      BY <1>4 DEF Passed
    <3>3. k # next
      BY <1>2, <3>1, <3>2
    <3>4. k < next
      BY <1>3, <3>2, <3>3
    <3>5. QED
      BY <1>2, <3>1, <3>2, <3>4 DEF Passed
  <2>3. QED
    BY <1>2, <1>4, <2>1, <2>2 DEF Tells
<1>10. Grepped'
  BY <1>4, <1>8, <1>9 DEF Grepped
<1>11. Shown' /\ Seen' /\ Resolved'
  BY <1>4, <1>6 DEF Shown, Seen, Resolved
<1>12. QED
  BY <1>4, <1>5, <1>7, <1>10, <1>11, CallGoesOn

\* A file that is read: what was found of the others stays, and what was found of it
\* is what it holds.
LEMMA GrepFileKeeps == ToolsInv /\ GrepFile => ToolsInv'
<1> SUFFICES ASSUME ToolsInv, GrepFile PROVE ToolsInv'
  OBVIOUS
<1>1. call.phase = "grep" /\ UNCHANGED <<disk, doc, command, shell>>
  BY DEF GrepFile
<1>2. PICK c, d, m, files, next : /\ c = call /\ d = call' /\ m = c.matches /\ files = c.files
                                  /\ next = c.next
  OBVIOUS
<1>3. c \in CallOf(c)
  BY <1>2 DEF ToolsInv, TypeOK
<1>4. m \in Seq(FileSet \X Nat)
  BY <1>2, <1>3 DEF CallOf
<1>5. files \in Seq(FileSet) /\ next \in Nat \ {0}
  BY <1>2, <1>3 DEF CallOf
<1>6. next <= Len(files) /\ Len(m) < MaxGrepMatches
  BY <1>2 DEF GrepFile, GrepGoesOn
<1>6a. next \in 1 .. Len(files)
  BY <1>5, <1>6
<1>7. PICK f, text, room, r, m2 :
        /\ f = files[next] /\ text = disk[f] /\ room = MaxGrepMatches - Len(m)
        /\ r = Matches(f, text, room) /\ m2 = IF Binary \in ToSet(text) THEN m ELSE m \o r
  OBVIOUS
<1>8. f \in FileSet
  BY <1>5, <1>6a, <1>7
<1>9. text \in Seq(Words) /\ room \in Nat
  BY <1>4, <1>6, <1>7, <1>8, ToolsAssumption DEF ToolsInv, TypeOK
<1>10. Matching(f, text, room, r)
  BY <1>7, <1>8, <1>9, MatchesFacts
<1>11. r \in Seq(FileSet \X Nat) /\ Len(r) <= room
  BY <1>10 DEF Matching
<1>12. m2 \in Seq(FileSet \X Nat) /\ Len(m2) <= MaxGrepMatches
  <2>1. m \o r \in Seq(FileSet \X Nat) /\ Len(m \o r) = Len(m) + Len(r)
    BY <1>4, <1>11, ConcatLength
  <2>2. Len(m) \in Nat /\ Len(r) \in Nat /\ MaxGrepMatches \in Nat
    BY <1>4, <1>11, ToolsAssumption
  <2>3. QED
    BY <1>4, <1>6, <1>7, <1>11, <2>1, <2>2
<1>12a. \/ d = [c EXCEPT !.next = next + 1, !.unread = c.unread \cup {f}]
        \/ d = [c EXCEPT !.next = next + 1, !.matches = m2]
  BY <1>2, <1>7 DEF GrepFile
<1>12b. CASE d = [c EXCEPT !.next = next + 1, !.unread = c.unread \cup {f}]
  <2>1. c.next \in 1 .. Len(c.files) /\ Len(c.matches) < MaxGrepMatches /\ f = c.files[c.next]
    BY <1>2, <1>6, <1>6a, <1>7
  <2>2. d = [c EXCEPT !.next = c.next + 1, !.unread = c.unread \cup {f}]
    BY <1>2, <1>12b
  <2>3. QED
    BY <1>1, <1>2, <1>8, <2>1, <2>2, GrepSkips
<1>13. CASE d = [c EXCEPT !.next = next + 1, !.matches = m2]
  <2>14. /\ d \in CallOf(d) /\ d.phase = "grep" /\ d.tool = c.tool /\ d.matches = m2 /\ d.next = next + 1
         /\ d.files = files /\ d.touched = c.touched /\ d.unread = c.unread
    <3>1. m2 \in Seq(FileSet \X Nat)
      BY <1>12
    <3>2. next + 1 \in Nat \ {0}
      BY <1>5
    <3>3. d \in CallOf(d)
      BY <1>3, <1>13, <3>1, <3>2 DEF CallOf
    <3>4. d.phase = c.phase /\ d.tool = c.tool /\ d.files = c.files /\ d.touched = c.touched /\ d.unread = c.unread
      BY <1>3, <1>13 DEF CallOf
    <3>5. d.matches = m2 /\ d.next = next + 1
      BY <1>3, <1>13 DEF CallOf
    <3>6. QED
      BY <1>1, <1>2, <3>3, <3>4, <3>5
  <2>15. shell' \in ShellOf(shell') /\ ~shell'.on
    BY <1>1, NoShellRuns
  <2>16. c.tool = "grep"
    BY <1>1, <1>2 DEF ToolsInv, Handling
  <2>17. Handling'
    BY <1>2, <2>14, <2>15, <2>16 DEF Handling
  <2>18. \A g \in ToSet(files) \ c.touched : Tells(g)
    BY <1>1, <1>2, <2>16 DEF ToolsInv, Grepped
  <2>19. ASSUME NEW g \in ToSet(files) \ c.touched PROVE Tells(g)'
    <3>1. Tells(g)
      BY <2>18
    <3>2. \A i : i \in FoundIn(m, g) <=> FoundAt(m, g, i)
      BY <1>4, FoundIs
    <3>3. \A i : i \in FoundIn(m2, g) <=> FoundAt(m2, g, i)
      BY <1>12, FoundIs
    <3>4. \A i : Binary \notin ToSet(text) => (FoundAt(m2, g, i) <=> FoundAt(m, g, i) \/ FoundAt(r, g, i))
      BY <1>4, <1>7, <1>11, FoundConcat
    <3>5. Passed(g)' <=> /\ g \notin c.unread
                       /\ \E k \in 1 .. Len(files) : k < next + 1 /\ files[k] = g
                       /\ Len(m2) < MaxGrepMatches
      BY <1>2, <1>5, <2>14 DEF Passed
    <3>6. CASE g = f
      <4>1. CASE Binary \in ToSet(text)
        <5>1. FoundIn(m2, g) = {}
          BY <1>2, <1>7, <3>1, <3>6, <4>1 DEF Tells
        <5>2. QED
          BY <1>1, <1>2, <1>7, <2>14, <3>6, <4>1, <5>1 DEF Tells
      <4>2. CASE Binary \notin ToSet(text)
        <5>1. FoundIn(m, g) \subseteq There(text)
          BY <1>2, <1>7, <3>1, <3>6, <4>2 DEF Tells
        <5>2. FoundIn(m2, g) \subseteq There(text)
          BY <1>10, <3>2, <3>3, <3>4, <4>2, <5>1 DEF Matching
        <5>3. ASSUME Len(m2) < MaxGrepMatches PROVE There(text) \subseteq FoundIn(m2, g)
          <6>1. Len(m2) = Len(m) + Len(r)
            BY <1>4, <1>7, <1>11, <4>2, ConcatLength
          <6>2. Len(r) < room
            BY <1>4, <1>7, <1>11, <5>3, <6>1, ToolsAssumption
          <6>3. \A i \in There(text) : FoundAt(r, g, i)
            BY <1>10, <3>6, <6>2 DEF Matching
          <6>4. QED
            BY <3>3, <3>4, <4>2, <6>3
        <5>4. QED
          BY <1>1, <1>2, <1>7, <2>14, <3>5, <3>6, <4>2, <5>2, <5>3 DEF Tells
      <4>3. QED
        BY <4>1, <4>2
    <3>7. CASE g # f
      <4>1. \A i : ~FoundAt(r, g, i)
        BY <1>10, <3>7 DEF Matching
      <4>2. FoundIn(m2, g) = FoundIn(m, g)
        BY <1>7, <3>2, <3>3, <3>4, <4>1
      <4>3. Passed(g)' => Passed(g)
        <5> SUFFICES ASSUME Passed(g)' PROVE Passed(g)
          OBVIOUS
        <5>1. PICK k \in 1 .. Len(files) : k < next + 1 /\ files[k] = g
          BY <3>5
        <5>2. k # next
          BY <1>7, <3>7, <5>1
        <5>3. k < next /\ k \in DOMAIN files
          BY <1>5, <5>1, <5>2
        <5>4. g \notin c.unread
          BY <3>5
        <5>5. QED
          BY <1>1, <1>2, <1>6, <5>1, <5>3, <5>4 DEF Passed
      <4>4. QED
        BY <1>1, <1>2, <2>14, <3>1, <4>2, <4>3 DEF Tells
    <3>8. QED
      BY <3>6, <3>7
  <2>20. Grepped'
    BY <1>2, <1>12, <2>14, <2>19 DEF Grepped
  <2>21. Shown' /\ Seen' /\ Resolved'
    BY <1>2, <2>14, <2>16 DEF Shown, Seen, Resolved
  <2>22. QED
    BY <1>1, <1>2, <2>14, <2>15, <2>17, <2>20, <2>21, CallGoesOn
<1>14. QED
  BY <1>12a, <1>12b, <1>13

\* The end of a grep that is not stopped by the matches comes after the last file
\* that is read.
LEMMA GrepEndsKeeps == ToolsInv /\ GrepEnds => ToolsInv'
<1> SUFFICES ASSUME ToolsInv, GrepEnds PROVE ToolsInv'
  OBVIOUS
<1>1. call.phase = "grep" /\ ~GrepGoesOn /\ UNCHANGED <<disk, doc, command, shell>>
  BY DEF GrepEnds
<1>2. PICK c, d, n, files : c = call /\ d = call' /\ n = NoCall /\ files = c.files
  OBVIOUS
<1>2a. PICK m, result :
         /\ d = Answer(result, m) /\ ~result.error
         /\ \/ m = c.matches /\ result.stopped = (Len(c.matches) >= MaxGrepMatches)
            \/ result.truncated /\ \E left \in 0 .. Len(c.matches) : m = SubSeq(c.matches, 1, left)
  <2>1. CASE Done([error |-> FALSE, stopped |-> Len(c.matches) >= MaxGrepMatches, truncated |-> FALSE])
    BY <1>2, <2>1 DEF Done
  <2>2. CASE \E left \in 0 .. Len(c.matches) :
               d = Answer([error |-> FALSE, stopped |-> FALSE, truncated |-> TRUE],
                          SubSeq(c.matches, 1, left))
    <3>1. PICK left \in 0 .. Len(c.matches) :
                 d = Answer([error |-> FALSE, stopped |-> FALSE, truncated |-> TRUE],
                            SubSeq(c.matches, 1, left))
      BY <2>2
    <3>2. PICK part, res : /\ part = SubSeq(c.matches, 1, left)
                           /\ res = [error |-> FALSE, stopped |-> FALSE, truncated |-> TRUE]
      OBVIOUS
    <3>3. d = Answer(res, part) /\ ~res.error /\ res.truncated
      BY <3>1, <3>2
    <3>4. QED
      BY <3>2, <3>3
  <2>3. QED
    BY <1>2, <2>1, <2>2 DEF GrepEnds
<1>3. c \in CallOf(c) /\ n \in CallOf(n)
  BY <1>2, NoCallIs DEF ToolsInv, TypeOK, NoCallFacts
<1>4. c.matches \in Seq(FileSet \X Nat)
  BY <1>3 DEF CallOf
<1>4a. /\ m \in Seq(FileSet \X Nat) /\ Len(m) <= Len(c.matches)
       /\ \A k \in 1 .. Len(m) : k \in 1 .. Len(c.matches) /\ m[k] = c.matches[k]
  <2>1. CASE m = c.matches
    BY <1>4, <2>1
  <2>2. CASE \E left \in 0 .. Len(c.matches) : m = SubSeq(c.matches, 1, left)
    BY <1>4, <2>2
  <2>3. QED
    BY <1>2a, <2>1, <2>2
<1>5. files \in Seq(FileSet) /\ c.next \in Nat \ {0} /\ c.touched \in SUBSET FileSet
      /\ c.unread \in SUBSET FileSet
  BY <1>2, <1>3 DEF CallOf
<1>6. d = [n EXCEPT !.phase = "done", !.tool = c.tool, !.result = result, !.matches = m,
             !.files = files, !.touched = c.touched, !.unread = c.unread]
  BY <1>2, <1>2a DEF Answer
<1>7. d \in CallOf(d)
  BY <1>3, <1>4a, <1>5, <1>6 DEF CallOf
<1>8. d.phase = "done" /\ d.tool = c.tool /\ d.result = result
  BY <1>3, <1>6 DEF CallOf
<1>9. d.files = files /\ d.matches = m /\ d.touched = c.touched /\ d.unread = c.unread
  BY <1>3, <1>6 DEF CallOf
<1>10. shell' \in ShellOf(shell') /\ ~shell'.on
  BY <1>1, NoShellRuns
<1>11. Handling'
  BY <1>2, <1>8, <1>10 DEF Handling
<1>12. c.tool = "grep"
  BY <1>1, <1>2 DEF ToolsInv, Handling
<1>13. /\ Len(c.matches) <= MaxGrepMatches
       /\ \A f \in ToSet(files) \ c.touched : Tells(f)
  BY <1>1, <1>2, <1>12 DEF ToolsInv, Grepped
<1>13a. Len(m) <= MaxGrepMatches
  BY <1>4, <1>4a, <1>13, ToolsAssumption
<1>14. ASSUME NEW f \in ToSet(files) \ c.touched PROVE Tells(f)'
  <2>1. Tells(f)
    BY <1>13
  <2>2. FoundIn(m, f) \subseteq FoundIn(c.matches, f)
    <3>1. \A i : FoundAt(m, f, i) => FoundAt(c.matches, f, i)
      BY <1>4a DEF FoundAt
    <3>2. QED
      BY <1>4, <1>4a, <3>1, FoundIs
  <2>3. Passed(f)' => Passed(f) /\ m = c.matches
    <3> SUFFICES ASSUME Passed(f)' PROVE Passed(f) /\ m = c.matches
      OBVIOUS
    <3>1. ~result.stopped /\ ~result.truncated /\ Len(files) <= MaxGrepFiles /\ f \notin c.unread
      BY <1>2, <1>8, <1>9 DEF Passed
    <3>2. m = c.matches /\ ~ (Len(c.matches) >= MaxGrepMatches)
      BY <1>2a, <3>1
    <3>3. Len(c.matches) < MaxGrepMatches
      BY <1>4, <3>2, ToolsAssumption
    <3>4. ~ (c.next <= Len(files) /\ c.next <= MaxGrepFiles)
      BY <1>1, <1>2, <3>3 DEF GrepGoesOn
    <3>5. Len(files) < c.next
      BY <1>5, <3>1, <3>4, ToolsAssumption
    <3>6. PICK k \in 1 .. Len(files) : files[k] = f
      BY <1>5 DEF ToSet
    <3>7. k \in DOMAIN files /\ k < c.next
      BY <1>5, <3>5, <3>6
    <3>8. QED
      BY <1>1, <1>2, <3>1, <3>2, <3>3, <3>6, <3>7 DEF Passed
  <2>4. Binary \in ToSet(disk[f]) => FoundIn(m, f) = {}
    BY <1>2, <2>1, <2>2 DEF Tells
  <2>5. Binary \notin ToSet(disk[f]) =>
          /\ FoundIn(m, f) \subseteq There(disk[f])
          /\ Passed(f)' => There(disk[f]) \subseteq FoundIn(m, f)
    BY <1>2, <2>1, <2>2, <2>3 DEF Tells
  <2>6. QED
    BY <1>1, <1>2, <1>9, <2>4, <2>5 DEF Tells
<1>15. Grepped'
  BY <1>2, <1>9, <1>13a, <1>14 DEF Grepped
<1>16. Shown' /\ Seen' /\ Resolved'
  BY <1>2, <1>8 DEF Shown, Seen, Resolved
<1>17. QED
  BY <1>1, <1>2, <1>7, <1>10, <1>11, <1>15, <1>16, CallGoesOn

-----------------------------------------------------------------------------
\* The invariant, step by step.
LEMMA ToolsStutters == ToolsInv /\ UNCHANGED vars => ToolsInv'
<1> SUFFICES ASSUME ToolsInv, UNCHANGED vars PROVE ToolsInv'
  OBVIOUS
<1>1. UNCHANGED <<disk, doc, call, command, shell>>
  BY DEF vars
<1>2. TypeOK' /\ Handling' /\ Shown' /\ Seen' /\ Reviewed'
  BY <1>1 DEF ToolsInv, TypeOK, Handling, Shown, Read, Seen, Reviewed
<1>3. Resolved'
  BY <1>1 DEF ToolsInv, Resolved, Lines
<1>4. Grepped'
  BY <1>1 DEF ToolsInv, Grepped, Tells, Passed
<1>5. QED
  BY <1>2, <1>3, <1>4 DEF ToolsInv

LEMMA ToolsSteps == ToolsInv /\ [Next]_vars => ToolsInv'
<1> SUFFICES ASSUME ToolsInv, [Next]_vars PROVE ToolsInv'
  OBVIOUS
<1>1. CASE Types \/ SavesDocument \/ Reloads
  BY <1>1, TypesKeeps, SavesDocumentKeeps, ReloadsKeeps
<1>2. CASE AsksWrite \/ AsksEdit \/ AsksBash \/ AsksSafe
  BY <1>2, AsksWriteKeeps, AsksEditKeeps, AsksBashKeeps, AsksSafeKeeps
<1>3. CASE Preview \/ Approves \/ Denies
  BY <1>3, PreviewKeeps, ApprovesKeeps, DeniesKeeps
<1>4. CASE WriteFails \/ ExecuteWrite \/ ReadsForEdit \/ ExecuteEdit
  BY <1>4, WriteFailsKeeps, ExecuteWriteKeeps, ReadsForEditKeeps, ExecuteEditKeeps
<1>5. CASE ExecuteRead \/ ExecuteGlob \/ ExecuteList \/ ExecuteTodo \/ FindsSymbol \/ SpawnFails
  BY <1>5, ToolRunKeeps
<1>6. CASE ResolvesSymbol \/ FindsReferences
  BY <1>6, ResolvesSymbolKeeps, FindsReferencesKeeps
<1>7. CASE GrepStarts \/ GrepFile \/ GrepEnds
  BY <1>7, GrepStartsKeeps, GrepFileKeeps, GrepEndsKeeps
<1>8. CASE StartsShell \/ ShellStep \/ Finished
  BY <1>8, StartsShellKeeps, ShellStepKeeps, FinishedKeeps
<1>9. CASE CommandStarts \/ CommandAnswered \/ CommandEnds
  BY <1>9, CommandStartsKeeps, CommandAnsweredKeeps, CommandEndsKeeps
<1>10. CASE \E accepted : CommandApplies(accepted)
  BY <1>10, CommandAppliesKeeps
<1>11. CASE UNCHANGED vars
  BY <1>11, ToolsStutters
<1>12. QED
  BY <1>1, <1>2, <1>3, <1>4, <1>5, <1>6, <1>7, <1>8, <1>9, <1>10, <1>11 DEF Next

LEMMA ToolsAlways == Spec => []ToolsInv
<1>1. QED
  BY ToolsStart, ToolsSteps, PTL DEF Spec

-----------------------------------------------------------------------------
\* Whatever is written while a grep runs, whatever cannot be read, and however the
\* caps are set: what a grep returns of a file that was not written meanwhile is never
\* but what matches, and every match in it if the grep read it, had no more files than
\* are read, and says neither that it stopped nor that it was truncated.
THEOREM GrepIsComplete == Spec => []GrepComplete
<1>1. ToolsInv => GrepComplete
  <2> DEFINE Good(f, found, there) ==
               IF Binary \in ToSet(disk[f]) THEN found = {}
               ELSE /\ found \subseteq there
                    /\ /\ ~call.result.stopped /\ ~call.result.truncated /\ f \notin call.unread
                       /\ Len(call.files) <= MaxGrepFiles
                       => found = there
  <2> SUFFICES ASSUME ToolsInv, call.tool = "grep", call.phase = "done", ~call.result.error
               PROVE  /\ Len(call.matches) <= MaxGrepMatches
                      /\ \A f \in ToSet(call.files) \ call.touched :
                           Good(f, FoundIn(call.matches, f), There(disk[f]))
    BY DEF GrepComplete, FoundIn, There
  <2>1. /\ Len(call.matches) <= MaxGrepMatches
        /\ \A f \in ToSet(call.files) \ call.touched : Tells(f)
    BY DEF ToolsInv, Grepped
  <2>2. ASSUME NEW f \in ToSet(call.files) \ call.touched
        PROVE  Good(f, FoundIn(call.matches, f), There(disk[f]))
    <3>1. PICK found, there : found = FoundIn(call.matches, f) /\ there = There(disk[f])
      OBVIOUS
    <3>2. /\ ~call.result.stopped /\ ~call.result.truncated /\ f \notin call.unread
          /\ Len(call.files) <= MaxGrepFiles
          => Passed(f)
      BY DEF Passed
    <3>3. Tells(f)
      BY <2>1
    <3>3a. Binary \in ToSet(disk[f]) => found = {}
      BY <3>1, <3>3 DEF Tells
    <3>3b. Binary \notin ToSet(disk[f]) =>
             /\ found \subseteq there
             /\ Passed(f) => found = there
      BY <3>1, <3>3 DEF Tells
    <3>4. Good(f, found, there)
      BY <3>2, <3>3a, <3>3b
    <3>5. QED
      BY <3>1, <3>4
  <2>3. QED
    BY <2>1, <2>2
<1>2. QED
  BY <1>1, ToolsAlways, PTL

-----------------------------------------------------------------------------
(* What is done is what was shown.                                           *)

LEMMA DoneResult ==
  ASSUME NEW result, Done(result)
  PROVE  call'.result = result /\ call'.phase = "done"
<1>1. PICK n, d : n = NoCall /\ d = call'
  OBVIOUS
<1>2. n \in CallOf(n)
  BY <1>1, NoCallIs DEF NoCallFacts
<1>3. d = [n EXCEPT !.phase = "done", !.tool = call.tool, !.result = result, !.matches = call.matches,
             !.files = call.files, !.touched = call.touched, !.unread = call.unread]
  BY <1>1 DEF Done, Answer
<1>4. d.result = result /\ d.phase = "done"
  BY <1>2, <1>3 DEF CallOf
<1>5. QED
  BY <1>1, <1>4

\* The user, the shell and the edit command leave the call in its phase.
LEMMA OthersKeepPhase ==
  ASSUME ToolsInv,
         \/ Types \/ SavesDocument \/ Reloads \/ ShellStep
         \/ CommandStarts \/ CommandAnswered \/ CommandEnds
         \/ \E accepted : CommandApplies(accepted)
  PROVE  call'.phase = call.phase
<1>1. PICK c, d : c = call /\ d = call'
  OBVIOUS
<1>2. c \in CallOf(c)
  BY <1>1 DEF ToolsInv, TypeOK
<1>3. d = c \/ (\E moved : d = [c EXCEPT !.moved = moved])
      \/ (\E moved, touched : d = [c EXCEPT !.moved = moved, !.touched = touched])
  <2>1. CASE Types
    BY <1>1, <2>1 DEF Types, DocChanges
  <2>2. CASE SavesDocument
    BY <1>1, <2>2 DEF SavesDocument, Outdated
  <2>3. CASE Reloads
    BY <1>1, <2>3 DEF Reloads, DocChanges
  <2>4. CASE ShellStep
    BY <1>1, <2>4 DEF ShellStep
  <2>5. CASE CommandStarts
    BY <1>1, <2>5 DEF CommandStarts
  <2>6. CASE CommandAnswered
    BY <1>1, <2>6 DEF CommandAnswered
  <2>7. CASE CommandEnds
    BY <1>1, <2>7 DEF CommandEnds
  <2>8. CASE \E accepted : CommandApplies(accepted)
    BY <1>1, <2>8 DEF CommandApplies, DocChanges
  <2>9. QED
    BY <2>1, <2>2, <2>3, <2>4, <2>5, <2>6, <2>7, <2>8
<1>4. d.phase = c.phase
  BY <1>2, <1>3 DEF CallOf
<1>5. QED
  BY <1>1, <1>4

\* The one step that writes for a call that is approved.
LEMMA Writer ==
  ASSUME ToolsInv, Next, call.tool \in {"write_file", "edit_file"}, call.phase \in {"run", "write"},
         call'.phase = "done", ~call'.result.error
  PROVE  ExecuteWrite \/ ExecuteEdit
<1>1. ASSUME NEW result, Done(result) PROVE ~result.error
  BY <1>1, DoneResult
<1>2. CASE \/ Types \/ SavesDocument \/ Reloads \/ ShellStep
           \/ CommandStarts \/ CommandAnswered \/ CommandEnds
           \/ \E accepted : CommandApplies(accepted)
  <2>1. call'.phase = call.phase
    BY <1>2, OthersKeepPhase
  <2>2. QED
    BY <2>1
<1>3. CASE AsksWrite \/ AsksEdit \/ AsksBash \/ AsksSafe
  BY <1>3 DEF AsksWrite, AsksEdit, AsksBash, AsksSafe, Asks
<1>4. CASE Preview \/ Approves \/ Denies
  BY <1>4 DEF Preview, Approves, Denies
<1>5. CASE WriteFails
  BY <1>1, <1>5 DEF WriteFails, Fail
<1>6. CASE ReadsForEdit
  <2>1. ~Done(Fail)
    BY <1>1 DEF Fail
  <2>2. PICK c, d, x : c = call /\ d = call' /\ x = disk[c.file]
    OBVIOUS
  <2>3. d = [c EXCEPT !.phase = "write", !.seen = x, !.moved = FALSE]
    BY <1>6, <2>1, <2>2 DEF ReadsForEdit
  <2>4. c \in CallOf(c)
    BY <2>2 DEF ToolsInv, TypeOK
  <2>5. d.phase = "write"
    BY <2>3, <2>4 DEF CallOf
  <2>6. QED
    BY <2>2, <2>5
<1>7. CASE ExecuteRead \/ ExecuteGlob \/ ExecuteList \/ ExecuteTodo \/ FindsSymbol \/ ResolvesSymbol
  BY <1>7 DEF ExecuteRead, ExecuteGlob, ExecuteList, ExecuteTodo, FindsSymbol, ResolvesSymbol
<1>8. CASE FindsReferences \/ GrepStarts \/ GrepFile \/ GrepEnds \/ SpawnFails \/ StartsShell
  BY <1>8 DEF FindsReferences, GrepStarts, GrepFile, GrepEnds, SpawnFails, StartsShell
<1>9. CASE Finished
  BY <1>9 DEF Finished, Closed, ToolsInv, Handling
<1>10. QED
  BY <1>2, <1>3, <1>4, <1>5, <1>6, <1>7, <1>8, <1>9 DEF Next

LEMMA Referrer ==
  ASSUME ToolsInv, Next, call.phase = "refs", call'.phase = "done"
  PROVE  FindsReferences
<1>1. CASE \/ Types \/ SavesDocument \/ Reloads \/ ShellStep
           \/ CommandStarts \/ CommandAnswered \/ CommandEnds
           \/ \E accepted : CommandApplies(accepted)
  <2>1. call'.phase = call.phase
    BY <1>1, OthersKeepPhase
  <2>2. QED
    BY <2>1
<1>2. CASE AsksWrite \/ AsksEdit \/ AsksBash \/ AsksSafe
  BY <1>2 DEF AsksWrite, AsksEdit, AsksBash, AsksSafe, Asks
<1>3. CASE Preview \/ Approves \/ Denies
  BY <1>3 DEF Preview, Approves, Denies
<1>4. CASE WriteFails \/ ExecuteWrite \/ ReadsForEdit \/ ExecuteEdit
  BY <1>4 DEF WriteFails, ExecuteWrite, ReadsForEdit, ExecuteEdit
<1>5. CASE ExecuteRead \/ ExecuteGlob \/ ExecuteList \/ ExecuteTodo \/ FindsSymbol \/ ResolvesSymbol
  BY <1>5 DEF ExecuteRead, ExecuteGlob, ExecuteList, ExecuteTodo, FindsSymbol, ResolvesSymbol
<1>6. CASE GrepStarts \/ GrepFile \/ GrepEnds \/ SpawnFails \/ StartsShell
  BY <1>6 DEF GrepStarts, GrepFile, GrepEnds, SpawnFails, StartsShell
<1>7. CASE Finished
  BY <1>7 DEF Finished, Closed, ToolsInv, Handling
<1>8. QED
  BY <1>1, <1>2, <1>3, <1>4, <1>5, <1>6, <1>7 DEF Next

LEMMA WritesAsShown ==
  ASSUME ToolsInv, Next, WritesNow("write_file"), ~call.moved
  PROVE  call.shown = DiffLines(IF call.file \in call.unread THEN << >> ELSE disk[call.file],
                                disk'[call.file], MaxDiffLines)
<1>1. ExecuteWrite
  BY Writer DEF WritesNow, ToolsInv, Handling, ExecuteEdit
<1>2. disk' = [disk EXCEPT ![call.file] = call.new] /\ call.phase = "run"
  BY <1>1 DEF ExecuteWrite, WriteDisk
<1>3. call.file \in FileSet /\ disk \in [FileSet -> Seq(Words)]
  BY DEF ToolsInv, TypeOK, CallOf
<1>4. disk'[call.file] = call.new
  BY <1>2, <1>3
<1>5. call.shown = DiffLines(IF call.file \in call.unread THEN << >> ELSE disk[call.file], call.new,
                             MaxDiffLines)
  BY <1>2 DEF ToolsInv, Shown, Read, WritesNow
<1>6. QED
  BY <1>4, <1>5

\* What an edit_file that is not moved writes.
LEMMA EditIs ==
  ASSUME ToolsInv, Next, WritesNow("edit_file"), ~call.moved,
         NEW before, NEW after, NEW old, NEW new, before = disk[call.file], after = disk'[call.file],
         old = call.old, new = call.new
  PROVE  /\ before \in Seq(Words) /\ old \in Seq(Words) /\ new \in Seq(Words)
         /\ Occurrences(before, old) # << >>
         /\ after = IF call.all THEN ReplaceEvery(before, old, new) ELSE ReplaceFirst(before, old, new)
<1>1. ExecuteEdit
  BY Writer DEF WritesNow, ExecuteWrite
<1>2. PICK f, r : f = call.file /\ r = IF call.all THEN ReplaceEvery(call.seen, call.old, call.new)
                                      ELSE ReplaceFirst(call.seen, call.old, call.new)
  OBVIOUS
<1>3. disk' = [disk EXCEPT ![f] = r] /\ call.phase = "write"
  BY <1>1, <1>2 DEF ExecuteEdit, WriteDisk
<1>4. f \in FileSet /\ disk \in [FileSet -> Seq(Words)]
  BY <1>2 DEF ToolsInv, TypeOK, CallOf
<1>5. after = r /\ before \in Seq(Words)
  BY <1>2, <1>3, <1>4
<1>6. old \in Seq(Words) /\ new \in Seq(Words)
  BY DEF ToolsInv, TypeOK, CallOf
<1>7. Occurrences(call.seen, call.old) # << >> /\ call.seen = before
  BY <1>3 DEF ToolsInv, Seen
<1>8. QED
  BY <1>2, <1>5, <1>6, <1>7

LEMMA EditsOnce ==
  ASSUME ToolsInv, Next, WritesNow("edit_file"), ~call.moved, ~call.all, "$&" \notin ToSet(call.new)
  PROVE  \E i \in 0 .. Len(disk[call.file]) :
           /\ At(disk[call.file], i + 1, call.old)
           /\ disk'[call.file] = Splice(disk[call.file], i, i + Len(call.old), call.new)
<1>1. PICK before, after, old, new : /\ before = disk[call.file] /\ after = disk'[call.file]
                                     /\ old = call.old /\ new = call.new
  OBVIOUS
<1>2. /\ before \in Seq(Words) /\ old \in Seq(Words) /\ new \in Seq(Words)
      /\ Occurrences(before, old) # << >>
      /\ after = ReplaceFirst(before, old, new)
  BY <1>1, EditIs
<1>3. PICK i \in 0 .. Len(before) :
        /\ At(before, i + 1, old)
        /\ ReplaceFirst(before, old, new) = Splice(before, i, i + Len(old), Expand(new, old))
  BY <1>2, ReplaceFirstFacts
<1>4. Expand(new, old) = new
  BY <1>1, <1>2, ExpandPlain
<1>5. QED
  BY <1>1, <1>2, <1>3, <1>4

LEMMA EditsAll ==
  ASSUME ToolsInv, Next, WritesNow("edit_file"), ~call.moved, call.all
  PROVE  Len(disk'[call.file])
           = Len(disk[call.file])
               + Len(Occurrences(disk[call.file], call.old)) * (Len(call.new) - Len(call.old))
<1>1. PICK before, after, old, new : /\ before = disk[call.file] /\ after = disk'[call.file]
                                     /\ old = call.old /\ new = call.new
  OBVIOUS
<1>2. /\ before \in Seq(Words) /\ old \in Seq(Words) /\ new \in Seq(Words)
      /\ after = ReplaceEvery(before, old, new)
  BY <1>1, EditIs
<1>3. Len(ReplaceEvery(before, old, new))
        = Len(before) + Len(Occurrences(before, old)) * (Len(new) - Len(old))
  BY <1>2, ReplaceEveryLength
<1>4. QED
  BY <1>1, <1>2, <1>3

\* What is left out of a list of places is counted.
LEMMA CappedFacts ==
  ASSUME NEW p \in Seq(Nat)
  PROVE  /\ ToSet(Capped(p).lines) \subseteq ToSet(p)
         /\ Len(Capped(p).lines) + Capped(p).more = Len(p)
<1>1. PICK n, kept, lines : /\ n = Len(p) /\ kept = IF n <= MaxHits THEN n ELSE MaxHits
                            /\ lines = SubSeq(p, 1, kept)
  OBVIOUS
<1>2. n \in Nat /\ kept \in Nat /\ kept <= n
  BY <1>1, ToolsAssumption
<1>3. Capped(p).lines = lines /\ Capped(p).more = n - kept
  BY <1>1 DEF Capped
<1>4. Len(lines) = kept /\ DOMAIN lines = 1 .. kept /\ \A k \in 1 .. kept : lines[k] = p[k]
  BY <1>1, <1>2
<1>5. ToSet(lines) \subseteq ToSet(p)
  BY <1>1, <1>2, <1>4 DEF ToSet
<1>6. QED
  BY <1>1, <1>2, <1>3, <1>4, <1>5

LEMMA RefersToSymbol ==
  ASSUME ToolsInv, Next, call.phase = "refs", call'.phase = "done", ~call.moved
  PROVE  /\ ToSet(call'.result.lines) \subseteq ToSet(Lines(Pattern))
         /\ Len(call'.result.lines) + call'.result.more = Len(Lines(Pattern))
<1>1. FindsReferences
  BY Referrer
<1>2. PICK t, p, n : t = doc.text /\ p = Lines(Pattern) /\ n = call.next
  OBVIOUS
<1>3. p # << >> /\ n = p[1]
  BY <1>2 DEF ToolsInv, Resolved
<1>4. t \in Seq(Words)
  BY <1>2 DEF ToolsInv, TypeOK
<1>5. /\ p \in Seq(Nat)
      /\ \A i : (\E k \in 1 .. Len(p) : p[k] = i) => i \in 1 .. Len(t) /\ t[i] = Pattern
  BY <1>2, <1>4, PlacesFacts DEF Lines
<1>6. 1 \in 1 .. Len(p)
  BY <1>3, <1>5
<1>7. n \in 1 .. Len(t) /\ t[n] = Pattern
  BY <1>3, <1>5, <1>6
<1>8. n \in DOMAIN t
  BY <1>4, <1>7
<1>9. Done(Capped(p))
  BY <1>1, <1>2, <1>7, <1>8 DEF FindsReferences
<1>10. call'.result = Capped(p)
  BY <1>9, DoneResult
<1>11. QED
  BY <1>2, <1>5, <1>10, CappedFacts

LEMMA AppliesAsReviewed ==
  ASSUME ToolsInv, NEW accepted, CommandApplies(accepted), ~command.moved
  PROVE  /\ doc'.text = Splice(doc.text, command.start, command.end,
                               Kept(command.target, command.new, accepted))
         /\ accepted = DOMAIN ComputeHunks(command.target, command.new) => doc'.text = command.proposed
<1>1. PICK k, i, j : k = Kept(command.target, command.new, accepted) /\ i = command.start /\ j = command.end
  OBVIOUS
<1>2. /\ DocChanges(Replaced(k), TRUE, NoCommand)
      /\ accepted = DOMAIN ComputeHunks(command.target, command.new) => k = command.new
  BY <1>1, AcceptedPiece
<1>3. command.phase = "review"
  BY DEF CommandApplies
<1>4. i < j /\ j <= Len(doc.text) /\ command.proposed = Splice(doc.text, i, j, command.new)
  BY <1>1, <1>3 DEF ToolsInv, Reviewed
<1>5. i \in Nat /\ j \in Nat /\ Len(doc.text) \in Nat
  BY <1>1 DEF ToolsInv, TypeOK, CommandOf
<1>6. Within(i) = i /\ Within(j) = j
  BY <1>4, <1>5 DEF Within
<1>7. Replaced(k) = Splice(doc.text, i, j, k)
  BY <1>1, <1>6 DEF Replaced
<1>8. doc'.text = Splice(doc.text, i, j, k)
  BY <1>2, <1>7 DEF DocChanges
<1>9. QED
  BY <1>1, <1>2, <1>4, <1>8

\* Whatever else is written, typed and saved in between: a write changes the file by
\* the diff that was approved, an edit what it names, and an applied edit the range
\* that was reviewed by the hunks that were accepted, or the text has moved since.
THEOREM DoneAsAccepted == Spec => AcceptedIsDone
<1>1. ToolsInv /\ Next => AcceptedIsDoneStep
  <2> SUFFICES ASSUME ToolsInv, Next PROVE AcceptedIsDoneStep
    OBVIOUS
  <2>1. WritesNow("write_file") /\ ~call.moved =>
          call.shown = DiffLines(IF call.file \in call.unread THEN << >> ELSE disk[call.file],
                                 disk'[call.file], MaxDiffLines)
    BY WritesAsShown
  <2>2. WritesNow("edit_file") /\ ~call.moved /\ ~call.all /\ "$&" \notin ToSet(call.new) =>
          \E i \in 0 .. Len(disk[call.file]) :
            /\ At(disk[call.file], i + 1, call.old)
            /\ disk'[call.file] = Splice(disk[call.file], i, i + Len(call.old), call.new)
    BY EditsOnce
  <2>3. WritesNow("edit_file") /\ ~call.moved /\ call.all =>
          Len(disk'[call.file])
            = Len(disk[call.file])
                + Len(Occurrences(disk[call.file], call.old)) * (Len(call.new) - Len(call.old))
    BY EditsAll
  <2>4. call.phase = "refs" /\ call'.phase = "done" /\ ~call.moved =>
          /\ ToSet(call'.result.lines) \subseteq ToSet(Lines(Pattern))
          /\ Len(call'.result.lines) + call'.result.more = Len(Lines(Pattern))
    BY RefersToSymbol
  <2>5. \A accepted \in SUBSET DOMAIN ComputeHunks(command.target, command.new) :
          CommandApplies(accepted) /\ ~command.moved =>
            /\ doc'.text = Splice(doc.text, command.start, command.end,
                                  Kept(command.target, command.new, accepted))
            /\ accepted = DOMAIN ComputeHunks(command.target, command.new) =>
                 doc'.text = command.proposed
    BY AppliesAsReviewed
  <2>6. QED
    BY <2>1, <2>2, <2>3, <2>4, <2>5 DEF AcceptedIsDoneStep
<1>2. QED
  BY <1>1, ToolsAlways, PTL DEF Spec, AcceptedIsDone
===============================================================================
