------------------------------ MODULE ScanProofs ------------------------------
(***************************************************************************)
(* Induction over the naturals, what it says of a function defined by       *)
(* recursion on the length of a list, and the facts about Filter.           *)
(***************************************************************************)
EXTENDS Scans, WellFoundedInduction, TLAPS

\* Every non-empty set of naturals has a least element.
LEMMA Least ==
  ASSUME NEW S \in SUBSET Nat, S # {}
  PROVE  \E n \in S : \A m \in S : n <= m
<1>1. PICK R : R = OpToRel(<, Nat)
  OBVIOUS
<1>2. IsWellFoundedOn(R, Nat)
  BY <1>1, NatLessThanWellFounded
<1>3. \A x, y \in Nat : x < y => <<x, y>> \in R
  BY <1>1 DEF OpToRel
<1>4. PICK x \in S : \A y \in S : ~ (<<y, x>> \in R)
  BY <1>2, WFMin
<1>5. ASSUME NEW m \in S PROVE x <= m
  <2>1. x \in Nat /\ m \in Nat
    OBVIOUS
  <2>2. ~ (m < x)
    BY <1>3, <1>4, <2>1
  <2>3. QED
    BY <2>1, <2>2
<1>6. QED
  BY <1>4, <1>5

\* A set with 0 and the successor of each of its naturals has all of them.
LEMMA Induct ==
  ASSUME NEW S, 0 \in S, \A n \in Nat : n \in S => n + 1 \in S
  PROVE  \A n \in Nat : n \in S
<1> SUFFICES ASSUME Nat \ S # {} PROVE FALSE
  OBVIOUS
<1>1. PICK n \in Nat \ S : \A m \in Nat \ S : n <= m
  BY Least
<1>2. n # 0 /\ n - 1 \in Nat /\ n - 1 \in S
  BY <1>1
<1>3. QED
  BY <1>1, <1>2

\* Recursion along 0 .. N has a solution.
LEMMA Recursion ==
  ASSUME NEW A, NEW a0 \in A, NEW N \in Nat, NEW step \in [1 .. N -> [A -> A]]
  PROVE  \E g \in [0 .. N -> A] : g[0] = a0 /\ \A n \in 1 .. N : g[n] = step[n][g[n - 1]]
<1> DEFINE Good(n) ==
      \E g \in [0 .. n -> A] : g[0] = a0 /\ \A k \in 1 .. n : g[k] = step[k][g[k - 1]]
    S == {n \in Nat : n <= N => Good(n)}
<1>1. 0 \in S
  <2>1. PICK g : g = [k \in 0 .. 0 |-> a0]
    OBVIOUS
  <2>2. g \in [0 .. 0 -> A] /\ g[0] = a0
    BY <2>1
  <2>3. \A k \in 1 .. 0 : g[k] = step[k][g[k - 1]]
    OBVIOUS
  <2>4. Good(0)
    BY <2>2, <2>3
  <2>5. QED
    BY <2>4
<1>2. ASSUME NEW n \in Nat, n \in S PROVE n + 1 \in S
  <2> SUFFICES ASSUME n + 1 <= N PROVE Good(n + 1)
    OBVIOUS
  <2>1. PICK g \in [0 .. n -> A] : g[0] = a0 /\ \A k \in 1 .. n : g[k] = step[k][g[k - 1]]
    BY <1>2
  <2>2. PICK x : x = step[n + 1][g[n]]
    OBVIOUS
  <2>3. x \in A
    BY <2>2
  <2>4. PICK h : h = [k \in 0 .. n + 1 |-> IF k = n + 1 THEN x ELSE g[k]]
    OBVIOUS
  <2>5. h \in [0 .. n + 1 -> A]
    BY <2>3, <2>4
  <2>6. h[0] = a0 /\ \A k \in 1 .. n + 1 : h[k] = step[k][h[k - 1]]
    BY <2>1, <2>2, <2>4
  <2>7. QED
    BY <2>5, <2>6
<1>3. \A n \in Nat : n \in S
  <2> HIDE DEF S
  <2>1. QED
    BY <1>1, <1>2, Induct
<1>4. QED
  BY <1>3

\* Induction up to a bound.
LEMMA InductTo ==
  ASSUME NEW N \in Nat, NEW S, 0 \in S, \A n \in 1 .. N : n - 1 \in S => n \in S
  PROVE  \A n \in 0 .. N : n \in S
<1> DEFINE T == {n \in Nat : n <= N => n \in S}
<1>1. 0 \in T
  OBVIOUS
<1>2. ASSUME NEW n \in Nat, n \in T PROVE n + 1 \in T
  <2> SUFFICES ASSUME n + 1 <= N PROVE n + 1 \in S
    OBVIOUS
  <2>1. n + 1 \in 1 .. N /\ (n + 1) - 1 = n /\ n \in S
    BY <1>2
  <2>2. QED
    BY <2>1
<1>3. \A n \in Nat : n \in T
  <2> HIDE DEF T
  <2>1. QED
    BY <1>1, <1>2, Induct
<1>4. QED
  BY <1>3

\* Filtered does what its definition says, and keeps the element type.
LEMMA FilteredDef ==
  ASSUME NEW T, NEW list \in Seq(T), NEW S
  PROVE  /\ Filtered(list, S) \in [0 .. Len(list) -> Seq(T)]
         /\ Filtered(list, S)[0] = << >>
         /\ \A n \in 1 .. Len(list) :
              Filtered(list, S)[n] = IF list[n] \in S
                                       THEN Append(Filtered(list, S)[n - 1], list[n])
                                       ELSE Filtered(list, S)[n - 1]
<1> DEFINE Step(a, n) == IF list[n] \in S THEN Append(a, list[n]) ELSE a
<1>0. PICK A, N, e : A = Seq(T) /\ N = Len(list) /\ e = << >>
  OBVIOUS
<1>1. N \in Nat /\ e \in A
  BY <1>0
<1>1a. \A n \in 1 .. N, a \in A : Step(a, n) \in A
  BY <1>0
<1>2. PICK step : step = [n \in 1 .. N |-> [a \in A |-> Step(a, n)]]
  OBVIOUS
<1>3. step \in [1 .. N -> [A -> A]]
  <2> HIDE DEF Step
  <2>1. QED
    BY <1>1a, <1>2
<1>5. PICK g \in [0 .. N -> A] : g[0] = e /\ \A n \in 1 .. N : g[n] = step[n][g[n - 1]]
  <2> HIDE DEF Step
  <2>1. QED
    BY <1>1, <1>3, Recursion, SMTT(60)
<1>6. \A n \in 1 .. N : g[n] = Step(g[n - 1], n)
  <2> TAKE n \in 1 .. N
  <2>1. g[n - 1] \in A
    BY <1>1, <1>5
  <2>2. QED
    BY <1>2, <1>5, <2>1
<1>7. g = [n \in 0 .. N |-> IF n = 0 THEN e ELSE Step(g[n - 1], n)]
  <2> HIDE DEF Step
  <2>1. QED
    BY <1>1, <1>5, <1>6
<1>8. PICK f : f = Filtered(list, S)
  OBVIOUS
<1>9. f = CHOOSE kept : kept = [n \in 0 .. N |-> IF n = 0 THEN e ELSE Step(kept[n - 1], n)]
  <2>1. f = CHOOSE kept : kept = [n \in 0 .. Len(list) |-> IF n = 0 THEN << >> 
               ELSE IF list[n] \in S THEN Append(kept[n - 1], list[n]) ELSE kept[n - 1]]
    BY <1>8, Zenon DEF Filtered
  <2>2. QED
    BY <1>0, <2>1, Zenon
<1>10. f = [n \in 0 .. N |-> IF n = 0 THEN e ELSE Step(f[n - 1], n)]
  BY <1>7, <1>9, Zenon
<1>11. DOMAIN f = 0 .. N /\ f[0] = e /\ \A n \in 1 .. N : f[n] = Step(f[n - 1], n)
  <2> HIDE DEF Step
  <2>1. QED
    BY <1>1, <1>10
<1>12. \A n \in 0 .. N : f[n] \in A
  <2> DEFINE Typed == {n \in 0 .. N : f[n] \in A}
  <2>1. 0 \in Typed
    BY <1>1, <1>11
  <2>2. \A n \in 1 .. N : n - 1 \in Typed => n \in Typed
    <3> HIDE DEF Step
    <3>1. QED
      BY <1>1, <1>1a, <1>11
  <2>3. \A n \in 0 .. N : n \in Typed
    <3> HIDE DEF Typed
    <3>1. QED
      BY <1>1, <2>1, <2>2, InductTo
  <2>4. QED
    BY <2>3
<1>13. f = [n \in 0 .. N |-> f[n]]
  <2> HIDE DEF Step
  <2>1. QED
    BY <1>10
<1>14. f \in [0 .. N -> A]
  BY <1>12, <1>13
<1>15. QED
  BY <1>0, <1>8, <1>11, <1>14

\* The prefixes of a list.
LEMMA PrefixFacts ==
  ASSUME NEW T, NEW s \in Seq(T)
  PROVE  /\ SubSeq(s, 1, 0) = << >> /\ Len(SubSeq(s, 1, 0)) = 0
         /\ SubSeq(s, 1, 0) \in Seq(T)
         /\ SubSeq(s, 1, Len(s)) = s
         /\ \A n \in 1 .. Len(s) :
              /\ SubSeq(s, 1, n - 1) \in Seq(T)
              /\ s[n] \in T
              /\ SubSeq(s, 1, n) = Append(SubSeq(s, 1, n - 1), s[n])
<1>1. PICK N : N = Len(s)
  OBVIOUS
<1>2. N \in Nat
  BY <1>1
<1>3. /\ SubSeq(s, 1, 0) = << >> /\ Len(SubSeq(s, 1, 0)) = 0
      /\ SubSeq(s, 1, 0) \in Seq(T)
      /\ SubSeq(s, 1, N) = s
  BY <1>1, <1>2
<1>4. ASSUME NEW n \in 1 .. N
      PROVE  /\ SubSeq(s, 1, n - 1) \in Seq(T)
             /\ s[n] \in T
             /\ SubSeq(s, 1, n) = Append(SubSeq(s, 1, n - 1), s[n])
  <2>1. SubSeq(s, 1, n - 1) \in Seq(T) /\ s[n] \in T
    BY <1>1
  <2>2. SubSeq(s, 1, n) = Append(SubSeq(s, 1, n - 1), s[n])
    BY <1>1, <2>1
  <2>3. QED
    BY <2>1, <2>2
<1>5. QED
  BY <1>1, <1>3, <1>4

\* Induction over lists, by appending.
LEMMA InductAppend ==
  ASSUME NEW T, NEW P, << >> \in P,
         \A s \in Seq(T) : s \in P => \A x \in T : Append(s, x) \in P
  PROVE  \A s \in Seq(T) : s \in P
<1> TAKE s \in Seq(T)
<1>1. PICK N, pre : N = Len(s) /\ pre = [n \in 0 .. N |-> SubSeq(s, 1, n)]
  OBVIOUS
<1>2. N \in Nat
  BY <1>1
<1>3. /\ pre[0] = << >> /\ pre[N] = s
      /\ \A n \in 1 .. N : pre[n - 1] \in Seq(T) /\ s[n] \in T /\ pre[n] = Append(pre[n - 1], s[n])
  BY <1>1, <1>2, PrefixFacts
<1> DEFINE S == {n \in 0 .. N : pre[n] \in P}
<1>4. 0 \in S
  <2>1. pre[0] \in P
    BY <1>3, Zenon
  <2>2. QED
    BY <1>2, <2>1
<1>5. ASSUME NEW n \in 1 .. N, pre[n - 1] \in P PROVE pre[n] \in P
  <2>1. PICK a, x : a = pre[n - 1] /\ x = s[n]
    OBVIOUS
  <2>2. a \in Seq(T) /\ a \in P /\ x \in T
    BY <1>3, <1>5, <2>1
  <2>3. Append(a, x) \in P
    BY <2>2
  <2>4. pre[n] = Append(a, x)
    BY <1>3, <2>1
  <2>5. QED
    BY <2>3, <2>4
<1>5a. \A n \in 1 .. N : n - 1 \in S => n \in S
  BY <1>2, <1>5
<1>6. \A n \in 0 .. N : n \in S
  <2> HIDE DEF S
  <2>1. QED
    BY <1>2, <1>4, <1>5a, InductTo
<1>7. QED
  BY <1>2, <1>3, <1>6

-----------------------------------------------------------------------------
\* The filter of a list keeps the type of its elements ...
LEMMA FilterType ==
  ASSUME NEW T, NEW list \in Seq(T), NEW S
  PROVE  Filter(list, S) \in Seq(T)
<1>1. PICK f : f = Filtered(list, S)
  OBVIOUS
<1>2. f \in [0 .. Len(list) -> Seq(T)]
  BY <1>1, FilteredDef
<1>3. Len(list) \in 0 .. Len(list)
  OBVIOUS
<1>4. f[Len(list)] \in Seq(T)
  BY <1>2, <1>3
<1>5. QED
  BY <1>1, <1>4 DEF Filter

\* ... of no element it is empty ...
LEMMA FilterEmpty ==
  ASSUME NEW T, NEW list \in Seq(T), NEW S
  PROVE  Len(list) = 0 => Filter(list, S) = << >>
<1>1. Filtered(list, S)[0] = << >>
  BY FilteredDef
<1>2. QED
  BY <1>1 DEF Filter

\* ... and one more element is kept or left out.
LEMMA FilterAppend ==
  ASSUME NEW T, NEW list \in Seq(T), NEW x \in T, NEW S
  PROVE  Filter(Append(list, x), S) =
           IF x \in S THEN Append(Filter(list, S), x) ELSE Filter(list, S)
<1>0. PICK longer, f, g, N :
        /\ longer = Append(list, x)
        /\ f = Filtered(list, S)
        /\ g = Filtered(longer, S)
        /\ N = Len(list)
  OBVIOUS
<1>1. longer \in Seq(T) /\ N \in Nat /\ Len(longer) = N + 1 /\ longer[N + 1] = x
  BY <1>0
<1>2. \A n \in 1 .. N : longer[n] = list[n]
  BY <1>0
<1>3. /\ f[0] = << >>
      /\ \A n \in 1 .. N : f[n] = IF list[n] \in S THEN Append(f[n - 1], list[n]) ELSE f[n - 1]
  BY <1>0, FilteredDef
<1>4. /\ g[0] = << >>
      /\ \A n \in 1 .. N + 1 :
           g[n] = IF longer[n] \in S THEN Append(g[n - 1], longer[n]) ELSE g[n - 1]
  BY <1>0, <1>1, FilteredDef
<1>5. \A n \in 0 .. N : g[n] = f[n]
  <2> DEFINE Same == {n \in 0 .. N : g[n] = f[n]}
  <2>1. 0 \in Same
    BY <1>1, <1>3, <1>4
  <2>2. \A n \in 1 .. N : n - 1 \in Same => n \in Same
    BY <1>1, <1>2, <1>3, <1>4
  <2>3. \A n \in 0 .. N : n \in Same
    <3> HIDE DEF Same
    <3>1. QED
      BY <1>1, <2>1, <2>2, InductTo
  <2>4. QED
    BY <2>3
<1>6. g[N + 1] = IF x \in S THEN Append(f[N], x) ELSE f[N]
  BY <1>1, <1>4, <1>5
<1>7. QED
  BY <1>0, <1>1, <1>6 DEF Filter

\* It holds the elements of the list that are in S, and no others.
LEMMA FilterMembers ==
  ASSUME NEW T, NEW S
  PROVE  \A list \in Seq(T) : \A x :
           (\E i \in 1 .. Len(Filter(list, S)) : Filter(list, S)[i] = x)
             <=> (x \in S /\ \E i \in 1 .. Len(list) : list[i] = x)
<1> DEFINE Has(s, x) == \E i \in 1 .. Len(s) : s[i] = x
    P == {list \in Seq(T) : \A x : Has(Filter(list, S), x) <=> (x \in S /\ Has(list, x))}
<1>1. << >> \in P
  <2>1. PICK e : e = << >>
    OBVIOUS
  <2>2. e \in Seq(T) /\ Len(e) = 0
    BY <2>1
  <2>3. Filter(e, S) = << >>
    BY <2>2, FilterEmpty
  <2>4. \A x : ~ Has(Filter(e, S), x) /\ ~ Has(e, x)
    BY <2>2, <2>3
  <2>5. e \in P
    <3> HIDE DEF Has
    <3>1. QED
      BY <2>2, <2>4
  <2>6. QED
    BY <2>1, <2>5
<1>2. ASSUME NEW list \in P, NEW y \in T PROVE Append(list, y) \in P
  <2>1. PICK f : f = Filter(list, S)
    OBVIOUS
  <2>2. f \in Seq(T) /\ list \in Seq(T)
    BY <2>1, FilterType
  <2>3. Filter(Append(list, y), S) = IF y \in S THEN Append(f, y) ELSE f
    BY <2>1, <2>2, FilterAppend
  <2>4. ASSUME NEW s \in Seq(T), NEW x PROVE Has(Append(s, y), x) <=> (Has(s, x) \/ x = y)
    <3>1. PICK t, n : t = Append(s, y) /\ n = Len(s)
      OBVIOUS
    <3>2. n \in Nat /\ Len(t) = n + 1 /\ t[n + 1] = y /\ \A i \in 1 .. n : t[i] = s[i]
      BY <3>1
    <3>3. (\E i \in 1 .. n + 1 : t[i] = x) <=> ((\E i \in 1 .. n : s[i] = x) \/ x = y)
      BY <3>2
    <3>4. QED
      BY <3>1, <3>2, <3>3
  <2>5. \A x : Has(f, x) <=> (x \in S /\ Has(list, x))
    BY <2>1
  <2>6. \A x : Has(Append(f, y), x) <=> (Has(f, x) \/ x = y)
    <3> HIDE DEF Has
    <3>1. QED
      BY <2>2, <2>4
  <2>7. \A x : Has(Append(list, y), x) <=> (Has(list, x) \/ x = y)
    <3> HIDE DEF Has
    <3>1. QED
      BY <2>2, <2>4
  <2>8. \A x : Has(Filter(Append(list, y), S), x) <=> (x \in S /\ Has(Append(list, y), x))
    <3> HIDE DEF Has
    <3>1. QED
      BY <2>3, <2>5, <2>6, <2>7
  <2>9. Append(list, y) \in Seq(T)
    BY <2>2
  <2>10. QED
    <3> HIDE DEF Has
    <3>1. QED
      BY <2>8, <2>9
<1>3. \A list \in Seq(T) : list \in P
  <2> HIDE DEF P
  <2>1. QED
    BY <1>1, <1>2, InductAppend
<1>4. QED
  BY <1>3

\* What it holds stands in the order of the list: two places of it are two places of
\* the list, the earlier one first.
LEMMA FilterOrder ==
  ASSUME NEW T, NEW S
  PROVE  \A list \in Seq(T) : \A i, j \in 1 .. Len(Filter(list, S)) :
           i < j => \E k, l \in 1 .. Len(list) :
                      /\ k < l
                      /\ list[k] = Filter(list, S)[i]
                      /\ list[l] = Filter(list, S)[j]
<1> DEFINE Ordered(f, list) ==
      \A i, j \in 1 .. Len(f) :
        i < j => \E k, l \in 1 .. Len(list) : k < l /\ list[k] = f[i] /\ list[l] = f[j]
    P == {list \in Seq(T) : Ordered(Filter(list, S), list)}
<1>1. << >> \in P
  <2>1. PICK e : e = << >>
    OBVIOUS
  <2>2. e \in Seq(T) /\ Len(e) = 0
    BY <2>1
  <2>3. Filter(e, S) = e
    BY <2>1, <2>2, FilterEmpty
  <2>4. Ordered(e, e)
    BY <2>2
  <2>5. QED
    BY <2>1, <2>2, <2>3, <2>4
<1>2. ASSUME NEW list \in P, NEW y \in T PROVE Append(list, y) \in P
  <2>1. PICK f, longer, N, n : /\ f = Filter(list, S) /\ longer = Append(list, y)
                               /\ N = Len(list) /\ n = Len(f)
    OBVIOUS
  <2>2. f \in Seq(T) /\ list \in Seq(T) /\ longer \in Seq(T) /\ N \in Nat /\ n \in Nat
    BY <2>1, FilterType
  <2>3. Filter(longer, S) = IF y \in S THEN Append(f, y) ELSE f
    BY <2>1, <2>2, FilterAppend
  <2>4. Len(longer) = N + 1 /\ longer[N + 1] = y /\ \A i \in 1 .. N : longer[i] = list[i]
    BY <2>1, <2>2
  <2>5. \A i, j \in 1 .. n :
          i < j => \E k, l \in 1 .. N : k < l /\ list[k] = f[i] /\ list[l] = f[j]
    BY <2>1
  <2>6. \A i, j \in 1 .. n :
          i < j => \E k, l \in 1 .. N + 1 : k < l /\ longer[k] = f[i] /\ longer[l] = f[j]
    <3> SUFFICES ASSUME NEW i \in 1 .. n, NEW j \in 1 .. n, i < j
                 PROVE  \E k, l \in 1 .. N + 1 : k < l /\ longer[k] = f[i] /\ longer[l] = f[j]
      OBVIOUS
    <3>1. PICK k \in 1 .. N, l \in 1 .. N : k < l /\ list[k] = f[i] /\ list[l] = f[j]
      BY <2>5
    <3>2. k \in 1 .. N + 1 /\ l \in 1 .. N + 1 /\ longer[k] = f[i] /\ longer[l] = f[j]
      BY <2>2, <2>4, <3>1
    <3>3. QED
      BY <3>1, <3>2
  <2>7. Ordered(f, longer)
    BY <2>1, <2>4, <2>6
  <2>8. ASSUME y \in S PROVE Ordered(Append(f, y), longer)
    <3>1. PICK g : g = Append(f, y)
      OBVIOUS
    <3>2. Len(g) = n + 1 /\ g[n + 1] = y /\ \A i \in 1 .. n : g[i] = f[i]
      BY <2>1, <2>2, <3>1
    <3>3. ASSUME NEW i \in 1 .. n + 1, NEW j \in 1 .. n + 1, i < j
          PROVE  \E k, l \in 1 .. N + 1 : k < l /\ longer[k] = g[i] /\ longer[l] = g[j]
      <4>1. i \in 1 .. n /\ g[i] = f[i]
        BY <2>2, <3>2, <3>3
      <4>2. CASE j \in 1 .. n
        <5>1. g[j] = f[j]
          BY <3>2, <4>2
        <5>2. PICK k \in 1 .. N + 1, l \in 1 .. N + 1 :
                k < l /\ longer[k] = f[i] /\ longer[l] = f[j]
          BY <2>6, <3>3, <4>1, <4>2
        <5>3. QED
          BY <4>1, <5>1, <5>2
      <4>3. CASE j = n + 1
        <5>1. \E m \in 1 .. Len(list) : list[m] = f[i]
          BY <2>1, <2>2, <4>1, FilterMembers
        <5>2. PICK k \in 1 .. N : list[k] = f[i]
          BY <2>1, <5>1
        <5>3. k \in 1 .. N + 1 /\ N + 1 \in 1 .. N + 1 /\ k < N + 1
          BY <2>2
        <5>4. longer[k] = g[i] /\ longer[N + 1] = g[j]
          BY <2>4, <3>2, <4>1, <4>3, <5>2
        <5>5. QED
          BY <5>3, <5>4
      <4>4. QED
        BY <2>2, <4>2, <4>3
    <3>4. Ordered(g, longer)
      BY <2>4, <3>2, <3>3
    <3>5. QED
      BY <3>1, <3>4
  <2>9. Ordered(Filter(longer, S), longer)
    <3> HIDE DEF Ordered
    <3>1. QED
      BY <2>3, <2>7, <2>8
  <2>10. QED
    <3> HIDE DEF Ordered
    <3>1. QED
      BY <2>1, <2>2, <2>9
<1>3. \A list \in Seq(T) : list \in P
  <2> HIDE DEF P
  <2>1. QED
    BY <1>1, <1>2, InductAppend
<1>4. QED
  BY <1>3
===============================================================================
