--------------------------- MODULE ApiClientProofs ---------------------------
(***************************************************************************)
(* What the API client keeps whatever the order of edits, messages, answers,  *)
(* cancels and saves: the types of its state, that a busy request has its     *)
(* answer ahead of it, what can run with nothing to stop it, and when webview, *)
(* host and storage hold the same state; of a request that is sent, what its   *)
(* redirects leave of it; and of a file that is imported, that each request  *)
(* comes in once.                                                            *)
(***************************************************************************)
EXTENDS ApiClient, ApiRequests, ScanProofs, FiniteSetTheorems

-----------------------------------------------------------------------------
(* Lists.                                                                    *)

\* Append and Tail, place by place.
LEMMA AppendFacts ==
  ASSUME NEW T, NEW s \in Seq(T), NEW x \in T
  PROVE  /\ Append(s, x) \in Seq(T)
         /\ DOMAIN Append(s, x) = 1 .. Len(s) + 1
         /\ Append(s, x)[Len(s) + 1] = x
         /\ \A i \in 1 .. Len(s) : Append(s, x)[i] = s[i]
  OBVIOUS

LEMMA TailFacts ==
  ASSUME NEW T, NEW s \in Seq(T), s # << >>
  PROVE  /\ Tail(s) \in Seq(T)
         /\ Head(s) = s[1] /\ s[1] \in T
         /\ Len(s) \in Nat \ {0}
         /\ Len(Tail(s)) = Len(s) - 1
         /\ DOMAIN Tail(s) = 1 .. Len(s) - 1
         /\ \A i \in 1 .. Len(s) - 1 : Tail(s)[i] = s[i + 1]
  OBVIOUS

LEMMA InsertType ==
  ASSUME NEW T, NEW s \in Seq(T), NEW i \in 1 .. Len(s) + 1, NEW x \in T
  PROVE  InsertAt(s, i, x) \in Seq(T)
  BY DEF InsertAt

\* A set of places in a list has a last one.
LEMMA Latest ==
  ASSUME NEW n \in Nat, NEW S \in SUBSET (1 .. n), S # {}
  PROVE  Max(S) \in S
<1>1. PICK R : R = {n - i : i \in S}
  OBVIOUS
<1>2. R \in SUBSET Nat /\ R # {}
  <2>1. \A i \in S : n - i \in Nat
    OBVIOUS
  <2>2. QED
    BY <1>1, <2>1
<1>3. PICK m \in R : \A k \in R : m <= k
  BY <1>2, Least
<1>4. PICK i \in S : m = n - i
  BY <1>1
<1>5. \A k \in S : i >= k
  BY <1>1, <1>3, <1>4
<1>6. QED
  BY <1>5 DEF Max

-----------------------------------------------------------------------------
(* The tree of a collection, and what the operations on it return.           *)

Coll == [id : Ids, nodes : Seq(NodeSet)]

LEMMA MadeTypes ==
  ASSUME NEW k \in Nat
  PROVE  Request(k) \in NodeSet /\ Folder(k) \in NodeSet
  BY DEF Request, Folder, NodeSet, Ids

LEMMA CollectionType ==
  ASSUME NEW k \in Nat, NEW nodes \in Seq(NodeSet)
  PROVE  Collection(k, nodes) \in Coll
  BY DEF Collection, Coll, Ids

LEMMA CollAt ==
  ASSUME NEW cs \in CollectionLists, NEW i \in DOMAIN cs
  PROVE  cs[i] \in Coll /\ cs[i].nodes \in Seq(NodeSet)
<1>1. PICK C : C = Coll
  OBVIOUS
<1>2. cs \in Seq(C)
  BY <1>1 DEF CollectionLists, Coll
<1>3. PICK c : c = cs[i]
  OBVIOUS
<1>4. c \in C
  BY <1>2, <1>3
<1>5. c.nodes \in Seq(NodeSet)
  BY <1>1, <1>4 DEF Coll
<1>6. QED
  BY <1>1, <1>3, <1>4, <1>5

\* What is found is a request of that id.
LEMMA FindType ==
  ASSUME NEW cs \in CollectionLists, NEW id, NEW node \in FindRequest(cs, id)
  PROVE  node \in NodeSet /\ node.id = id /\ node.kind = "request"
<1>1. PICK i \in DOMAIN cs : \E j \in DOMAIN cs[i].nodes :
        /\ node = cs[i].nodes[j]
        /\ cs[i].nodes[j].kind = "request" /\ cs[i].nodes[j].id = id
  BY DEF FindRequest, Hits
<1>2. PICK nodes : nodes = cs[i].nodes
  OBVIOUS
<1>3. nodes \in Seq(NodeSet)
  BY <1>2, CollAt
<1>4. PICK j \in DOMAIN nodes : node = nodes[j] /\ nodes[j].kind = "request" /\ nodes[j].id = id
  BY <1>1, <1>2
<1>5. QED
  BY <1>3, <1>4

\* A change of the nodes of each collection.
LEMMA MapType ==
  ASSUME NEW cs \in CollectionLists, NEW new,
         new \in [DOMAIN cs -> Coll]
  PROVE  new \in CollectionLists
<1>1. DOMAIN cs = 1 .. Len(cs) /\ Len(cs) \in Nat
  BY DEF CollectionLists
<1>2. PICK C : C = Coll
  OBVIOUS
<1>3. new \in Seq(C)
  BY <1>1, <1>2
<1>4. QED
  BY <1>2, <1>3 DEF CollectionLists, Coll

LEMMA NewNodes ==
  ASSUME NEW c \in Coll, NEW nodes \in Seq(NodeSet)
  PROVE  [c EXCEPT !.nodes = nodes] \in Coll
  BY DEF Coll

LEMMA ReplaceType ==
  ASSUME NEW cs \in CollectionLists, NEW node \in NodeSet
  PROVE  ReplaceRequestNode(cs, node) \in CollectionLists
<1>1. ASSUME NEW i \in DOMAIN cs
      PROVE  [cs[i] EXCEPT !.nodes = ReplaceInNodes(@, node)] \in Coll
  <2>1. PICK c, nodes, new : /\ c = cs[i] /\ nodes = c.nodes
                             /\ new = ReplaceInNodes(nodes, node)
    OBVIOUS
  <2>2. c \in Coll /\ nodes \in Seq(NodeSet)
    BY <2>1, CollAt
  <2>3. new \in Seq(NodeSet)
    BY <2>1, <2>2 DEF ReplaceInNodes
  <2>4. QED
    BY <2>1, <2>2, <2>3, NewNodes
<1>2. ReplaceRequestNode(cs, node) \in [DOMAIN cs -> Coll]
  BY <1>1 DEF ReplaceRequestNode
<1>3. QED
  BY <1>2, MapType

LEMMA RemoveType ==
  ASSUME NEW cs \in CollectionLists, NEW id
  PROVE  RemoveNode(cs, id) \in CollectionLists
<1>1. ASSUME NEW i \in DOMAIN cs
      PROVE  [cs[i] EXCEPT !.nodes = RemoveFromNodes(@, id)] \in Coll
  <2>1. PICK c, nodes : c = cs[i] /\ nodes = c.nodes
    OBVIOUS
  <2>2. c \in Coll /\ nodes \in Seq(NodeSet)
    BY <2>1, CollAt
  <2>3. RemoveFromNodes(nodes, id) \in Seq(NodeSet)
    BY <2>2, FilterType DEF RemoveFromNodes
  <2>4. QED
    BY <2>1, <2>2, <2>3, NewNodes
<1>2. RemoveNode(cs, id) \in [DOMAIN cs -> Coll]
  BY <1>1 DEF RemoveNode
<1>3. QED
  BY <1>2, MapType

\* A node put after the last of some of a list.
LEMMA PutType ==
  ASSUME NEW nodes \in Seq(NodeSet), NEW places \in SUBSET (1 .. Len(nodes)), places # {},
         NEW node \in NodeSet, NEW around \in SUBSET Ids
  PROVE  InsertAt(nodes, Max(places) + 1, [node EXCEPT !.within = around]) \in Seq(NodeSet)
<1>1. PICK last, new : last = Max(places) /\ new = [node EXCEPT !.within = around]
  OBVIOUS
<1>2. last \in 1 .. Len(nodes)
  <2>1. PICK n : n = Len(nodes)
    OBVIOUS
  <2>2. n \in Nat /\ places \in SUBSET (1 .. n)
    BY <2>1
  <2>3. QED
    BY <1>1, <2>1, <2>2, Latest
<1>3. new \in NodeSet
  BY <1>1 DEF NodeSet
<1>4. last + 1 \in 1 .. Len(nodes) + 1
  BY <1>2
<1>5. InsertAt(nodes, last + 1, new) \in Seq(NodeSet)
  BY <1>3, <1>4, InsertType
<1>6. QED
  BY <1>1, <1>5

LEMMA AddedNodes ==
  ASSUME NEW nodes \in Seq(NodeSet), NEW inside \in Ids \cup {<< >>}, NEW node \in NodeSet
  PROVE  AddToNodes(nodes, inside, node) \in Seq(NodeSet)
<1>1. CASE inside = << >>
  BY <1>1, AppendFacts DEF AddToNodes
<1>2. CASE inside # << >>
  <2> DEFINE own == {i \in DOMAIN nodes : nodes[i].kind = "folder" /\ nodes[i].id = inside}
             held == {i \in DOMAIN nodes : inside \in nodes[i].within}
             outer == UNION {nodes[i].within : i \in own}
  <2>1. AddToNodes(nodes, inside, node) =
          IF own = {} THEN nodes
          ELSE InsertAt(nodes, Max(own \cup held) + 1,
                        [node EXCEPT !.within = {inside} \cup outer])
    <3>1. AddToNodes(nodes, inside, node) = AddToFolder(nodes, inside, node)
      BY <1>2 DEF AddToNodes
    <3>2. AddToFolder(nodes, inside, node) =
            IF own = {} THEN nodes
            ELSE InsertAt(nodes, Max(own \cup held) + 1,
                          [node EXCEPT !.within = {inside} \cup outer])
      BY DEF AddToFolder
    <3>3. QED
      BY <3>1, <3>2, Zenon
  <2>2. own \in SUBSET (1 .. Len(nodes)) /\ held \in SUBSET (1 .. Len(nodes))
    OBVIOUS
  <2>3. outer \in SUBSET Ids
    <3>1. \A n \in NodeSet : n.within \in SUBSET Ids
      BY DEF NodeSet
    <3>2. \A i \in own : nodes[i] \in NodeSet
      OBVIOUS
    <3>3. \A i \in own : nodes[i].within \in SUBSET Ids
      BY <3>1, <3>2
    <3>4. QED
      BY <3>3
  <2>4. inside \in Ids
    BY <1>2
  <2> HIDE DEF own, held, outer
  <2>5. CASE own = {}
    BY <2>1, <2>5
  <2>6. CASE own # {}
    <3>1. PICK places, around : places = own \cup held /\ around = {inside} \cup outer
      OBVIOUS
    <3>2. places \in SUBSET (1 .. Len(nodes)) /\ places # {} /\ around \in SUBSET Ids
      BY <2>2, <2>3, <2>4, <2>6, <3>1
    <3>3. InsertAt(nodes, Max(places) + 1, [node EXCEPT !.within = around]) \in Seq(NodeSet)
      BY <3>2, PutType
    <3>4. QED
      BY <2>1, <2>6, <3>1, <3>3
  <2>7. QED
    BY <2>5, <2>6
<1>3. QED
  BY <1>1, <1>2

LEMMA AddType ==
  ASSUME NEW cs \in CollectionLists, NEW collection, NEW inside \in Ids \cup {<< >>},
         NEW node \in NodeSet
  PROVE  AddNode(cs, collection, inside, node) \in CollectionLists
<1>1. ASSUME NEW i \in DOMAIN cs
      PROVE  (IF cs[i].id # collection THEN cs[i]
              ELSE [cs[i] EXCEPT !.nodes = AddToNodes(@, inside, node)]) \in Coll
  <2>1. PICK c, nodes : c = cs[i] /\ nodes = c.nodes
    OBVIOUS
  <2>2. c \in Coll /\ nodes \in Seq(NodeSet)
    BY <2>1, CollAt
  <2>3. AddToNodes(nodes, inside, node) \in Seq(NodeSet)
    BY <2>2, AddedNodes
  <2>4. QED
    BY <2>1, <2>2, <2>3, NewNodes
<1>2. AddNode(cs, collection, inside, node) \in [DOMAIN cs -> Coll]
  BY <1>1 DEF AddNode
<1>3. QED
  BY <1>2, MapType

-----------------------------------------------------------------------------
(* States.                                                                   *)

LEMMA StateParts ==
  ASSUME NEW state \in States
  PROVE  /\ state.collections \in CollectionLists
         /\ state.history \in Seq([run : Nat, of : SUBSET Nat])
         /\ state.env \in {"none", "env"}
  BY DEF States

LEMMA NewCollections ==
  ASSUME NEW state \in States, NEW cs \in CollectionLists
  PROVE  [state EXCEPT !.collections = cs] \in States
  BY DEF States

\* The marker of a missing store is no state.
LEMMA NoneIsMissing == None \notin States /\ EmptyState \in States
<1>1. PICK C, H : C = CollectionLists /\ H = Seq([run : Nat, of : SUBSET Nat])
  OBVIOUS
<1>2. << >> \in C /\ << >> \in H
  BY <1>1 DEF CollectionLists
<1>3. None.env = "missing"
  BY DEF None
<1>4. None \notin States
  BY <1>3, StateParts
<1>5. EmptyState \in [collections : C, history : H, env : {"none", "env"}]
  BY <1>2 DEF EmptyState, None
<1>6. QED
  BY <1>1, <1>4, <1>5 DEF States

LEMMA SeedType == Seed \in States
<1>1. PICK a, b : a = Collection(0, << Folder(0), [Request(0) EXCEPT !.within = {Folder(0).id}],
                                       Request(100) >>) /\ b = <<a>>
  OBVIOUS
<1>2. [Request(0) EXCEPT !.within = {Folder(0).id}] \in NodeSet
  BY MadeTypes DEF Request, Folder, NodeSet, Ids
<1>3. << Folder(0), [Request(0) EXCEPT !.within = {Folder(0).id}], Request(100) >> \in Seq(NodeSet)
  BY <1>2, MadeTypes
<1>4. a \in Coll
  BY <1>1, <1>3, CollectionType
<1>5. b \in CollectionLists
  BY <1>1, <1>4 DEF CollectionLists, Coll
<1>6. QED
  BY <1>1, <1>5, NoneIsMissing, NewCollections DEF Seed

LEMMA MergeType ==
  ASSUME NEW state \in States, NEW cs \in CollectionLists
  PROVE  MergeCollections(state, cs) \in States
<1>1. PICK old, C, new : old = state.collections /\ C = Coll /\ new = old \o cs
  OBVIOUS
<1>2. old \in Seq(C) /\ cs \in Seq(C)
  BY <1>1, StateParts DEF CollectionLists, Coll
<1>3. new \in CollectionLists
  BY <1>1, <1>2 DEF CollectionLists, Coll
<1>4. QED
  BY <1>1, <1>3, NewCollections DEF MergeCollections

LEMMA RecordType ==
  ASSUME NEW state \in States, NEW entry \in [run : Nat, of : SUBSET Nat]
  PROVE  RecordHistory(state, entry) \in States
<1>1. PICK H, old, new : /\ H = [run : Nat, of : SUBSET Nat] /\ old = state.history
                         /\ new = SubSeq(<<entry>> \o old, 1,
                                         IF Len(old) < MaxHistory THEN Len(old) + 1
                                         ELSE MaxHistory)
  OBVIOUS
<1>2. old \in Seq(H) /\ entry \in H
  BY <1>1, StateParts
<1>3. PICK all, n : /\ all = <<entry>> \o old
                    /\ n = IF Len(old) < MaxHistory THEN Len(old) + 1 ELSE MaxHistory
  OBVIOUS
<1>4. all \in Seq(H) /\ Len(all) = Len(old) + 1 /\ n \in 1 .. Len(all)
  BY <1>2, <1>3, ApiClientAssumption
<1>5. SubSeq(all, 1, n) \in Seq(H)
  BY <1>4
<1>6. RecordHistory(state, entry) = [state EXCEPT !.history = new]
  BY <1>1 DEF RecordHistory
<1>7. new \in Seq(H)
  BY <1>1, <1>3, <1>5
<1>8. QED
  BY <1>1, <1>6, <1>7 DEF States

\* Load gives a state.
LEMMA LoadType == ASSUME TypeOK PROVE Load \in States
  BY NoneIsMissing DEF TypeOK, Load

-----------------------------------------------------------------------------
(* Steps of one panel: its host, webview and messages become these; the life   *)
(* of panels stays as it is.                                                  *)

Becomes(p, h, w, u, d) ==
  /\ host' = [q \in Panel |-> IF q = p THEN h ELSE host[q]]
  /\ web' = [q \in Panel |-> IF q = p THEN w ELSE web[q]]
  /\ up' = [q \in Panel |-> IF q = p THEN u ELSE up[q]]
  /\ down' = [q \in Panel |-> IF q = p THEN d ELSE down[q]]

\* What the types of one panel are made of.
LEMMA PanelParts ==
  ASSUME TypeOK, NEW p \in Panel
  PROVE  /\ host[p] \in Hosts /\ web[p] \in Webs
         /\ up[p] \in Seq(ToHost) /\ down[p] \in Seq(ToWeb)
         /\ host[p].state \in States
         /\ web[p].state \in States /\ web[p].ref \in States
         /\ web[p].busy \in SUBSET Ids
         /\ p \in Nat \ {0}
<1>1. host[p] \in Hosts /\ web[p] \in Webs /\ up[p] \in Seq(ToHost) /\ down[p] \in Seq(ToWeb)
  BY DEF TypeOK
<1>2. p \in Nat \ {0}
  BY ApiClientAssumption DEF Panel
<1>3. QED
  BY <1>1, <1>2 DEF Hosts, Webs

LEMMA BecomesTypes ==
  ASSUME TypeOK, NEW p \in Panel, NEW h \in Hosts, NEW w \in Webs,
         NEW u \in Seq(ToHost), NEW d \in Seq(ToWeb), Becomes(p, h, w, u, d)
  PROVE  /\ host' \in [Panel -> Hosts] /\ web' \in [Panel -> Webs]
         /\ up' \in [Panel -> Seq(ToHost)] /\ down' \in [Panel -> Seq(ToWeb)]
  BY DEF TypeOK, Becomes

\* The webview applies a state in an event of the user.
LEMMA AppliesShape ==
  ASSUME TypeOK, NEW p \in Panel, NEW next \in States, UserApplies(p, next)
  PROVE  \E w \in Webs, m \in ToHost :
           /\ Becomes(p, host[p], w, Append(up[p], m), down[p])
           /\ w.state = next /\ w.loaded = web[p].loaded /\ w.busy = web[p].busy
           /\ m.type = "persist" /\ m.state = next
<1>1. PICK v, w, m, u : /\ v = web[p]
                        /\ w = [v EXCEPT !.state = next, !.ref = next]
                        /\ m = [type |-> "persist", state |-> next]
                        /\ u = Append(up[p], m)
  OBVIOUS
<1>2. v \in Webs
  BY <1>1, PanelParts
<1>3. w \in Webs /\ w.state = next /\ w.loaded = v.loaded /\ w.busy = v.busy
  BY <1>1, <1>2 DEF Webs
<1>4. m \in ToHost /\ m.type = "persist" /\ m.state = next
  BY <1>1 DEF ToHost
<1>5. web' = [q \in Panel |-> IF q = p THEN w ELSE web[q]]
  BY <1>1 DEF UserApplies, TypeOK
<1>6. up' = [q \in Panel |-> IF q = p THEN u ELSE up[q]]
  BY <1>1 DEF UserApplies, TypeOK
<1>7. host' = [q \in Panel |-> IF q = p THEN host[p] ELSE host[q]]
  BY DEF UserApplies, TypeOK
<1>8. down' = [q \in Panel |-> IF q = p THEN down[p] ELSE down[q]]
  BY DEF UserApplies, TypeOK
<1>9. Becomes(p, host[p], w, u, down[p])
  BY <1>5, <1>6, <1>7, <1>8 DEF Becomes
<1>10. QED
  BY <1>1, <1>3, <1>4, <1>9

\* A place is a collection, with no folder or one that has an id.
LEMMA PlaceTypes ==
  ASSUME NEW state \in States, NEW place \in Places(state)
  PROVE  place[2] \in Ids \cup {<< >>}
<1>0. PICK cs : cs = state.collections
  OBVIOUS
<1>1. PICK i \in DOMAIN cs :
        place \in {<<cs[i].id, << >> >>} \cup
                 {<<cs[i].id, n.id>> : n \in {m \in ToSet(cs[i].nodes) : m.kind = "folder"}}
  BY <1>0 DEF Places
<1>2. PICK nodes : nodes = cs[i].nodes
  OBVIOUS
<1>3. nodes \in Seq(NodeSet)
  BY <1>0, <1>2, StateParts, CollAt
<1>4. \A n \in ToSet(nodes) : n \in NodeSet
  BY <1>3 DEF ToSet
<1>5. \A n \in NodeSet : n.id \in Ids
  BY DEF NodeSet
<1>6. CASE place = <<cs[i].id, << >> >>
  BY <1>6
<1>7. CASE \E n \in ToSet(nodes) : place = <<cs[i].id, n.id>>
  BY <1>4, <1>5, <1>7
<1>8. QED
  BY <1>1, <1>2, <1>6, <1>7

\* The changes the user makes: each applies a state.
Edits(p) ==
  NewCollection(p) \/ Add(p) \/ DeleteNode(p) \/ EditRequest(p) \/ SelectEnvironment(p)

LEMMA EditApplies ==
  ASSUME TypeOK, NEW p \in Panel, Edits(p)
  PROVE  CanEdit(p) /\ \E next \in States : UserApplies(p, next)
<1>1. PICK s, cs : s = web[p].ref /\ cs = s.collections
  OBVIOUS
<1>2. s \in States /\ cs \in CollectionLists
  BY <1>1, PanelParts, StateParts
<1>3. ops + 1 \in Nat
  <2>1. ops \in Nat
    BY Zenon DEF TypeOK
  <2>2. QED
    BY <2>1
<1>4. ASSUME NEW new \in CollectionLists, UserApplies(p, [s EXCEPT !.collections = new])
      PROVE  \E next \in States : UserApplies(p, next)
  BY <1>2, <1>4, NewCollections
<1>5. CASE NewCollection(p)
  <2>1. PICK c, C, new : c = Collection(ops + 1, << >>) /\ C = Coll /\ new = Append(cs, c)
    OBVIOUS
  <2>2. << >> \in Seq(NodeSet)
    OBVIOUS
  <2>3. c \in C /\ cs \in Seq(C)
    BY <1>2, <1>3, <2>1, <2>2, CollectionType DEF CollectionLists, Coll
  <2>4. new \in CollectionLists
    BY <2>1, <2>3 DEF CollectionLists, Coll
  <2>5. UserApplies(p, [s EXCEPT !.collections = new])
    BY <1>1, <1>5, <2>1 DEF NewCollection
  <2>6. QED
    BY <1>4, <1>5, <2>4, <2>5 DEF NewCollection
<1>6. CASE Add(p)
  <2>1. PICK place \in Places(s), node \in {Request(ops + 1), Folder(ops + 1)} :
          UserApplies(p, [s EXCEPT !.collections = AddNode(cs, place[1], place[2], node)])
    BY <1>1, <1>6 DEF Add
  <2>2. node \in NodeSet
    BY <1>3, MadeTypes
  <2>3. place[2] \in Ids \cup {<< >>}
    BY <1>2, PlaceTypes
  <2>4. AddNode(cs, place[1], place[2], node) \in CollectionLists
    BY <1>2, <2>2, <2>3, AddType
  <2>5. QED
    BY <1>4, <1>6, <2>1, <2>4 DEF Add
<1>7. CASE DeleteNode(p)
  <2>1. PICK id : UserApplies(p, [s EXCEPT !.collections = RemoveNode(cs, id)])
    BY <1>1, <1>7 DEF DeleteNode
  <2>2. RemoveNode(cs, id) \in CollectionLists
    BY <1>2, RemoveType
  <2>3. QED
    BY <1>4, <1>7, <2>1, <2>2 DEF DeleteNode
<1>8. CASE EditRequest(p)
  <2>1. PICK id : \E node \in FindRequest(cs, id) :
          UserApplies(p, [s EXCEPT !.collections =
                            ReplaceRequestNode(cs, [node EXCEPT !.http = ops + 1])])
    BY <1>1, <1>8 DEF EditRequest
  <2>2. PICK node \in FindRequest(cs, id) :
          UserApplies(p, [s EXCEPT !.collections =
                            ReplaceRequestNode(cs, [node EXCEPT !.http = ops + 1])])
    BY <2>1
  <2>3. node \in NodeSet
    BY <1>2, FindType
  <2>4. [node EXCEPT !.http = ops + 1] \in NodeSet
    BY <1>3, <2>3 DEF NodeSet
  <2>5. ReplaceRequestNode(cs, [node EXCEPT !.http = ops + 1]) \in CollectionLists
    BY <1>2, <2>4, ReplaceType
  <2>6. QED
    BY <1>4, <1>8, <2>2, <2>5 DEF EditRequest
<1>9. CASE SelectEnvironment(p)
  <2>1. PICK e : e = IF s.env = "none" THEN "env" ELSE "none"
    OBVIOUS
  <2>2. UserApplies(p, [s EXCEPT !.env = e])
    BY <1>1, <1>9, <2>1 DEF SelectEnvironment
  <2>3. [s EXCEPT !.env = e] \in States
    BY <1>2, <2>1 DEF States
  <2>4. QED
    BY <1>9, <2>2, <2>3 DEF SelectEnvironment
<1>10. QED
  BY <1>5, <1>6, <1>7, <1>8, <1>9 DEF Edits

\* A request is sent: its id is busy, and its message on the way.
LEMMA SendShape ==
  ASSUME TypeOK, NEW p \in Panel, SendRequest(p)
  PROVE  \E w \in Webs, m \in ToHost :
           /\ Becomes(p, host[p], w, Append(up[p], m), down[p])
           /\ w.state = web[p].state /\ w.loaded = web[p].loaded
           /\ m.type = "send" /\ w.busy = web[p].busy \cup {m.node.id}
<1>1. PICK id : \E node \in FindRequest(web[p].ref.collections, id) :
        /\ web' = [web EXCEPT ![p].busy = @ \cup {id}]
        /\ up' = [up EXCEPT ![p] = Append(@, [type |-> "send", node |-> node,
                                              env |-> web[p].state.env])]
  BY DEF SendRequest
<1>2. PICK node \in FindRequest(web[p].ref.collections, id) :
        /\ web' = [web EXCEPT ![p].busy = @ \cup {id}]
        /\ up' = [up EXCEPT ![p] = Append(@, [type |-> "send", node |-> node,
                                              env |-> web[p].state.env])]
  BY <1>1
<1>3. node \in NodeSet /\ node.id = id
  BY PanelParts, StateParts, FindType
<1>4. id \in Ids
  BY <1>3 DEF NodeSet
<1>5. PICK v, w, m, u, e : /\ v = web[p] /\ e = web[p].state.env
                           /\ w = [v EXCEPT !.busy = @ \cup {id}]
                           /\ m = [type |-> "send", node |-> node, env |-> e]
                           /\ u = Append(up[p], m)
  OBVIOUS
<1>6. v \in Webs /\ e \in {"none", "env"}
  BY <1>5, PanelParts, StateParts
<1>7. w \in Webs /\ w.state = v.state /\ w.loaded = v.loaded /\ w.busy = v.busy \cup {id}
  BY <1>4, <1>5, <1>6 DEF Webs
<1>8. m \in ToHost /\ m.type = "send" /\ m.node.id = id
  BY <1>3, <1>5, <1>6 DEF ToHost
<1>9. web' = [q \in Panel |-> IF q = p THEN w ELSE web[q]]
  BY <1>2, <1>5 DEF TypeOK
<1>10. up' = [q \in Panel |-> IF q = p THEN u ELSE up[q]]
  BY <1>2, <1>5 DEF TypeOK
<1>11. Becomes(p, host[p], w, u, down[p])
  BY <1>9, <1>10 DEF Becomes, SendRequest, TypeOK
<1>12. QED
  BY <1>5, <1>7, <1>8, <1>11

\* ... or cancelled: its id is no longer busy.
LEMMA CancelShape ==
  ASSUME TypeOK, NEW p \in Panel, CancelRequest(p)
  PROVE  \E w \in Webs, m \in ToHost :
           /\ Becomes(p, host[p], w, Append(up[p], m), down[p])
           /\ w.state = web[p].state /\ w.loaded = web[p].loaded
           /\ m.type = "cancel" /\ w.busy \subseteq web[p].busy
<1>1. PICK id \in web[p].busy :
        /\ web' = [web EXCEPT ![p].busy = @ \ {id}]
        /\ up' = [up EXCEPT ![p] = Append(@, [type |-> "cancel", id |-> id])]
  BY DEF CancelRequest
<1>2. PICK v, w, m, u : /\ v = web[p]
                        /\ w = [v EXCEPT !.busy = @ \ {id}]
                        /\ m = [type |-> "cancel", id |-> id]
                        /\ u = Append(up[p], m)
  OBVIOUS
<1>3. v \in Webs /\ id \in Ids
  BY <1>2, PanelParts
<1>4. w \in Webs /\ w.state = v.state /\ w.loaded = v.loaded /\ w.busy = v.busy \ {id}
  BY <1>2, <1>3 DEF Webs
<1>5. m \in ToHost /\ m.type = "cancel"
  BY <1>2, <1>3 DEF ToHost
<1>6. web' = [q \in Panel |-> IF q = p THEN w ELSE web[q]]
  BY <1>1, <1>2 DEF TypeOK
<1>7. up' = [q \in Panel |-> IF q = p THEN u ELSE up[q]]
  BY <1>1, <1>2 DEF TypeOK
<1>8. Becomes(p, host[p], w, u, down[p])
  BY <1>6, <1>7 DEF Becomes, CancelRequest, TypeOK
<1>9. QED
  BY <1>2, <1>4, <1>5, <1>8

\* The state is copied to the reference.
LEMMA RenderShape ==
  ASSUME TypeOK, NEW p \in Panel, Render(p)
  PROVE  \E w \in Webs :
           /\ Becomes(p, host[p], w, up[p], down[p])
           /\ w.state = web[p].state /\ w.loaded = web[p].loaded /\ w.busy = web[p].busy
<1>1. PICK v, w : v = web[p] /\ w = [v EXCEPT !.ref = v.state]
  OBVIOUS
<1>2. v \in Webs
  BY <1>1, PanelParts
<1>3. w \in Webs /\ w.state = v.state /\ w.loaded = v.loaded /\ w.busy = v.busy
  BY <1>1, <1>2 DEF Webs
<1>4. web' = [q \in Panel |-> IF q = p THEN w ELSE web[q]]
  BY <1>1 DEF TypeOK, Render
<1>5. Becomes(p, host[p], w, up[p], down[p])
  BY <1>4 DEF Becomes, Render, TypeOK
<1>6. QED
  BY <1>1, <1>3, <1>5

\* A message in the webview changes its state without posting, and its busy requests.
LEMMA WebStep ==
  ASSUME TypeOK, NEW p \in Panel, NEW w, NEW u, up' = [up EXCEPT ![p] = u],
         web' = [q \in Panel |-> IF q = p THEN w ELSE web[q]],
         down' = [down EXCEPT ![p] = Tail(@)], UNCHANGED host
  PROVE  Becomes(p, host[p], w, u, Tail(down[p]))
  BY DEF TypeOK, Becomes

\* applyState in a message handler.
LEMMA MessageShape ==
  ASSUME TypeOK, NEW p \in Panel, NEW next \in States, NEW busy \in SUBSET Ids,
         MessageApplies(p, next, busy)
  PROVE  \E w \in Webs, m \in ToHost :
           /\ up' = [up EXCEPT ![p] = Append(up[p], m)]
           /\ web' = [q \in Panel |-> IF q = p THEN w ELSE web[q]]
           /\ w.state = next /\ w.loaded = web[p].loaded /\ w.busy = busy
           /\ m.type = "persist" /\ m.state = next
<1>1. PICK v, w, m : /\ v = web[p]
                     /\ w = [v EXCEPT !.state = next, !.busy = busy]
                     /\ m = [type |-> "persist", state |-> next]
  OBVIOUS
<1>2. v \in Webs
  BY <1>1, PanelParts
<1>3. w \in Webs /\ w.state = next /\ w.loaded = v.loaded /\ w.busy = busy
  BY <1>1, <1>2 DEF Webs
<1>4. m \in ToHost /\ m.type = "persist" /\ m.state = next
  BY <1>1 DEF ToHost
<1>5. web' = [q \in Panel |-> IF q = p THEN w ELSE web[q]]
  BY <1>1 DEF MessageApplies, TypeOK
<1>6. up' = [up EXCEPT ![p] = Append(up[p], m)]
  BY <1>1, Zenon DEF MessageApplies
<1>7. QED
  BY <1>1, <1>3, <1>4, <1>5, <1>6

\* The webview handles the first of its messages: it is initialised, an answer is
\* recorded, a failure shown, or an import merged.
WebHandles(p, m, w, u) ==
  \/ /\ m.type = "init" /\ u = up[p]
     /\ w.state = m.state /\ w.loaded = TRUE /\ w.busy = web[p].busy
  \/ /\ m.type = "httpError" /\ u = up[p]
     /\ w.state = web[p].state /\ w.loaded = web[p].loaded /\ w.busy = web[p].busy \ {m.id}
  \/ /\ m.type = "importError" /\ u = up[p] /\ w = web[p]
  \/ \E n \in ToHost :
       /\ m.type \in {"httpResponse", "importResult"} /\ u = Append(up[p], n)
       /\ n.type = "persist" /\ n.state = w.state /\ w.loaded = web[p].loaded
       /\ excuse' = excuse \cup Posted(p)
       /\ w.busy = IF m.type = "httpResponse" THEN web[p].busy \ {m.id} ELSE web[p].busy

LEMMA WebMessageShape ==
  ASSUME TypeOK, NEW p \in Panel, WebMessage(p)
  PROVE  \E m \in ToWeb, w \in Webs, u \in Seq(ToHost) :
           /\ m = down[p][1] /\ down[p] # << >>
           /\ Becomes(p, host[p], w, u, Tail(down[p]))
           /\ WebHandles(p, m, w, u)
           /\ excuse' = excuse \/ excuse' = excuse \cup Posted(p)
<1>1. PICK m, v, s : m = Head(down[p]) /\ v = web[p] /\ s = v.ref
  OBVIOUS
<1>2. /\ down[p] # << >> /\ m = down[p][1] /\ m \in ToWeb
      /\ v \in Webs /\ s \in States
  BY <1>1, PanelParts, TailFacts DEF WebMessage
<1>3. down' = [down EXCEPT ![p] = Tail(@)] /\ UNCHANGED host /\ up[p] \in Seq(ToHost)
  BY PanelParts DEF WebMessage
<1>4. CASE m.type = "init"
  <2>1. web' = [web EXCEPT ![p].state = m.state, ![p].loaded = TRUE] /\ UNCHANGED <<up, excuse>>
    BY <1>1, <1>4 DEF WebMessage
  <2>2. m.state \in States
    BY <1>2, <1>4 DEF ToWeb
  <2>3. PICK w : w = [v EXCEPT !.state = m.state, !.loaded = TRUE]
    OBVIOUS
  <2>4. w \in Webs /\ w.state = m.state /\ w.loaded = TRUE /\ w.busy = v.busy
    BY <1>2, <2>2, <2>3 DEF Webs
  <2>5. web' = [q \in Panel |-> IF q = p THEN w ELSE web[q]]
    BY <1>1, <2>1, <2>3 DEF TypeOK
  <2>6. up' = [up EXCEPT ![p] = up[p]]
    BY <2>1 DEF TypeOK
  <2>7. Becomes(p, host[p], w, up[p], Tail(down[p]))
    BY <1>3, <2>5, <2>6, WebStep
  <2>8. WebHandles(p, m, w, up[p])
    BY <1>1, <1>4, <2>4 DEF WebHandles
  <2>9. QED
    BY <1>2, <1>3, <2>1, <2>4, <2>7, <2>8
<1>5. CASE m.type = "httpResponse"
  <2>1. PICK entry, busy :
          /\ entry = [run |-> m.run, of |-> {n.http : n \in FindRequest(s.collections, m.id)}]
          /\ busy = v.busy \ {m.id}
    OBVIOUS
  <2>2. MessageApplies(p, RecordHistory(s, entry), busy)
    BY <1>1, <1>5, <2>1 DEF WebMessage
  <2>3. m.run \in Nat
    BY <1>2, <1>5 DEF ToWeb
  <2>4. {n.http : n \in FindRequest(s.collections, m.id)} \in SUBSET Nat
    <3>1. \A n \in FindRequest(s.collections, m.id) : n \in NodeSet
      BY <1>2, StateParts, FindType
    <3>2. \A n \in NodeSet : n.http \in Nat
      BY DEF NodeSet
    <3>3. QED
      BY <3>1, <3>2
  <2>5. entry \in [run : Nat, of : SUBSET Nat]
    BY <2>1, <2>3, <2>4
  <2>6. RecordHistory(s, entry) \in States /\ busy \in SUBSET Ids
    BY <1>2, <2>1, <2>5, RecordType DEF Webs
  <2>7. PICK next : next = RecordHistory(s, entry)
    OBVIOUS
  <2>8. PICK w \in Webs, n \in ToHost :
          /\ up' = [up EXCEPT ![p] = Append(up[p], n)]
          /\ web' = [q \in Panel |-> IF q = p THEN w ELSE web[q]]
          /\ w.state = next /\ w.loaded = web[p].loaded /\ w.busy = busy
          /\ n.type = "persist" /\ n.state = next
    BY <2>2, <2>6, <2>7, MessageShape
  <2>9. PICK u : u = Append(up[p], n)
    OBVIOUS
  <2>10. u \in Seq(ToHost)
    BY <1>3, <2>9, AppendFacts
  <2>11. Becomes(p, host[p], w, u, Tail(down[p]))
    BY <1>3, <2>8, <2>9, WebStep
  <2>12. excuse' = excuse \cup Posted(p)
    BY <2>2 DEF MessageApplies
  <2>13. WebHandles(p, m, w, u)
    BY <1>1, <1>5, <2>1, <2>8, <2>9, <2>12 DEF WebHandles
  <2>14. QED
    BY <1>2, <2>8, <2>10, <2>11, <2>12, <2>13
<1>6. CASE m.type = "httpError"
  <2>1. web' = [web EXCEPT ![p].busy = @ \ {m.id}] /\ UNCHANGED <<up, excuse>>
    BY <1>1, <1>6 DEF WebMessage
  <2>2. PICK w : w = [v EXCEPT !.busy = @ \ {m.id}]
    OBVIOUS
  <2>3. w \in Webs /\ w.state = v.state /\ w.loaded = v.loaded /\ w.busy = v.busy \ {m.id}
    BY <1>2, <2>2 DEF Webs
  <2>4. web' = [q \in Panel |-> IF q = p THEN w ELSE web[q]]
    BY <1>1, <2>1, <2>2 DEF TypeOK
  <2>5. up' = [up EXCEPT ![p] = up[p]]
    BY <2>1 DEF TypeOK
  <2>6. Becomes(p, host[p], w, up[p], Tail(down[p]))
    BY <1>3, <2>4, <2>5, WebStep
  <2>7. WebHandles(p, m, w, up[p])
    BY <1>1, <1>6, <2>3 DEF WebHandles
  <2>8. QED
    BY <1>2, <1>3, <2>1, <2>3, <2>6, <2>7
<1>7. CASE m.type = "importResult"
  <2>1. MessageApplies(p, MergeCollections(s, m.collections), v.busy)
    BY <1>1, <1>7 DEF WebMessage
  <2>2. m.collections \in CollectionLists
    BY <1>2, <1>7 DEF ToWeb
  <2>3. MergeCollections(s, m.collections) \in States /\ v.busy \in SUBSET Ids
    BY <1>2, <2>2, MergeType DEF Webs
  <2>4. PICK next : next = MergeCollections(s, m.collections)
    OBVIOUS
  <2>5. PICK w \in Webs, n \in ToHost :
          /\ up' = [up EXCEPT ![p] = Append(up[p], n)]
          /\ web' = [q \in Panel |-> IF q = p THEN w ELSE web[q]]
          /\ w.state = next /\ w.loaded = web[p].loaded /\ w.busy = v.busy
          /\ n.type = "persist" /\ n.state = next
    BY <2>1, <2>3, <2>4, MessageShape
  <2>6. PICK u : u = Append(up[p], n)
    OBVIOUS
  <2>7. u \in Seq(ToHost)
    BY <1>3, <2>6, AppendFacts
  <2>8. Becomes(p, host[p], w, u, Tail(down[p]))
    BY <1>3, <2>5, <2>6, WebStep
  <2>9. excuse' = excuse \cup Posted(p)
    BY <2>1 DEF MessageApplies
  <2>10. WebHandles(p, m, w, u)
    BY <1>1, <1>7, <2>5, <2>6, <2>9 DEF WebHandles
  <2>11. QED
    BY <1>2, <2>5, <2>7, <2>8, <2>9, <2>10
<1>8. CASE m.type = "importError"
  <2>1. UNCHANGED <<web, up, excuse>>
    BY <1>1, <1>8 DEF WebMessage
  <2>2. web' = [q \in Panel |-> IF q = p THEN v ELSE web[q]] /\ up' = [up EXCEPT ![p] = up[p]]
    BY <1>1, <2>1 DEF TypeOK
  <2>3. Becomes(p, host[p], v, up[p], Tail(down[p]))
    BY <1>3, <2>2, WebStep
  <2>4. WebHandles(p, m, v, up[p])
    BY <1>1, <1>8 DEF WebHandles
  <2>5. QED
    BY <1>2, <1>3, <2>1, <2>3, <2>4
<1>9. QED
  <2>1. m.type \in {"init", "httpResponse", "httpError", "importError", "importResult"}
    BY <1>2 DEF ToWeb
  <2>2. QED
    BY <2>1, <1>4, <1>5, <1>6, <1>7, <1>8

\* Requests are aborted: nothing else about them changes.
SameRuns ==
  /\ runs' \in Seq(Runs) /\ DOMAIN runs' = DOMAIN runs
  /\ \A r \in DOMAIN runs :
       /\ runs'[r].panel = runs[r].panel /\ runs'[r].id = runs[r].id
       /\ runs'[r].at = runs[r].at /\ runs'[r].again = runs[r].again

LEMMA AbortShape ==
  ASSUME TypeOK, NEW S,
         runs' = [r \in DOMAIN runs |->
                    IF r \in S THEN [runs[r] EXCEPT !.aborted = TRUE] ELSE runs[r]]
  PROVE  SameRuns
<1>1. PICK R, old, new : R = Runs /\ old = runs /\ new = runs'
  OBVIOUS
<1>2. old \in Seq(R)
  BY <1>1, Zenon DEF TypeOK
<1>3. ASSUME NEW r \in DOMAIN old
      PROVE  /\ new[r] \in R
             /\ new[r].panel = old[r].panel /\ new[r].id = old[r].id
             /\ new[r].at = old[r].at /\ new[r].again = old[r].again
  <2>1. PICK x, y : x = old[r] /\ y = [x EXCEPT !.aborted = TRUE]
    OBVIOUS
  <2>2. x \in R
    BY <1>2, <2>1
  <2>3. y \in R /\ y.panel = x.panel /\ y.id = x.id /\ y.at = x.at /\ y.again = x.again
    BY <1>1, <2>1, <2>2 DEF Runs
  <2>4. new[r] = IF r \in S THEN y ELSE x
    BY <1>1, <2>1
  <2>5. QED
    BY <2>1, <2>2, <2>3, <2>4
<1>4. DOMAIN new = DOMAIN old /\ DOMAIN old = 1 .. Len(old) /\ Len(old) \in Nat
  BY <1>1, <1>2
<1>5. new = [r \in 1 .. Len(old) |-> new[r]]
  BY <1>1, <1>4
<1>6. new \in Seq(R)
  BY <1>3, <1>4, <1>5
<1>7. QED
  BY <1>1, <1>3, <1>4, <1>6 DEF SameRuns

Running(p, id) ==
  \E r \in DOMAIN runs : runs[r].panel = p /\ runs[r].id = id /\ runs[r].at = "running"

\* The host handles the first of its messages.
HostHandles(p, m, h, d) ==
  \/ /\ m.type = "ready" /\ h = host[p] /\ UNCHANGED <<disk, runs>>
     /\ \E n \in ToWeb : d = Append(down[p], n) /\ n.type = "init" /\ n.state = host[p].state
  \/ /\ m.type = "persist" /\ d = down[p] /\ UNCHANGED <<folder, file, runs>>
     /\ h.state = m.state /\ h.inFlight = host[p].inFlight /\ m.state \in States
     /\ BeginSave(p, m.state)
  \/ /\ m.type = "send" /\ d = down[p] /\ UNCHANGED disk
     /\ h.state = host[p].state /\ h.inFlight = Register(p, m.node.id, Len(runs) + 1)
     /\ \E x \in Runs :
          /\ runs' = Append(runs, x)
          /\ x.panel = p /\ x.id = m.node.id /\ x.at = "running"
          /\ x.again = Running(p, m.node.id)
  \/ m.type = "cancel" /\ h = host[p] /\ d = down[p] /\ UNCHANGED disk /\ SameRuns
  \/ m.type = "pickImportFile" /\ h = host[p] /\ d = down[p] /\ UNCHANGED <<disk, runs>>

LEMMA HostStep ==
  ASSUME TypeOK, NEW p \in Panel, NEW h, NEW d,
         host' = [q \in Panel |-> IF q = p THEN h ELSE host[q]],
         down' = [q \in Panel |-> IF q = p THEN d ELSE down[q]],
         up' = [up EXCEPT ![p] = Tail(@)], UNCHANGED web
  PROVE  Becomes(p, h, web[p], Tail(up[p]), d)
  BY DEF TypeOK, Becomes

\* With nothing changed at p, a function is what it was.
LEMMA Unmoved ==
  ASSUME TypeOK, NEW p \in Panel
  PROVE  /\ host = [q \in Panel |-> IF q = p THEN host[p] ELSE host[q]]
         /\ web = [q \in Panel |-> IF q = p THEN web[p] ELSE web[q]]
         /\ up = [q \in Panel |-> IF q = p THEN up[p] ELSE up[q]]
         /\ down = [q \in Panel |-> IF q = p THEN down[p] ELSE down[q]]
  BY DEF TypeOK

LEMMA HostMessageShape ==
  ASSUME TypeOK, NEW p \in Panel, HostMessage(p)
  PROVE  \E m \in ToHost, h \in Hosts, d \in Seq(ToWeb) :
           /\ m = up[p][1] /\ up[p] # << >>
           /\ Becomes(p, h, web[p], Tail(up[p]), d)
           /\ HostHandles(p, m, h, d)
<1>1. PICK m, g : m = Head(up[p]) /\ g = host[p]
  OBVIOUS
<1>2. up[p] # << >> /\ m = up[p][1] /\ m \in ToHost /\ g \in Hosts
  BY <1>1, PanelParts, TailFacts DEF HostMessage
<1>3. up' = [up EXCEPT ![p] = Tail(@)] /\ UNCHANGED web /\ down[p] \in Seq(ToWeb)
      /\ phase[p] = "open"
  BY PanelParts DEF HostMessage
<1>4. CASE m.type = "ready"
  <2>1. down' = Post(p, [type |-> "init", state |-> host[p].state]) /\ UNCHANGED <<disk, host, runs>>
    BY <1>1, <1>4 DEF HostMessage
  <2>2. PICK n, d : n = [type |-> "init", state |-> host[p].state] /\ d = Append(down[p], n)
    OBVIOUS
  <2>3. n \in ToWeb /\ n.type = "init" /\ n.state = host[p].state
    BY <2>2, PanelParts DEF ToWeb
  <2>4. d \in Seq(ToWeb)
    BY <1>3, <2>2, <2>3, AppendFacts
  <2>5. down' = [q \in Panel |-> IF q = p THEN d ELSE down[q]]
    BY <1>3, <2>1, <2>2 DEF Post, TypeOK
  <2>6. host' = [q \in Panel |-> IF q = p THEN g ELSE host[q]]
    BY <1>1, <2>1 DEF TypeOK
  <2>7. Becomes(p, g, web[p], Tail(up[p]), d)
    BY <1>3, <2>5, <2>6, HostStep
  <2>8. HostHandles(p, m, g, d)
    BY <1>1, <1>4, <2>1, <2>2, <2>3 DEF HostHandles
  <2>9. QED
    BY <1>2, <2>4, <2>7, <2>8
<1>5. CASE m.type = "persist"
  <2>1. HandlePersist(p, m)
    BY <1>1, <1>5 DEF HostMessage
  <2>2. m.state \in States
    BY <1>2, <1>5 DEF ToHost
  <2>3. PICK h : h = [g EXCEPT !.state = m.state]
    OBVIOUS
  <2>4. h \in Hosts /\ h.state = m.state /\ h.inFlight = g.inFlight
    BY <1>2, <2>2, <2>3 DEF Hosts
  <2>5. host' = [q \in Panel |-> IF q = p THEN h ELSE host[q]]
    BY <1>1, <2>1, <2>3 DEF HandlePersist, TypeOK
  <2>6. down' = [q \in Panel |-> IF q = p THEN down[p] ELSE down[q]]
    BY <2>1 DEF HandlePersist, TypeOK
  <2>7. Becomes(p, h, web[p], Tail(up[p]), down[p])
    BY <1>3, <2>5, <2>6, HostStep
  <2>8. HostHandles(p, m, h, down[p])
    BY <1>1, <1>5, <2>1, <2>2, <2>4 DEF HostHandles, HandlePersist
  <2>9. QED
    BY <1>2, <1>3, <2>4, <2>7, <2>8
<1>6. CASE m.type = "send"
  <2>1. HandleSend(p, m)
    BY <1>1, <1>6 DEF HostMessage
  <2>2. m.node \in NodeSet
    BY <1>2, <1>6 DEF ToHost
  <2>3. m.node.id \in Ids /\ m.node.http \in Nat
    BY <2>2 DEF NodeSet
  <2>4. PICK n, x, fresh :
          /\ n = Len(runs) + 1
          /\ fresh = Register(p, m.node.id, n)
          /\ x = [panel |-> p, id |-> m.node.id, http |-> m.node.http,
                  aborted |-> FALSE, at |-> "running",
                  again |-> \E q \in DOMAIN runs : runs[q].panel = p
                            /\ runs[q].id = m.node.id /\ runs[q].at = "running"]
    OBVIOUS
  <2>5. x \in Runs
    <3>1. x.again \in BOOLEAN
      BY <2>4
    <3>2. QED
      BY <2>3, <2>4, <3>1 DEF Runs
  <2>6. runs' = Append(runs, x)
    BY <2>1, <2>4, Zenon DEF HandleSend
  <2>7. n \in Nat
    <3>1. runs \in Seq(Runs)
      BY Zenon DEF TypeOK
    <3>2. QED
      BY <2>4, <3>1
  <2>8. PICK h : h = [g EXCEPT !.inFlight = fresh]
    OBVIOUS
  <2>9. fresh \in SUBSET Nat
    <3>1. g.inFlight \in SUBSET Nat
      BY <1>2 DEF Hosts
    <3>2. QED
      BY <1>1, <2>4, <2>7, <3>1 DEF Register, Registered
  <2>10. h \in Hosts /\ h.state = g.state /\ h.inFlight = fresh
    BY <1>2, <2>8, <2>9 DEF Hosts
  <2>11. host' = [q \in Panel |-> IF q = p THEN h ELSE host[q]]
    BY <1>1, <2>1, <2>4, <2>8 DEF HandleSend, TypeOK
  <2>12. down' = [q \in Panel |-> IF q = p THEN down[p] ELSE down[q]]
    BY <2>1 DEF HandleSend, TypeOK
  <2>13. Becomes(p, h, web[p], Tail(up[p]), down[p])
    BY <1>3, <2>11, <2>12, HostStep
  <2>14. UNCHANGED disk
    BY <2>1 DEF HandleSend
  <2>15. HostHandles(p, m, h, down[p])
    <3>1. /\ x.panel = p /\ x.id = m.node.id /\ x.at = "running"
          /\ x.again = Running(p, m.node.id)
      BY <2>4 DEF Running
    <3>2. h.inFlight = Register(p, m.node.id, Len(runs) + 1) /\ h.state = host[p].state
      BY <1>1, <2>4, <2>10
    <3>3. QED
      BY <1>6, <2>5, <2>6, <2>14, <3>1, <3>2, Zenon DEF HostHandles
  <2>16. QED
    BY <1>2, <1>3, <2>10, <2>13, <2>15
<1>7. CASE m.type = "cancel"
  <2>1. /\ runs' = [r \in DOMAIN runs |->
                      IF r \in Registered(p, m.id)
                        THEN [runs[r] EXCEPT !.aborted = TRUE] ELSE runs[r]]
        /\ UNCHANGED <<disk, host, down>>
    BY <1>1, <1>7 DEF HostMessage
  <2>2. SameRuns
    BY <2>1, AbortShape
  <2>3. /\ host' = [q \in Panel |-> IF q = p THEN g ELSE host[q]]
        /\ down' = [q \in Panel |-> IF q = p THEN down[p] ELSE down[q]]
    BY <1>1, <2>1, Unmoved
  <2>4. Becomes(p, g, web[p], Tail(up[p]), down[p])
    BY <1>3, <2>3, HostStep
  <2>5. HostHandles(p, m, g, down[p])
    BY <1>1, <1>7, <2>1, <2>2 DEF HostHandles
  <2>6. QED
    BY <1>2, <1>3, <2>4, <2>5
<1>8. CASE m.type = "pickImportFile"
  <2>1. UNCHANGED <<disk, host, runs, down>>
    BY <1>1, <1>8 DEF HostMessage
  <2>2. /\ host' = [q \in Panel |-> IF q = p THEN g ELSE host[q]]
        /\ down' = [q \in Panel |-> IF q = p THEN down[p] ELSE down[q]]
    BY <1>1, <2>1, Unmoved
  <2>3. Becomes(p, g, web[p], Tail(up[p]), down[p])
    BY <1>3, <2>2, HostStep
  <2>4. HostHandles(p, m, g, down[p])
    BY <1>1, <1>8, <2>1 DEF HostHandles
  <2>5. QED
    BY <1>2, <1>3, <2>3, <2>4
<1>9. QED
  <2>1. m.type \in {"ready", "persist", "send", "cancel", "pickImportFile"}
    BY <1>2 DEF ToHost
  <2>2. QED
    BY <2>1, <1>4, <1>5, <1>6, <1>7, <1>8

SettledRuns(r) ==
  /\ runs' \in Seq(Runs) /\ DOMAIN runs' = DOMAIN runs /\ runs'[r].at = "settled"
  /\ \A q \in DOMAIN runs : /\ runs'[q].panel = runs[q].panel /\ runs'[q].id = runs[q].id
                            /\ runs'[q].again = runs[q].again
                            /\ q # r => runs'[q].at = runs[q].at

\* A request settles: it is unregistered, and answered unless its panel is closed.
LEMMA SettleShape ==
  ASSUME TypeOK, NEW r \in DOMAIN runs, RunSettles(r)
  PROVE  \E p \in Panel, h \in Hosts, d \in Seq(ToWeb) :
           /\ p = runs[r].panel /\ runs[r].id \in Ids /\ runs[r].at = "running"
           /\ Becomes(p, h, web[p], up[p], d)
           /\ h.state = host[p].state /\ h.inFlight = Unregister(p, runs[r].id)
           /\ \/ phase[p] = "closed" /\ d = down[p]
              \/ \E n \in ToWeb : /\ d = Append(down[p], n) /\ n.id = runs[r].id
                                  /\ n.type \in {"httpResponse", "httpError"}
           /\ SettledRuns(r)
<1>1. PICK R, old, x : R = Runs /\ old = runs /\ x = runs[r]
  OBVIOUS
<1>2. old \in Seq(R)
  BY <1>1, Zenon DEF TypeOK
<1>3. x \in R /\ r \in Nat
  BY <1>1, <1>2
<1>4. PICK p, id : p = x.panel /\ id = x.id
  OBVIOUS
<1>5. p \in Panel /\ id \in Ids
  BY <1>1, <1>3, <1>4 DEF Runs
<1>6. PICK g : g = host[p]
  OBVIOUS
<1>7. g \in Hosts /\ down[p] \in Seq(ToWeb)
  BY <1>5, <1>6, PanelParts
<1>8. /\ runs[r].at = "running"
      /\ \/ down' = Failed(p, r)
         \/ down' = Post(p, [type |-> "httpResponse", id |-> id, run |-> r])
      /\ host' = [host EXCEPT ![p].inFlight = Unregister(p, id)]
      /\ runs' = [runs EXCEPT ![r].at = "settled"]
      /\ UNCHANGED <<web, up>>
  BY <1>1, <1>4 DEF RunSettles
<1>9. PICK out, h : out = Unregister(p, id) /\ h = [g EXCEPT !.inFlight = out]
  OBVIOUS
<1>10. h \in Hosts /\ h.state = g.state /\ h.inFlight = out
  <2>1. g.inFlight \in SUBSET Nat
    BY <1>7 DEF Hosts
  <2>2. out \in SUBSET Nat
    BY <1>6, <1>9, <2>1 DEF Unregister
  <2>3. QED
    BY <1>7, <1>9, <2>2 DEF Hosts
<1>11. host' = [q \in Panel |-> IF q = p THEN h ELSE host[q]]
  BY <1>5, <1>6, <1>8, <1>9 DEF TypeOK
<1>12. PICK n \in ToWeb : /\ down' = Post(p, n) /\ n.id = id
                         /\ n.type \in {"httpResponse", "httpError"}
  <2>1. CASE down' = Failed(p, r)
    <3>1. PICK n : n = [type |-> "httpError", id |-> id]
      OBVIOUS
    <3>2. n \in ToWeb /\ n.id = id /\ n.type = "httpError"
      BY <1>5, <3>1 DEF ToWeb
    <3>3. down' = Post(p, n)
      BY <1>1, <1>4, <2>1, <3>1 DEF Failed
    <3>4. QED
      BY <3>2, <3>3
  <2>2. CASE down' = Post(p, [type |-> "httpResponse", id |-> id, run |-> r])
    <3>1. PICK n : n = [type |-> "httpResponse", id |-> id, run |-> r]
      OBVIOUS
    <3>2. n \in ToWeb /\ n.id = id /\ n.type = "httpResponse"
      BY <1>3, <1>5, <3>1 DEF ToWeb
    <3>3. QED
      BY <2>2, <3>1, <3>2
  <2>3. QED
    BY <1>8, <2>1, <2>2
<1>13. PICK d : d = IF phase[p] = "closed" THEN down[p] ELSE Append(down[p], n)
  OBVIOUS
<1>14. d \in Seq(ToWeb)
  BY <1>7, <1>13, AppendFacts
<1>15. down' = [q \in Panel |-> IF q = p THEN d ELSE down[q]]
  BY <1>5, <1>12, <1>13 DEF Post, TypeOK
<1>16. Becomes(p, h, web[p], up[p], d)
  BY <1>5, <1>8, <1>11, <1>15, Unmoved DEF Becomes
<1>17. PICK y, new : y = [x EXCEPT !.at = "settled"] /\ new = runs'
  OBVIOUS
<1>18. y \in R /\ y.panel = x.panel /\ y.id = x.id /\ y.again = x.again /\ y.at = "settled"
  BY <1>1, <1>3, <1>17 DEF Runs
<1>19. new = [old EXCEPT ![r] = y]
  BY <1>1, <1>8, <1>17
<1>20. /\ new \in Seq(R) /\ DOMAIN new = DOMAIN old /\ new[r] = y
       /\ \A q \in DOMAIN old : q # r => new[q] = old[q]
  BY <1>1, <1>2, <1>18, <1>19
<1>21. \A q \in DOMAIN old : /\ new[q].panel = old[q].panel /\ new[q].id = old[q].id
                             /\ new[q].again = old[q].again
                             /\ q # r => new[q].at = old[q].at
  BY <1>1, <1>18, <1>20
<1>22. \/ phase[p] = "closed" /\ d = down[p]
       \/ d = Append(down[p], n)
  BY <1>13
<1>23. \/ phase[p] = "closed" /\ d = down[p]
       \/ \E k \in ToWeb : /\ d = Append(down[p], k) /\ k.id = id
                           /\ k.type \in {"httpResponse", "httpError"}
  BY <1>12, <1>22
<1>24. SettledRuns(r)
  BY <1>1, <1>17, <1>18, <1>20, <1>21 DEF SettledRuns
<1>25. /\ p = runs[r].panel /\ runs[r].id = id /\ runs[r].at = "running"
       /\ h.state = host[p].state /\ h.inFlight = Unregister(p, id)
  BY <1>1, <1>4, <1>6, <1>8, <1>9, <1>10
<1>26. QED
  BY <1>5, <1>10, <1>14, <1>16, <1>23, <1>24, <1>25

\* The user asks for an import.
LEMMA AskShape ==
  ASSUME TypeOK, NEW p \in Panel, AskImport(p)
  PROVE  \E u \in Seq(ToHost) :
           /\ Becomes(p, host[p], web[p], u, down[p])
           /\ u = up[p] \/ \E m \in ToHost : u = Append(up[p], m) /\ m.type = "pickImportFile"
<1>1. UNCHANGED <<host, web, down>> /\ up[p] \in Seq(ToHost)
  BY PanelParts DEF AskImport
<1>2. CASE UNCHANGED up
  BY <1>1, <1>2, Unmoved DEF Becomes
<1>3. CASE up' = [up EXCEPT ![p] = Append(@, [type |-> "pickImportFile"])]
  <2>1. PICK m, u : m = [type |-> "pickImportFile"] /\ u = Append(up[p], m)
    OBVIOUS
  <2>2. m \in ToHost /\ m.type = "pickImportFile"
    BY <2>1 DEF ToHost
  <2>3. u \in Seq(ToHost)
    BY <1>1, <2>1, <2>2, AppendFacts
  <2>4. up' = [q \in Panel |-> IF q = p THEN u ELSE up[q]]
    BY <1>3, <2>1 DEF TypeOK
  <2>5. Becomes(p, host[p], web[p], u, down[p])
    BY <1>1, <2>4, Unmoved DEF Becomes
  <2>6. QED
    BY <2>1, <2>2, <2>3, <2>5
<1>4. QED
  BY <1>2, <1>3 DEF AskImport

LEMMA ImportShape ==
  ASSUME TypeOK, NEW p \in Panel, Import(p)
  PROVE  \E d \in Seq(ToWeb) :
           /\ Becomes(p, host[p], web[p], up[p], d)
           /\ \/ d = down[p]
              \/ \E n \in ToWeb : /\ d = Append(down[p], n)
                                  /\ n.type \in {"importError", "importResult"}
<1>1. UNCHANGED <<host, web, up>> /\ down[p] \in Seq(ToWeb)
  BY PanelParts DEF Import
<1>2. CASE UNCHANGED down
  BY <1>1, <1>2, Unmoved DEF Becomes
<1>3. ASSUME NEW n \in ToWeb, n.type \in {"importError", "importResult"}, down' = Post(p, n)
      PROVE  \E d \in Seq(ToWeb) :
               /\ Becomes(p, host[p], web[p], up[p], d)
               /\ d = down[p] \/ d = Append(down[p], n)
  <2>1. PICK d : d = IF phase[p] = "closed" THEN down[p] ELSE Append(down[p], n)
    OBVIOUS
  <2>2. d \in Seq(ToWeb)
    BY <1>1, <2>1, AppendFacts
  <2>3. down' = [q \in Panel |-> IF q = p THEN d ELSE down[q]]
    BY <1>3, <2>1 DEF Post, TypeOK
  <2>4. Becomes(p, host[p], web[p], up[p], d)
    BY <1>1, <2>3, Unmoved DEF Becomes
  <2>5. QED
    BY <2>1, <2>2, <2>4
<1>4. CASE down' = Post(p, [type |-> "importError"])
  <2>1. PICK n : n = [type |-> "importError"]
    OBVIOUS
  <2>2. n \in ToWeb /\ n.type = "importError"
    BY <2>1 DEF ToWeb
  <2>3. QED
    BY <1>3, <1>4, <2>1, <2>2
<1>5. CASE down' = Post(p, [type |-> "importResult", collections |->
                            << Collection(200 + ops, << Request(200 + ops) >>) >>])
  <2>1. PICK k, C, c : k = 200 + ops /\ C = Coll /\ c = Collection(k, << Request(k) >>)
    OBVIOUS
  <2>2. k \in Nat
    <3>1. ops \in Nat
      BY Zenon DEF TypeOK
    <3>2. QED
      BY <2>1, <3>1
  <2>3. << Request(k) >> \in Seq(NodeSet)
    BY <2>2, MadeTypes
  <2>4. c \in C
    BY <2>1, <2>2, <2>3, CollectionType
  <2>5. << c >> \in CollectionLists
    BY <2>1, <2>4 DEF CollectionLists, Coll
  <2>6. PICK cs, n : cs = << c >> /\ n = [type |-> "importResult", collections |-> cs]
    OBVIOUS
  <2>7. n \in ToWeb /\ n.type = "importResult"
    BY <2>5, <2>6 DEF ToWeb
  <2>8. down' = Post(p, n)
    BY <1>5, <2>1, <2>6
  <2>9. QED
    BY <1>3, <2>7, <2>8
<1>6. QED
  BY <1>2, <1>4, <1>5 DEF Import

\* A panel is built.
LEMMA LoadedShape ==
  ASSUME TypeOK, NEW p \in Panel, Loaded(p)
  PROVE  \E h \in Hosts, m \in ToHost :
           /\ Becomes(p, h, web[p], << m >>, down[p])
           /\ h.state = Load /\ h.inFlight = host[p].inFlight
           /\ m.type = "ready"
<1>1. PICK g, state, m : g = host[p] /\ state = Load /\ m = [type |-> "ready"]
  OBVIOUS
<1>2. g \in Hosts /\ state \in States
  BY <1>1, PanelParts, LoadType
<1>3. m \in ToHost /\ m.type = "ready"
  BY <1>1 DEF ToHost
<1>4. PICK h : h = [g EXCEPT !.state = state]
  OBVIOUS
<1>5. h \in Hosts /\ h.state = state /\ h.inFlight = g.inFlight
  BY <1>2, <1>4 DEF Hosts
<1>6. host' = [q \in Panel |-> IF q = p THEN h ELSE host[q]]
  BY <1>1, <1>4 DEF Loaded, TypeOK
<1>7. up' = [q \in Panel |-> IF q = p THEN << m >> ELSE up[q]]
  BY <1>1 DEF Loaded, TypeOK
<1>8. Becomes(p, h, web[p], << m >>, down[p])
  BY <1>6, <1>7, Unmoved DEF Loaded, Becomes
<1>9. QED
  BY <1>1, <1>3, <1>5, <1>8

\* ... and closed.
LEMMA CloseShape ==
  ASSUME TypeOK, NEW p \in Panel, Close(p)
  PROVE  /\ SameRuns
         /\ \E h \in Hosts : /\ Becomes(p, h, web[p], << >>, << >>)
                             /\ h.state = host[p].state /\ h.inFlight = {}
<1>1. SameRuns
  BY AbortShape DEF Close
<1>2. PICK g, h : g = host[p] /\ h = [g EXCEPT !.inFlight = {}]
  OBVIOUS
<1>3. g \in Hosts
  BY <1>2, PanelParts
<1>4. h \in Hosts /\ h.state = g.state /\ h.inFlight = {}
  BY <1>2, <1>3 DEF Hosts
<1>5. host' = [q \in Panel |-> IF q = p THEN h ELSE host[q]]
  BY <1>2 DEF Close, TypeOK
<1>6. /\ up' = [q \in Panel |-> IF q = p THEN << >> ELSE up[q]]
      /\ down' = [q \in Panel |-> IF q = p THEN << >> ELSE down[q]]
  BY DEF Close, TypeOK
<1>7. Becomes(p, h, web[p], << >>, << >>)
  BY <1>5, <1>6, Unmoved DEF Close, Becomes
<1>8. QED
  BY <1>1, <1>2, <1>4, <1>7

-----------------------------------------------------------------------------
(* Type correctness.                                                         *)

DiskOK ==
  /\ folder \in BOOLEAN
  /\ {file, memento} \subseteq States \cup {None}
  /\ saved \in Nat
  /\ saves \subseteq [n : 1 .. saved, state : States]

FlowOK ==
  /\ current \in Panel \cup {0}
  /\ phase \in [Panel -> {"none", "loading", "open", "closed"}]
  /\ dialogs \subseteq Panel
  /\ ops \in Nat
  /\ excuse \subseteq {"loaded before a save", "two panels", "edited before init",
                     "save overtaken", "write failed"}

\* A step of one panel, of types that fit.
LEMMA TypeStep ==
  ASSUME TypeOK, NEW p \in Panel, NEW h \in Hosts, NEW w \in Webs,
         NEW u \in Seq(ToHost), NEW d \in Seq(ToWeb), Becomes(p, h, w, u, d),
         DiskOK', FlowOK', runs' \in Seq(Runs), DOMAIN runs \subseteq DOMAIN runs',
         h.inFlight \subseteq DOMAIN runs'
  PROVE  TypeOK'
<1>1. /\ host' \in [Panel -> Hosts] /\ web' \in [Panel -> Webs]
      /\ up' \in [Panel -> Seq(ToHost)] /\ down' \in [Panel -> Seq(ToWeb)]
  BY BecomesTypes
<1>2. ASSUME NEW q \in Panel PROVE host'[q].inFlight \subseteq DOMAIN runs'
  <2>1. host[q].inFlight \subseteq DOMAIN runs
    BY DEF TypeOK
  <2>2. host'[q] = IF q = p THEN h ELSE host[q]
    BY DEF Becomes
  <2>3. QED
    BY <2>1, <2>2
<1>3. QED
  BY <1>1, <1>2 DEF TypeOK, DiskOK, FlowOK

LEMMA TypeParts ==
  ASSUME TypeOK
  PROVE  /\ DiskOK /\ FlowOK /\ runs \in Seq(Runs)
         /\ ops \in Nat /\ saved \in Nat
         /\ \A p \in Panel : host[p].inFlight \subseteq DOMAIN runs
  BY Zenon DEF TypeOK, DiskOK, FlowOK

\* What leaves the disk, the runs and the life of panels alone.
LEMMA TypeMoves ==
  ASSUME TypeOK, NEW p \in Panel, NEW w \in Webs,
         NEW u \in Seq(ToHost), NEW d \in Seq(ToWeb), Becomes(p, host[p], w, u, d),
         UNCHANGED <<disk, runs>>, FlowOK'
  PROVE  TypeOK'
<1>1. DiskOK'
  BY TypeParts DEF DiskOK, disk
<1>2. PICK h : h = host[p]
  OBVIOUS
<1>3. h \in Hosts /\ h.inFlight \subseteq DOMAIN runs
  BY <1>2, PanelParts, TypeParts
<1>4. runs' \in Seq(Runs) /\ DOMAIN runs' = DOMAIN runs
  BY TypeParts
<1>5. QED
  BY <1>1, <1>2, <1>3, <1>4, TypeStep

LEMMA TypeUser ==
  ASSUME TypeOK, NEW p \in Panel, UserStep(p)
  PROVE  TypeOK'
<1>0. up[p] \in Seq(ToHost) /\ down[p] \in Seq(ToWeb) /\ web[p] \in Webs /\ FlowOK /\ ops \in Nat
  BY PanelParts, TypeParts
<1>1. CASE Edits(p)
  <2>1. PICK next \in States : UserApplies(p, next)
    BY <1>1, EditApplies
  <2>2. PICK w \in Webs, m \in ToHost : Becomes(p, host[p], w, Append(up[p], m), down[p])
    BY <2>1, AppliesShape
  <2>3. Append(up[p], m) \in Seq(ToHost)
    BY <1>0, AppendFacts
  <2>4. FlowOK' /\ UNCHANGED <<disk, runs>>
    <3>1. ops' \in Nat
      BY <1>0, <2>1 DEF UserApplies
    <3>2. QED
      BY <1>0, <2>1, <3>1 DEF UserApplies, FlowOK, Posted
  <2>5. QED
    BY <1>0, <2>2, <2>3, <2>4, TypeMoves
<1>2. CASE SendRequest(p)
  <2>1. PICK w \in Webs, m \in ToHost : Becomes(p, host[p], w, Append(up[p], m), down[p])
    BY <1>2, SendShape
  <2>2. Append(up[p], m) \in Seq(ToHost)
    BY <1>0, AppendFacts
  <2>3. FlowOK' /\ UNCHANGED <<disk, runs>>
    <3>1. ops' \in Nat
      BY <1>0, <1>2 DEF SendRequest
    <3>2. QED
      BY <1>0, <1>2, <3>1 DEF SendRequest, FlowOK
  <2>4. QED
    BY <1>0, <2>1, <2>2, <2>3, TypeMoves
<1>3. CASE CancelRequest(p)
  <2>1. PICK w \in Webs, m \in ToHost : Becomes(p, host[p], w, Append(up[p], m), down[p])
    BY <1>3, CancelShape
  <2>2. Append(up[p], m) \in Seq(ToHost)
    BY <1>0, AppendFacts
  <2>3. FlowOK' /\ UNCHANGED <<disk, runs>>
    BY <1>0, <1>3 DEF CancelRequest, FlowOK
  <2>4. QED
    BY <1>0, <2>1, <2>2, <2>3, TypeMoves
<1>4. CASE AskImport(p)
  <2>1. PICK u \in Seq(ToHost) : Becomes(p, host[p], web[p], u, down[p])
    BY <1>4, AskShape
  <2>2. FlowOK' /\ UNCHANGED <<disk, runs>>
    <3>1. ops' \in Nat
      BY <1>0, <1>4 DEF AskImport
    <3>2. QED
      BY <1>0, <1>4, <3>1 DEF AskImport, FlowOK
  <2>3. QED
    BY <1>0, <2>1, <2>2, TypeMoves
<1>5. QED
  BY <1>1, <1>2, <1>3, <1>4 DEF UserStep, Edits

LEMMA TypeWebMessage ==
  ASSUME TypeOK, NEW p \in Panel, WebMessage(p)
  PROVE  TypeOK'
<1>1. PICK m \in ToWeb, w \in Webs, u \in Seq(ToHost) :
        /\ down[p] # << >> /\ Becomes(p, host[p], w, u, Tail(down[p]))
        /\ excuse' = excuse \/ excuse' = excuse \cup Posted(p)
  BY WebMessageShape
<1>2. down[p] \in Seq(ToWeb) /\ FlowOK
  BY PanelParts, TypeParts
<1>3. Tail(down[p]) \in Seq(ToWeb)
  BY <1>1, <1>2, TailFacts
<1>4. UNCHANGED <<disk, runs>> /\ FlowOK'
  BY <1>1, <1>2 DEF WebMessage, FlowOK, Posted
<1>5. QED
  BY <1>1, <1>3, <1>4, TypeMoves

LEMMA SaveTypes ==
  ASSUME TypeOK, NEW p \in Panel, NEW state \in States, BeginSave(p, state),
         UNCHANGED <<folder, file>>
  PROVE  DiskOK'
<1>1. DiskOK
  BY TypeParts
<1>2. saved \in Nat
  BY TypeParts
<1>3. PICK s, n : s = [n |-> saved + 1, state |-> state] /\ n = saved + 1
  OBVIOUS
<1>4. s \in [n : 1 .. n, state : States] /\ n \in Nat
  BY <1>2, <1>3
<1>5. \A t \in saves : t \in [n : 1 .. n, state : States]
  <2>1. \A t \in [n : 1 .. saved, state : States] : t \in [n : 1 .. n, state : States]
    BY <1>2, <1>3
  <2>2. QED
    BY <1>1, <2>1 DEF DiskOK
<1>6. saved' = n /\ (saves' = saves \cup {s} \/ saves' = saves)
      /\ (memento' = state \/ memento' = memento)
  BY <1>1, <1>3 DEF BeginSave, DiskOK
<1>7. saves' \subseteq [n : 1 .. n, state : States]
  BY <1>4, <1>5, <1>6
<1>8. {file, memento}' \subseteq States \cup {None}
  BY <1>1, <1>6 DEF DiskOK
<1>9. QED
  BY <1>1, <1>4, <1>6, <1>7, <1>8 DEF DiskOK

LEMMA TypeHostMessage ==
  ASSUME TypeOK, NEW p \in Panel, HostMessage(p)
  PROVE  TypeOK'
<1>1. PICK m \in ToHost, h \in Hosts, d \in Seq(ToWeb) :
        /\ up[p] # << >> /\ Becomes(p, h, web[p], Tail(up[p]), d) /\ HostHandles(p, m, h, d)
  BY HostMessageShape
<1>2. up[p] \in Seq(ToHost) /\ web[p] \in Webs /\ FlowOK /\ DiskOK /\ runs \in Seq(Runs)
      /\ host[p].inFlight \subseteq DOMAIN runs
  BY PanelParts, TypeParts
<1>3. Tail(up[p]) \in Seq(ToHost)
  BY <1>1, <1>2, TailFacts
<1>4. FlowOK'
  <2>1. dialogs' \subseteq Panel
    <3>1. PICK n : n = Head(up[p])
      OBVIOUS
    <3>2. n \in ToHost
      BY <1>1, <1>2, <3>1, TailFacts
    <3>3. n.type \in {"ready", "persist", "send", "cancel", "pickImportFile"}
      BY <3>2 DEF ToHost
    <3>4. dialogs' = dialogs \/ dialogs' = dialogs \cup {p}
      BY <3>1, <3>3 DEF HostMessage
    <3>5. QED
      BY <1>2, <3>4 DEF FlowOK
  <2>2. QED
    BY <1>2, <2>1 DEF HostMessage, FlowOK
<1>5. DiskOK'
  <2>1. CASE m.type = "persist"
    BY <1>1, <2>1, SaveTypes DEF HostHandles
  <2>2. CASE m.type # "persist"
    BY <1>1, <1>2, <2>2 DEF HostHandles, DiskOK, disk
  <2>3. QED
    BY <2>1, <2>2
<1>6. /\ runs' \in Seq(Runs) /\ DOMAIN runs \subseteq DOMAIN runs'
      /\ h.inFlight \subseteq DOMAIN runs'
  <2>1. CASE m.type = "send"
    <3>1. PICK x \in Runs : runs' = Append(runs, x)
      BY <1>1, <2>1 DEF HostHandles
    <3>2. h.inFlight \subseteq host[p].inFlight \cup {Len(runs) + 1}
      BY <1>1, <2>1 DEF HostHandles, Register
    <3>3. /\ runs' \in Seq(Runs) /\ DOMAIN runs' = 1 .. Len(runs) + 1
          /\ DOMAIN runs = 1 .. Len(runs) /\ Len(runs) \in Nat
      BY <1>2, <3>1
    <3>4. QED
      BY <1>2, <3>2, <3>3
  <2>2. CASE m.type = "cancel"
    <3>1. h = host[p] /\ SameRuns
      BY <1>1, <2>2 DEF HostHandles
    <3>2. QED
      BY <1>2, <3>1 DEF SameRuns
  <2>3. CASE m.type \notin {"send", "cancel"}
    <3>1. runs' = runs /\ h.inFlight = host[p].inFlight
      BY <1>1, <2>3 DEF HostHandles
    <3>2. QED
      BY <1>2, <3>1
  <2>4. QED
    BY <2>1, <2>2, <2>3
<1>7. QED
  BY <1>1, <1>2, <1>3, <1>4, <1>5, <1>6, TypeStep

LEMMA TypeSettles ==
  ASSUME TypeOK, NEW r \in DOMAIN runs, RunSettles(r)
  PROVE  TypeOK'
<1>1. PICK p \in Panel, h \in Hosts, d \in Seq(ToWeb) :
        /\ Becomes(p, h, web[p], up[p], d) /\ h.inFlight = Unregister(p, runs[r].id)
        /\ SettledRuns(r)
  BY SettleShape
<1>2. up[p] \in Seq(ToHost) /\ web[p] \in Webs /\ FlowOK /\ DiskOK
      /\ host[p].inFlight \subseteq DOMAIN runs
  BY PanelParts, TypeParts
<1>3. FlowOK' /\ DiskOK'
  BY <1>2 DEF RunSettles, FlowOK, DiskOK, disk
<1>4. h.inFlight \subseteq DOMAIN runs'
  BY <1>1, <1>2 DEF Unregister, SettledRuns
<1>5. QED
  BY <1>1, <1>2, <1>3, <1>4, TypeStep DEF SettledRuns

LEMMA TypeLife ==
  ASSUME TypeOK, NEW p \in Panel, Loaded(p) \/ Close(p)
  PROVE  TypeOK'
<1>1. /\ web[p] \in Webs /\ down[p] \in Seq(ToWeb) /\ FlowOK /\ DiskOK /\ runs \in Seq(Runs)
      /\ host[p].inFlight \subseteq DOMAIN runs
  BY PanelParts, TypeParts
<1>2. CASE Loaded(p)
  <2>1. PICK h \in Hosts, m \in ToHost :
          Becomes(p, h, web[p], << m >>, down[p]) /\ h.inFlight = host[p].inFlight
    BY <1>2, LoadedShape
  <2>2. << m >> \in Seq(ToHost)
    OBVIOUS
  <2>3. FlowOK' /\ DiskOK' /\ runs' = runs
    BY <1>1, <1>2 DEF Loaded, FlowOK, DiskOK, disk
  <2>4. QED
    BY <1>1, <2>1, <2>2, <2>3, TypeStep
<1>3. CASE Close(p)
  <2>1. PICK h \in Hosts : Becomes(p, h, web[p], << >>, << >>) /\ h.inFlight = {}
    BY <1>3, CloseShape
  <2>2. << >> \in Seq(ToHost) /\ << >> \in Seq(ToWeb)
    OBVIOUS
  <2>3. FlowOK' /\ DiskOK'
    BY <1>1, <1>3 DEF Close, FlowOK, DiskOK, disk
  <2>4. SameRuns
    BY <1>3, CloseShape
  <2>5. QED
    BY <1>1, <2>1, <2>2, <2>3, <2>4, TypeStep DEF SameRuns
<1>4. QED
  BY <1>2, <1>3

LEMMA TypeSave ==
  ASSUME TypeOK, NEW s \in saves, SaveStep(s)
  PROVE  TypeOK'
<1>1. DiskOK /\ FlowOK
  BY TypeParts
<1>2. s.state \in States
  BY <1>1 DEF DiskOK
<1>3. DiskOK' /\ FlowOK'
  BY <1>1, <1>2 DEF SaveStep, Written, WriteFails, DiskOK, FlowOK
<1>4. QED
  BY <1>3 DEF SaveStep, Written, WriteFails, TypeOK, DiskOK, FlowOK

LEMMA InitTypes == Init => TypeOK
<1> SUFFICES ASSUME Init PROVE TypeOK
  OBVIOUS
<1>1. PICK h, w : h = [state |-> EmptyState, inFlight |-> {}] /\ w = NoWeb
  OBVIOUS
<1>2. h \in Hosts /\ w \in Webs /\ h.inFlight = {}
  BY <1>1, NoneIsMissing DEF Hosts, Webs, NoWeb
<1>3. host = [p \in Panel |-> h] /\ web = [p \in Panel |-> w]
  BY <1>1 DEF Init
<1>4. host \in [Panel -> Hosts] /\ web \in [Panel -> Webs]
      /\ \A p \in Panel : host[p].inFlight \subseteq DOMAIN runs
  BY <1>2, <1>3
<1>5. << >> \in Seq(ToHost) /\ << >> \in Seq(ToWeb) /\ << >> \in Seq(Runs)
  OBVIOUS
<1>6. up \in [Panel -> Seq(ToHost)] /\ down \in [Panel -> Seq(ToWeb)] /\ runs \in Seq(Runs)
  BY <1>5 DEF Init
<1>7. DiskOK
  BY SeedType DEF Init, DiskOK
<1>8. FlowOK
  BY DEF Init, FlowOK
<1>9. QED
  BY <1>4, <1>6, <1>7, <1>8 DEF TypeOK, DiskOK, FlowOK

LEMMA NextTypes == ASSUME TypeOK, [Next]_vars PROVE TypeOK'
<1>1. CASE Open
  <2>1. FlowOK'
    BY <1>1, TypeParts DEF Open, FlowOK
  <2>2. DiskOK'
    BY <1>1, TypeParts DEF Open, DiskOK, disk
  <2>3. UNCHANGED <<host, web, up, down, runs>>
    BY <1>1 DEF Open
  <2>4. QED
    BY <2>1, <2>2, <2>3 DEF TypeOK, DiskOK, FlowOK
<1>2. ASSUME NEW p \in Panel, Render(p) PROVE TypeOK'
  <2>1. PICK w \in Webs : Becomes(p, host[p], w, up[p], down[p])
    BY <1>2, RenderShape
  <2>2. FlowOK' /\ UNCHANGED <<disk, runs>>
    BY <1>2, TypeParts DEF Render, FlowOK
  <2>3. QED
    BY <2>1, <2>2, PanelParts, TypeMoves
<1>3. ASSUME NEW p \in Panel, Import(p) PROVE TypeOK'
  <2>1. PICK d \in Seq(ToWeb) : Becomes(p, host[p], web[p], up[p], d)
    BY <1>3, ImportShape
  <2>2. FlowOK' /\ UNCHANGED <<disk, runs>>
    BY <1>3, TypeParts DEF Import, FlowOK
  <2>3. QED
    BY <2>1, <2>2, PanelParts, TypeMoves
<1>4. CASE UNCHANGED vars
  BY <1>4 DEF vars, TypeOK
<1>5. QED
  BY <1>1, <1>2, <1>3, <1>4, TypeUser, TypeWebMessage, TypeHostMessage, TypeSettles,
     TypeLife, TypeSave DEF Next, PanelStep

\* Every variable keeps its type: the trees of collections through every edit and import,
\* the messages on their way, the runs registered, the store.
THEOREM ClientTypes == Spec => []TypeOK
  BY InitTypes, NextTypes, PTL DEF Spec

-----------------------------------------------------------------------------
(* A panel that is not open yet has nothing: no messages, busy requests, runs or *)
(* dialogs.                                                                  *)

Lives ==
  /\ \A p \in Panel : phase[p] \in {"none", "loading"} =>
       up[p] = << >> /\ down[p] = << >> /\ web[p].busy = {} /\ web[p].loaded = FALSE
  /\ \A r \in DOMAIN runs : phase[runs[r].panel] \in {"open", "closed"}
  /\ \A p \in dialogs : phase[p] = "open"

\* The requests of an open panel that run: of two of the same id, the later one found
\* the earlier one running; and one that is not registered has such a one beside it.
Registration ==
  /\ \A q, r \in DOMAIN runs :
       (q < r /\ runs[q].panel = runs[r].panel /\ runs[q].id = runs[r].id
          /\ runs[q].at = "running") => runs[r].again
  /\ UnstoppableOnlyAfterResend

LEMMA KeptRuns == ASSUME TypeOK, UNCHANGED runs PROVE SameRuns
  BY TypeParts DEF SameRuns

LEMMA RunPanels == ASSUME TypeOK PROVE \A r \in DOMAIN runs : runs[r].panel \in Panel
<1>1. PICK R, old : R = Runs /\ old = runs
  OBVIOUS
<1>2. \A r \in DOMAIN old : old[r] \in R
  BY <1>1, TypeParts
<1>3. \A x \in R : x.panel \in Panel
  BY <1>1 DEF Runs
<1>4. QED
  BY <1>1, <1>2, <1>3

\* A step of a panel that is open or closed.
LEMMA LivesStep ==
  ASSUME TypeOK, Lives, NEW p \in Panel, phase[p] \in {"open", "closed"}, phase' = phase,
         NEW h, NEW w, NEW u, NEW d, Becomes(p, h, w, u, d),
         \A r \in DOMAIN runs' : \/ runs'[r].panel = p
                                 \/ r \in DOMAIN runs /\ runs'[r].panel = runs[r].panel,
         dialogs' \subseteq dialogs \cup (IF phase[p] = "open" THEN {p} ELSE {})
  PROVE  Lives'
<1>1. ASSUME NEW q \in Panel, phase[q] \in {"none", "loading"}
      PROVE  up'[q] = << >> /\ down'[q] = << >> /\ web'[q].busy = {} /\ web'[q].loaded = FALSE
  BY <1>1 DEF Lives, Becomes
<1>2. ASSUME NEW r \in DOMAIN runs' PROVE phase[runs'[r].panel] \in {"open", "closed"}
  BY DEF Lives
<1>3. \A q \in dialogs' : phase[q] = "open"
  BY DEF Lives
<1>4. QED
  BY <1>1, <1>2, <1>3 DEF Lives

LEMMA RegistrationKept ==
  ASSUME TypeOK, Registration, SameRuns,
         \A r \in DOMAIN runs : phase'[runs[r].panel] = "open" =>
           /\ phase[runs[r].panel] = "open"
           /\ host'[runs[r].panel].inFlight = host[runs[r].panel].inFlight
  PROVE  Registration'
<1>1. ASSUME NEW q \in DOMAIN runs', NEW r \in DOMAIN runs',
             q < r, runs'[q].panel = runs'[r].panel, runs'[q].id = runs'[r].id,
             runs'[q].at = "running"
      PROVE  runs'[r].again
  <2>1. runs[r].again
    BY <1>1 DEF Registration, SameRuns
  <2>2. runs'[r].again = runs[r].again
    BY DEF SameRuns
  <2>3. QED
    BY <2>1, <2>2
<1>2. ASSUME NEW r \in DOMAIN runs', runs'[r].at = "running", phase'[runs'[r].panel] = "open",
             r \notin host'[runs'[r].panel].inFlight
      PROVE  \E q \in DOMAIN runs' : /\ runs'[q].panel = runs'[r].panel
                                     /\ runs'[q].id = runs'[r].id /\ runs'[q].again
  <2>1. PICK q \in DOMAIN runs : /\ runs[q].panel = runs[r].panel /\ runs[q].id = runs[r].id
                                /\ runs[q].again
    BY <1>2 DEF SameRuns, Registration, UnstoppableOnlyAfterResend
  <2>2. /\ runs'[q].panel = runs'[r].panel /\ runs'[q].id = runs'[r].id
        /\ runs'[q].again = runs[q].again /\ q \in DOMAIN runs'
    BY <2>1 DEF SameRuns
  <2>3. QED
    BY <2>1, <2>2
<1>3. QED
  BY <1>1, <1>2 DEF Registration, UnstoppableOnlyAfterResend

\* A request is run: it is registered in place of one of the same id.  If that one is
\* still running, the new one found it so.
LEMMA RegistrationSend ==
  ASSUME TypeOK, Lives, Registration, NEW p \in Panel, phase' = phase, phase[p] = "open",
         NEW h, NEW w, NEW u, NEW d, Becomes(p, h, w, u, d),
         NEW id, h.inFlight = Register(p, id, Len(runs) + 1),
         NEW x \in Runs, runs' = Append(runs, x), x.panel = p, x.id = id, x.at = "running",
         x.again = Running(p, id)
  PROVE  Registration'
<1>1. PICK old, new, n : old = runs /\ new = runs' /\ n = Len(old)
  OBVIOUS
<1>2. /\ n \in Nat /\ DOMAIN old = 1 .. n /\ DOMAIN new = 1 .. n + 1
      /\ new[n + 1] = x /\ \A r \in 1 .. n : new[r] = old[r]
  <2>1. PICK R : R = Runs
    OBVIOUS
  <2>2. old \in Seq(R) /\ x \in R
    BY <1>1, <2>1, TypeParts
  <2>3. QED
    BY <1>1, <2>2, AppendFacts
<1>3. ASSUME NEW q \in DOMAIN new, NEW r \in DOMAIN new,
             q < r, new[q].panel = new[r].panel, new[q].id = new[r].id, new[q].at = "running"
      PROVE  new[r].again
  <2>1. q \in 1 .. n
    BY <1>2, <1>3
  <2>2. CASE r = n + 1
    <3>1. new[r] = x /\ old[q].panel = p /\ old[q].id = id /\ old[q].at = "running"
      BY <1>2, <1>3, <2>1, <2>2
    <3>2. Running(p, id)
      BY <1>1, <1>2, <2>1, <3>1 DEF Running
    <3>3. QED
      BY <3>1, <3>2
  <2>3. CASE r \in 1 .. n
    <3>1. old[r].again
      BY <1>1, <1>2, <1>3, <2>1, <2>3 DEF Registration
    <3>2. new[r] = old[r]
      BY <1>2, <2>3
    <3>3. QED
      BY <3>1, <3>2
  <2>4. QED
    BY <1>2, <2>2, <2>3
<1>4. ASSUME NEW r \in DOMAIN new, new[r].at = "running", phase[new[r].panel] = "open",
             r \notin host'[new[r].panel].inFlight
      PROVE  \E q \in DOMAIN new : /\ new[q].panel = new[r].panel
                                   /\ new[q].id = new[r].id /\ new[q].again
  <2>1. new[r].panel \in Panel
    <3>1. new[r] \in Runs
      BY <1>1, <1>2, TypeParts
    <3>2. QED
      BY <3>1 DEF Runs
  <2>2. r \in 1 .. n
    <3>1. CASE r = n + 1
      <4>1. new[r].panel = p /\ host'[p] = h
        BY <1>2, <3>1 DEF Becomes
      <4>2. r \in h.inFlight
        BY <1>1, <3>1 DEF Register
      <4>3. QED
        BY <1>4, <4>1, <4>2
    <3>2. QED
      BY <1>2, <3>1
  <2>3. new[r] = old[r]
    BY <1>2, <2>2
  <2>4. CASE r \notin host[old[r].panel].inFlight
    <3>1. PICK q \in DOMAIN old : /\ old[q].panel = old[r].panel /\ old[q].id = old[r].id
                                 /\ old[q].again
      BY <1>1, <1>2, <1>4, <2>2, <2>3, <2>4 DEF Registration, UnstoppableOnlyAfterResend
    <3>2. q \in DOMAIN new /\ new[q] = old[q]
      BY <1>2, <3>1
    <3>3. QED
      BY <2>3, <3>1, <3>2
  <2>5. CASE r \in host[old[r].panel].inFlight
    <3>1. old[r].panel = p
      <4>1. CASE old[r].panel # p
        <5>1. host'[old[r].panel] = host[old[r].panel]
          BY <2>1, <2>3, <4>1 DEF Becomes
        <5>2. QED
          BY <1>4, <2>3, <2>5, <5>1
      <4>2. QED
        BY <4>1
    <3>2. host'[p] = h
      BY DEF Becomes
    <3>3. r \in Registered(p, id)
      BY <1>4, <2>3, <2>5, <3>1, <3>2 DEF Register
    <3>4. old[r].id = id /\ old[r].at = "running"
      BY <1>1, <1>4, <2>3, <3>3 DEF Registered
    <3>5. Running(p, id)
      BY <1>1, <1>2, <2>2, <3>1, <3>4 DEF Running
    <3>6. new[n + 1].again /\ new[n + 1].panel = p /\ new[n + 1].id = id /\ n + 1 \in DOMAIN new
      <4>1. x.again
        BY <3>5
      <4>2. new[n + 1] = x /\ n + 1 \in DOMAIN new
        BY <1>2
      <4>3. QED
        BY <4>1, <4>2
    <3>7. QED
      BY <2>3, <3>1, <3>4, <3>6
  <2>6. QED
    BY <2>4, <2>5
<1>5. QED
  BY <1>1, <1>3, <1>4 DEF Registration, UnstoppableOnlyAfterResend

\* A request settles: the one it takes out of the map with it, if still running, is a
\* second one of its id.
LEMMA RegistrationSettle ==
  ASSUME TypeOK, Registration, NEW r \in DOMAIN runs, SettledRuns(r), phase' = phase,
         runs[r].at = "running",
         NEW p \in Panel, p = runs[r].panel,
         NEW h, NEW w, NEW u, NEW d, Becomes(p, h, w, u, d),
         h.inFlight = Unregister(p, runs[r].id)
  PROVE  Registration'
<1>1. PICK old, new : old = runs /\ new = runs'
  OBVIOUS
<1>2. /\ DOMAIN new = DOMAIN old /\ new[r].at = "settled"
      /\ \A q \in DOMAIN old : /\ new[q].panel = old[q].panel /\ new[q].id = old[q].id
                               /\ new[q].again = old[q].again
                               /\ q # r => new[q].at = old[q].at
  BY <1>1 DEF SettledRuns
<1>3. \A q \in DOMAIN old : q \in Nat /\ old[q].panel \in Panel
  <2>1. old \in Seq(Runs)
    BY <1>1, TypeParts
  <2>2. \A q \in DOMAIN old : old[q] \in Runs /\ q \in Nat
    BY <2>1
  <2>3. \A x \in Runs : x.panel \in Panel
    BY DEF Runs
  <2>4. QED
    BY <2>2, <2>3
<1>4. ASSUME NEW a \in DOMAIN new, NEW b \in DOMAIN new,
             a < b, new[a].panel = new[b].panel, new[a].id = new[b].id, new[a].at = "running"
      PROVE  new[b].again
  <2>1. a # r
    BY <1>2, <1>4
  <2>2. old[b].again
    BY <1>1, <1>2, <1>4, <2>1 DEF Registration
  <2>3. new[b].again = old[b].again
    BY <1>2
  <2>4. QED
    BY <2>2, <2>3
<1>5. ASSUME NEW k \in DOMAIN new, new[k].at = "running", phase[new[k].panel] = "open",
             k \notin host'[new[k].panel].inFlight
      PROVE  \E q \in DOMAIN new : /\ new[q].panel = new[k].panel
                                   /\ new[q].id = new[k].id /\ new[q].again
  <2>1. k # r /\ old[k].at = "running" /\ new[k].panel = old[k].panel /\ new[k].id = old[k].id
    BY <1>2, <1>5
  <2>2. SUFFICES \E q \in DOMAIN old : /\ old[q].panel = old[k].panel /\ old[q].id = old[k].id
                                       /\ old[q].again
    <3>1. PICK q \in DOMAIN old : /\ old[q].panel = old[k].panel /\ old[q].id = old[k].id
                                 /\ old[q].again
      BY <2>2
    <3>2. q \in DOMAIN new /\ new[q].panel = old[q].panel /\ new[q].id = old[q].id
          /\ new[q].again = old[q].again
      BY <1>2
    <3>3. QED
      BY <2>1, <3>1, <3>2
  <2>3. CASE k \notin host[old[k].panel].inFlight
    BY <1>1, <1>2, <1>5, <2>1, <2>3 DEF Registration, UnstoppableOnlyAfterResend
  <2>4. CASE k \in host[old[k].panel].inFlight
    <3>1. old[k].panel = p
      <4>1. CASE old[k].panel # p
        <5>1. host'[old[k].panel] = host[old[k].panel]
          BY <1>2, <1>3, <4>1 DEF Becomes
        <5>2. QED
          BY <1>5, <2>1, <2>4, <5>1
      <4>2. QED
        BY <4>1
    <3>2. host'[p] = h
      BY DEF Becomes
    <3>3. k \in Registered(p, old[r].id)
      BY <1>1, <1>5, <2>1, <2>4, <3>1, <3>2 DEF Unregister
    <3>4. old[k].id = old[r].id /\ old[k].panel = old[r].panel
      BY <1>1, <3>1, <3>3 DEF Registered
    <3>5. k \in Nat /\ r \in Nat /\ k \in DOMAIN old /\ r \in DOMAIN old /\ old[r].at = "running"
      BY <1>1, <1>2, <1>3
    <3>6. CASE k < r
      BY <1>1, <2>1, <3>4, <3>5, <3>6 DEF Registration
    <3>7. CASE r < k
      BY <1>1, <3>4, <3>5, <3>7 DEF Registration
    <3>8. QED
      BY <2>1, <3>5, <3>6, <3>7
  <2>5. QED
    BY <2>3, <2>4
<1>6. QED
  BY <1>1, <1>4, <1>5 DEF Registration, UnstoppableOnlyAfterResend

\* What the user and the webview do, and the end of an import: a step of an open panel
\* that leaves the host and its runs alone.
LEMMA WebviewSteps ==
  ASSUME TypeOK, Lives, NEW p \in Panel,
         UserStep(p) \/ Render(p) \/ WebMessage(p) \/ Import(p)
  PROVE  /\ phase[p] = "open" /\ dialogs' \subseteq dialogs \cup {p}
         /\ UNCHANGED <<disk, phase, host, runs>>
         /\ \E w, u, d : Becomes(p, host[p], w, u, d)
<1>1. CASE Edits(p)
  <2>1. CanEdit(p)
    BY <1>1, EditApplies
  <2>2. PICK next \in States : UserApplies(p, next)
    BY <1>1, EditApplies
  <2>3. \E w, u, d : Becomes(p, host[p], w, u, d)
    BY <2>2, AppliesShape
  <2>4. dialogs' \subseteq dialogs \cup {p} /\ UNCHANGED <<disk, phase, host, runs>>
    BY <2>2 DEF UserApplies
  <2>5. QED
    BY <2>1, <2>3, <2>4 DEF CanEdit
<1>2. CASE SendRequest(p)
  <2>1. \E w, u, d : Becomes(p, host[p], w, u, d)
    BY <1>2, SendShape
  <2>2. QED
    BY <1>2, <2>1 DEF SendRequest, CanEdit
<1>3. CASE CancelRequest(p)
  <2>1. \E w, u, d : Becomes(p, host[p], w, u, d)
    BY <1>3, CancelShape
  <2>2. QED
    BY <1>3, <2>1 DEF CancelRequest
<1>4. CASE AskImport(p)
  <2>1. \E w, u, d : Becomes(p, host[p], w, u, d)
    BY <1>4, AskShape
  <2>2. QED
    BY <1>4, <2>1 DEF AskImport
<1>5. CASE Render(p)
  <2>1. \E w, u, d : Becomes(p, host[p], w, u, d)
    BY <1>5, RenderShape
  <2>2. QED
    BY <1>5, <2>1 DEF Render
<1>6. CASE WebMessage(p)
  <2>1. \E w, u, d : Becomes(p, host[p], w, u, d)
    BY <1>6, WebMessageShape
  <2>2. QED
    BY <1>6, <2>1 DEF WebMessage
<1>7. CASE Import(p)
  <2>1. \E w, u, d : Becomes(p, host[p], w, u, d)
    BY <1>7, ImportShape
  <2>2. QED
    BY <1>7, <2>1 DEF Import, Lives
<1>8. QED
  BY <1>1, <1>2, <1>3, <1>4, <1>5, <1>6, <1>7 DEF UserStep, Edits

\* The host handles a message: the dialogs.
LEMMA HostDialogs ==
  ASSUME TypeOK, NEW p \in Panel, HostMessage(p)
  PROVE  dialogs' \subseteq dialogs \cup {p} /\ phase[p] = "open" /\ phase' = phase
<1>1. PICK n : n = Head(up[p])
  OBVIOUS
<1>2. n \in ToHost
  BY <1>1, PanelParts, TailFacts DEF HostMessage
<1>3. n.type \in {"ready", "persist", "send", "cancel", "pickImportFile"}
  BY <1>2 DEF ToHost
<1>4. QED
  BY <1>1, <1>3 DEF HostMessage

LEMMA NextLives == ASSUME TypeOK, Lives, Registration, [Next]_vars PROVE Lives' /\ Registration'
<1>1. ASSUME NEW p \in Panel, UserStep(p) \/ Render(p) \/ WebMessage(p) \/ Import(p)
      PROVE  Lives' /\ Registration'
  <2>1. /\ phase[p] = "open" /\ dialogs' \subseteq dialogs \cup {p}
        /\ UNCHANGED <<phase, host, runs>>
    BY <1>1, WebviewSteps
  <2>2. PICK w, u, d : Becomes(p, host[p], w, u, d)
    BY <1>1, WebviewSteps
  <2>3. SameRuns
    BY <2>1, KeptRuns
  <2>4. Lives'
    BY <2>1, <2>2, LivesStep
  <2>5. Registration'
    BY <2>1, <2>3, RegistrationKept
  <2>6. QED
    BY <2>4, <2>5
<1>2. ASSUME NEW p \in Panel, HostMessage(p) PROVE Lives' /\ Registration'
  <2>1. PICK m \in ToHost, h \in Hosts, d \in Seq(ToWeb) :
          Becomes(p, h, web[p], Tail(up[p]), d) /\ HostHandles(p, m, h, d)
    BY <1>2, HostMessageShape
  <2>2. phase[p] = "open" /\ phase' = phase /\ dialogs' \subseteq dialogs \cup {p}
    BY <1>2, HostDialogs
  <2>3. CASE m.type = "send"
    <3>1. PICK x \in Runs :
            /\ runs' = Append(runs, x) /\ x.panel = p /\ x.id = m.node.id /\ x.at = "running"
            /\ x.again = Running(p, m.node.id)
      BY <2>1, <2>3 DEF HostHandles
    <3>2. h.inFlight = Register(p, m.node.id, Len(runs) + 1)
      BY <2>1, <2>3 DEF HostHandles
    <3>3. Registration'
      BY <2>1, <2>2, <3>1, <3>2, RegistrationSend
    <3>4. \A r \in DOMAIN runs' : \/ runs'[r].panel = p
                                  \/ r \in DOMAIN runs /\ runs'[r].panel = runs[r].panel
      <4>1. PICK R, old : R = Runs /\ old = runs
        OBVIOUS
      <4>2. old \in Seq(R) /\ x \in R
        BY <4>1, TypeParts
      <4>3. /\ DOMAIN runs' = 1 .. Len(old) + 1 /\ runs'[Len(old) + 1] = x
            /\ \A r \in 1 .. Len(old) : runs'[r] = old[r]
        BY <3>1, <4>1, <4>2, AppendFacts
      <4>4. Len(old) \in Nat /\ DOMAIN old = 1 .. Len(old)
        BY <4>2
      <4>5. ASSUME NEW r \in DOMAIN runs'
            PROVE  runs'[r].panel = p \/ (r \in DOMAIN runs /\ runs'[r].panel = runs[r].panel)
        <5>1. CASE r = Len(old) + 1
          BY <3>1, <4>3, <5>1
        <5>2. CASE r \in 1 .. Len(old)
          BY <4>1, <4>3, <4>4, <5>2
        <5>3. QED
          BY <4>3, <4>4, <5>1, <5>2
      <4>6. QED
        BY <4>5
    <3>5. Lives'
      BY <2>1, <2>2, <3>4, LivesStep
    <3>6. QED
      BY <3>3, <3>5
  <2>4. CASE m.type # "send"
    <3>1. SameRuns /\ h.inFlight = host[p].inFlight
      BY <2>1, <2>4, KeptRuns DEF HostHandles
    <3>2. Lives'
      BY <2>1, <2>2, <3>1, LivesStep DEF SameRuns
    <3>3. \A q \in Panel : host'[q].inFlight = host[q].inFlight
      BY <2>1, <3>1 DEF Becomes
    <3>4. \A r \in DOMAIN runs : runs[r].panel \in Panel
      BY RunPanels
    <3>5. Registration'
      BY <2>2, <3>1, <3>3, <3>4, RegistrationKept
    <3>6. QED
      BY <3>2, <3>5
  <2>5. QED
    BY <2>3, <2>4
<1>3. ASSUME NEW r \in DOMAIN runs, RunSettles(r) PROVE Lives' /\ Registration'
  <2>1. PICK p \in Panel, h \in Hosts, d \in Seq(ToWeb) :
          /\ p = runs[r].panel /\ runs[r].at = "running"
          /\ Becomes(p, h, web[p], up[p], d) /\ h.inFlight = Unregister(p, runs[r].id)
          /\ SettledRuns(r)
    BY <1>3, SettleShape
  <2>2. UNCHANGED <<phase, dialogs>> /\ phase[p] \in {"open", "closed"}
    BY <1>3, <2>1 DEF RunSettles, Lives
  <2>3. Registration'
    BY <2>1, <2>2, RegistrationSettle
  <2>4. Lives'
    BY <2>1, <2>2, LivesStep DEF SettledRuns
  <2>5. QED
    BY <2>3, <2>4
<1>4. ASSUME NEW p \in Panel, Loaded(p) PROVE Lives' /\ Registration'
  <2>1. PICK h \in Hosts, m \in ToHost :
          Becomes(p, h, web[p], << m >>, down[p]) /\ h.inFlight = host[p].inFlight
    BY <1>4, LoadedShape
  <2>2. /\ UNCHANGED <<runs, dialogs>> /\ phase[p] = "loading"
        /\ phase' = [phase EXCEPT ![p] = "open"]
    BY <1>4 DEF Loaded
  <2>3. phase'[p] = "open" /\ \A q \in Panel : q # p => phase'[q] = phase[q]
    BY <2>2 DEF TypeOK
  <2>4. \A r \in DOMAIN runs : runs[r].panel \in Panel /\ runs[r].panel # p
    BY <2>2, RunPanels DEF Lives
  <2>5. Lives'
    <3>1. \A q \in Panel : phase'[q] \in {"none", "loading"} =>
            up'[q] = << >> /\ down'[q] = << >> /\ web'[q].busy = {} /\ web'[q].loaded = FALSE
      BY <2>1, <2>3 DEF Lives, Becomes
    <3>2. \A q \in dialogs : phase'[q] = "open"
      BY <2>3, TypeParts DEF Lives, FlowOK
    <3>3. \A r \in DOMAIN runs : phase'[runs[r].panel] \in {"open", "closed"}
      BY <2>3, <2>4 DEF Lives
    <3>4. QED
      BY <2>2, <3>1, <3>2, <3>3 DEF Lives
  <2>6. SameRuns
    BY <2>2, KeptRuns
  <2>7. \A q \in Panel : q # p => host'[q] = host[q]
    BY <2>1 DEF Becomes
  <2>8. Registration'
    BY <2>3, <2>4, <2>6, <2>7, RegistrationKept
  <2>9. QED
    BY <2>5, <2>8
<1>5. ASSUME NEW p \in Panel, Close(p) PROVE Lives' /\ Registration'
  <2>1. PICK h \in Hosts : Becomes(p, h, web[p], << >>, << >>)
    BY <1>5, CloseShape
  <2>2. SameRuns
    BY <1>5, CloseShape
  <2>3. dialogs' = dialogs \ {p} /\ phase' = [phase EXCEPT ![p] = "closed"]
    BY <1>5 DEF Close
  <2>4. phase'[p] = "closed" /\ \A q \in Panel : q # p => phase'[q] = phase[q]
    BY <2>3 DEF TypeOK
  <2>5. \A r \in DOMAIN runs : runs[r].panel \in Panel
    BY RunPanels
  <2>6. Lives'
    <3>1. \A q \in Panel : phase'[q] \in {"none", "loading"} =>
            up'[q] = << >> /\ down'[q] = << >> /\ web'[q].busy = {} /\ web'[q].loaded = FALSE
      BY <2>1, <2>4 DEF Lives, Becomes
    <3>2. \A q \in dialogs' : phase'[q] = "open"
      BY <2>3, <2>4, TypeParts DEF Lives, FlowOK
    <3>3. \A r \in DOMAIN runs' : phase'[runs'[r].panel] \in {"open", "closed"}
      BY <2>2, <2>4, <2>5 DEF Lives, SameRuns
    <3>4. QED
      BY <3>1, <3>2, <3>3 DEF Lives
  <2>7. \A q \in Panel : q # p => host'[q] = host[q]
    BY <2>1 DEF Becomes
  <2>8. Registration'
    <3>1. \A r \in DOMAIN runs : phase'[runs[r].panel] = "open" => runs[r].panel # p
      BY <2>4
    <3>2. QED
      BY <2>2, <2>4, <2>5, <2>7, <3>1, RegistrationKept
  <2>9. QED
    BY <2>6, <2>8
<1>6. CASE Open
  <2>1. PICK p \in Panel : phase[p] = "none" /\ phase' = [phase EXCEPT ![p] = "loading"]
    BY <1>6 DEF Open
  <2>2. phase'[p] = "loading" /\ \A q \in Panel : q # p => phase'[q] = phase[q]
    BY <2>1 DEF TypeOK
  <2>3. UNCHANGED <<host, web, up, down, runs, dialogs>>
    BY <1>6 DEF Open
  <2>4. \A r \in DOMAIN runs : runs[r].panel \in Panel /\ runs[r].panel # p
    BY <2>1, RunPanels DEF Lives
  <2>5. Lives'
    <3>1. \A q \in dialogs : q \in Panel /\ q # p
      BY <2>1, TypeParts DEF Lives, FlowOK
    <3>2. QED
      BY <2>1, <2>2, <2>3, <2>4, <3>1 DEF Lives
  <2>6. SameRuns
    BY <2>3, KeptRuns
  <2>7. Registration'
    BY <2>2, <2>3, <2>4, <2>6, RegistrationKept
  <2>8. QED
    BY <2>5, <2>7
<1>7. CASE (\E s \in saves : SaveStep(s)) \/ UNCHANGED vars
  <2>1. UNCHANGED <<phase, host, web, up, down, runs, dialogs>>
    BY <1>7 DEF SaveStep, Written, WriteFails, vars
  <2>2. SameRuns
    BY <2>1, KeptRuns
  <2>3. Registration'
    BY <2>1, <2>2, RegistrationKept
  <2>4. QED
    BY <2>1, <2>3 DEF Lives
<1>8. QED
  BY <1>1, <1>2, <1>3, <1>4, <1>5, <1>6, <1>7 DEF Next, PanelStep

\* Only a request sent again while the cancelled one still runs can leave one that
\* nothing stops: in every order of sends, cancels, answers and closed panels.
THEOREM UnstoppableIsResent == Spec => []UnstoppableOnlyAfterResend
<1>1. Init => TypeOK /\ Lives /\ Registration
  <2>1. Init => Lives
    BY DEF Init, Lives, NoWeb
  <2>2. Init => Registration
    BY DEF Init, Registration, UnstoppableOnlyAfterResend
  <2>3. QED
    BY <2>1, <2>2, InitTypes
<1>2. TypeOK /\ Lives /\ Registration /\ [Next]_vars => (TypeOK /\ Lives /\ Registration)'
  BY NextTypes, NextLives
<1>3. Registration => UnstoppableOnlyAfterResend
  BY DEF Registration
<1>4. QED
  BY <1>1, <1>2, <1>3, PTL DEF Spec

-----------------------------------------------------------------------------
(* A busy request has its answer ahead of it.                                 *)

Sends(u, id) == \E i \in DOMAIN u : u[i].type = "send" /\ u[i].node.id = id
Answers(d, id) ==
  \E i \in DOMAIN d : d[i].type \in {"httpResponse", "httpError"} /\ d[i].id = id

LEMMA SendsAppend ==
  ASSUME NEW u \in Seq(ToHost), NEW m \in ToHost, NEW id,
         Sends(u, id) \/ (m.type = "send" /\ m.node.id = id)
  PROVE  Sends(Append(u, m), id)
<1>1. PICK v : v = Append(u, m)
  OBVIOUS
<1>2. /\ Len(u) \in Nat /\ DOMAIN u = 1 .. Len(u)
      /\ DOMAIN v = 1 .. Len(u) + 1 /\ v[Len(u) + 1] = m
      /\ \A i \in 1 .. Len(u) : v[i] = u[i]
  BY <1>1, AppendFacts
<1>3. CASE Sends(u, id)
  <2>1. PICK i \in DOMAIN u : u[i].type = "send" /\ u[i].node.id = id
    BY <1>3 DEF Sends
  <2>2. i \in DOMAIN v /\ v[i] = u[i]
    BY <1>2, <2>1
  <2>3. QED
    BY <1>1, <2>1, <2>2 DEF Sends
<1>4. CASE m.type = "send" /\ m.node.id = id
  <2>1. Len(u) + 1 \in DOMAIN v /\ v[Len(u) + 1] = m
    BY <1>2
  <2>2. QED
    BY <1>1, <1>4, <2>1 DEF Sends
<1>5. QED
  BY <1>3, <1>4

LEMMA SendsTail ==
  ASSUME NEW u \in Seq(ToHost), u # << >>, NEW id, Sends(u, id)
  PROVE  Sends(Tail(u), id) \/ (u[1].type = "send" /\ u[1].node.id = id)
<1>1. PICK v : v = Tail(u)
  OBVIOUS
<1>2. /\ Len(u) \in Nat \ {0} /\ DOMAIN u = 1 .. Len(u) /\ DOMAIN v = 1 .. Len(u) - 1
      /\ \A i \in 1 .. Len(u) - 1 : v[i] = u[i + 1]
  BY <1>1, TailFacts
<1>3. PICK i \in DOMAIN u : u[i].type = "send" /\ u[i].node.id = id
  BY DEF Sends
<1>4. CASE i = 1
  BY <1>3, <1>4
<1>5. CASE i # 1
  <2>1. i - 1 \in DOMAIN v /\ v[i - 1] = u[i]
    BY <1>2, <1>3, <1>5
  <2>2. QED
    BY <1>1, <1>3, <2>1 DEF Sends
<1>6. QED
  BY <1>4, <1>5

LEMMA AnswersAppend ==
  ASSUME NEW d \in Seq(ToWeb), NEW n \in ToWeb, NEW id,
         Answers(d, id) \/ (n.type \in {"httpResponse", "httpError"} /\ n.id = id)
  PROVE  Answers(Append(d, n), id)
<1>1. PICK v : v = Append(d, n)
  OBVIOUS
<1>2. /\ Len(d) \in Nat /\ DOMAIN d = 1 .. Len(d)
      /\ DOMAIN v = 1 .. Len(d) + 1 /\ v[Len(d) + 1] = n
      /\ \A i \in 1 .. Len(d) : v[i] = d[i]
  BY <1>1, AppendFacts
<1>3. CASE Answers(d, id)
  <2>1. PICK i \in DOMAIN d : d[i].type \in {"httpResponse", "httpError"} /\ d[i].id = id
    BY <1>3 DEF Answers
  <2>2. i \in DOMAIN v /\ v[i] = d[i]
    BY <1>2, <2>1
  <2>3. QED
    BY <1>1, <2>1, <2>2 DEF Answers
<1>4. CASE n.type \in {"httpResponse", "httpError"} /\ n.id = id
  <2>1. Len(d) + 1 \in DOMAIN v /\ v[Len(d) + 1] = n
    BY <1>2
  <2>2. QED
    BY <1>1, <1>4, <2>1 DEF Answers
<1>5. QED
  BY <1>3, <1>4

LEMMA AnswersTail ==
  ASSUME NEW d \in Seq(ToWeb), d # << >>, NEW id, Answers(d, id)
  PROVE  \/ Answers(Tail(d), id)
         \/ d[1].type \in {"httpResponse", "httpError"} /\ d[1].id = id
<1>1. PICK v : v = Tail(d)
  OBVIOUS
<1>2. /\ Len(d) \in Nat \ {0} /\ DOMAIN d = 1 .. Len(d) /\ DOMAIN v = 1 .. Len(d) - 1
      /\ \A i \in 1 .. Len(d) - 1 : v[i] = d[i + 1]
  BY <1>1, TailFacts
<1>3. PICK i \in DOMAIN d : d[i].type \in {"httpResponse", "httpError"} /\ d[i].id = id
  BY DEF Answers
<1>4. CASE i = 1
  BY <1>3, <1>4
<1>5. CASE i # 1
  <2>1. i - 1 \in DOMAIN v /\ v[i - 1] = d[i]
    BY <1>2, <1>3, <1>5
  <2>2. QED
    BY <1>1, <1>3, <2>1 DEF Answers
<1>6. QED
  BY <1>4, <1>5

Ahead(p, id) == Sends(up[p], id) \/ Running(p, id) \/ Answers(down[p], id)

Attended == \A p \in Panel : phase[p] = "open" => \A id \in web[p].busy : Ahead(p, id)

LEMMA AttendedIsAnswered == Attended => BusyIsAnswered
  BY DEF Attended, Ahead, Sends, Running, Answers, BusyIsAnswered

LEMMA RunningKept ==
  ASSUME SameRuns, NEW p, NEW id, Running(p, id)
  PROVE  Running(p, id)'
  BY DEF SameRuns, Running

\* A step of one panel: its own busy requests need looking at.
LEMMA AttendedStep ==
  ASSUME Attended, NEW p \in Panel, NEW h, NEW w, NEW u, NEW d, Becomes(p, h, w, u, d),
         \A q \in Panel : q # p => phase'[q] = phase[q],
         \A q \in Panel : q # p => \A id : Running(q, id) => Running(q, id)',
         phase'[p] = "open" => \A id \in w.busy : Sends(u, id) \/ Running(p, id)' \/ Answers(d, id)
  PROVE  Attended'
<1> SUFFICES ASSUME NEW q \in Panel, phase'[q] = "open", NEW id \in web'[q].busy
             PROVE  Ahead(q, id)'
  BY DEF Attended
<1>1. CASE q = p
  <2>1. id \in w.busy /\ up'[q] = u /\ down'[q] = d
    BY <1>1 DEF Becomes
  <2>2. QED
    BY <1>1, <2>1 DEF Ahead
<1>2. CASE q # p
  <2>1. /\ web'[q] = web[q] /\ up'[q] = up[q] /\ down'[q] = down[q] /\ phase[q] = "open"
    BY <1>2 DEF Becomes
  <2>2. Ahead(q, id)
    BY <2>1 DEF Attended
  <2>3. QED
    BY <1>2, <2>1, <2>2 DEF Ahead
<1>3. QED
  BY <1>1, <1>2

LEMMA AttendedWebview ==
  ASSUME TypeOK, Lives, Attended, NEW p \in Panel,
         UserStep(p) \/ Render(p) \/ WebMessage(p) \/ Import(p)
  PROVE  Attended'
<1>1. /\ phase[p] = "open" /\ UNCHANGED <<phase, runs>>
  BY WebviewSteps
<1>2. \A q, id : Running(q, id) => Running(q, id)'
  BY <1>1 DEF Running
<1>3. up[p] \in Seq(ToHost) /\ down[p] \in Seq(ToWeb)
  BY PanelParts
<1>4. \A id \in web[p].busy : Ahead(p, id)
  BY <1>1 DEF Attended
<1>5. ASSUME NEW w, NEW u, NEW d, Becomes(p, host[p], w, u, d),
             \A id \in w.busy : Sends(u, id) \/ Running(p, id) \/ Answers(d, id)
      PROVE  Attended'
  BY <1>1, <1>2, <1>5, AttendedStep
<1>6. CASE Edits(p)
  <2>1. PICK next \in States : UserApplies(p, next)
    BY <1>6, EditApplies
  <2>2. PICK w \in Webs, m \in ToHost :
          Becomes(p, host[p], w, Append(up[p], m), down[p]) /\ w.busy = web[p].busy
    BY <2>1, AppliesShape
  <2>3. \A id \in w.busy : Sends(Append(up[p], m), id) \/ Running(p, id) \/ Answers(down[p], id)
    BY <1>3, <1>4, <2>2, SendsAppend DEF Ahead
  <2>4. QED
    BY <1>5, <2>2, <2>3
<1>7. CASE SendRequest(p)
  <2>1. PICK w \in Webs, m \in ToHost :
          /\ Becomes(p, host[p], w, Append(up[p], m), down[p])
          /\ m.type = "send" /\ w.busy = web[p].busy \cup {m.node.id}
    BY <1>7, SendShape
  <2>2. \A id \in w.busy : Sends(Append(up[p], m), id) \/ Running(p, id) \/ Answers(down[p], id)
    BY <1>3, <1>4, <2>1, SendsAppend DEF Ahead
  <2>3. QED
    BY <1>5, <2>1, <2>2
<1>8. CASE CancelRequest(p)
  <2>1. PICK w \in Webs, m \in ToHost :
          Becomes(p, host[p], w, Append(up[p], m), down[p]) /\ w.busy \subseteq web[p].busy
    BY <1>8, CancelShape
  <2>2. \A id \in w.busy : Sends(Append(up[p], m), id) \/ Running(p, id) \/ Answers(down[p], id)
    BY <1>3, <1>4, <2>1, SendsAppend DEF Ahead
  <2>3. QED
    BY <1>5, <2>1, <2>2
<1>9. CASE AskImport(p)
  <2>1. PICK u \in Seq(ToHost) :
          /\ Becomes(p, host[p], web[p], u, down[p])
          /\ u = up[p] \/ \E m \in ToHost : u = Append(up[p], m)
    BY <1>9, AskShape
  <2>2. \A id \in web[p].busy : Sends(u, id) \/ Running(p, id) \/ Answers(down[p], id)
    BY <1>3, <1>4, <2>1, SendsAppend DEF Ahead
  <2>3. QED
    BY <1>5, <2>1, <2>2
<1>10. CASE Render(p)
  <2>1. PICK w \in Webs :
          Becomes(p, host[p], w, up[p], down[p]) /\ w.busy = web[p].busy
    BY <1>10, RenderShape
  <2>2. QED
    BY <1>4, <1>5, <2>1 DEF Ahead
<1>11. CASE WebMessage(p)
  <2>1. PICK m \in ToWeb, w \in Webs, u \in Seq(ToHost) :
          /\ m = down[p][1] /\ down[p] # << >>
          /\ Becomes(p, host[p], w, u, Tail(down[p]))
          /\ WebHandles(p, m, w, u)
    BY <1>11, WebMessageShape
  <2>2. u = up[p] \/ \E n \in ToHost : u = Append(up[p], n)
    BY <2>1 DEF WebHandles
  <2>3. /\ w.busy \subseteq web[p].busy
        /\ m.type \in {"httpResponse", "httpError"} => m.id \notin w.busy
    BY <2>1 DEF WebHandles
  <2>4. ASSUME NEW id \in w.busy
        PROVE  Sends(u, id) \/ Running(p, id) \/ Answers(Tail(down[p]), id)
    <3>1. Ahead(p, id)
      BY <1>4, <2>3
    <3>2. Sends(up[p], id) => Sends(u, id)
      BY <1>3, <2>2, SendsAppend
    <3>3. Answers(down[p], id) => Answers(Tail(down[p]), id)
      BY <1>3, <2>1, <2>3, <2>4, AnswersTail
    <3>4. QED
      BY <3>1, <3>2, <3>3 DEF Ahead
  <2>5. QED
    BY <1>5, <2>1, <2>4
<1>12. CASE Import(p)
  <2>1. PICK d \in Seq(ToWeb) :
          /\ Becomes(p, host[p], web[p], up[p], d)
          /\ d = down[p] \/ \E n \in ToWeb : d = Append(down[p], n)
    BY <1>12, ImportShape
  <2>2. \A id \in web[p].busy : Sends(up[p], id) \/ Running(p, id) \/ Answers(d, id)
    BY <1>3, <1>4, <2>1, AnswersAppend DEF Ahead
  <2>3. QED
    BY <1>5, <2>1, <2>2
<1>13. QED
  BY <1>6, <1>7, <1>8, <1>9, <1>10, <1>11, <1>12 DEF UserStep, Edits

LEMMA AttendedHost ==
  ASSUME TypeOK, Lives, Attended, NEW p \in Panel, HostMessage(p)
  PROVE  Attended'
<1>1. PICK m \in ToHost, h \in Hosts, d \in Seq(ToWeb) :
        /\ m = up[p][1] /\ up[p] # << >>
        /\ Becomes(p, h, web[p], Tail(up[p]), d) /\ HostHandles(p, m, h, d)
  BY HostMessageShape
<1>2. phase[p] = "open" /\ phase' = phase
  BY HostDialogs
<1>3. up[p] \in Seq(ToHost) /\ down[p] \in Seq(ToWeb)
  BY PanelParts
<1>4. d = down[p] \/ \E n \in ToWeb : d = Append(down[p], n)
  BY <1>1 DEF HostHandles
<1>5. /\ \A q, id : Running(q, id) => Running(q, id)'
      /\ m.type = "send" => Running(p, m.node.id)'
  <2>1. CASE m.type = "send"
    <3>1. PICK x \in Runs :
            runs' = Append(runs, x) /\ x.panel = p /\ x.id = m.node.id /\ x.at = "running"
      BY <1>1, <2>1 DEF HostHandles
    <3>2. PICK R, old, new : R = Runs /\ old = runs /\ new = runs'
      OBVIOUS
    <3>3. old \in Seq(R) /\ x \in R
      BY <3>2, TypeParts
    <3>4. /\ DOMAIN new = 1 .. Len(old) + 1 /\ new[Len(old) + 1] = x
          /\ \A r \in 1 .. Len(old) : new[r] = old[r]
          /\ Len(old) \in Nat /\ DOMAIN old = 1 .. Len(old)
      BY <3>1, <3>2, <3>3, AppendFacts
    <3>5. \A r \in DOMAIN old : r \in DOMAIN new /\ new[r] = old[r]
      BY <3>4
    <3>6. \A q, id : Running(q, id) => Running(q, id)'
      BY <3>2, <3>5 DEF Running
    <3>7. Len(old) + 1 \in DOMAIN new
      BY <3>4
    <3>8. Running(p, m.node.id)'
      BY <3>1, <3>2, <3>4, <3>7 DEF Running
    <3>9. QED
      BY <3>6, <3>8
  <2>2. CASE m.type # "send"
    <3>1. SameRuns
      BY <1>1, <2>2, KeptRuns DEF HostHandles
    <3>2. QED
      BY <2>2, <3>1, RunningKept
  <2>3. QED
    BY <2>1, <2>2
<1>6. ASSUME NEW id \in web[p].busy
      PROVE  Sends(Tail(up[p]), id) \/ Running(p, id)' \/ Answers(d, id)
  <2>1. Ahead(p, id)
    BY <1>2 DEF Attended
  <2>2. Answers(down[p], id) => Answers(d, id)
    BY <1>3, <1>4, AnswersAppend
  <2>3. Sends(up[p], id) => Sends(Tail(up[p]), id) \/ Running(p, id)'
    BY <1>1, <1>3, <1>5, SendsTail
  <2>4. QED
    BY <1>5, <2>1, <2>2, <2>3 DEF Ahead
<1>7. QED
  BY <1>1, <1>2, <1>5, <1>6, AttendedStep

LEMMA AttendedSettles ==
  ASSUME TypeOK, Lives, Attended, NEW r \in DOMAIN runs, RunSettles(r)
  PROVE  Attended'
<1>1. PICK p \in Panel, h \in Hosts, d \in Seq(ToWeb) :
        /\ p = runs[r].panel /\ Becomes(p, h, web[p], up[p], d)
        /\ \/ phase[p] = "closed" /\ d = down[p]
           \/ \E n \in ToWeb : /\ d = Append(down[p], n) /\ n.id = runs[r].id
                               /\ n.type \in {"httpResponse", "httpError"}
        /\ SettledRuns(r)
  BY SettleShape
<1>2. phase' = phase /\ down[p] \in Seq(ToWeb)
  BY PanelParts DEF RunSettles
<1>3. ASSUME NEW q, NEW id, Running(q, id), q # p \/ id # runs[r].id
      PROVE  Running(q, id)'
  <2>1. PICK k \in DOMAIN runs : runs[k].panel = q /\ runs[k].id = id /\ runs[k].at = "running"
    BY <1>3 DEF Running
  <2>2. k # r
    BY <1>1, <1>3, <2>1
  <2>3. /\ k \in DOMAIN runs' /\ runs'[k].panel = q /\ runs'[k].id = id
        /\ runs'[k].at = "running"
    BY <1>1, <2>1, <2>2 DEF SettledRuns
  <2>4. QED
    BY <2>3 DEF Running
<1>4. ASSUME phase[p] = "open", NEW id \in web[p].busy
      PROVE  Sends(up[p], id) \/ Running(p, id)' \/ Answers(d, id)
  <2>1. Ahead(p, id)
    BY <1>4 DEF Attended
  <2>2. PICK n \in ToWeb : /\ d = Append(down[p], n) /\ n.id = runs[r].id
                          /\ n.type \in {"httpResponse", "httpError"}
    BY <1>1, <1>4
  <2>3. Answers(down[p], id) \/ id = runs[r].id => Answers(d, id)
    BY <1>2, <2>2, AnswersAppend
  <2>4. Running(p, id) => Running(p, id)' \/ id = runs[r].id
    BY <1>3
  <2>5. QED
    BY <2>1, <2>3, <2>4 DEF Ahead
<1>5. QED
  BY <1>1, <1>2, <1>3, <1>4, AttendedStep

LEMMA NextAttended == ASSUME TypeOK, Lives, Attended, [Next]_vars PROVE Attended'
<1>1. ASSUME NEW p \in Panel, Loaded(p) PROVE Attended'
  <2>1. PICK h \in Hosts, m \in ToHost : Becomes(p, h, web[p], << m >>, down[p])
    BY <1>1, LoadedShape
  <2>2. /\ UNCHANGED runs /\ phase[p] = "loading" /\ phase' = [phase EXCEPT ![p] = "open"]
    BY <1>1 DEF Loaded
  <2>3. \A q \in Panel : q # p => phase'[q] = phase[q]
    BY <2>2 DEF TypeOK
  <2>4. web[p].busy = {}
    BY <2>2 DEF Lives
  <2>5. \A q, id : Running(q, id) => Running(q, id)'
    BY <2>2 DEF Running
  <2>6. QED
    BY <2>1, <2>3, <2>4, <2>5, AttendedStep
<1>2. ASSUME NEW p \in Panel, Close(p) PROVE Attended'
  <2>1. PICK h \in Hosts : Becomes(p, h, web[p], << >>, << >>)
    BY <1>2, CloseShape
  <2>2. phase' = [phase EXCEPT ![p] = "closed"]
    BY <1>2 DEF Close
  <2>3. phase'[p] = "closed" /\ \A q \in Panel : q # p => phase'[q] = phase[q]
    BY <2>2 DEF TypeOK
  <2>4. \A q, id : Running(q, id) => Running(q, id)'
    BY <1>2, CloseShape, RunningKept
  <2>5. QED
    BY <2>1, <2>3, <2>4, AttendedStep
<1>3. CASE Open
  <2>1. PICK p \in Panel : phase' = [phase EXCEPT ![p] = "loading"]
    BY <1>3 DEF Open
  <2>2. phase'[p] = "loading" /\ \A q \in Panel : q # p => phase'[q] = phase[q]
    BY <2>1 DEF TypeOK
  <2>3. UNCHANGED <<web, up, down, runs>>
    BY <1>3 DEF Open
  <2>4. \A q \in Panel : phase'[q] = "open" => phase[q] = "open"
    BY <2>2
  <2>5. QED
    BY <2>3, <2>4 DEF Attended, Ahead, Running
<1>4. CASE (\E s \in saves : SaveStep(s)) \/ UNCHANGED vars
  <2>1. UNCHANGED <<phase, web, up, down, runs>>
    BY <1>4 DEF SaveStep, Written, WriteFails, vars
  <2>2. QED
    BY <2>1 DEF Attended, Ahead, Running
<1>5. QED
  BY <1>1, <1>2, <1>3, <1>4, AttendedWebview, AttendedHost, AttendedSettles
     DEF Next, PanelStep

\* Whatever is cancelled, sent again, edited, deleted or failed meanwhile, a busy request
\* of an open panel has its message, its run or its answer ahead of it.
THEOREM BusyGetsAnswered == Spec => []BusyIsAnswered
<1>1. Init => TypeOK /\ Lives /\ Registration /\ Attended
  <2>1. Init => Lives
    BY DEF Init, Lives, NoWeb
  <2>2. Init => Registration
    BY DEF Init, Registration, UnstoppableOnlyAfterResend
  <2>3. Init => Attended
    BY DEF Init, Attended
  <2>4. QED
    BY <2>1, <2>2, <2>3, InitTypes
<1>2. /\ TypeOK /\ Lives /\ Registration /\ Attended /\ [Next]_vars
      => (TypeOK /\ Lives /\ Registration /\ Attended)'
  BY NextTypes, NextLives, NextAttended
<1>3. QED
  BY <1>1, <1>2, AttendedIsAnswered, PTL DEF Spec

-----------------------------------------------------------------------------
(* The handshake: until init has been answered the webview edits nothing, and *)
(* then the host follows it, one message after the other.                    *)

Has(q, type) == \E i \in DOMAIN q : q[i].type = type

\* What the host holds once it has handled u, if it holds s now.
Brings(u, s, state) ==
  \/ s = state /\ ~Has(u, "persist")
  \/ \E i \in DOMAIN u : /\ u[i].type = "persist" /\ u[i].state = state
                         /\ \A j \in DOMAIN u : j > i => u[j].type # "persist"

Greets(u) == Has(u, "ready") /\ \A i \in DOMAIN u : u[i].type = "ready" => i = 1

Greeted(d, s) ==
  \E i \in DOMAIN d : /\ d[i].type = "init" /\ d[i].state = s
                      /\ \A j \in DOMAIN d : d[j].type = "init" => j = i

\* A host that holds s, its webview w, and the messages between them.
Handshake(s, w, u, d) ==
  \/ /\ w.loaded = TRUE /\ ~Has(u, "ready") /\ ~Has(d, "init")
     /\ Brings(u, s, w.state)
  \/ /\ w.loaded = FALSE /\ ~Has(u, "persist") /\ Greets(u) /\ ~Has(d, "init")
  \/ /\ w.loaded = FALSE /\ ~Has(u, "persist") /\ ~Has(u, "ready") /\ Greeted(d, s)

Synced ==
  "edited before init" \notin excuse =>
    \A p \in Panel : phase[p] = "open" => Handshake(host[p].state, web[p], up[p], down[p])

LEMMA HasAppend ==
  ASSUME NEW T, NEW q \in Seq(T), NEW m \in T, NEW type
  PROVE  Has(Append(q, m), type) <=> Has(q, type) \/ m.type = type
<1>1. PICK r : r = Append(q, m)
  OBVIOUS
<1>2. /\ DOMAIN r = 1 .. Len(q) + 1 /\ r[Len(q) + 1] = m
      /\ \A i \in 1 .. Len(q) : r[i] = q[i]
      /\ DOMAIN q = 1 .. Len(q) /\ Len(q) \in Nat
  BY <1>1, AppendFacts
<1>3. \A i \in DOMAIN q : i \in DOMAIN r /\ r[i] = q[i]
  BY <1>2
<1>4. \A i \in DOMAIN r : i = Len(q) + 1 \/ i \in DOMAIN q
  BY <1>2
<1>5. Len(q) + 1 \in DOMAIN r
  BY <1>2
<1>6. Has(r, type) <=> Has(q, type) \/ m.type = type
  BY <1>2, <1>3, <1>4, <1>5 DEF Has
<1>7. QED
  BY <1>1, <1>6

LEMMA HasTail ==
  ASSUME NEW T, NEW q \in Seq(T), q # << >>, NEW type
  PROVE  Has(q, type) <=> q[1].type = type \/ Has(Tail(q), type)
<1>1. PICK r : r = Tail(q)
  OBVIOUS
<1>2. /\ DOMAIN r = 1 .. Len(q) - 1 /\ \A i \in 1 .. Len(q) - 1 : r[i] = q[i + 1]
      /\ DOMAIN q = 1 .. Len(q) /\ Len(q) \in Nat \ {0}
  BY <1>1, TailFacts
<1>3. \A i \in DOMAIN r : i + 1 \in DOMAIN q /\ r[i] = q[i + 1]
  BY <1>2
<1>4. \A i \in DOMAIN q : i = 1 \/ (i - 1 \in DOMAIN r /\ r[i - 1] = q[i])
  BY <1>2
<1>5. 1 \in DOMAIN q
  BY <1>2
<1>6. Has(q, type) <=> q[1].type = type \/ Has(r, type)
  <2>1. Has(q, type) => q[1].type = type \/ Has(r, type)
    <3> SUFFICES ASSUME NEW i \in DOMAIN q, q[i].type = type
                 PROVE  q[1].type = type \/ Has(r, type)
      BY DEF Has
    <3>1. QED
      BY <1>4 DEF Has
  <2>2. Has(r, type) => Has(q, type)
    <3> SUFFICES ASSUME NEW i \in DOMAIN r, r[i].type = type
                 PROVE  Has(q, type)
      BY DEF Has
    <3>1. QED
      BY <1>3 DEF Has
  <2>3. q[1].type = type => Has(q, type)
    BY <1>5 DEF Has
  <2>4. QED
    BY <2>1, <2>2, <2>3
<1>7. QED
  BY <1>1, <1>6

LEMMA BringsAppend ==
  ASSUME NEW u \in Seq(ToHost), NEW m \in ToHost, NEW s, NEW state, Brings(u, s, state)
  PROVE  /\ m.type # "persist" => Brings(Append(u, m), s, state)
         /\ m.type = "persist" => Brings(Append(u, m), s, m.state)
<1>1. PICK r : r = Append(u, m)
  OBVIOUS
<1>2. /\ DOMAIN r = 1 .. Len(u) + 1 /\ r[Len(u) + 1] = m
      /\ \A i \in 1 .. Len(u) : r[i] = u[i]
      /\ DOMAIN u = 1 .. Len(u) /\ Len(u) \in Nat
  BY <1>1, AppendFacts
<1>3. m.type # "persist" => Brings(r, s, state)
  <2> HAVE m.type # "persist"
  <2>1. CASE s = state /\ ~Has(u, "persist")
    BY <1>1, <2>1, HasAppend DEF Brings
  <2>2. ASSUME NEW i \in DOMAIN u, u[i].type = "persist", u[i].state = state,
               \A j \in DOMAIN u : j > i => u[j].type # "persist"
        PROVE  Brings(r, s, state)
    <3>1. i \in DOMAIN r /\ r[i] = u[i]
      BY <1>2
    <3>2. \A j \in DOMAIN r : j > i => r[j].type # "persist"
      <4> SUFFICES ASSUME NEW j \in DOMAIN r, j > i PROVE r[j].type # "persist"
        OBVIOUS
      <4>1. j = Len(u) + 1 \/ (j \in DOMAIN u /\ r[j] = u[j])
        BY <1>2
      <4>2. QED
        BY <1>2, <2>2, <4>1
    <3>3. QED
      BY <2>2, <3>1, <3>2 DEF Brings
  <2>3. QED
    BY <2>1, <2>2 DEF Brings
<1>4. m.type = "persist" => Brings(r, s, m.state)
  <2> HAVE m.type = "persist"
  <2>1. Len(u) + 1 \in DOMAIN r /\ \A j \in DOMAIN r : ~(j > Len(u) + 1)
    BY <1>2
  <2>2. QED
    BY <1>2, <2>1 DEF Brings
<1>5. QED
  BY <1>1, <1>3, <1>4

LEMMA BringsTail ==
  ASSUME NEW u \in Seq(ToHost), u # << >>, NEW s, NEW state, Brings(u, s, state)
  PROVE  /\ u[1].type # "persist" => Brings(Tail(u), s, state)
         /\ u[1].type = "persist" => Brings(Tail(u), u[1].state, state)
<1>1. PICK r : r = Tail(u)
  OBVIOUS
<1>2. /\ DOMAIN r = 1 .. Len(u) - 1 /\ \A i \in 1 .. Len(u) - 1 : r[i] = u[i + 1]
      /\ DOMAIN u = 1 .. Len(u) /\ Len(u) \in Nat \ {0}
  BY <1>1, TailFacts
<1>3. Has(u, "persist") <=> u[1].type = "persist" \/ Has(r, "persist")
  BY <1>1, HasTail
<1>4. CASE s = state /\ ~Has(u, "persist")
  BY <1>1, <1>3, <1>4 DEF Brings
<1>5. ASSUME NEW i \in DOMAIN u, u[i].type = "persist", u[i].state = state,
             \A j \in DOMAIN u : j > i => u[j].type # "persist"
      PROVE  /\ u[1].type # "persist" => Brings(r, s, state)
             /\ u[1].type = "persist" => Brings(r, u[1].state, state)
  <2>1. CASE i = 1
    <3>1. ~Has(r, "persist")
      <4> SUFFICES ASSUME NEW j \in DOMAIN r, r[j].type = "persist" PROVE FALSE
        BY DEF Has
      <4>1. j + 1 \in DOMAIN u /\ j + 1 > 1 /\ r[j] = u[j + 1]
        BY <1>2
      <4>2. QED
        BY <1>5, <2>1, <4>1
    <3>2. QED
      BY <1>5, <2>1, <3>1 DEF Brings
  <2>2. CASE i # 1
    <3>1. i - 1 \in DOMAIN r /\ r[i - 1] = u[i]
      BY <1>2, <2>2
    <3>2. \A j \in DOMAIN r : j > i - 1 => r[j].type # "persist"
      <4> SUFFICES ASSUME NEW j \in DOMAIN r, j > i - 1 PROVE r[j].type # "persist"
        OBVIOUS
      <4>1. j + 1 \in DOMAIN u /\ j + 1 > i /\ r[j] = u[j + 1]
        BY <1>2
      <4>2. QED
        BY <1>5, <4>1
    <3>3. Brings(r, s, state) /\ Brings(r, u[1].state, state)
      BY <1>5, <3>1, <3>2 DEF Brings
    <3>4. QED
      BY <3>3
  <2>3. QED
    BY <2>1, <2>2
<1>6. QED
  BY <1>1, <1>4, <1>5 DEF Brings

LEMMA GreetsAppend ==
  ASSUME NEW u \in Seq(ToHost), NEW m \in ToHost, m.type # "ready", Greets(u)
  PROVE  Greets(Append(u, m))
<1>1. PICK r : r = Append(u, m)
  OBVIOUS
<1>2. /\ DOMAIN r = 1 .. Len(u) + 1 /\ r[Len(u) + 1] = m
      /\ \A i \in 1 .. Len(u) : r[i] = u[i]
      /\ DOMAIN u = 1 .. Len(u) /\ Len(u) \in Nat
  BY <1>1, AppendFacts
<1>3. \A i \in DOMAIN r : i = Len(u) + 1 \/ (i \in DOMAIN u /\ r[i] = u[i])
  BY <1>2
<1>4. \A i \in DOMAIN r : r[i].type = "ready" => i = 1
  BY <1>2, <1>3 DEF Greets
<1>5. Has(r, "ready")
  BY <1>1, HasAppend DEF Greets
<1>6. QED
  BY <1>1, <1>4, <1>5 DEF Greets

LEMMA GreetsTail ==
  ASSUME NEW u \in Seq(ToHost), u # << >>, Greets(u)
  PROVE  u[1].type = "ready" /\ ~Has(Tail(u), "ready")
<1>1. u[1].type = "ready"
  BY DEF Greets, Has
<1>2. PICK r : r = Tail(u)
  OBVIOUS
<1>3. /\ DOMAIN r = 1 .. Len(u) - 1 /\ \A i \in 1 .. Len(u) - 1 : r[i] = u[i + 1]
      /\ DOMAIN u = 1 .. Len(u) /\ Len(u) \in Nat \ {0}
  BY <1>2, TailFacts
<1>4. ~Has(r, "ready")
  <2> SUFFICES ASSUME NEW j \in DOMAIN r, r[j].type = "ready" PROVE FALSE
    BY DEF Has
  <2>1. j + 1 \in DOMAIN u /\ j + 1 # 1 /\ r[j] = u[j + 1]
    BY <1>3
  <2>2. QED
    BY <2>1 DEF Greets
<1>5. QED
  BY <1>1, <1>2, <1>4

LEMMA GreetedAppend ==
  ASSUME NEW d \in Seq(ToWeb), NEW m \in ToWeb, NEW s
  PROVE  /\ m.type # "init" /\ Greeted(d, s) => Greeted(Append(d, m), s)
         /\ m.type = "init" /\ ~Has(d, "init") => Greeted(Append(d, m), m.state)
<1>1. PICK r : r = Append(d, m)
  OBVIOUS
<1>2. /\ DOMAIN r = 1 .. Len(d) + 1 /\ r[Len(d) + 1] = m
      /\ \A i \in 1 .. Len(d) : r[i] = d[i]
      /\ DOMAIN d = 1 .. Len(d) /\ Len(d) \in Nat
  BY <1>1, AppendFacts
<1>3. \A i \in DOMAIN r : i = Len(d) + 1 \/ (i \in DOMAIN d /\ r[i] = d[i])
  BY <1>2
<1>4. ASSUME m.type # "init", NEW i \in DOMAIN d, d[i].type = "init", d[i].state = s,
             \A j \in DOMAIN d : d[j].type = "init" => j = i
      PROVE  Greeted(r, s)
  <2>1. i \in DOMAIN r /\ r[i] = d[i]
    BY <1>2
  <2>2. \A j \in DOMAIN r : r[j].type = "init" => j = i
    BY <1>2, <1>3, <1>4
  <2>3. QED
    BY <1>4, <2>1, <2>2 DEF Greeted
<1>5. ASSUME m.type = "init", ~Has(d, "init") PROVE Greeted(r, m.state)
  <2>1. \A j \in DOMAIN r : r[j].type = "init" => j = Len(d) + 1
    BY <1>3, <1>5 DEF Has
  <2>2. Len(d) + 1 \in DOMAIN r
    BY <1>2
  <2>3. QED
    BY <1>2, <1>5, <2>1, <2>2 DEF Greeted
<1>6. QED
  BY <1>1, <1>4, <1>5 DEF Greeted

LEMMA GreetedTail ==
  ASSUME NEW d \in Seq(ToWeb), d # << >>, NEW s, Greeted(d, s)
  PROVE  /\ d[1].type = "init" => d[1].state = s /\ ~Has(Tail(d), "init")
         /\ d[1].type # "init" => Greeted(Tail(d), s)
<1>1. PICK r : r = Tail(d)
  OBVIOUS
<1>2. /\ DOMAIN r = 1 .. Len(d) - 1 /\ \A i \in 1 .. Len(d) - 1 : r[i] = d[i + 1]
      /\ DOMAIN d = 1 .. Len(d) /\ Len(d) \in Nat \ {0}
  BY <1>1, TailFacts
<1>3. PICK i \in DOMAIN d : /\ d[i].type = "init" /\ d[i].state = s
                            /\ \A j \in DOMAIN d : d[j].type = "init" => j = i
  BY DEF Greeted
<1>4. \A j \in DOMAIN r : j + 1 \in DOMAIN d /\ r[j] = d[j + 1] /\ j + 1 # 1
  BY <1>2
<1>5. 1 \in DOMAIN d
  BY <1>2
<1>6. ASSUME d[1].type = "init" PROVE d[1].state = s /\ ~Has(r, "init")
  <2>1. i = 1
    BY <1>3, <1>5, <1>6
  <2>2. \A j \in DOMAIN r : r[j].type # "init"
    BY <1>3, <1>4, <2>1
  <2>3. QED
    BY <1>3, <2>1, <2>2 DEF Has
<1>7. ASSUME d[1].type # "init" PROVE Greeted(r, s)
  <2>1. i # 1
    BY <1>3, <1>7
  <2>2. i - 1 \in DOMAIN r /\ r[i - 1] = d[i]
    BY <1>2, <2>1
  <2>3. \A j \in DOMAIN r : r[j].type = "init" => j = i - 1
    <3> SUFFICES ASSUME NEW j \in DOMAIN r, r[j].type = "init" PROVE j = i - 1
      OBVIOUS
    <3>1. j + 1 = i
      BY <1>3, <1>4
    <3>2. QED
      BY <1>2, <3>1
  <2>4. QED
    BY <1>3, <2>2, <2>3 DEF Greeted
<1>8. QED
  BY <1>1, <1>6, <1>7

\* A step of one panel: its own handshake needs looking at.
LEMMA SyncedStep ==
  ASSUME Synced, NEW p \in Panel, NEW h, NEW w, NEW u, NEW d, Becomes(p, h, w, u, d),
         excuse \subseteq excuse', \A q \in Panel : q # p => phase'[q] = phase[q],
         ("edited before init" \notin excuse' /\ phase'[p] = "open") => Handshake(h.state, w, u, d)
  PROVE  Synced'
<1> SUFFICES ASSUME "edited before init" \notin excuse', NEW q \in Panel, phase'[q] = "open"
             PROVE  Handshake(host'[q].state, web'[q], up'[q], down'[q])
  BY DEF Synced
<1>1. CASE q = p
  <2>1. host'[q] = h /\ web'[q] = w /\ up'[q] = u /\ down'[q] = d
    BY <1>1 DEF Becomes
  <2>2. QED
    BY <1>1, <2>1
<1>2. CASE q # p
  <2>1. /\ host'[q] = host[q] /\ web'[q] = web[q] /\ up'[q] = up[q] /\ down'[q] = down[q]
        /\ phase[q] = "open"
    BY <1>2 DEF Becomes
  <2>2. "edited before init" \notin excuse
    OBVIOUS
  <2>3. QED
    BY <2>1, <2>2 DEF Synced
<1>3. QED
  BY <1>1, <1>2

\* A message that neither greets nor carries a state.
LEMMA HandshakeSent ==
  ASSUME TypeOK, NEW p \in Panel, NEW s, NEW w, NEW m \in ToHost,
         m.type \notin {"ready", "persist"}, w.state = web[p].state, w.loaded = web[p].loaded,
         Handshake(s, web[p], up[p], down[p])
  PROVE  Handshake(s, w, Append(up[p], m), down[p])
<1>1. up[p] \in Seq(ToHost)
  BY PanelParts
<1>2. PICK u : u = Append(up[p], m)
  OBVIOUS
<1>3. /\ Has(u, "ready") <=> Has(up[p], "ready")
      /\ Has(u, "persist") <=> Has(up[p], "persist")
  BY <1>1, <1>2, HasAppend
<1>4. \A state : Brings(up[p], s, state) => Brings(u, s, state)
  BY <1>1, <1>2, BringsAppend
<1>5. Greets(up[p]) => Greets(u)
  BY <1>1, <1>2, GreetsAppend
<1>6. Handshake(s, w, u, down[p])
  BY <1>3, <1>4, <1>5 DEF Handshake
<1>7. QED
  BY <1>2, <1>6

\* A change that is posted after init.
LEMMA HandshakePosted ==
  ASSUME TypeOK, NEW p \in Panel, NEW s, NEW w, NEW m \in ToHost, NEW d,
         m.type = "persist", m.state = w.state, web[p].loaded, w.loaded = web[p].loaded,
         Has(d, "init") => Has(down[p], "init"),
         Handshake(s, web[p], up[p], down[p])
  PROVE  Handshake(s, w, Append(up[p], m), d)
<1>1. up[p] \in Seq(ToHost)
  BY PanelParts
<1>2. PICK u : u = Append(up[p], m)
  OBVIOUS
<1>3. /\ web[p].loaded = TRUE /\ ~Has(up[p], "ready") /\ ~Has(down[p], "init")
      /\ Brings(up[p], s, web[p].state)
  BY DEF Handshake
<1>4. ~Has(u, "ready")
  BY <1>1, <1>2, <1>3, HasAppend
<1>5. Brings(u, s, w.state)
  BY <1>1, <1>2, <1>3, BringsAppend
<1>6. Handshake(s, w, u, d)
  BY <1>3, <1>4, <1>5 DEF Handshake
<1>7. QED
  BY <1>2, <1>6

\* A message to the webview other than init.
LEMMA HandshakeAnswered ==
  ASSUME TypeOK, NEW p \in Panel, NEW s, NEW n \in ToWeb, n.type # "init",
         Handshake(s, web[p], up[p], down[p])
  PROVE  Handshake(s, web[p], up[p], Append(down[p], n))
<1>1. down[p] \in Seq(ToWeb)
  BY PanelParts
<1>2. PICK d : d = Append(down[p], n)
  OBVIOUS
<1>3. Has(d, "init") <=> Has(down[p], "init")
  BY <1>1, <1>2, HasAppend
<1>4. Greeted(down[p], s) => Greeted(d, s)
  BY <1>1, <1>2, GreetedAppend
<1>5. Handshake(s, web[p], up[p], d)
  BY <1>3, <1>4 DEF Handshake
<1>6. QED
  BY <1>2, <1>5

LEMMA SyncedWebMessage ==
  ASSUME TypeOK, Synced, NEW p \in Panel, WebMessage(p)
  PROVE  Synced'
<1>1. PICK m \in ToWeb, w \in Webs, u \in Seq(ToHost) :
        /\ m = down[p][1] /\ down[p] # << >>
        /\ Becomes(p, host[p], w, u, Tail(down[p]))
        /\ WebHandles(p, m, w, u)
        /\ excuse' = excuse \/ excuse' = excuse \cup Posted(p)
  BY WebMessageShape
<1>2. phase[p] = "open" /\ phase' = phase
  BY DEF WebMessage
<1>3. down[p] \in Seq(ToWeb) /\ up[p] \in Seq(ToHost)
  BY PanelParts
<1>4. PICK s, d : s = host[p].state /\ d = Tail(down[p])
  OBVIOUS
<1>5. ASSUME "edited before init" \notin excuse' PROVE Handshake(s, w, u, d)
  <2>1. Handshake(s, web[p], up[p], down[p])
    BY <1>1, <1>2, <1>4, <1>5 DEF Synced
  <2>2. Has(down[p], "init") <=> m.type = "init" \/ Has(d, "init")
    BY <1>1, <1>3, <1>4, HasTail
  <2>3. Greeted(down[p], s) =>
          /\ m.type = "init" => m.state = s /\ ~Has(d, "init")
          /\ m.type # "init" => Greeted(d, s)
    BY <1>1, <1>3, <1>4, GreetedTail
  <2>4. CASE m.type = "init"
    <3>1. u = up[p] /\ w.state = m.state /\ w.loaded = TRUE
      BY <1>1, <2>4 DEF WebHandles
    <3>2. ~Has(up[p], "persist") /\ ~Has(up[p], "ready") /\ Greeted(down[p], s)
      BY <2>1, <2>2, <2>4 DEF Handshake
    <3>3. w.state = s /\ ~Has(d, "init")
      BY <2>3, <2>4, <3>1, <3>2
    <3>4. QED
      BY <3>1, <3>2, <3>3 DEF Handshake, Brings
  <2>5. CASE m.type \in {"httpError", "importError"}
    <3>1. u = up[p] /\ w.state = web[p].state /\ w.loaded = web[p].loaded
      BY <1>1, <2>5 DEF WebHandles
    <3>2. QED
      BY <2>1, <2>2, <2>3, <2>5, <3>1 DEF Handshake
  <2>6. CASE m.type \in {"httpResponse", "importResult"}
    <3>1. PICK n \in ToHost :
            /\ u = Append(up[p], n) /\ n.type = "persist" /\ n.state = w.state
            /\ w.loaded = web[p].loaded /\ excuse' = excuse \cup Posted(p)
      BY <1>1, <2>6 DEF WebHandles
    <3>2. web[p].loaded
      BY <1>5, <3>1 DEF Posted
    <3>3. QED
      BY <2>1, <2>2, <3>1, <3>2, HandshakePosted
  <2>7. m.type \in {"init", "httpResponse", "httpError", "importError", "importResult"}
    BY DEF ToWeb
  <2>8. QED
    BY <2>4, <2>5, <2>6, <2>7
<1>6. QED
  BY <1>1, <1>2, <1>4, <1>5, SyncedStep

LEMMA SyncedHostMessage ==
  ASSUME TypeOK, Synced, NEW p \in Panel, HostMessage(p)
  PROVE  Synced'
<1>1. PICK m \in ToHost, h \in Hosts, d \in Seq(ToWeb) :
        /\ m = up[p][1] /\ up[p] # << >>
        /\ Becomes(p, h, web[p], Tail(up[p]), d) /\ HostHandles(p, m, h, d)
  BY HostMessageShape
<1>2. phase[p] = "open" /\ phase' = phase /\ excuse' = excuse
  BY HostDialogs DEF HostMessage
<1>3. up[p] \in Seq(ToHost) /\ down[p] \in Seq(ToWeb)
  BY PanelParts
<1>4. PICK s, u : s = host[p].state /\ u = Tail(up[p])
  OBVIOUS
<1>5. ASSUME "edited before init" \notin excuse PROVE Handshake(h.state, web[p], u, d)
  <2>1. Handshake(s, web[p], up[p], down[p])
    BY <1>2, <1>4, <1>5 DEF Synced
  <2>2. \A type : Has(up[p], type) <=> m.type = type \/ Has(u, type)
    BY <1>1, <1>3, <1>4, HasTail
  <2>3. \A state : Brings(up[p], s, state) =>
          /\ m.type # "persist" => Brings(u, s, state)
          /\ m.type = "persist" => Brings(u, m.state, state)
    BY <1>1, <1>3, <1>4, BringsTail
  <2>4. Greets(up[p]) => m.type = "ready" /\ ~Has(u, "ready")
    BY <1>1, <1>3, <1>4, GreetsTail
  <2>5. CASE m.type = "ready"
    <3>1. h = host[p] /\ \E n \in ToWeb : d = Append(down[p], n) /\ n.type = "init" /\ n.state = s
      BY <1>1, <1>4, <2>5 DEF HostHandles
    <3>2. PICK n \in ToWeb : d = Append(down[p], n) /\ n.type = "init" /\ n.state = s
      BY <3>1
    <3>3. /\ web[p].loaded = FALSE /\ ~Has(up[p], "persist") /\ Greets(up[p])
          /\ ~Has(down[p], "init")
      BY <2>1, <2>2, <2>5 DEF Handshake
    <3>4. Greeted(d, s)
      BY <1>3, <3>2, <3>3, GreetedAppend
    <3>5. ~Has(u, "persist") /\ ~Has(u, "ready")
      BY <2>2, <2>4, <3>3
    <3>6. QED
      BY <1>4, <3>1, <3>3, <3>4, <3>5 DEF Handshake
  <2>6. CASE m.type = "persist"
    <3>1. h.state = m.state /\ d = down[p]
      BY <1>1, <2>6 DEF HostHandles
    <3>2. /\ web[p].loaded = TRUE /\ ~Has(up[p], "ready") /\ ~Has(down[p], "init")
          /\ Brings(up[p], s, web[p].state)
      BY <2>1, <2>2, <2>6 DEF Handshake
    <3>3. Brings(u, h.state, web[p].state) /\ ~Has(u, "ready")
      BY <2>2, <2>3, <2>6, <3>1, <3>2
    <3>4. QED
      BY <3>1, <3>2, <3>3 DEF Handshake
  <2>7. CASE m.type \notin {"ready", "persist"}
    <3>1. h.state = s /\ d = down[p]
      BY <1>1, <1>4, <2>7 DEF HostHandles
    <3>2. ~Greets(up[p])
      BY <2>4, <2>7
    <3>3. /\ \A state : Brings(up[p], s, state) => Brings(u, s, state)
          /\ Has(u, "ready") => Has(up[p], "ready")
          /\ Has(u, "persist") => Has(up[p], "persist")
      BY <2>2, <2>3, <2>7
    <3>4. QED
      BY <2>1, <3>1, <3>2, <3>3 DEF Handshake
  <2>8. QED
    BY <2>5, <2>6, <2>7
<1>6. QED
  BY <1>1, <1>2, <1>4, <1>5, SyncedStep

LEMMA SyncedUser ==
  ASSUME TypeOK, Lives, Synced, NEW p \in Panel, UserStep(p) \/ Render(p) \/ Import(p)
  PROVE  Synced'
<1>1. phase[p] = "open" /\ phase' = phase
  BY WebviewSteps
<1>2. PICK s : s = host[p].state
  OBVIOUS
<1>3. "edited before init" \notin excuse => Handshake(s, web[p], up[p], down[p])
  BY <1>1, <1>2 DEF Synced
<1>4. ASSUME NEW w, NEW u, NEW d, Becomes(p, host[p], w, u, d), excuse \subseteq excuse',
             "edited before init" \notin excuse' => Handshake(s, w, u, d)
      PROVE  Synced'
  BY <1>1, <1>2, <1>4, SyncedStep
<1>5. CASE Edits(p)
  <2>1. PICK next \in States : UserApplies(p, next)
    BY <1>5, EditApplies
  <2>2. PICK w \in Webs, m \in ToHost :
          /\ Becomes(p, host[p], w, Append(up[p], m), down[p])
          /\ w.state = next /\ w.loaded = web[p].loaded
          /\ m.type = "persist" /\ m.state = next
    BY <2>1, AppliesShape
  <2>3. excuse' = excuse \cup Posted(p)
    BY <2>1 DEF UserApplies
  <2>4. ASSUME "edited before init" \notin excuse'
        PROVE  Handshake(s, w, Append(up[p], m), down[p])
    <3>1. web[p].loaded /\ "edited before init" \notin excuse
      BY <2>3, <2>4 DEF Posted
    <3>2. QED
      BY <1>3, <2>2, <3>1, HandshakePosted
  <2>5. QED
    BY <1>4, <2>2, <2>3, <2>4
<1>6. CASE SendRequest(p)
  <2>1. PICK w \in Webs, m \in ToHost :
          /\ Becomes(p, host[p], w, Append(up[p], m), down[p])
          /\ w.state = web[p].state /\ w.loaded = web[p].loaded /\ m.type = "send"
    BY <1>6, SendShape
  <2>2. excuse' = excuse
    BY <1>6 DEF SendRequest
  <2>3. QED
    BY <1>3, <1>4, <2>1, <2>2, HandshakeSent
<1>7. CASE CancelRequest(p)
  <2>1. PICK w \in Webs, m \in ToHost :
          /\ Becomes(p, host[p], w, Append(up[p], m), down[p])
          /\ w.state = web[p].state /\ w.loaded = web[p].loaded /\ m.type = "cancel"
    BY <1>7, CancelShape
  <2>2. excuse' = excuse
    BY <1>7 DEF CancelRequest
  <2>3. QED
    BY <1>3, <1>4, <2>1, <2>2, HandshakeSent
<1>8. CASE AskImport(p)
  <2>1. PICK u \in Seq(ToHost) :
          /\ Becomes(p, host[p], web[p], u, down[p])
          /\ u = up[p] \/ \E m \in ToHost : u = Append(up[p], m) /\ m.type = "pickImportFile"
    BY <1>8, AskShape
  <2>2. excuse' = excuse
    BY <1>8 DEF AskImport
  <2>3. QED
    BY <1>3, <1>4, <2>1, <2>2, HandshakeSent
<1>9. CASE Render(p)
  <2>1. PICK w \in Webs :
          /\ Becomes(p, host[p], w, up[p], down[p])
          /\ w.state = web[p].state /\ w.loaded = web[p].loaded
    BY <1>9, RenderShape
  <2>2. excuse' = excuse
    BY <1>9 DEF Render
  <2>3. QED
    BY <1>3, <1>4, <2>1, <2>2 DEF Handshake
<1>10. CASE Import(p)
  <2>1. PICK d \in Seq(ToWeb) :
          /\ Becomes(p, host[p], web[p], up[p], d)
          /\ \/ d = down[p]
             \/ \E n \in ToWeb : /\ d = Append(down[p], n)
                                 /\ n.type \in {"importError", "importResult"}
    BY <1>10, ImportShape
  <2>2. excuse' = excuse
    BY <1>10 DEF Import
  <2>3. QED
    BY <1>3, <1>4, <2>1, <2>2, HandshakeAnswered
<1>11. QED
  BY <1>5, <1>6, <1>7, <1>8, <1>9, <1>10 DEF UserStep, Edits

LEMMA SyncedSettles ==
  ASSUME TypeOK, Synced, NEW r \in DOMAIN runs, RunSettles(r)
  PROVE  Synced'
<1>1. PICK p \in Panel, h \in Hosts, d \in Seq(ToWeb) :
        /\ Becomes(p, h, web[p], up[p], d) /\ h.state = host[p].state
        /\ \/ phase[p] = "closed" /\ d = down[p]
           \/ \E n \in ToWeb : d = Append(down[p], n) /\ n.type \in {"httpResponse", "httpError"}
  BY SettleShape
<1>2. phase' = phase /\ excuse' = excuse
  BY DEF RunSettles
<1>3. ASSUME "edited before init" \notin excuse, phase[p] = "open"
      PROVE  Handshake(h.state, web[p], up[p], d)
  <2>1. PICK n \in ToWeb : d = Append(down[p], n) /\ n.type \in {"httpResponse", "httpError"}
    BY <1>1, <1>3
  <2>2. Handshake(h.state, web[p], up[p], down[p])
    BY <1>1, <1>3 DEF Synced
  <2>3. QED
    BY <2>1, <2>2, HandshakeAnswered
<1>4. QED
  BY <1>1, <1>2, <1>3, SyncedStep

LEMMA NextSynced == ASSUME TypeOK, Lives, Synced, [Next]_vars PROVE Synced'
<1>1. ASSUME NEW p \in Panel, Loaded(p) PROVE Synced'
  <2>1. PICK h \in Hosts, m \in ToHost :
          /\ Becomes(p, h, web[p], << m >>, down[p]) /\ m.type = "ready"
    BY <1>1, LoadedShape
  <2>2. /\ phase[p] = "loading" /\ phase' = [phase EXCEPT ![p] = "open"]
        /\ excuse \subseteq excuse'
    BY <1>1 DEF Loaded
  <2>3. \A q \in Panel : q # p => phase'[q] = phase[q]
    BY <2>2 DEF TypeOK
  <2>4. down[p] = << >> /\ web[p].loaded = FALSE
    BY <2>2 DEF Lives
  <2>5. PICK u : u = << m >>
    OBVIOUS
  <2>6. DOMAIN u = {1} /\ u[1] = m
    BY <2>5
  <2>7. ~Has(down[p], "init")
    BY <2>4 DEF Has
  <2>8. Handshake(h.state, web[p], u, down[p])
    BY <2>1, <2>4, <2>6, <2>7 DEF Handshake, Greets, Has
  <2>9. QED
    BY <2>1, <2>2, <2>3, <2>5, <2>8, SyncedStep
<1>2. ASSUME NEW p \in Panel, Close(p) PROVE Synced'
  <2>1. PICK h \in Hosts : Becomes(p, h, web[p], << >>, << >>)
    BY <1>2, CloseShape
  <2>2. phase' = [phase EXCEPT ![p] = "closed"] /\ excuse' = excuse
    BY <1>2 DEF Close
  <2>3. phase'[p] = "closed" /\ \A q \in Panel : q # p => phase'[q] = phase[q]
    BY <2>2 DEF TypeOK
  <2>4. QED
    BY <2>1, <2>2, <2>3, SyncedStep
<1>3. CASE Open
  <2>1. PICK p \in Panel : phase' = [phase EXCEPT ![p] = "loading"]
    BY <1>3 DEF Open
  <2>2. phase'[p] = "loading" /\ \A q \in Panel : q # p => phase'[q] = phase[q]
    BY <2>1 DEF TypeOK
  <2>3. UNCHANGED <<host, web, up, down, excuse>>
    BY <1>3 DEF Open
  <2>4. \A q \in Panel : phase'[q] = "open" => phase[q] = "open"
    BY <2>2
  <2>5. QED
    BY <2>3, <2>4 DEF Synced
<1>4. CASE (\E s \in saves : SaveStep(s)) \/ UNCHANGED vars
  <2>1. UNCHANGED <<phase, host, web, up, down>> /\ excuse \subseteq excuse'
    BY <1>4 DEF SaveStep, Written, WriteFails, vars
  <2>2. "edited before init" \notin excuse' => "edited before init" \notin excuse
    BY <2>1
  <2>3. QED
    BY <2>1, <2>2 DEF Synced
<1>5. QED
  BY <1>1, <1>2, <1>3, <1>4, SyncedUser, SyncedWebMessage, SyncedHostMessage, SyncedSettles
     DEF Next, PanelStep

-----------------------------------------------------------------------------
(* The storage: unless something excuses it, there is one panel to write it, and *)
(* what is stored, or will be once the newest save has ended, is what it holds.  *)

Newest(s) == \A t \in saves : t.n <= s.n

Stored ==
  excuse = {} =>
    /\ \A p, q \in Panel : phase[p] = "open" /\ phase[q] = "open" => p = q
    /\ saves # {} => folder = TRUE
    /\ \A p \in Panel : phase[p] = "open" =>
         /\ saves = {} => Load = host[p].state
         /\ \A s \in saves : Newest(s) => s.state = host[p].state

\* What leaves the storage and the host's state alone, and opens no panel.
LEMMA StoredKept ==
  ASSUME Stored, UNCHANGED disk, excuse \subseteq excuse',
         \A p \in Panel : phase'[p] = "open" =>
           phase[p] = "open" /\ host'[p].state = host[p].state
  PROVE  Stored'
<1> SUFFICES ASSUME excuse' = {} PROVE Stored'
  BY DEF Stored
<1>1. excuse = {}
  OBVIOUS
<1>2. UNCHANGED <<folder, file, memento, saves>>
  BY DEF disk
<1>3. Load' = Load /\ \A s : Newest(s)' <=> Newest(s)
  BY <1>2 DEF Load, Newest
<1>4. QED
  BY <1>1, <1>2, <1>3 DEF Stored

LEMMA BecomesStates ==
  ASSUME NEW p \in Panel, NEW h, NEW w, NEW u, NEW d, Becomes(p, h, w, u, d),
         h.state = host[p].state
  PROVE  \A q \in Panel : host'[q].state = host[q].state
  BY DEF Becomes

LEMMA StoredLoaded ==
  ASSUME TypeOK, Stored, NEW p \in Panel, Loaded(p)
  PROVE  Stored'
<1> SUFFICES ASSUME excuse' = {} PROVE Stored'
  BY DEF Stored
<1>1. PICK h \in Hosts, m \in ToHost :
        Becomes(p, h, web[p], << m >>, down[p]) /\ h.state = Load
  BY LoadedShape
<1>2. saves = {} /\ \A q \in Panel \ {p} : phase[q] # "open"
  BY DEF Loaded
<1>3. phase' = [phase EXCEPT ![p] = "open"] /\ UNCHANGED <<folder, file, memento, saves>>
  BY DEF Loaded, disk
<1>4. \A q \in Panel : phase'[q] = "open" => q = p
  BY <1>2, <1>3 DEF TypeOK
<1>5. Load' = Load /\ host'[p] = h
  BY <1>1, <1>3 DEF Load, Becomes
<1>6. QED
  BY <1>1, <1>2, <1>3, <1>4, <1>5 DEF Stored

LEMMA StoredHostMessage ==
  ASSUME TypeOK, Stored, NEW p \in Panel, HostMessage(p)
  PROVE  Stored'
<1>1. PICK m \in ToHost, h \in Hosts, d \in Seq(ToWeb) :
        Becomes(p, h, web[p], Tail(up[p]), d) /\ HostHandles(p, m, h, d)
  BY HostMessageShape
<1>2. phase[p] = "open" /\ phase' = phase /\ excuse' = excuse
  BY HostDialogs DEF HostMessage
<1>3. CASE m.type # "persist"
  <2>1. h.state = host[p].state /\ UNCHANGED disk
    BY <1>1, <1>3 DEF HostHandles
  <2>2. \A q \in Panel : host'[q].state = host[q].state
    BY <1>1, <2>1, BecomesStates
  <2>3. QED
    BY <1>2, <2>1, <2>2, StoredKept
<1>4. CASE m.type = "persist"
  <2> SUFFICES ASSUME excuse = {} PROVE Stored'
    BY <1>2 DEF Stored
  <2>1. /\ h.state = m.state /\ m.state \in States /\ BeginSave(p, m.state)
        /\ UNCHANGED <<folder, file>>
    BY <1>1, <1>4 DEF HostHandles
  <2>2. \A q \in Panel : phase'[q] = "open" => q = p
    BY <1>2 DEF Stored
  <2>3. host'[p] = h
    BY <1>1 DEF Becomes
  <2>4. CASE folder = FALSE
    <3>1. saves = {}
      BY <2>4 DEF Stored
    <3>2. saves' = {} /\ memento' = m.state /\ folder' = FALSE
      BY <2>1, <2>4, <3>1 DEF BeginSave
    <3>3. memento' # None
      BY <2>1, <3>2, NoneIsMissing
    <3>4. Load' = m.state
      BY <3>2, <3>3 DEF Load
    <3>5. QED
      BY <2>1, <2>2, <2>3, <3>2, <3>4 DEF Stored
  <2>5. CASE folder = TRUE
    <3>1. PICK n, s : n = saved + 1 /\ s = [n |-> n, state |-> m.state]
      OBVIOUS
    <3>2. saves' = saves \cup {s} /\ folder' = TRUE
      BY <2>1, <2>5, <3>1 DEF BeginSave
    <3>3. saved \in Nat /\ DiskOK
      BY TypeParts
    <3>4. \A t \in saves : t.n \in 1 .. saved
      BY <3>3 DEF DiskOK
    <3>5. \A t \in saves : ~(n <= t.n)
      BY <3>1, <3>3, <3>4
    <3>6. s.n = n /\ s.state = m.state
      BY <3>1
    <3>7. \A t \in saves' : Newest(t)' => t = s
      <4> SUFFICES ASSUME NEW t \in saves', Newest(t)', t # s PROVE FALSE
        OBVIOUS
      <4>1. t \in saves /\ s.n <= t.n
        BY <3>2 DEF Newest
      <4>2. QED
        BY <3>5, <3>6, <4>1
    <3>8. saves' # {}
      BY <3>2
    <3>9. QED
      BY <2>1, <2>2, <2>3, <3>2, <3>6, <3>7, <3>8 DEF Stored
  <2>6. folder \in BOOLEAN
    BY DEF TypeOK
  <2>7. QED
    BY <2>4, <2>5, <2>6
<1>5. QED
  BY <1>3, <1>4

LEMMA StoredSave ==
  ASSUME TypeOK, Stored, NEW s \in saves, SaveStep(s)
  PROVE  Stored'
<1> SUFFICES ASSUME excuse' = {} PROVE Stored'
  BY DEF Stored
<1>1. Written(s)
  BY DEF SaveStep, WriteFails
<1>2. /\ saves' = saves \ {s} /\ file' = s.state /\ excuse = {}
      /\ UNCHANGED <<folder, memento, phase, host>>
  BY <1>1 DEF Written
<1>3. \A t \in saves : ~(t.n < s.n)
  BY <1>1 DEF Written
<1>4. DiskOK
  BY TypeParts
<1>5. /\ saved \in Nat /\ s.state \in States
      /\ \A t \in saves : t.n \in 1 .. saved
  BY <1>4 DEF DiskOK
<1>6. \A t \in saves : s.n <= t.n
  BY <1>3, <1>5
<1>7. folder' = TRUE
  BY <1>2 DEF Stored
<1>8. file' # None
  BY <1>2, <1>5, NoneIsMissing
<1>9. Load' = s.state
  BY <1>2, <1>7, <1>8 DEF Load
<1>10. ASSUME NEW p \in Panel, phase[p] = "open", saves' = {}
       PROVE  s.state = host[p].state
  <2>1. \A t \in saves : t = s
    BY <1>2, <1>10
  <2>2. Newest(s)
    BY <1>6, <2>1 DEF Newest
  <2>3. QED
    BY <1>2, <1>10, <2>2 DEF Stored
<1>11. ASSUME NEW p \in Panel, phase[p] = "open", NEW t \in saves', Newest(t)'
       PROVE  t.state = host[p].state
  <2>1. t \in saves /\ \A v \in saves \ {s} : v.n <= t.n
    BY <1>2, <1>11 DEF Newest
  <2>2. Newest(t)
    BY <1>6, <2>1 DEF Newest
  <2>3. QED
    BY <1>2, <1>11, <2>1, <2>2 DEF Stored
<1>12. \A p, q \in Panel : phase[p] = "open" /\ phase[q] = "open" => p = q
  BY <1>2 DEF Stored
<1>13. QED
  BY <1>2, <1>7, <1>9, <1>10, <1>11, <1>12 DEF Stored

LEMMA NextStored == ASSUME TypeOK, Lives, Stored, [Next]_vars PROVE Stored'
<1>1. ASSUME NEW p \in Panel, UserStep(p) \/ Render(p) \/ WebMessage(p) \/ Import(p)
      PROVE  Stored'
  <2>1. UNCHANGED <<disk, phase, host>>
    BY <1>1, WebviewSteps
  <2>2. excuse \subseteq excuse'
    <3>1. CASE Edits(p)
      <4>1. PICK next \in States : UserApplies(p, next)
        BY <3>1, EditApplies
      <4>2. QED
        BY <4>1 DEF UserApplies
    <3>2. CASE WebMessage(p)
      BY <3>2, WebMessageShape
    <3>3. CASE SendRequest(p) \/ CancelRequest(p) \/ AskImport(p) \/ Render(p) \/ Import(p)
      BY <3>3 DEF SendRequest, CancelRequest, AskImport, Render, Import
    <3>4. QED
      BY <1>1, <3>1, <3>2, <3>3 DEF UserStep, Edits
  <2>3. QED
    BY <2>1, <2>2, StoredKept
<1>2. ASSUME NEW p \in Panel, Close(p) PROVE Stored'
  <2>1. PICK h \in Hosts : Becomes(p, h, web[p], << >>, << >>) /\ h.state = host[p].state
    BY <1>2, CloseShape
  <2>2. phase' = [phase EXCEPT ![p] = "closed"] /\ excuse' = excuse /\ UNCHANGED disk
    BY <1>2 DEF Close
  <2>3. \A q \in Panel : phase'[q] = "open" => phase[q] = "open"
    BY <2>2 DEF TypeOK
  <2>4. \A q \in Panel : host'[q].state = host[q].state
    BY <2>1, BecomesStates
  <2>5. QED
    BY <2>2, <2>3, <2>4, StoredKept
<1>3. ASSUME NEW r \in DOMAIN runs, RunSettles(r) PROVE Stored'
  <2>1. PICK p \in Panel, h \in Hosts, d \in Seq(ToWeb) :
          Becomes(p, h, web[p], up[p], d) /\ h.state = host[p].state
    BY <1>3, SettleShape
  <2>2. phase' = phase /\ excuse' = excuse /\ UNCHANGED disk
    BY <1>3 DEF RunSettles
  <2>3. \A q \in Panel : host'[q].state = host[q].state
    BY <2>1, BecomesStates
  <2>4. QED
    BY <2>2, <2>3, StoredKept
<1>4. CASE Open
  <2>1. PICK p \in Panel : phase' = [phase EXCEPT ![p] = "loading"]
    BY <1>4 DEF Open
  <2>2. \A q \in Panel : phase'[q] = "open" => phase[q] = "open"
    BY <2>1 DEF TypeOK
  <2>3. UNCHANGED <<disk, host, excuse>>
    BY <1>4 DEF Open
  <2>4. QED
    BY <2>2, <2>3, StoredKept
<1>5. CASE UNCHANGED vars
  <2>1. UNCHANGED <<disk, phase, host, excuse>>
    BY <1>5 DEF vars, disk
  <2>2. QED
    BY <2>1, StoredKept
<1>6. QED
  BY <1>1, <1>2, <1>3, <1>4, <1>5, StoredLoaded, StoredHostMessage, StoredSave
     DEF Next, PanelStep

\* When its messages are handled, a webview that edited nothing before init shows what
\* its host holds; and when the saves have ended too, with nothing to excuse it, that is
\* what the next panel will load.
THEOREM CopiesAgree == Spec => []InStepWhenQuiet
<1>1. Init => TypeOK /\ Lives /\ Synced /\ Stored
  <2>1. Init => Lives
    BY DEF Init, Lives, NoWeb
  <2>2. Init => Synced /\ Stored
    BY DEF Init, Synced, Stored
  <2>3. QED
    BY <2>1, <2>2, InitTypes
<1>2. TypeOK /\ Lives /\ Registration /\ [Next]_vars => (Lives /\ Registration)'
  BY NextLives
<1>3. Init => Registration
  BY DEF Init, Registration, UnstoppableOnlyAfterResend
<1>4. TypeOK /\ Lives /\ Synced /\ Stored /\ [Next]_vars => (TypeOK /\ Synced /\ Stored)'
  BY NextTypes, NextSynced, NextStored
<1>5. Synced /\ Stored => InStepWhenQuiet
  <2> SUFFICES ASSUME Synced, Stored, NEW p \in Panel, Quiet(p)
               PROVE  /\ "edited before init" \notin excuse => web[p].state = host[p].state
                      /\ saves = {} /\ excuse = {} => Load = host[p].state
    BY DEF InStepWhenQuiet
  <2>1. phase[p] = "open" /\ up[p] = << >> /\ down[p] = << >>
    BY DEF Quiet
  <2>2. \A type : ~Has(up[p], type) /\ ~Has(down[p], type)
    BY <2>1 DEF Has
  <2>3. ASSUME "edited before init" \notin excuse PROVE web[p].state = host[p].state
    <3>1. Handshake(host[p].state, web[p], up[p], down[p])
      BY <2>1, <2>3 DEF Synced
    <3>2. ~Greets(up[p]) /\ ~Greeted(down[p], host[p].state)
      BY <2>2 DEF Greets, Greeted, Has
    <3>3. Brings(up[p], host[p].state, web[p].state)
      BY <3>1, <3>2 DEF Handshake
    <3>4. QED
      BY <2>2, <3>3 DEF Brings, Has
  <2>4. saves = {} /\ excuse = {} => Load = host[p].state
    BY <2>1 DEF Stored
  <2>5. QED
    BY <2>3, <2>4
<1>6. QED
  BY <1>1, <1>2, <1>3, <1>4, <1>5, PTL DEF Spec

-----------------------------------------------------------------------------
(* A change loses at most one node.  init, which may lose anything, comes once, *)
(* and a webview that is loaded has had it.                                    *)

Introduced(w, u, d) ==
  \/ w.loaded = TRUE /\ ~Has(u, "ready") /\ ~Has(d, "init")
  \/ w.loaded = FALSE /\ Greets(u) /\ ~Has(d, "init")
  \/ w.loaded = FALSE /\ ~Has(u, "ready") /\ \E s : Greeted(d, s)

Met == \A p \in Panel : phase[p] = "open" => Introduced(web[p], up[p], down[p])

LEMMA MetStep ==
  ASSUME Met, NEW p \in Panel, NEW h, NEW w, NEW u, NEW d, Becomes(p, h, w, u, d),
         \A q \in Panel : q # p => phase'[q] = phase[q],
         phase'[p] = "open" => Introduced(w, u, d)
  PROVE  Met'
<1> SUFFICES ASSUME NEW q \in Panel, phase'[q] = "open"
             PROVE  Introduced(web'[q], up'[q], down'[q])
  BY DEF Met
<1>1. CASE q = p
  <2>1. web'[q] = w /\ up'[q] = u /\ down'[q] = d
    BY <1>1 DEF Becomes
  <2>2. QED
    BY <1>1, <2>1
<1>2. CASE q # p
  <2>1. /\ web'[q] = web[q] /\ up'[q] = up[q] /\ down'[q] = down[q]
        /\ phase[q] = "open"
    BY <1>2 DEF Becomes
  <2>2. QED
    BY <2>1 DEF Met
<1>3. QED
  BY <1>1, <1>2

\* The webview posts something other than ready.
LEMMA IntroducedSent ==
  ASSUME NEW w, NEW u \in Seq(ToHost), NEW d, Introduced(w, u, d),
         NEW m \in ToHost, m.type # "ready"
  PROVE  Introduced(w, Append(u, m), d)
<1>1. PICK r : r = Append(u, m)
  OBVIOUS
<1>2. Has(r, "ready") <=> Has(u, "ready")
  BY <1>1, HasAppend
<1>3. Greets(u) => Greets(r)
  BY <1>1, GreetsAppend
<1>4. Introduced(w, r, d)
  BY <1>2, <1>3 DEF Introduced
<1>5. QED
  BY <1>1, <1>4

\* The host posts something other than init.
LEMMA IntroducedAnswered ==
  ASSUME NEW w, NEW u, NEW d \in Seq(ToWeb), Introduced(w, u, d),
         NEW n \in ToWeb, n.type # "init"
  PROVE  Introduced(w, u, Append(d, n))
<1>1. PICK r : r = Append(d, n)
  OBVIOUS
<1>2. Has(r, "init") <=> Has(d, "init")
  BY <1>1, HasAppend
<1>3. \A s : Greeted(d, s) => Greeted(r, s)
  BY <1>1, GreetedAppend
<1>4. Introduced(w, u, r)
  BY <1>2, <1>3 DEF Introduced
<1>5. QED
  BY <1>1, <1>4

LEMMA MetWebMessage ==
  ASSUME TypeOK, Met, NEW p \in Panel, WebMessage(p)
  PROVE  Met' /\ (web[p].loaded = TRUE => down[p][1].type # "init")
<1>1. PICK m \in ToWeb, w \in Webs, u \in Seq(ToHost) :
        /\ m = down[p][1] /\ down[p] # << >>
        /\ Becomes(p, host[p], w, u, Tail(down[p]))
        /\ WebHandles(p, m, w, u)
  BY WebMessageShape
<1>2. phase[p] = "open" /\ phase' = phase
  BY DEF WebMessage
<1>3. down[p] \in Seq(ToWeb) /\ up[p] \in Seq(ToHost)
  BY PanelParts
<1>4. PICK d : d = Tail(down[p])
  OBVIOUS
<1>5. Introduced(web[p], up[p], down[p])
  BY <1>2 DEF Met
<1>6. Has(down[p], "init") <=> m.type = "init" \/ Has(d, "init")
  BY <1>1, <1>3, <1>4, HasTail
<1>7. \A s : Greeted(down[p], s) =>
        /\ m.type = "init" => ~Has(d, "init")
        /\ m.type # "init" => Greeted(d, s)
  BY <1>1, <1>3, <1>4, GreetedTail
<1>8. CASE m.type = "init"
  <2>1. u = up[p] /\ w.loaded = TRUE
    BY <1>1, <1>8 DEF WebHandles
  <2>2. web[p].loaded = FALSE /\ ~Has(up[p], "ready") /\ \E s : Greeted(down[p], s)
    BY <1>5, <1>6, <1>8 DEF Introduced
  <2>3. ~Has(d, "init")
    BY <1>7, <1>8, <2>2
  <2>4. Introduced(w, u, d)
    BY <2>1, <2>2, <2>3 DEF Introduced
  <2>5. Met'
    BY <1>1, <1>2, <1>4, <2>4, MetStep
  <2>6. QED
    BY <2>2, <2>5
<1>9. CASE m.type # "init"
  <2>1. Introduced(web[p], up[p], d)
    BY <1>5, <1>6, <1>7, <1>9 DEF Introduced
  <2>2. /\ w.loaded = web[p].loaded
        /\ u = up[p] \/ \E n \in ToHost : u = Append(up[p], n) /\ n.type = "persist"
    BY <1>1, <1>9 DEF WebHandles
  <2>3. Introduced(w, u, d)
    <3>1. Introduced(w, up[p], d)
      BY <2>1, <2>2 DEF Introduced
    <3>2. ASSUME NEW n \in ToHost, u = Append(up[p], n), n.type = "persist"
          PROVE  Introduced(w, u, d)
      BY <1>3, <3>1, <3>2, IntroducedSent
    <3>3. QED
      BY <2>2, <3>1, <3>2
  <2>4. Met'
    BY <1>1, <1>2, <1>4, <2>3, MetStep
  <2>5. QED
    BY <1>1, <1>9, <2>4
<1>10. QED
  BY <1>8, <1>9

LEMMA MetHostMessage ==
  ASSUME TypeOK, Met, NEW p \in Panel, HostMessage(p)
  PROVE  Met'
<1>1. PICK m \in ToHost, h \in Hosts, d \in Seq(ToWeb) :
        /\ m = up[p][1] /\ up[p] # << >>
        /\ Becomes(p, h, web[p], Tail(up[p]), d) /\ HostHandles(p, m, h, d)
  BY HostMessageShape
<1>2. phase[p] = "open" /\ phase' = phase
  BY HostDialogs
<1>3. up[p] \in Seq(ToHost) /\ down[p] \in Seq(ToWeb)
  BY PanelParts
<1>4. PICK u : u = Tail(up[p])
  OBVIOUS
<1>5. Introduced(web[p], up[p], down[p])
  BY <1>2 DEF Met
<1>6. Has(up[p], "ready") <=> m.type = "ready" \/ Has(u, "ready")
  BY <1>1, <1>3, <1>4, HasTail
<1>7. Greets(up[p]) => m.type = "ready" /\ ~Has(u, "ready")
  BY <1>1, <1>3, <1>4, GreetsTail
<1>8. CASE m.type = "ready"
  <2>1. PICK n \in ToWeb : d = Append(down[p], n) /\ n.type = "init"
    BY <1>1, <1>8 DEF HostHandles
  <2>2. web[p].loaded = FALSE /\ Greets(up[p]) /\ ~Has(down[p], "init")
    BY <1>5, <1>6, <1>8 DEF Introduced
  <2>3. Greeted(d, n.state)
    BY <1>3, <2>1, <2>2, GreetedAppend
  <2>4. Introduced(web[p], u, d)
    BY <1>7, <2>2, <2>3 DEF Introduced
  <2>5. QED
    BY <1>1, <1>2, <1>4, <2>4, MetStep
<1>9. CASE m.type # "ready"
  <2>1. d = down[p]
    BY <1>1, <1>9 DEF HostHandles
  <2>2. Introduced(web[p], u, d)
    BY <1>5, <1>6, <1>7, <1>9, <2>1 DEF Introduced
  <2>3. QED
    BY <1>1, <1>2, <1>4, <2>2, MetStep
<1>10. QED
  BY <1>8, <1>9

LEMMA MetUser ==
  ASSUME TypeOK, Lives, Met, NEW p \in Panel, UserStep(p) \/ Render(p) \/ Import(p)
  PROVE  Met'
<1>1. phase[p] = "open" /\ phase' = phase
  BY WebviewSteps
<1>2. Introduced(web[p], up[p], down[p]) /\ up[p] \in Seq(ToHost) /\ down[p] \in Seq(ToWeb)
  BY <1>1, PanelParts DEF Met
<1>3. ASSUME NEW w, NEW u, Becomes(p, host[p], w, u, down[p]), w.loaded = web[p].loaded,
             u = up[p] \/ \E m \in ToHost : u = Append(up[p], m) /\ m.type # "ready"
      PROVE  Met'
  <2>1. Introduced(w, u, down[p])
    <3>1. Introduced(w, up[p], down[p])
      BY <1>2, <1>3 DEF Introduced
    <3>2. ASSUME NEW m \in ToHost, u = Append(up[p], m), m.type # "ready"
          PROVE  Introduced(w, u, down[p])
      BY <1>2, <3>1, <3>2, IntroducedSent
    <3>3. QED
      BY <1>3, <3>1, <3>2
  <2>2. QED
    BY <1>1, <1>3, <2>1, MetStep
<1>4. CASE Edits(p)
  <2>1. PICK next \in States : UserApplies(p, next)
    BY <1>4, EditApplies
  <2>2. PICK w \in Webs, m \in ToHost :
          /\ Becomes(p, host[p], w, Append(up[p], m), down[p])
          /\ w.loaded = web[p].loaded /\ m.type = "persist"
    BY <2>1, AppliesShape
  <2>3. QED
    BY <1>3, <2>2
<1>5. CASE SendRequest(p)
  <2>1. PICK w \in Webs, m \in ToHost :
          /\ Becomes(p, host[p], w, Append(up[p], m), down[p])
          /\ w.loaded = web[p].loaded /\ m.type = "send"
    BY <1>5, SendShape
  <2>2. QED
    BY <1>3, <2>1
<1>6. CASE CancelRequest(p)
  <2>1. PICK w \in Webs, m \in ToHost :
          /\ Becomes(p, host[p], w, Append(up[p], m), down[p])
          /\ w.loaded = web[p].loaded /\ m.type = "cancel"
    BY <1>6, CancelShape
  <2>2. QED
    BY <1>3, <2>1
<1>7. CASE AskImport(p)
  <2>1. PICK u \in Seq(ToHost) :
          /\ Becomes(p, host[p], web[p], u, down[p])
          /\ u = up[p] \/ \E m \in ToHost : u = Append(up[p], m) /\ m.type = "pickImportFile"
    BY <1>7, AskShape
  <2>2. QED
    BY <1>3, <2>1
<1>8. CASE Render(p)
  <2>1. PICK w \in Webs :
          /\ Becomes(p, host[p], w, up[p], down[p])
          /\ w.loaded = web[p].loaded
    BY <1>8, RenderShape
  <2>2. QED
    BY <1>3, <2>1
<1>9. CASE Import(p)
  <2>1. PICK d \in Seq(ToWeb) :
          /\ Becomes(p, host[p], web[p], up[p], d)
          /\ \/ d = down[p]
             \/ \E n \in ToWeb : /\ d = Append(down[p], n)
                                 /\ n.type \in {"importError", "importResult"}
    BY <1>9, ImportShape
  <2>2. Introduced(web[p], up[p], d)
    BY <1>2, <2>1, IntroducedAnswered
  <2>3. QED
    BY <1>1, <2>1, <2>2, MetStep
<1>10. QED
  BY <1>4, <1>5, <1>6, <1>7, <1>8, <1>9 DEF UserStep, Edits

LEMMA NextMet == ASSUME TypeOK, Lives, Met, [Next]_vars PROVE Met'
<1>1. ASSUME NEW p \in Panel, Loaded(p) PROVE Met'
  <2>1. PICK h \in Hosts, m \in ToHost :
          /\ Becomes(p, h, web[p], << m >>, down[p]) /\ m.type = "ready"
    BY <1>1, LoadedShape
  <2>2. phase[p] = "loading" /\ phase' = [phase EXCEPT ![p] = "open"]
    BY <1>1 DEF Loaded
  <2>3. \A q \in Panel : q # p => phase'[q] = phase[q]
    BY <2>2 DEF TypeOK
  <2>4. down[p] = << >> /\ web[p].loaded = FALSE
    BY <2>2 DEF Lives
  <2>5. PICK u : u = << m >>
    OBVIOUS
  <2>6. DOMAIN u = {1} /\ u[1] = m
    BY <2>5
  <2>7. ~Has(down[p], "init")
    BY <2>4 DEF Has
  <2>8. Introduced(web[p], u, down[p])
    BY <2>1, <2>4, <2>6, <2>7 DEF Introduced, Greets, Has
  <2>9. QED
    BY <2>1, <2>3, <2>5, <2>8, MetStep
<1>2. ASSUME NEW p \in Panel, Close(p) PROVE Met'
  <2>1. PICK h \in Hosts : Becomes(p, h, web[p], << >>, << >>)
    BY <1>2, CloseShape
  <2>2. phase' = [phase EXCEPT ![p] = "closed"]
    BY <1>2 DEF Close
  <2>3. phase'[p] = "closed" /\ \A q \in Panel : q # p => phase'[q] = phase[q]
    BY <2>2 DEF TypeOK
  <2>4. QED
    BY <2>1, <2>3, MetStep
<1>3. CASE Open
  <2>1. PICK p \in Panel : phase' = [phase EXCEPT ![p] = "loading"]
    BY <1>3 DEF Open
  <2>2. phase'[p] = "loading" /\ \A q \in Panel : q # p => phase'[q] = phase[q]
    BY <2>1 DEF TypeOK
  <2>3. UNCHANGED <<web, up, down>>
    BY <1>3 DEF Open
  <2>4. \A q \in Panel : phase'[q] = "open" => phase[q] = "open"
    BY <2>2
  <2>5. QED
    BY <2>3, <2>4 DEF Met
<1>4. CASE (\E s \in saves : SaveStep(s)) \/ UNCHANGED vars
  BY <1>4 DEF SaveStep, Written, WriteFails, vars, Met
<1>5. ASSUME NEW r \in DOMAIN runs, RunSettles(r) PROVE Met'
  <2>1. PICK p \in Panel, h \in Hosts, d \in Seq(ToWeb) :
          /\ Becomes(p, h, web[p], up[p], d)
          /\ \/ phase[p] = "closed" /\ d = down[p]
             \/ \E n \in ToWeb : d = Append(down[p], n) /\ n.type \in {"httpResponse", "httpError"}
    BY <1>5, SettleShape
  <2>2. phase' = phase
    BY <1>5 DEF RunSettles
  <2>3. phase[p] = "open" => Introduced(web[p], up[p], d)
    BY <2>1, PanelParts, IntroducedAnswered DEF Met
  <2>4. QED
    BY <2>1, <2>2, <2>3, MetStep
<1>6. QED
  BY <1>1, <1>2, <1>3, <1>4, <1>5, MetUser, MetWebMessage, MetHostMessage
     DEF Next, PanelStep
\* What the property asks of a change, part by part.
SparesNodes(old, new) ==
  \E id \in IdsIn(old) \cup {<< >>} : IdsIn(old) \ IdsIn(new) \subseteq Under(old, id)
SparesCollections(old, new) ==
  {old.collections[i].id : i \in DOMAIN old.collections}
    \subseteq {new.collections[i].id : i \in DOMAIN new.collections}
SparesHistory(old, new) == Entries(old) \subseteq Entries(new) \/ Len(new.history) = MaxHistory
Spares(old, new) ==
  SparesNodes(old, new) /\ SparesCollections(old, new) /\ SparesHistory(old, new)

\* Collection e is c, perhaps with more in it or something in it changed.
Covers(c, e) ==
  e.id = c.id /\ \A n \in ToSet(c.nodes) : \E o \in ToSet(e.nodes) : o.id = n.id

LEMMA CoveredIsSpared ==
  ASSUME NEW old, NEW new, old.history = new.history,
         \A i \in DOMAIN old.collections : \E j \in DOMAIN new.collections :
           Covers(old.collections[i], new.collections[j])
  PROVE  Spares(old, new)
<1>1. ASSUME NEW x \in IdsIn(old) PROVE x \in IdsIn(new)
  <2>1. PICK i \in DOMAIN old.collections : \E n \in ToSet(old.collections[i].nodes) : n.id = x
    BY <1>1 DEF IdsIn, Nodes
  <2>2. PICK j \in DOMAIN new.collections : Covers(old.collections[i], new.collections[j])
    OBVIOUS
  <2>3. \E o \in ToSet(new.collections[j].nodes) : o.id = x
    BY <2>1, <2>2 DEF Covers
  <2>4. QED
    BY <2>3 DEF IdsIn, Nodes
<1>2. SparesNodes(old, new)
  BY <1>1 DEF SparesNodes
<1>3. SparesCollections(old, new)
  <2>1. \A i \in DOMAIN old.collections : \E j \in DOMAIN new.collections :
          new.collections[j].id = old.collections[i].id
    BY DEF Covers
  <2>2. QED
    BY <2>1 DEF SparesCollections
<1>4. SparesHistory(old, new)
  BY DEF SparesHistory, Entries
<1>5. QED
  BY <1>2, <1>3, <1>4 DEF Spares

LEMMA CoversItself == ASSUME NEW c PROVE Covers(c, c)
  BY DEF Covers

LEMMA InsertKeeps ==
  ASSUME NEW T, NEW s \in Seq(T), NEW i \in 1 .. Len(s) + 1, NEW x \in T
  PROVE  ToSet(s) \subseteq ToSet(InsertAt(s, i, x))
<1>1. PICK a, b, r : /\ a = SubSeq(s, 1, i - 1) /\ b = SubSeq(s, i, Len(s))
                     /\ r = a \o <<x>> \o b
  OBVIOUS
<1>2. r = InsertAt(s, i, x)
  BY <1>1 DEF InsertAt
<1>3. /\ Len(a) = i - 1 /\ \A j \in 1 .. i - 1 : a[j] = s[j]
      /\ Len(b) = Len(s) - i + 1 /\ \A j \in 1 .. Len(s) - i + 1 : b[j] = s[j + i - 1]
      /\ a \in Seq(T) /\ b \in Seq(T)
  BY <1>1
<1>4. /\ Len(r) = Len(s) + 1 /\ DOMAIN r = 1 .. Len(s) + 1
      /\ \A j \in 1 .. i - 1 : r[j] = s[j]
      /\ \A j \in i .. Len(s) : r[j + 1] = s[j]
  <2>1. PICK front, k : front = a \o <<x>> /\ k = i - 1
    OBVIOUS
  <2>2. front \in Seq(T) /\ Len(front) = i /\ \A j \in 1 .. i - 1 : front[j] = s[j]
    BY <1>3, <2>1
  <2>3. r = front \o b /\ Len(r) = Len(s) + 1 /\ DOMAIN r = 1 .. Len(s) + 1
    <3>1. r = front \o b
      BY <1>1, <2>1
    <3>2. r \in Seq(T) /\ Len(r) = Len(front) + Len(b)
      <4>1. front \in Seq(T) /\ b \in Seq(T)
        BY <1>3, <2>2
      <4>2. QED
        BY <3>1, <4>1
    <3>3. Len(r) = Len(s) + 1
      BY <1>3, <2>2, <3>2
    <3>4. QED
      BY <3>1, <3>2, <3>3
  <2>4. \A j \in 1 .. i - 1 : r[j] = s[j]
    BY <1>3, <2>2, <2>3
  <2>5. ASSUME NEW j \in i .. Len(s) PROVE r[j + 1] = s[j]
    <3>1. j - i + 1 \in 1 .. Len(b) /\ b[j - i + 1] = s[j]
      <4>1. PICK n : n = j - i + 1
        OBVIOUS
      <4>2. Len(s) \in Nat /\ n \in 1 .. Len(s) - i + 1 /\ n + i - 1 = j
        BY <4>1
      <4>3. b[n] = s[n + i - 1] /\ Len(b) = Len(s) - i + 1
        BY <1>3, <4>2
      <4>4. QED
        BY <4>1, <4>2, <4>3
    <3>2. j + 1 \in Len(front) + 1 .. Len(front) + Len(b) /\ j + 1 - Len(front) = j - i + 1
      BY <1>3, <2>2
    <3>3. r[j + 1] = b[j + 1 - Len(front)]
      BY <1>3, <2>2, <2>3, <3>2
    <3>4. QED
      BY <3>1, <3>2, <3>3
  <2>6. QED
    BY <2>3, <2>4, <2>5
<1>5. DOMAIN s = 1 .. Len(s)
  OBVIOUS
<1>6. ASSUME NEW j \in DOMAIN s PROVE \E k \in DOMAIN r : r[k] = s[j]
  <2>1. CASE j < i
    BY <1>4, <1>5, <2>1
  <2>2. CASE j >= i
    <3>1. j + 1 \in DOMAIN r /\ r[j + 1] = s[j]
      BY <1>4, <1>5, <2>2
    <3>2. QED
      BY <3>1
  <2>3. QED
    BY <1>5, <2>1, <2>2
<1>7. ToSet(s) \subseteq ToSet(r)
  BY <1>6 DEF ToSet
<1>8. QED
  BY <1>2, <1>7

\* Every node is still there after AddToNodes.
LEMMA AddedKeeps ==
  ASSUME NEW nodes \in Seq(NodeSet), NEW inside \in Ids \cup {<< >>}, NEW node \in NodeSet
  PROVE  ToSet(nodes) \subseteq ToSet(AddToNodes(nodes, inside, node))
<1>1. CASE inside = << >>
  <2>1. PICK r : r = Append(nodes, node)
    OBVIOUS
  <2>2. \A j \in DOMAIN nodes : j \in DOMAIN r /\ r[j] = nodes[j]
    BY <2>1, AppendFacts
  <2>3. ToSet(nodes) \subseteq ToSet(r)
    BY <2>2 DEF ToSet
  <2>4. QED
    BY <1>1, <2>1, <2>3 DEF AddToNodes
<1>2. CASE inside # << >>
  <2> DEFINE own == {i \in DOMAIN nodes : nodes[i].kind = "folder" /\ nodes[i].id = inside}
             held == {i \in DOMAIN nodes : inside \in nodes[i].within}
             outer == UNION {nodes[i].within : i \in own}
  <2>1. AddToNodes(nodes, inside, node) =
          IF own = {} THEN nodes
          ELSE InsertAt(nodes, Max(own \cup held) + 1,
                        [node EXCEPT !.within = {inside} \cup outer])
    <3>1. AddToNodes(nodes, inside, node) = AddToFolder(nodes, inside, node)
      BY <1>2 DEF AddToNodes
    <3>2. AddToFolder(nodes, inside, node) =
            IF own = {} THEN nodes
            ELSE InsertAt(nodes, Max(own \cup held) + 1,
                          [node EXCEPT !.within = {inside} \cup outer])
      BY DEF AddToFolder
    <3>3. QED
      BY <3>1, <3>2, Zenon
  <2>2. own \in SUBSET (1 .. Len(nodes)) /\ held \in SUBSET (1 .. Len(nodes))
    OBVIOUS
  <2> HIDE DEF own, held, outer
  <2>3. CASE own = {}
    BY <2>1, <2>3
  <2>4. CASE own # {}
    <3>1. PICK places, n, last, T, new :
            /\ places = own \cup held /\ n = Len(nodes) /\ last = Max(places)
            /\ new = [node EXCEPT !.within = {inside} \cup outer]
            /\ T = NodeSet \cup {new}
      OBVIOUS
    <3>2. n \in Nat /\ places \in SUBSET (1 .. n) /\ places # {}
      BY <2>2, <2>4, <3>1
    <3>3. last \in 1 .. n
      BY <3>1, <3>2, Latest
    <3>4. NodeSet \subseteq T /\ new \in T
      BY <3>1
    <3>5. nodes \in Seq(T)
      BY <3>4
    <3>6. last + 1 \in 1 .. Len(nodes) + 1
      BY <3>1, <3>3
    <3>7. ToSet(nodes) \subseteq ToSet(InsertAt(nodes, last + 1, new))
      BY <3>4, <3>5, <3>6, InsertKeeps
    <3>8. QED
      BY <2>1, <2>4, <3>1, <3>7
  <2>5. QED
    BY <2>3, <2>4
<1>3. QED
  BY <1>1, <1>2

LEMMA AddCovers ==
  ASSUME NEW cs \in CollectionLists, NEW collection, NEW inside \in Ids \cup {<< >>},
         NEW node \in NodeSet, NEW new, new = AddNode(cs, collection, inside, node),
         NEW i \in DOMAIN cs
  PROVE  i \in DOMAIN new /\ Covers(cs[i], new[i])
<1>1. PICK c, nodes : c = cs[i] /\ nodes = c.nodes
  OBVIOUS
<1>2. c \in Coll /\ nodes \in Seq(NodeSet)
  BY <1>1, CollAt
<1>3. i \in DOMAIN new /\ new[i] = IF c.id # collection THEN c
                                   ELSE [c EXCEPT !.nodes = AddToNodes(nodes, inside, node)]
  BY <1>1 DEF AddNode
<1>4. CASE c.id # collection
  BY <1>1, <1>3, <1>4, CoversItself
<1>5. CASE c.id = collection
  <2>1. PICK added : added = AddToNodes(nodes, inside, node)
    OBVIOUS
  <2>2. ToSet(nodes) \subseteq ToSet(added)
    BY <1>2, <2>1, AddedKeeps
  <2>3. new[i].id = c.id /\ new[i].nodes = added
    BY <1>2, <1>3, <1>5, <2>1 DEF Coll
  <2>4. QED
    BY <1>1, <1>3, <2>2, <2>3 DEF Covers
<1>6. QED
  BY <1>4, <1>5

LEMMA ReplaceCovers ==
  ASSUME NEW cs \in CollectionLists, NEW node, NEW new, new = ReplaceRequestNode(cs, node),
         NEW i \in DOMAIN cs
  PROVE  i \in DOMAIN new /\ Covers(cs[i], new[i])
<1>1. PICK c, nodes, others : c = cs[i] /\ nodes = c.nodes /\ others = ReplaceInNodes(nodes, node)
  OBVIOUS
<1>2. c \in Coll
  BY <1>1, CollAt
<1>3. i \in DOMAIN new /\ new[i] = [c EXCEPT !.nodes = others]
  BY <1>1 DEF ReplaceRequestNode
<1>4. new[i].id = c.id /\ new[i].nodes = others
  BY <1>2, <1>3 DEF Coll
<1>5. DOMAIN others = DOMAIN nodes /\ \A j \in DOMAIN nodes : others[j].id = nodes[j].id
  BY <1>1 DEF ReplaceInNodes
<1>6. \A n \in ToSet(nodes) : \E o \in ToSet(others) : o.id = n.id
  BY <1>5 DEF ToSet
<1>7. QED
  BY <1>1, <1>3, <1>4, <1>6 DEF Covers

\* A removal loses the node of that id, or the nodes of that folder.
LEMMA RemoveSpares ==
  ASSUME NEW old \in States, NEW id \in IdsIn(old), NEW new,
         new = [old EXCEPT !.collections = RemoveNode(@, id)]
  PROVE  Spares(old, new)
<1>1. PICK cs, rest : cs = old.collections /\ rest = RemoveNode(cs, id)
  OBVIOUS
<1>2. cs \in CollectionLists /\ new.collections = rest /\ new.history = old.history
  BY <1>1, StateParts DEF States
<1>3. ASSUME NEW i \in DOMAIN cs
      PROVE  /\ i \in DOMAIN rest /\ rest[i].id = cs[i].id
             /\ \A n \in ToSet(cs[i].nodes) :
                  n.id = id \/ id \in n.within \/ n \in ToSet(rest[i].nodes)
  <2>1. PICK c, nodes, kept, S :
          /\ c = cs[i] /\ nodes = c.nodes /\ kept = RemoveFromNodes(nodes, id)
          /\ S = {n \in ToSet(nodes) : n.id # id /\ id \notin n.within}
    OBVIOUS
  <2>2. c \in Coll /\ nodes \in Seq(NodeSet)
    BY <1>2, <2>1, CollAt
  <2>3. i \in DOMAIN rest /\ rest[i] = [c EXCEPT !.nodes = kept]
    BY <1>1, <2>1 DEF RemoveNode
  <2>4. rest[i].id = c.id /\ rest[i].nodes = kept
    BY <2>2, <2>3 DEF Coll
  <2>5. kept = Filter(nodes, S) /\ kept \in Seq(NodeSet)
    BY <2>1, <2>2, FilterType DEF RemoveFromNodes
  <2>6. ASSUME NEW n \in ToSet(nodes), n.id # id, id \notin n.within
        PROVE  n \in ToSet(kept)
    <3>1. n \in S
      BY <2>1, <2>6
    <3>2. \E j \in 1 .. Len(nodes) : nodes[j] = n
      BY <2>2 DEF ToSet
    <3>3. \E j \in 1 .. Len(kept) : kept[j] = n
      BY <2>2, <2>5, <3>1, <3>2, FilterMembers
    <3>4. DOMAIN kept = 1 .. Len(kept)
      BY <2>5
    <3>5. QED
      BY <3>3, <3>4 DEF ToSet
  <2>7. QED
    BY <2>1, <2>3, <2>4, <2>6
<1>4. ASSUME NEW x \in IdsIn(old), x \notin IdsIn(new) PROVE x \in Under(old, id)
  <2>1. PICK i \in DOMAIN cs : \E n \in ToSet(cs[i].nodes) : n.id = x
    BY <1>1, <1>4 DEF IdsIn, Nodes
  <2>2. PICK n \in ToSet(cs[i].nodes) : n.id = x
    BY <2>1
  <2>3. n \notin ToSet(rest[i].nodes)
    BY <1>2, <1>3, <1>4, <2>2 DEF IdsIn, Nodes
  <2>4. n \in Nodes(old.collections)
    BY <1>1, <2>2 DEF Nodes
  <2>5. n.id = id \/ id \in n.within
    BY <1>3, <2>3
  <2>6. QED
    BY <2>2, <2>4, <2>5 DEF Under
<1>5. SparesNodes(old, new)
  BY <1>4 DEF SparesNodes
<1>6. SparesCollections(old, new)
  BY <1>1, <1>2, <1>3 DEF SparesCollections
<1>7. SparesHistory(old, new)
  BY <1>2 DEF SparesHistory, Entries
<1>8. QED
  BY <1>5, <1>6, <1>7 DEF Spares

LEMMA RecordSpares ==
  ASSUME NEW old \in States, NEW entry \in [run : Nat, of : SUBSET Nat], NEW new,
         new = RecordHistory(old, entry)
  PROVE  Spares(old, new)
<1>1. PICK H, h, all, n :
        /\ H = [run : Nat, of : SUBSET Nat] /\ h = old.history /\ all = <<entry>> \o h
        /\ n = IF Len(h) < MaxHistory THEN Len(h) + 1 ELSE MaxHistory
  OBVIOUS
<1>2. h \in Seq(H) /\ entry \in H
  BY <1>1, StateParts
<1>3. all \in Seq(H) /\ Len(all) = Len(h) + 1 /\ n \in 1 .. Len(all)
  BY <1>1, <1>2, ApiClientAssumption
<1>4. PICK cut : cut = SubSeq(all, 1, n)
  OBVIOUS
<1>5. new.history = cut /\ new.collections = old.collections
  BY <1>1, <1>4 DEF RecordHistory, States
<1>6. Len(cut) = n /\ DOMAIN cut = 1 .. n /\ \A i \in 1 .. n : cut[i] = all[i]
  BY <1>3, <1>4
<1>7. \A i \in 1 .. Len(h) : all[i + 1] = h[i]
  BY <1>1, <1>2
<1>8. SparesHistory(old, new)
  <2>1. CASE Len(h) < MaxHistory
    <3>1. n = Len(h) + 1 /\ DOMAIN h = 1 .. Len(h)
      BY <1>1, <1>2, <2>1
    <3>2. \A i \in DOMAIN h : i + 1 \in DOMAIN cut /\ cut[i + 1] = h[i]
      BY <1>2, <1>6, <1>7, <3>1
    <3>3. ToSet(h) \subseteq ToSet(cut)
      BY <3>2 DEF ToSet
    <3>4. QED
      BY <1>1, <1>5, <3>3 DEF SparesHistory, Entries
  <2>2. CASE ~(Len(h) < MaxHistory)
    BY <1>1, <1>5, <1>6, <2>2 DEF SparesHistory
  <2>3. QED
    BY <2>1, <2>2
<1>9. SparesNodes(old, new) /\ SparesCollections(old, new)
  BY <1>5 DEF SparesNodes, SparesCollections, IdsIn
<1>10. QED
  BY <1>8, <1>9 DEF Spares

\* One more collection, or more of them.
LEMMA MergeSpares ==
  ASSUME NEW old \in States, NEW cs \in CollectionLists, NEW new,
         new = MergeCollections(old, cs)
  PROVE  Spares(old, new)
<1>1. PICK C, list, all : C = Coll /\ list = old.collections /\ all = list \o cs
  OBVIOUS
<1>2. list \in Seq(C) /\ cs \in Seq(C)
  BY <1>1, StateParts DEF CollectionLists, Coll
<1>3. \A i \in DOMAIN list : i \in DOMAIN all /\ all[i] = list[i]
  BY <1>1, <1>2
<1>4. new.collections = all /\ new.history = old.history
  BY <1>1 DEF MergeCollections, States
<1>5. \A i \in DOMAIN list : i \in DOMAIN all /\ Covers(list[i], all[i])
  BY <1>3, CoversItself
<1>6. QED
  BY <1>1, <1>4, <1>5, CoveredIsSpared
LEMMA EditSpares ==
  ASSUME TypeOK, NEW p \in Panel, NEW q \in Panel, Edits(p), web[q].ref = web[q].state
  PROVE  web'[q].state = web[q].state \/ Spares(web[q].state, web'[q].state)
<1>1. PICK s, cs : s = web[p].ref /\ cs = s.collections
  OBVIOUS
<1>2. s \in States /\ cs \in CollectionLists
  BY <1>1, PanelParts, StateParts
<1>3. ops + 1 \in Nat
  <2>1. ops \in Nat
    BY Zenon DEF TypeOK
  <2>2. QED
    BY <2>1
<1>4. ASSUME NEW next, UserApplies(p, next), Spares(s, next)
      PROVE  web'[q].state = web[q].state \/ Spares(web[q].state, web'[q].state)
  <2>1. PICK v : v = web[p]
    OBVIOUS
  <2>2. v \in Webs
    BY <2>1, PanelParts
  <2>3. web' = [r \in Panel |-> IF r = p THEN [v EXCEPT !.state = next, !.ref = next] ELSE web[r]]
    BY <1>4, <2>1 DEF UserApplies, TypeOK
  <2>4. CASE q = p
    <3>1. web'[q] = [v EXCEPT !.state = next, !.ref = next]
      BY <2>3, <2>4
    <3>2. web'[q].state = next
      BY <2>2, <3>1 DEF Webs
    <3>3. QED
      BY <1>1, <1>4, <2>4, <3>2
  <2>5. CASE q # p
    BY <2>3, <2>5
  <2>6. QED
    BY <2>4, <2>5
<1>5. ASSUME NEW new, UserApplies(p, [s EXCEPT !.collections = new]),
             \A i \in DOMAIN cs : \E j \in DOMAIN new : Covers(cs[i], new[j])
      PROVE  web'[q].state = web[q].state \/ Spares(web[q].state, web'[q].state)
  <2>1. PICK next : next = [s EXCEPT !.collections = new]
    OBVIOUS
  <2>2. next.collections = new /\ next.history = s.history
    BY <1>2, <2>1 DEF States
  <2>3. Spares(s, next)
    BY <1>1, <1>5, <2>2, CoveredIsSpared
  <2>4. QED
    BY <1>4, <1>5, <2>1, <2>3
<1>6. CASE NewCollection(p)
  <2>1. PICK c, C, new : c = Collection(ops + 1, << >>) /\ C = Coll /\ new = Append(cs, c)
    OBVIOUS
  <2>2. << >> \in Seq(NodeSet)
    OBVIOUS
  <2>3. c \in C /\ cs \in Seq(C)
    BY <1>2, <1>3, <2>1, <2>2, CollectionType DEF CollectionLists, Coll
  <2>4. \A i \in DOMAIN cs : i \in DOMAIN new /\ new[i] = cs[i]
    BY <2>1, <2>3, AppendFacts
  <2>5. \A i \in DOMAIN cs : i \in DOMAIN new /\ Covers(cs[i], new[i])
    BY <2>4, CoversItself
  <2>6. UserApplies(p, [s EXCEPT !.collections = new])
    BY <1>1, <1>6, <2>1 DEF NewCollection
  <2>7. QED
    BY <1>5, <2>5, <2>6
<1>7. CASE Add(p)
  <2>1. PICK place \in Places(s), node \in {Request(ops + 1), Folder(ops + 1)} :
          UserApplies(p, [s EXCEPT !.collections = AddNode(cs, place[1], place[2], node)])
    BY <1>1, <1>7 DEF Add
  <2>2. node \in NodeSet
    BY <1>3, MadeTypes
  <2>3. place[2] \in Ids \cup {<< >>}
    BY <1>2, PlaceTypes
  <2>4. PICK new : new = AddNode(cs, place[1], place[2], node)
    OBVIOUS
  <2>5. \A i \in DOMAIN cs : i \in DOMAIN new /\ Covers(cs[i], new[i])
    BY <1>2, <2>2, <2>3, <2>4, AddCovers
  <2>6. QED
    BY <1>5, <2>1, <2>4, <2>5
<1>8. CASE DeleteNode(p)
  <2>1. PICK id \in IdsIn(s) : UserApplies(p, [s EXCEPT !.collections = RemoveNode(cs, id)])
    BY <1>1, <1>8 DEF DeleteNode
  <2>2. PICK next : next = [s EXCEPT !.collections = RemoveNode(@, id)]
    OBVIOUS
  <2>3. Spares(s, next)
    BY <1>2, <2>2, RemoveSpares
  <2>4. UserApplies(p, next)
    BY <1>1, <2>1, <2>2
  <2>5. QED
    BY <1>4, <2>3, <2>4
<1>9. CASE EditRequest(p)
  <2>1. PICK id, node :
          UserApplies(p, [s EXCEPT !.collections = ReplaceRequestNode(cs, node)])
    BY <1>1, <1>9 DEF EditRequest
  <2>2. PICK new : new = ReplaceRequestNode(cs, node)
    OBVIOUS
  <2>3. \A i \in DOMAIN cs : i \in DOMAIN new /\ Covers(cs[i], new[i])
    BY <1>2, <2>2, ReplaceCovers
  <2>4. QED
    BY <1>5, <2>1, <2>2, <2>3
<1>10. CASE SelectEnvironment(p)
  <2>1. PICK next : /\ next = [s EXCEPT !.env = IF @ = "none" THEN "env" ELSE "none"]
                    /\ UserApplies(p, next)
    BY <1>1, <1>10 DEF SelectEnvironment
  <2>2. next.collections = cs /\ next.history = s.history
    BY <1>1, <1>2, <2>1 DEF States
  <2>3. \A i \in DOMAIN cs : Covers(cs[i], cs[i])
    BY CoversItself
  <2>4. Spares(s, next)
    BY <1>1, <2>2, <2>3, CoveredIsSpared
  <2>5. QED
    BY <1>4, <2>1, <2>4
<1>11. QED
  BY <1>6, <1>7, <1>8, <1>9, <1>10 DEF Edits

LEMMA MessageSpares ==
  ASSUME TypeOK, Met, NEW p \in Panel, NEW q \in Panel, WebMessage(p),
         web[q].loaded = TRUE, web[q].ref = web[q].state
  PROVE  web'[q].state = web[q].state \/ Spares(web[q].state, web'[q].state)
<1>1. PICK m, v, s : m = Head(down[p]) /\ v = web[p] /\ s = v.ref
  OBVIOUS
<1>2. /\ m = down[p][1] /\ m \in ToWeb /\ v \in Webs /\ s \in States
  BY <1>1, PanelParts, TailFacts DEF WebMessage
<1>3. PICK w \in Webs, u \in Seq(ToHost) :
        Becomes(p, host[p], w, u, Tail(down[p])) /\ WebHandles(p, m, w, u)
  BY <1>2, WebMessageShape
<1>4. CASE q # p
  BY <1>3, <1>4 DEF Becomes
<1>5. CASE q = p
  <2>1. web'[q] = w
    BY <1>3, <1>5 DEF Becomes
  <2>2. m.type # "init"
    BY <1>2, <1>5, MetWebMessage
  <2>3. CASE m.type \in {"httpError", "importError"}
    <3>1. w.state = web[p].state
      BY <1>3, <2>3 DEF WebHandles
    <3>2. QED
      BY <1>5, <2>1, <3>1
  <2>4. ASSUME NEW next, NEW busy, MessageApplies(p, next, busy) PROVE w.state = next
    <3>1. web' = [r \in Panel |-> IF r = p THEN [v EXCEPT !.state = next, !.busy = busy] ELSE web[r]]
      BY <1>1, <2>4 DEF MessageApplies, TypeOK
    <3>2. w = [v EXCEPT !.state = next, !.busy = busy]
      BY <1>5, <2>1, <3>1
    <3>3. QED
      BY <1>2, <3>2 DEF Webs
  <2>5. CASE m.type = "httpResponse"
    <3>1. PICK entry, busy :
            /\ entry = [run |-> m.run, of |-> {n.http : n \in FindRequest(s.collections, m.id)}]
            /\ busy = v.busy \ {m.id}
      OBVIOUS
    <3>2. MessageApplies(p, RecordHistory(s, entry), busy)
      BY <1>1, <2>5, <3>1 DEF WebMessage
    <3>3. PICK next : next = RecordHistory(s, entry)
      OBVIOUS
    <3>4. Spares(s, next)
      <4>1. m.run \in Nat
        BY <1>2, <2>5 DEF ToWeb
      <4>2. {n.http : n \in FindRequest(s.collections, m.id)} \in SUBSET Nat
        <5>1. \A n \in FindRequest(s.collections, m.id) : n \in NodeSet
          BY <1>2, StateParts, FindType
        <5>2. \A n \in NodeSet : n.http \in Nat
          BY DEF NodeSet
        <5>3. QED
          BY <5>1, <5>2
      <4>3. entry \in [run : Nat, of : SUBSET Nat]
        BY <3>1, <4>1, <4>2
      <4>4. QED
        BY <1>2, <3>3, <4>3, RecordSpares
    <3>5. w.state = next
      BY <2>4, <3>2, <3>3
    <3>6. QED
      BY <1>1, <1>5, <2>1, <3>4, <3>5
  <2>6. CASE m.type = "importResult"
    <3>1. PICK next : next = MergeCollections(s, m.collections)
      OBVIOUS
    <3>2. MessageApplies(p, next, v.busy)
      BY <1>1, <2>6, <3>1 DEF WebMessage
    <3>3. m.collections \in CollectionLists
      BY <1>2, <2>6 DEF ToWeb
    <3>4. Spares(s, next)
      BY <1>2, <3>1, <3>3, MergeSpares
    <3>5. w.state = next
      BY <2>4, <3>2
    <3>6. QED
      BY <1>1, <1>5, <2>1, <3>4, <3>5
  <2>7. m.type \in {"init", "httpResponse", "httpError", "importError", "importResult"}
    BY <1>2 DEF ToWeb
  <2>8. QED
    BY <2>2, <2>3, <2>5, <2>6, <2>7
<1>6. QED
  BY <1>4, <1>5

\* The other steps leave the states of the webviews alone.
LEMMA OthersSpare ==
  ASSUME TypeOK, NEW q \in Panel, [Next]_vars,
         \A p \in Panel : ~Edits(p) /\ ~WebMessage(p)
  PROVE  web'[q].state = web[q].state
<1>1. ASSUME NEW p \in Panel, NEW w, NEW h, NEW u, NEW d, Becomes(p, h, w, u, d),
             w.state = web[p].state
      PROVE  web'[q].state = web[q].state
  BY <1>1 DEF Becomes
<1>2. ASSUME NEW p \in Panel, SendRequest(p) PROVE web'[q].state = web[q].state
  BY <1>1, <1>2, SendShape
<1>3. ASSUME NEW p \in Panel, CancelRequest(p) PROVE web'[q].state = web[q].state
  BY <1>1, <1>3, CancelShape
<1>4. ASSUME NEW p \in Panel, Render(p) PROVE web'[q].state = web[q].state
  BY <1>1, <1>4, RenderShape
<1>5. ASSUME NEW p \in Panel, Close(p) \/ AskImport(p) \/ Loaded(p) \/ HostMessage(p) \/ Import(p)
      PROVE  web'[q].state = web[q].state
  BY <1>5 DEF Close, AskImport, Loaded, HostMessage, Import
<1>6. ASSUME NEW r \in DOMAIN runs, RunSettles(r) PROVE web'[q].state = web[q].state
  BY <1>6 DEF RunSettles
<1>7. CASE Open \/ (\E s \in saves : SaveStep(s)) \/ UNCHANGED vars
  BY <1>7 DEF Open, SaveStep, Written, WriteFails, vars
<1>8. QED
  BY <1>2, <1>3, <1>4, <1>5, <1>6, <1>7 DEF Next, UserStep, PanelStep, Edits

\* Whatever the trees and the history, and however messages and edits interleave: a
\* change made on top of what is rendered loses at most one node with what is below it,
\* and of the history only what its cap demands.
THEOREM LosesOneNode == Spec => ChangesLoseOneNode
<1> DEFINE Change(p) ==
      (web[p].loaded /\ web[p].ref = web[p].state /\ web'[p].state # web[p].state) =>
        LET old == web[p].state
            new == web'[p].state
        IN /\ \E id \in IdsIn(old) \cup {<< >>} : IdsIn(old) \ IdsIn(new) \subseteq Under(old, id)
           /\ {old.collections[i].id : i \in DOMAIN old.collections}
                \subseteq {new.collections[i].id : i \in DOMAIN new.collections}
           /\ Entries(old) \subseteq Entries(new) \/ Len(new.history) = MaxHistory
<1>1. Init => TypeOK /\ Lives /\ Registration /\ Met
  <2>1. Init => Lives
    BY DEF Init, Lives, NoWeb
  <2>2. Init => Registration
    BY DEF Init, Registration, UnstoppableOnlyAfterResend
  <2>3. Init => Met
    BY DEF Init, Met
  <2>4. QED
    BY <2>1, <2>2, <2>3, InitTypes
<1>2. /\ TypeOK /\ Lives /\ Registration /\ Met /\ [Next]_vars
      => (TypeOK /\ Lives /\ Registration /\ Met)'
  BY NextTypes, NextLives, NextMet
<1>3. TypeOK /\ Met /\ [Next]_vars => \A p \in Panel : Change(p)
  <2> SUFFICES ASSUME TypeOK, Met, [Next]_vars, NEW q \in Panel,
                      web[q].loaded, web[q].ref = web[q].state, web'[q].state # web[q].state
               PROVE  Spares(web[q].state, web'[q].state)
    BY DEF Spares, SparesNodes, SparesCollections, SparesHistory
  <2>1. web[q].loaded = TRUE
    <3>1. web[q] \in Webs
      BY PanelParts
    <3>2. web[q].loaded \in BOOLEAN
      BY <3>1 DEF Webs
    <3>3. QED
      BY <3>2
  <2>2. PICK p \in Panel : Edits(p) \/ WebMessage(p)
    BY OthersSpare
  <2>3. QED
    BY <2>1, <2>2, EditSpares, MessageSpares
<1>4. TypeOK /\ Met /\ [Next]_vars => [\A p \in Panel : Change(p)]_vars
  BY <1>3
<1>5. QED
  BY <1>1, <1>2, <1>4, PTL DEF Spec, ChangesLoseOneNode

-----------------------------------------------------------------------------
(* The message: what a text is split into.                                   *)

\* The parts of a text, as its definition says, are texts of the same atoms.
LEMMA SplittingDef ==
  ASSUME NEW A, NEW text \in Seq(A), NEW sep
  PROVE  /\ \A n \in 0 .. Len(text) :
              Splitting(text, sep)[n] \in Seq(Seq(A)) /\ Len(Splitting(text, sep)[n]) >= 1
<1> DEFINE T == {p \in Seq(Seq(A)) : Len(p) >= 1}
    Step(p, n) == IF text[n] = sep THEN Append(p, << >>)
                  ELSE [p EXCEPT ![Len(p)] = Append(@, text[n])]
<1>0. PICK N, e : N = Len(text) /\ e = << << >> >>
  OBVIOUS
<1>1. N \in Nat /\ e \in T
  BY <1>0
<1>1a. ASSUME NEW n \in 1 .. N, NEW p \in T PROVE Step(p, n) \in T
  <2>1. text[n] \in A
    BY <1>0
  <2>2. PICK l : l = Len(p)
    OBVIOUS
  <2>3. l \in Nat /\ l >= 1 /\ p[l] \in Seq(A)
    BY <2>2
  <2>4. PICK x : x = Append(p[l], text[n])
    OBVIOUS
  <2>5. x \in Seq(A)
    BY <2>1, <2>3, <2>4
  <2>6. [p EXCEPT ![l] = x] \in Seq(Seq(A)) /\ Len([p EXCEPT ![l] = x]) = l
    BY <2>2, <2>3, <2>5
  <2>7. Append(p, << >>) \in Seq(Seq(A)) /\ Len(Append(p, << >>)) = l + 1
    BY <2>2
  <2>8. Step(p, n) = IF text[n] = sep THEN Append(p, << >>) ELSE [p EXCEPT ![l] = x]
    BY <2>2, <2>4
  <2>9. QED
    BY <2>3, <2>6, <2>7, <2>8
<1>2. PICK step : step = [n \in 1 .. N |-> [p \in T |-> Step(p, n)]]
  OBVIOUS
<1>3. step \in [1 .. N -> [T -> T]]
  <2> HIDE DEF Step, T
  <2>1. QED
    BY <1>1a, <1>2
<1>5. PICK g \in [0 .. N -> T] : g[0] = e /\ \A n \in 1 .. N : g[n] = step[n][g[n - 1]]
  <2> HIDE DEF Step, T
  <2>1. QED
    BY <1>1, <1>3, Recursion, SMTT(60)
<1>6. \A n \in 1 .. N : g[n] = Step(g[n - 1], n)
  <2> HIDE DEF Step, T
  <2> TAKE n \in 1 .. N
  <2>1. g[n - 1] \in T
    BY <1>1, <1>5
  <2>2. QED
    BY <1>2, <1>5, <2>1
<1>7. g = [n \in 0 .. N |-> IF n = 0 THEN e ELSE Step(g[n - 1], n)]
  <2> HIDE DEF Step, T
  <2>1. QED
    BY <1>1, <1>5, <1>6
<1>8. PICK f : f = Splitting(text, sep)
  OBVIOUS
<1>9. f = CHOOSE parts : parts = [n \in 0 .. N |-> IF n = 0 THEN e ELSE Step(parts[n - 1], n)]
  <2>1. f = CHOOSE parts : parts = [n \in 0 .. Len(text) |-> IF n = 0 THEN << << >> >>
               ELSE IF text[n] = sep THEN Append(parts[n - 1], << >>)
               ELSE [parts[n - 1] EXCEPT ![Len(parts[n - 1])] = Append(@, text[n])]]
    BY <1>8, Zenon DEF Splitting
  <2>2. QED
    BY <1>0, <2>1, Zenon
<1>10. f = [n \in 0 .. N |-> IF n = 0 THEN e ELSE Step(f[n - 1], n)]
  BY <1>7, <1>9, Zenon
<1>11. DOMAIN f = 0 .. N /\ f[0] = e /\ \A n \in 1 .. N : f[n] = Step(f[n - 1], n)
  <2> HIDE DEF Step, T
  <2>1. QED
    BY <1>1, <1>10
<1>12. \A n \in 0 .. N : f[n] \in T
  <2> DEFINE Typed == {n \in 0 .. N : f[n] \in T}
  <2>1. 0 \in Typed
    BY <1>1, <1>11
  <2>2. \A n \in 1 .. N : n - 1 \in Typed => n \in Typed
    <3> HIDE DEF Step, T
    <3>1. QED
      BY <1>1, <1>1a, <1>11
  <2>3. \A n \in 0 .. N : n \in Typed
    <3> HIDE DEF Typed
    <3>1. QED
      BY <1>1, <2>1, <2>2, InductTo
  <2>4. QED
    BY <2>3
<1>13. QED
  BY <1>0, <1>8, <1>12

LEMMA BeforeAfterType ==
  ASSUME NEW A, NEW text \in Seq(A), NEW sep
  PROVE  Before(text, sep) \in Seq(A) /\ After(text, sep) \in Seq(A)
<1>1. PICK s, N : s = Split(text, sep) /\ N = Len(text)
  OBVIOUS
<1>2. N \in 0 .. N
  BY <1>1
<1>3. s \in Seq(Seq(A)) /\ Len(s) >= 1
  BY <1>1, <1>2, SplittingDef DEF Split
<1>4. Before(text, sep) \in Seq(A)
  BY <1>1, <1>3 DEF Before
<1>5. PICK k : k = Len(Before(text, sep)) + 2
  OBVIOUS
<1>6. k \in Nat /\ k >= 1
  BY <1>4, <1>5
<1>7. SubSeq(text, k, N) \in Seq(A)
  BY <1>1, <1>6
<1>8. After(text, sep) \in Seq(A)
  BY <1>1, <1>5, <1>7 DEF After
<1>9. QED
  BY <1>4, <1>8

LEMMA TrimType ==
  ASSUME NEW A, NEW text \in Seq(A)
  PROVE  Trim(text) \in Seq(A)
<1>1. PICK solid : solid = {i \in DOMAIN text : text[i] # " "}
  OBVIOUS
<1>2. PICK N : N = Len(text)
  OBVIOUS
<1>3. N \in Nat /\ \A i \in solid : i \in 1 .. N
  <2>1. N \in Nat /\ DOMAIN text = 1 .. N
    BY <1>2
  <2>2. QED
    BY <1>1, <2>1
<1>4. CASE solid = {}
  <2>1. Trim(text) = << >>
    BY <1>1, <1>4 DEF Trim
  <2>2. QED
    BY <2>1
<1>5. CASE solid # {}
  <2>1. \E i \in solid : \A j \in solid : i <= j
    <3>1. solid \in SUBSET Nat
      BY <1>3
    <3>2. QED
      BY <1>5, <3>1, Least
  <2>2. PICK back : back = {N - i : i \in solid}
    OBVIOUS
  <2>3. back \in SUBSET Nat /\ back # {}
    <3>1. \A i \in solid : N - i \in Nat
      BY <1>3
    <3>2. QED
      BY <1>5, <2>2, <3>1
  <2>4. PICK b \in back : \A c \in back : b <= c
    BY <2>3, Least
  <2>5. PICK z \in solid : b = N - z
    BY <2>2, <2>4
  <2>6. \A j \in solid : z >= j
    <3> TAKE j \in solid
    <3>1. N - j \in back
      BY <2>2
    <3>2. N - z <= N - j
      BY <2>4, <2>5, <3>1
    <3>3. QED
      BY <1>3, <3>2
  <2>7. PICK a, o : /\ a = CHOOSE i \in solid : \A j \in solid : i <= j
                    /\ o = CHOOSE i \in solid : \A j \in solid : i >= j
    OBVIOUS
  <2>8. a \in solid /\ o \in solid
    BY <2>1, <2>6, <2>7, Zenon
  <2>9. Trim(text) = SubSeq(text, a, o)
    BY <1>1, <1>5, <2>7, Zenon DEF Trim
  <2>10. SubSeq(text, a, o) \in Seq(A)
    BY <1>2, <1>3, <2>8
  <2>11. QED
    BY <2>9, <2>10
<1>6. QED
  BY <1>4, <1>5

-----------------------------------------------------------------------------
(* A cURL command: the headers it is imported with are a list.                *)

Scanned(A) == [tokens : Seq(Seq(A)), token : Seq(A), quote : BOOLEAN, has : BOOLEAN]

LEMMA TokenizeAtomType ==
  ASSUME NEW A, NEW s \in Scanned(A), NEW a \in A
  PROVE  TokenizeAtom(s, a) \in Scanned(A)
<1>1. PICK t, u : t = Append(s.token, a) /\ u = Append(s.tokens, s.token)
  OBVIOUS
<1>2. t \in Seq(A) /\ u \in Seq(Seq(A)) /\ << >> \in Seq(A)
  BY <1>1 DEF Scanned
<1>3. /\ [s EXCEPT !.quote = FALSE] \in Scanned(A)
      /\ [s EXCEPT !.token = t] \in Scanned(A)
      /\ [s EXCEPT !.quote = TRUE, !.has = TRUE] \in Scanned(A)
      /\ [s EXCEPT !.tokens = u, !.token = << >>, !.has = FALSE] \in Scanned(A)
      /\ [s EXCEPT !.token = t, !.has = TRUE] \in Scanned(A)
  BY <1>2 DEF Scanned
<1>4. QED
  BY <1>1, <1>3 DEF TokenizeAtom

LEMMA TokenizingType ==
  ASSUME NEW A, NEW command \in Seq(A)
  PROVE  \A n \in 0 .. Len(command) : Tokenizing(command)[n] \in Scanned(A)
<1> DEFINE Step(s, n) == TokenizeAtom(s, command[n])
<1>0. PICK N, e, T : N = Len(command) /\ e = NoTokens /\ T = Scanned(A)
  OBVIOUS
<1>1. N \in Nat /\ e \in T
  BY <1>0 DEF NoTokens, Scanned
<1>1a. \A n \in 1 .. N, s \in T : Step(s, n) \in T
  <2> TAKE n \in 1 .. N, s \in T
  <2>1. command[n] \in A
    BY <1>0
  <2>2. QED
    BY <1>0, <2>1, TokenizeAtomType
<1>2. PICK step : step = [n \in 1 .. N |-> [s \in T |-> Step(s, n)]]
  OBVIOUS
<1>3. step \in [1 .. N -> [T -> T]]
  <2> HIDE DEF Step
  <2>1. QED
    BY <1>1a, <1>2
<1>5. PICK g \in [0 .. N -> T] : g[0] = e /\ \A n \in 1 .. N : g[n] = step[n][g[n - 1]]
  <2> HIDE DEF Step
  <2>1. QED
    BY <1>1, <1>3, Recursion, SMTT(60)
<1>6. \A n \in 1 .. N : g[n] = Step(g[n - 1], n)
  <2> HIDE DEF Step
  <2> TAKE n \in 1 .. N
  <2>1. g[n - 1] \in T
    BY <1>1, <1>5
  <2>2. QED
    BY <1>2, <1>5, <2>1
<1>7. g = [n \in 0 .. N |-> IF n = 0 THEN e ELSE Step(g[n - 1], n)]
  <2> HIDE DEF Step
  <2>1. QED
    BY <1>1, <1>5, <1>6
<1>8. PICK f : f = Tokenizing(command)
  OBVIOUS
<1>9. f = CHOOSE state : state = [n \in 0 .. N |-> IF n = 0 THEN e ELSE Step(state[n - 1], n)]
  <2>1. f = CHOOSE state : state = [n \in 0 .. Len(command) |->
               IF n = 0 THEN NoTokens ELSE TokenizeAtom(state[n - 1], command[n])]
    BY <1>8, Zenon DEF Tokenizing
  <2>2. QED
    BY <1>0, <2>1, Zenon
<1>10. f = [n \in 0 .. N |-> IF n = 0 THEN e ELSE Step(f[n - 1], n)]
  BY <1>7, <1>9, Zenon
<1>11. DOMAIN f = 0 .. N /\ f[0] = e /\ \A n \in 1 .. N : f[n] = Step(f[n - 1], n)
  <2> HIDE DEF Step
  <2>1. QED
    BY <1>1, <1>10
<1>12. \A n \in 0 .. N : f[n] \in T
  <2> DEFINE Typed == {n \in 0 .. N : f[n] \in T}
  <2>1. 0 \in Typed
    BY <1>1, <1>11
  <2>2. \A n \in 1 .. N : n - 1 \in Typed => n \in Typed
    <3> HIDE DEF Step
    <3>1. QED
      BY <1>1, <1>1a, <1>11
  <2>3. \A n \in 0 .. N : n \in Typed
    <3> HIDE DEF Typed
    <3>1. QED
      BY <1>1, <2>1, <2>2, InductTo
  <2>4. QED
    BY <2>3
<1>13. QED
  BY <1>0, <1>8, <1>12

LEMMA TokenizeType ==
  ASSUME NEW A, NEW command \in Seq(A)
  PROVE  Tokenize(command) \in Seq(Seq(A))
<1>1. PICK s, n : n = Len(command) /\ s = Tokenizing(command)[n]
  OBVIOUS
<1>2. s \in Scanned(A)
  BY <1>1, TokenizingType
<1>3. s.tokens \in Seq(Seq(A)) /\ Append(s.tokens, s.token) \in Seq(Seq(A))
  BY <1>2 DEF Scanned
<1>4. QED
  BY <1>1, <1>3 DEF Tokenize

LEMMA ArgumentsType ==
  ASSUME NEW A, NEW all \in Seq(Seq(A))
  PROVE  Arguments(all) \in Seq(Seq(A))
BY DEF Arguments

Waits == {"word", "flag", "method", "header", "data", "urlencode", "user", "form", "url", "cookie"}
Rows(A) == [key : Seq(A), value : Seq(A), enabled : BOOLEAN]
Fields(A) ==
  [key : Seq(A), enabled : BOOLEAN, kind : {"file", "text"}, value : Seq(A), file : Seq(A)]
Logins(A) ==
  [type : {"none", "basic"}, token : Seq(A), user : Seq(A), pass : Seq(A), key : Seq(A),
   value : Seq(A), location : {"header"}, access : Seq(A)]
Options(A) ==
  [wants : Waits, method : Seq(A), url : Seq(A), headers : Seq(Rows(A)),
   data : Seq(Seq(A)), form : BOOLEAN, auth : Logins(A), parts : Seq(Fields(A))]

LEMMA ParseTokenType ==
  ASSUME NEW A, "Cookie" \in A, NEW s \in Options(A), NEW token \in Seq(A)
  PROVE  ParseToken(s, token) \in Options(A)
<1>1. PICK b, a, v, w, h, c :
        /\ b = Before(token, ":") /\ a = After(token, ":")
        /\ v = Before(token, "=") /\ w = After(token, "=")
        /\ h = HeaderRow(token)
        /\ c = Row(<<"Cookie">>, token)
  OBVIOUS
<1> DEFINE attached == w # << >> /\ w[1] = "@"
<1>2. b \in Seq(A) /\ a \in Seq(A) /\ v \in Seq(A) /\ w \in Seq(A)
  BY <1>1, BeforeAfterType
<1>3. h \in Rows(A)
  <2>1. Trim(b) \in Seq(A) /\ Trim(a) \in Seq(A)
    BY <1>2, TrimType
  <2>2. QED
    BY <1>1, <2>1 DEF HeaderRow, Row, Rows
<1>4. c \in Rows(A)
  BY <1>1 DEF Row, Rows
<1>5. PICK p : p = [key |-> v, enabled |-> TRUE, kind |-> IF attached THEN "file" ELSE "text",
                    value |-> IF attached THEN << >> ELSE w, file |-> IF attached THEN Tail(w) ELSE << >>]
  OBVIOUS
<1>6. p \in Fields(A)
  <2>1. attached => Tail(w) \in Seq(A)
    BY <1>2
  <2>2. QED
    BY <1>2, <1>5, <2>1 DEF Fields
<1>7. PICK hs, cs, ds, ps :
        /\ hs = Append(s.headers, h) /\ cs = Append(s.headers, c)
        /\ ds = Append(s.data, token) /\ ps = Append(s.parts, p)
  OBVIOUS
<1>8. hs \in Seq(Rows(A)) /\ cs \in Seq(Rows(A)) /\ ds \in Seq(Seq(A)) /\ ps \in Seq(Fields(A))
  BY <1>3, <1>4, <1>6, <1>7 DEF Options
<1>9. Arity(token) \in Waits
  BY DEF Arity, Waits
<1>10. [s.auth EXCEPT !.type = "basic", !.user = b, !.pass = a] \in Logins(A)
  BY <1>2 DEF Options, Logins
<1>11. /\ [s EXCEPT !.method = token, !.wants = "word"] \in Options(A)
       /\ [s EXCEPT !.wants = "word", !.headers = IF ":" \in ToSet(token) THEN hs ELSE @] \in Options(A)
       /\ [s EXCEPT !.wants = "word", !.data = ds, !.form = @ \/ s.wants = "urlencode"] \in Options(A)
       /\ [s EXCEPT !.wants = "word", !.parts = IF "=" \notin ToSet(token) THEN @ ELSE ps] \in Options(A)
       /\ [s EXCEPT !.wants = "word", !.url = token] \in Options(A)
       /\ [s EXCEPT !.wants = "word", !.headers = cs] \in Options(A)
       /\ [s EXCEPT !.wants = Arity(token)] \in Options(A)
       /\ [s EXCEPT !.url = token] \in Options(A)
  BY <1>8, <1>9 DEF Options, Waits
<1>12. [s EXCEPT !.wants = "word", !.auth.type = "basic", !.auth.user = b, !.auth.pass = a] \in Options(A)
  BY <1>10 DEF Options, Waits, Logins
<1>13. QED
  BY <1>1, <1>5, <1>7, <1>11, <1>12 DEF ParseToken

LEMMA ParsingType ==
  ASSUME NEW A, "Cookie" \in A, NEW B, B = Seq(A), NEW tokens \in Seq(B)
  PROVE  \A n \in 0 .. Len(tokens) : Parsing(tokens)[n] \in Options(A)
<1> DEFINE Step(s, n) == ParseToken(s, tokens[n])
<1>0. PICK N, e, T : N = Len(tokens) /\ e = NoOptions /\ T = Options(A)
  OBVIOUS
<1>1. N \in Nat /\ e \in T
  BY <1>0 DEF NoOptions, NoAuth, Options, Waits, Logins
<1>1a. \A n \in 1 .. N, s \in T : Step(s, n) \in T
  <2> TAKE n \in 1 .. N, s \in T
  <2>1. tokens[n] \in B
    BY <1>0
  <2>2. QED
    BY <1>0, <2>1, ParseTokenType
<1>2. PICK step : step = [n \in 1 .. N |-> [s \in T |-> Step(s, n)]]
  OBVIOUS
<1>3. step \in [1 .. N -> [T -> T]]
  <2> HIDE DEF Step
  <2>1. QED
    BY <1>1a, <1>2
<1>5. PICK g \in [0 .. N -> T] : g[0] = e /\ \A n \in 1 .. N : g[n] = step[n][g[n - 1]]
  <2> HIDE DEF Step
  <2>1. QED
    BY <1>1, <1>3, Recursion, SMTT(60)
<1>6. \A n \in 1 .. N : g[n] = Step(g[n - 1], n)
  <2> HIDE DEF Step
  <2> TAKE n \in 1 .. N
  <2>1. g[n - 1] \in T
    BY <1>1, <1>5
  <2>2. QED
    BY <1>2, <1>5, <2>1
<1>7. g = [n \in 0 .. N |-> IF n = 0 THEN e ELSE Step(g[n - 1], n)]
  <2> HIDE DEF Step
  <2>1. QED
    BY <1>1, <1>5, <1>6
<1>8. PICK f : f = Parsing(tokens)
  OBVIOUS
<1>9. f = CHOOSE state : state = [n \in 0 .. N |-> IF n = 0 THEN e ELSE Step(state[n - 1], n)]
  <2>1. f = CHOOSE state : state = [n \in 0 .. Len(tokens) |->
               IF n = 0 THEN NoOptions ELSE ParseToken(state[n - 1], tokens[n])]
    BY <1>8, Zenon DEF Parsing
  <2>2. QED
    BY <1>0, <2>1, Zenon
<1>10. f = [n \in 0 .. N |-> IF n = 0 THEN e ELSE Step(f[n - 1], n)]
  BY <1>7, <1>9, Zenon
<1>11. DOMAIN f = 0 .. N /\ f[0] = e /\ \A n \in 1 .. N : f[n] = Step(f[n - 1], n)
  <2> HIDE DEF Step
  <2>1. QED
    BY <1>1, <1>10
<1>12. \A n \in 0 .. N : f[n] \in T
  <2> DEFINE Typed == {n \in 0 .. N : f[n] \in T}
  <2>1. 0 \in Typed
    BY <1>1, <1>11
  <2>2. \A n \in 1 .. N : n - 1 \in Typed => n \in Typed
    <3> HIDE DEF Step
    <3>1. QED
      BY <1>1, <1>1a, <1>11
  <2>3. \A n \in 0 .. N : n \in Typed
    <3> HIDE DEF Typed
    <3>1. QED
      BY <1>1, <2>1, <2>2, InductTo
  <2>4. QED
    BY <2>3
<1>13. QED
  BY <1>0, <1>8, <1>12

\* A list, of whatever.
IsList(s) == s \in Seq({s[i] : i \in DOMAIN s})

LEMMA ListOf ==
  ASSUME NEW T, NEW s \in Seq(T)
  PROVE  IsList(s)
<1>1. PICK U : U = {s[i] : i \in DOMAIN s}
  OBVIOUS
<1>2. s \in [1 .. Len(s) -> U]
  BY <1>1
<1>3. s \in Seq(U)
  BY <1>2
<1>4. QED
  BY <1>1, <1>3 DEF IsList

LEMMA CurlHeaders ==
  ASSUME NEW command \in Seq(STRING)
  PROVE  "headers" \in DOMAIN ParseCurl(command) /\ IsList(ParseCurl(command).headers)
<1>1. PICK A : A = STRING \cup {"Cookie"}
  OBVIOUS
<1>2. command \in Seq(A) /\ "Cookie" \in A
  BY <1>1
<1>3. PICK t : t = Arguments(Tokenize(command))
  OBVIOUS
<1>4. t \in Seq(Seq(A))
  BY <1>2, <1>3, TokenizeType, ArgumentsType
<1>5. PICK n : n = Len(t)
  OBVIOUS
<1>6. n \in 0 .. n
  BY <1>4, <1>5
<1>7. PICK s : s = Parsing(t)[n]
  OBVIOUS
<1>8. s \in Options(A)
  BY <1>2, <1>4, <1>5, <1>6, <1>7, ParsingType
<1>9. s.headers \in Seq(Rows(A))
  BY <1>8 DEF Options
<1>10. IsList(s.headers)
  BY <1>9, ListOf
<1>11. \E m, b : ParseCurl(command) =
         [DefaultRequest EXCEPT !.method = m, !.url = s.url, !.headers = s.headers,
                                !.auth = s.auth, !.body = b]
  BY <1>3, <1>5, <1>7, Zenon DEF ParseCurl
<1>12. PICK m, b : ParseCurl(command) =
         [DefaultRequest EXCEPT !.method = m, !.url = s.url, !.headers = s.headers,
                                !.auth = s.auth, !.body = b]
  BY <1>11
<1>13. QED
  BY <1>10, <1>12 DEF DefaultRequest

-----------------------------------------------------------------------------
(* The editor keeps the headers a list.                                      *)

LEMMA CommitList ==
  ASSUME NEW T, NEW rows \in Seq(T)
  PROVE  IsList(Commit(rows))
<1>1. \A S : Filter(rows, S) \in Seq(T)
  BY FilterType
<1>2. Commit(rows) \in Seq(T)
  BY <1>1 DEF Commit
<1>3. QED
  BY <1>2, ListOf

LEMMA RowEditsList ==
  ASSUME NEW rows, IsList(rows), NEW result \in RowEdits(rows)
  PROVE  IsList(result)
<1>1. PICK T, display, last :
        /\ T = {rows[i] : i \in DOMAIN rows} \cup {Row(<< >>, << >>)}
        /\ display = Append(rows, Row(<< >>, << >>))
        /\ last = Len(display)
  OBVIOUS
<1>2. display \in Seq(T)
  <2>1. PICK U : U = {rows[i] : i \in DOMAIN rows}
    OBVIOUS
  <2>2. rows \in Seq(U)
    BY <2>1 DEF IsList
  <2>3. U \subseteq T /\ Row(<< >>, << >>) \in T
    BY <1>1, <2>1
  <2>4. rows \in Seq(T)
    BY <2>2, <2>3
  <2>5. QED
    BY <1>1, <2>3, <2>4
<1> DEFINE On1(i) == IF i = last THEN TRUE ELSE display[i].enabled
<1>3. PICK i \in DOMAIN display :
        \/ \E k \in Keys : result = Commit([display EXCEPT ![i].key = k, ![i].enabled = On1(i)])
        \/ \E v \in Values : result = Commit([display EXCEPT ![i].value = v, ![i].enabled = On1(i)])
        \/ result = Commit([display EXCEPT ![i].enabled = ~@])
        \/ result = Commit(RemoveAt(display, i))
  <2> DEFINE d == Append(rows, Row(<< >>, << >>))
      on(i) == IF i = Len(d) THEN TRUE ELSE d[i].enabled
      of(i) == {Commit([d EXCEPT ![i].key = k, ![i].enabled = on(i)]) : k \in Keys}
               \cup {Commit([d EXCEPT ![i].value = v, ![i].enabled = on(i)]) : v \in Values}
               \cup (IF i = Len(d) THEN {}
                     ELSE {Commit([d EXCEPT ![i].enabled = ~@]), Commit(RemoveAt(d, i))})
  <2>1. result \in UNION {of(i) : i \in DOMAIN d}
    BY Zenon DEF RowEdits
  <2>2. PICK i \in DOMAIN d : result \in of(i)
    <3> HIDE DEF of
    <3>1. QED
      BY <2>1
  <2>3. \/ \E k \in Keys : result = Commit([d EXCEPT ![i].key = k, ![i].enabled = on(i)])
        \/ \E v \in Values : result = Commit([d EXCEPT ![i].value = v, ![i].enabled = on(i)])
        \/ result = Commit([d EXCEPT ![i].enabled = ~@])
        \/ result = Commit(RemoveAt(d, i))
    BY <2>2, Zenon
  <2>4. d = display /\ on(i) = On1(i)
    BY <1>1
  <2>5. QED
    <3> HIDE DEF d, on, of, On1
    <3>1. QED
      BY <2>2, <2>3, <2>4, Zenon
<1>4. ASSUME NEW x PROVE IsList(Commit([display EXCEPT ![i] = x]))
  <2>1. PICK U : U = T \cup {x}
    OBVIOUS
  <2>2. [display EXCEPT ![i] = x] \in Seq(U)
    BY <1>2, <2>1
  <2>3. QED
    BY <2>2, CommitList
<1>5. RemoveAt(display, i) \in Seq(T)
  BY <1>2 DEF RemoveAt
<1>6. CASE \E k \in Keys : result = Commit([display EXCEPT ![i].key = k, ![i].enabled = On1(i)])
  <2>1. PICK k \in Keys : result = Commit([display EXCEPT ![i].key = k, ![i].enabled = On1(i)])
    BY <1>6
  <2>2. PICK x : x = [display[i] EXCEPT !.key = k, !.enabled = On1(i)]
    OBVIOUS
  <2>3. [display EXCEPT ![i].key = k, ![i].enabled = On1(i)] = [display EXCEPT ![i] = x]
    BY <1>2, <2>2
  <2>4. QED
    BY <1>4, <2>1, <2>3
<1>7. CASE \E v \in Values : result = Commit([display EXCEPT ![i].value = v, ![i].enabled = On1(i)])
  <2>1. PICK v \in Values : result = Commit([display EXCEPT ![i].value = v, ![i].enabled = On1(i)])
    BY <1>7
  <2>2. PICK x : x = [display[i] EXCEPT !.value = v, !.enabled = On1(i)]
    OBVIOUS
  <2>3. [display EXCEPT ![i].value = v, ![i].enabled = On1(i)] = [display EXCEPT ![i] = x]
    BY <1>2, <2>2
  <2>4. QED
    BY <1>4, <2>1, <2>3
<1>8. CASE result = Commit([display EXCEPT ![i].enabled = ~@])
  <2>1. PICK x : x = [display[i] EXCEPT !.enabled = ~@]
    OBVIOUS
  <2>2. [display EXCEPT ![i].enabled = ~@] = [display EXCEPT ![i] = x]
    BY <1>2, <2>1
  <2>3. QED
    BY <1>4, <1>8, <2>2
<1>9. CASE result = Commit(RemoveAt(display, i))
  BY <1>5, <1>9, CommitList
<1>10. QED
  BY <1>3, <1>6, <1>7, <1>8, <1>9

-----------------------------------------------------------------------------
(* The message and its redirects.                                            *)

Formed(m) == m = [method |-> m.method, url |-> m.url, headers |-> m.headers, body |-> m.body]

LEMMA AuthHeadersList ==
  ASSUME NEW auth
  PROVE  IsList(AuthHeaders(auth))
<1>1. \A x : IsList(<<x>>)
  <2> TAKE x
  <2>1. <<x>> \in Seq({x})
    OBVIOUS
  <2>2. QED
    BY <2>1, ListOf
<1>2. IsList(<< >>)
  <2>1. << >> \in Seq({})
    OBVIOUS
  <2>2. QED
    BY <2>1, ListOf
<1>3. \E x : AuthHeaders(auth) \in {<<x>>, << >>}
  BY Zenon DEF AuthHeaders
<1>4. QED
  BY <1>1, <1>2, <1>3

LEMMA JoinList ==
  ASSUME NEW s, NEW t, IsList(s), IsList(t)
  PROVE  IsList(s \o t) /\ \A x : IsList(Append(s, x))
<1>1. PICK U, V : U = {s[i] : i \in DOMAIN s} /\ V = {t[i] : i \in DOMAIN t}
  OBVIOUS
<1>2. s \in Seq(U) /\ t \in Seq(V)
  BY <1>1 DEF IsList
<1>3. s \in Seq(U \cup V) /\ t \in Seq(U \cup V)
  BY <1>2
<1>4. s \o t \in Seq(U \cup V)
  BY <1>3
<1>5. ASSUME NEW x PROVE IsList(Append(s, x))
  <2>1. Append(s, x) \in Seq(U \cup {x})
    BY <1>2
  <2>2. QED
    BY <2>1, ListOf
<1>6. QED
  BY <1>4, <1>5, ListOf

LEMMA MessageFormed ==
  ASSUME NEW r, NEW scope, NEW inherited, IsList(r.headers)
  PROVE  Formed(Message(r, scope, inherited)) /\ IsList(Message(r, scope, inherited).headers)
<1>1. PICK map, auth, headers, body, url :
        /\ map = VariableMap(scope)
        /\ auth = ResolveAuth(EffectiveAuth(r.auth, inherited), map)
        /\ headers = BuildHeaders(r, auth, map)
        /\ body = BuildBody(r.body, map)
        /\ url = BuildUrl(r, auth, map)
  OBVIOUS
<1>2. PICK sent : sent = IF body.has /\ ~HasHeader(headers, "content-type")
                           THEN Append(headers, Row(<<"Content-Type">>, body.type)) ELSE headers
  OBVIOUS
<1>3. Message(r, scope, inherited) =
        [method |-> r.method, url |-> url, headers |-> sent,
         body |-> [has |-> body.has, text |-> body.text]]
  BY <1>1, <1>2, Zenon DEF Message
<1>4. IsList(headers)
  <2>1. PICK on : on = On(r.headers)
    OBVIOUS
  <2>2. \E T : on \in Seq(T)
    <3>1. PICK T : T = {r.headers[i] : i \in DOMAIN r.headers}
      OBVIOUS
    <3>2. r.headers \in Seq(T)
      BY <3>1 DEF IsList
    <3>3. \A S : Filter(r.headers, S) \in Seq(T)
      BY <3>2, FilterType
    <3>4. on \in Seq(T)
      BY <2>1, <3>3 DEF On
    <3>5. QED
      BY <3>4
  <2>3. PICK rows : rows = [i \in DOMAIN on |-> ResolveRow(on[i], map)]
    OBVIOUS
  <2>4. PICK U : U = {rows[i] : i \in DOMAIN on}
    OBVIOUS
  <2>5. DOMAIN on = 1 .. Len(on) /\ Len(on) \in Nat
    BY <2>2
  <2>6. rows \in Seq(U)
    BY <2>3, <2>4, <2>5
  <2>7. IsList(rows)
    BY <2>6, ListOf
  <2>8. headers = rows \o AuthHeaders(auth)
    BY <1>1, <2>1, <2>3, Zenon DEF BuildHeaders
  <2>9. QED
    BY <2>7, <2>8, AuthHeadersList, JoinList
<1>5. IsList(sent)
  BY <1>2, <1>4, JoinList
<1>6. QED
  BY <1>3, <1>5 DEF Formed

-----------------------------------------------------------------------------
(* The exchange.                                                             *)

Dropped(first, statuses) ==
  303 \in statuses \/ (statuses \cap {301, 302} # {} /\ first.method \notin {"GET", "HEAD"})

ExchangeInv ==
  /\ DOMAIN exchange = {"on", "follow", "first", "message", "statuses", "max"}
  /\ exchange.on =>
       /\ Formed(exchange.first) /\ Formed(exchange.message)
       /\ IsList(exchange.first.headers)
       /\ exchange.message.headers
            \in Seq({exchange.first.headers[i] : i \in DOMAIN exchange.first.headers})
       /\ exchange.statuses \in Seq(RedirectStatus)
       /\ exchange.max \in Nat

RequestInv ==
  /\ "headers" \in DOMAIN req /\ IsList(req.headers)
  /\ ExchangeInv
  /\ HopsKeepTheRequest

LEMMA RequestStarts == ASSUME RequestInit PROVE RequestInv
<1>1. "headers" \in DOMAIN req /\ IsList(req.headers)
  <2>1. CASE req = DefaultRequest
    <3>1. << >> \in Seq({})
      OBVIOUS
    <3>2. IsList(<< >>)
      BY <3>1, ListOf
    <3>3. QED
      BY <2>1, <3>2 DEF DefaultRequest
  <2>2. ASSUME NEW c \in Commands, req = ParseCurl(c)
        PROVE  "headers" \in DOMAIN req /\ IsList(req.headers)
    <3>1. c \in Seq(STRING)
      BY RequestAssumption
    <3>2. QED
      BY <2>2, <3>1, CurlHeaders
  <2>3. QED
    BY <2>1, <2>2 DEF RequestInit
<1>2. exchange = Idle
  BY DEF RequestInit
<1>3. QED
  BY <1>1, <1>2 DEF RequestInv, ExchangeInv, HopsKeepTheRequest, Idle

\* An edit that keeps the headers a list.
LEMMA PatchKeeps ==
  ASSUME RequestInv, NEW changed, Patch(changed), "headers" \in DOMAIN changed, IsList(changed.headers)
  PROVE  RequestInv'
BY DEF RequestInv, Patch, ExchangeInv, HopsKeepTheRequest, Formed, IsList

LEMMA EditsKeep ==
  ASSUME RequestInv,
         EditMethod \/ EditUrl \/ EditParams \/ EditHeaders \/ EditBody \/ EditAuth
  PROVE  RequestInv'
<1> DEFINE Same(r) == "headers" \in DOMAIN r /\ r.headers = req.headers
<1>1. \A r : Same(r) /\ Patch(r) => RequestInv'
  <2> TAKE r
  <2>1. QED
    BY PatchKeeps DEF RequestInv
<1>2. CASE EditMethod
  <2>1. PICK m : Patch([req EXCEPT !.method = m])
    BY <1>2 DEF EditMethod
  <2>2. Same([req EXCEPT !.method = m])
    BY DEF RequestInv
  <2>3. QED
    BY <1>1, <2>1, <2>2
<1>3. CASE EditUrl
  <2>1. PICK u, p : Patch([req EXCEPT !.url = u, !.pathVars = p])
    BY <1>3 DEF EditUrl
  <2>2. Same([req EXCEPT !.url = u, !.pathVars = p])
    BY DEF RequestInv
  <2>3. QED
    BY <1>1, <2>1, <2>2
<1>4. CASE EditParams
  <2>1. PICK q : Patch([req EXCEPT !.query = q]) \/ Patch([req EXCEPT !.pathVars = q])
    BY <1>4 DEF EditParams
  <2>2. Same([req EXCEPT !.query = q]) /\ Same([req EXCEPT !.pathVars = q])
    BY DEF RequestInv
  <2>3. QED
    BY <1>1, <2>1, <2>2
<1>5. CASE EditHeaders
  <2>1. PICK rows \in RowEdits(req.headers) : Patch([req EXCEPT !.headers = rows])
    BY <1>5 DEF EditHeaders
  <2>2. IsList(rows)
    BY <2>1, RowEditsList DEF RequestInv
  <2>3. PICK r : r = [req EXCEPT !.headers = rows]
    OBVIOUS
  <2>4. "headers" \in DOMAIN r /\ r.headers = rows
    BY <2>3 DEF RequestInv
  <2>5. QED
    BY <2>1, <2>2, <2>3, <2>4, PatchKeeps
<1>6. CASE EditBody
  <2>1. \E b : Patch([req EXCEPT !.body = b])
    BY <1>6 DEF EditBody
  <2>2. PICK b : Patch([req EXCEPT !.body = b])
    BY <2>1
  <2>3. Same([req EXCEPT !.body = b])
    BY DEF RequestInv
  <2>4. QED
    BY <1>1, <2>2, <2>3
<1>7. CASE EditAuth
  <2>1. \E a : Patch([req EXCEPT !.auth = a])
    BY <1>7 DEF EditAuth
  <2>2. PICK a : Patch([req EXCEPT !.auth = a])
    BY <2>1
  <2>3. Same([req EXCEPT !.auth = a])
    BY DEF RequestInv
  <2>4. QED
    BY <1>1, <2>2, <2>3
<1>8. QED
  BY <1>2, <1>3, <1>4, <1>5, <1>6, <1>7

LEMMA SendKeeps ==
  ASSUME RequestInv, Send
  PROVE  RequestInv'
<1>0. PICK m : m = Message(req, Scope, Inherited)
  OBVIOUS
<1>1. PICK max \in 0 .. MaxRedirects, follow \in BOOLEAN :
        /\ m = Message(req, Scope, Inherited)
        /\ exchange' = [on |-> TRUE, follow |-> follow, first |-> m, message |-> m,
                        statuses |-> << >>, max |-> max]
  BY <1>0 DEF Send
<1>2. Formed(m) /\ IsList(m.headers)
  BY <1>1, MessageFormed DEF RequestInv
<1>3. UNCHANGED req
  BY DEF Send
<1>4. ToSet(<< >>) = {}
  BY DEF ToSet
<1>5. max \in Nat
  BY RequestAssumption
<1>6. ExchangeInv'
  BY <1>1, <1>2, <1>5 DEF ExchangeInv, IsList, Formed
<1>7. m = [m EXCEPT !.url = m.url]
  BY <1>2 DEF Formed
<1>8. HopsKeepTheRequest'
  BY <1>1, <1>4, <1>5, <1>7 DEF HopsKeepTheRequest
<1>9. QED
  BY <1>3, <1>6, <1>8 DEF RequestInv, IsList

LEMMA Removed ==
  ASSUME NEW T, NEW headers \in Seq(T), NEW key
  PROVE  /\ RemoveHeader(headers, key) \in Seq(T)
         /\ ToSet(RemoveHeader(headers, key)) = {h \in ToSet(headers) : ~IsHeader(h, key)}
<1>1. PICK S, f : S = {h \in ToSet(headers) : ~IsHeader(h, key)} /\ f = Filter(headers, S)
  OBVIOUS
<1>2. f = RemoveHeader(headers, key)
  BY <1>1 DEF RemoveHeader
<1>3. f \in Seq(T)
  BY <1>1, FilterType
<1>4. \A x : (\E i \in 1 .. Len(f) : f[i] = x)
               <=> (x \in S /\ \E i \in 1 .. Len(headers) : headers[i] = x)
  <2>1. \A x : (\E i \in 1 .. Len(Filter(headers, S)) : Filter(headers, S)[i] = x)
                 <=> (x \in S /\ \E i \in 1 .. Len(headers) : headers[i] = x)
    BY FilterMembers
  <2>2. QED
    BY <1>1, <2>1
<1>5. DOMAIN f = 1 .. Len(f) /\ DOMAIN headers = 1 .. Len(headers)
  BY <1>3
<1>6. ToSet(f) = S
  <2>1. \A x : x \in ToSet(f) <=> \E i \in 1 .. Len(f) : f[i] = x
    BY <1>5 DEF ToSet
  <2>2. \A x : x \in ToSet(headers) <=> \E i \in 1 .. Len(headers) : headers[i] = x
    BY <1>5 DEF ToSet
  <2>3. \A x : x \in ToSet(f) <=> x \in S
    BY <1>1, <1>4, <2>1, <2>2
  <2>4. QED
    BY <2>3
<1>7. QED
  BY <1>1, <1>2, <1>3, <1>6

Described(h) == IsHeader(h, "content-type") \/ IsHeader(h, "content-length")

\* What a status makes of a message m, n.
Redrawn(T, m, status, n) ==
  /\ Formed(n) /\ n.headers \in Seq(T)
  /\ IF status = 303 \/ (status \in {301, 302} /\ m.method \notin {"GET", "HEAD"})
       THEN /\ n.method = "GET" /\ n.body.has = FALSE
            /\ ~HasHeader(n.headers, "content-type")
            /\ ToSet(n.headers) = {h \in ToSet(m.headers) : ~Described(h)}
       ELSE n = m

LEMMA Rewritten ==
  ASSUME NEW T, NEW m, Formed(m), m.headers \in Seq(T), NEW status \in RedirectStatus,
         NEW n, n = Rewrite(m, status)
  PROVE  Redrawn(T, m, status, n)
<1>1. PICK hs : hs = RemoveHeader(RemoveHeader(m.headers, "content-type"), "content-length")
  OBVIOUS
<1>2. hs \in Seq(T) /\ ToSet(hs) = {h \in ToSet(m.headers) : ~Described(h)}
  <2>1. PICK gs : gs = RemoveHeader(m.headers, "content-type")
    OBVIOUS
  <2>2. gs \in Seq(T) /\ ToSet(gs) = {h \in ToSet(m.headers) : ~IsHeader(h, "content-type")}
    BY <2>1, Removed
  <2>3. hs \in Seq(T) /\ ToSet(hs) = {h \in ToSet(gs) : ~IsHeader(h, "content-length")}
    BY <1>1, <2>1, <2>2, Removed
  <2>4. QED
    BY <2>2, <2>3 DEF Described
<1>3. CASE status = 303 \/ (status \in {301, 302} /\ m.method \notin {"GET", "HEAD"})
  <2>1. n = [m EXCEPT !.method = "GET", !.body = [has |-> FALSE, text |-> << >>], !.headers = hs]
    BY <1>1, <1>3, Zenon DEF Rewrite
  <2>2. n = [method |-> "GET", url |-> m.url, headers |-> hs, body |-> [has |-> FALSE, text |-> << >>]]
    BY <2>1 DEF Formed
  <2>3. ~HasHeader(hs, "content-type")
    <3> SUFFICES ASSUME NEW i \in DOMAIN hs, IsHeader(hs[i], "content-type") PROVE FALSE
      BY DEF HasHeader
    <3>1. hs[i] \in ToSet(hs)
      BY DEF ToSet
    <3>2. QED
      BY <1>2, <3>1 DEF Described
  <2>4. QED
    BY <1>1, <1>2, <1>3, <2>2, <2>3 DEF Formed, Redrawn
<1>4. CASE ~(status = 303 \/ (status \in {301, 302} /\ m.method \notin {"GET", "HEAD"}))
  <2>1. n = m
    BY <1>1, <1>4, Zenon DEF Rewrite
  <2>2. QED
    BY <1>1, <1>4, <2>1 DEF Redrawn
<1>5. QED
  BY <1>3, <1>4

LEMMA RedirectedKeeps ==
  ASSUME RequestInv, Redirected
  PROVE  RequestInv'
<1>1. PICK status \in RedirectStatus :
        exchange' = [exchange EXCEPT !.statuses = Append(@, status),
                                     !.message = [Rewrite(@, status) EXCEPT !.url = Location]]
  BY DEF Redirected
<1>2. PICK first, now, old, statuses, longer :
        /\ first = exchange.first /\ old = exchange.message
        /\ now = Rewrite(old, status)
        /\ statuses = exchange.statuses /\ longer = Append(statuses, status)
  OBVIOUS
<1>3. PICK T : T = {first.headers[i] : i \in DOMAIN first.headers}
  OBVIOUS
<1>4. /\ exchange.on /\ Formed(first) /\ Formed(old) /\ IsList(first.headers)
      /\ old.headers \in Seq(T) /\ statuses \in Seq(RedirectStatus) /\ exchange.max \in Nat
      /\ Len(statuses) < exchange.max + 1
  BY <1>2, <1>3 DEF RequestInv, ExchangeInv, Redirected
<1>5. PICK last : last = [now EXCEPT !.url = Location]
  OBVIOUS
<1>6. /\ Formed(now) /\ now.headers \in Seq(T)
      /\ IF status = 303 \/ (status \in {301, 302} /\ old.method \notin {"GET", "HEAD"})
           THEN /\ now.method = "GET" /\ now.body.has = FALSE
                /\ ~HasHeader(now.headers, "content-type")
                /\ ToSet(now.headers) = {h \in ToSet(old.headers) : ~Described(h)}
           ELSE now = old
  <2>1. Redrawn(T, old, status, now)
    BY <1>2, <1>4, Rewritten
  <2>2. QED
    BY <2>1, Zenon DEF Redrawn
<1>7. last = [method |-> now.method, url |-> Location, headers |-> now.headers, body |-> now.body]
  BY <1>5, <1>6 DEF Formed
<1>8. /\ DOMAIN exchange' = DOMAIN exchange
      /\ exchange'.on = exchange.on /\ exchange'.first = first /\ exchange'.message = last
      /\ exchange'.statuses = longer /\ exchange'.max = exchange.max
  BY <1>1, <1>2, <1>5 DEF RequestInv, ExchangeInv
<1>9. longer \in Seq(RedirectStatus) /\ Len(longer) = Len(statuses) + 1
  BY <1>2, <1>4
<1>10. ToSet(longer) = ToSet(statuses) \cup {status}
  <2>1. PICK n : n = Len(statuses)
    OBVIOUS
  <2>2. n \in Nat /\ DOMAIN statuses = 1 .. n /\ DOMAIN longer = 1 .. n + 1
    BY <1>2, <1>4, <1>9, <2>1
  <2>3. longer[n + 1] = status /\ \A i \in 1 .. n : longer[i] = statuses[i]
    BY <1>2, <1>4, <2>1
  <2>4. QED
    BY <2>2, <2>3 DEF ToSet
<1>11. ExchangeInv'
  BY <1>3, <1>4, <1>6, <1>7, <1>8, <1>9 DEF RequestInv, ExchangeInv, Formed, IsList
<1>12. PICK S : S = ToSet(statuses)
  OBVIOUS
<1>13. IF Dropped(first, S)
         THEN /\ old.method = "GET" /\ ~old.body.has
              /\ ~HasHeader(old.headers, "content-type")
              /\ ToSet(first.headers) \ ToSet(old.headers) \subseteq {h \in ToSet(first.headers) : Described(h)}
         ELSE old = [first EXCEPT !.url = old.url]
  BY <1>2, <1>4, <1>12, Zenon DEF RequestInv, HopsKeepTheRequest, Dropped, Described
<1>14. IF Dropped(first, S \cup {status})
         THEN /\ now.method = "GET" /\ ~now.body.has
              /\ ~HasHeader(now.headers, "content-type")
              /\ ToSet(first.headers) \ ToSet(now.headers) \subseteq {h \in ToSet(first.headers) : Described(h)}
         ELSE last = [first EXCEPT !.url = last.url]
  <2>1. CASE Dropped(first, S)
    <3>1. Dropped(first, S \cup {status})
      BY <2>1 DEF Dropped
    <3>2. QED
      BY <1>6, <1>13, <2>1, <3>1
  <2>2. CASE ~Dropped(first, S)
    <3>1. old = [first EXCEPT !.url = old.url]
      BY <1>13, <2>2
    <3>2. old.method = first.method /\ old.headers = first.headers /\ old.body = first.body
      BY <1>4, <3>1 DEF Formed
    <3>3. Dropped(first, S \cup {status})
            <=> status = 303 \/ (status \in {301, 302} /\ old.method \notin {"GET", "HEAD"})
      BY <2>2, <3>2 DEF Dropped
    <3>4. CASE Dropped(first, S \cup {status})
      BY <1>6, <3>2, <3>3, <3>4
    <3>5. CASE ~Dropped(first, S \cup {status})
      <4>1. now = old
        BY <1>6, <3>3, <3>5
      <4>2. last = [first EXCEPT !.url = last.url]
        BY <1>4, <1>7, <3>2, <4>1 DEF Formed
      <4>3. QED
        BY <3>5, <4>2
    <3>6. QED
      BY <3>4, <3>5
  <2>3. QED
    BY <2>1, <2>2
<1>15. HopsKeepTheRequest'
  <2>1. Len(longer) <= exchange.max + 1
    BY <1>4, <1>9
  <2>2. S \cup {status} # {} /\ ToSet(longer) = S \cup {status}
    BY <1>10, <1>12
  <2>3. last.url = Location /\ last.method = now.method /\ last.body = now.body /\ last.headers = now.headers
    BY <1>7
  <2>4. IF Dropped(first, ToSet(longer))
          THEN /\ last.method = "GET" /\ ~last.body.has
               /\ ~HasHeader(last.headers, "content-type")
               /\ ToSet(first.headers) \ ToSet(last.headers) \subseteq {h \in ToSet(first.headers) : Described(h)}
          ELSE last = [first EXCEPT !.url = last.url]
    BY <1>14, <2>2, <2>3
  <2>5. ToSet(longer) # {}
    BY <2>2
  <2>6. QED
    BY <1>8, <2>1, <2>3, <2>4, <2>5 DEF HopsKeepTheRequest, Dropped, Described
<1>16. QED
  BY <1>11, <1>15 DEF RequestInv, Redirected, IsList

\* Whatever is edited and sent.
LEMMA RequestStep ==
  ASSUME RequestInv, [RequestNext]_requestVars
  PROVE  RequestInv'
<1>1. CASE EditMethod \/ EditUrl \/ EditParams \/ EditHeaders \/ EditBody \/ EditAuth
  BY <1>1, EditsKeep
<1>2. CASE Send
  BY <1>2, SendKeeps
<1>3. CASE Redirected
  BY <1>3, RedirectedKeeps
<1>4. CASE Answered
  BY <1>4 DEF Answered, RequestInv, ExchangeInv, HopsKeepTheRequest, Idle, IsList
<1>5. CASE AddResource
  BY <1>5 DEF AddResource, RequestInv, ExchangeInv, HopsKeepTheRequest, Formed, IsList
<1>6. CASE UNCHANGED requestVars
  BY <1>6 DEF requestVars, RequestInv, ExchangeInv, HopsKeepTheRequest, Formed, IsList
<1>7. QED
  BY <1>1, <1>2, <1>3, <1>4, <1>5, <1>6 DEF RequestNext

\* What is sent on from hop to hop is the request first sent, at its new URL, or
\* what a redirect that asks for it makes of it, for any request the editor or a
\* cURL command gives and any redirects (executeHttpRequest).
THEOREM HopsKeepTheRequestAlways == RequestSpec => []HopsKeepTheRequest
<1>1. RequestInit => RequestInv
  BY RequestStarts
<1>2. RequestInv /\ [RequestNext]_requestVars => RequestInv'
  BY RequestStep
<1>3. RequestInv => HopsKeepTheRequest
  BY DEF RequestInv
<1>4. QED
  BY <1>1, <1>2, <1>3, PTL DEF RequestSpec

-----------------------------------------------------------------------------
(* Joined lists.                                                             *)

\* Recursion with a solution by name.
Solves(h, A, a0, N, step) ==
  h \in [0 .. N -> A] /\ h[0] = a0 /\ \A n \in 1 .. N : h[n] = step[n][h[n - 1]]

LEMMA Solution ==
  ASSUME NEW A, NEW a0 \in A, NEW N \in Nat, NEW step \in [1 .. N -> [A -> A]]
  PROVE  \E h : Solves(h, A, a0, N, step)
<1>1. \E h \in [0 .. N -> A] : h[0] = a0 /\ \A n \in 1 .. N : h[n] = step[n][h[n - 1]]
  BY Recursion, SMTT(60)
<1>2. QED
  BY <1>1 DEF Solves

\* FlattenSeq joins its lists from the first to the last.
LEMMA FlattenDef ==
  ASSUME NEW T, NEW ss \in Seq(Seq(T))
  PROVE  \E f \in [0 .. Len(ss) -> Seq(T)] :
           /\ f[0] = << >>
           /\ \A n \in 1 .. Len(ss) : f[n] = f[n - 1] \o ss[n]
           /\ FlattenSeq(ss) = f[Len(ss)]
<1>0. PICK A, N, e : A = Seq(T) /\ N = Len(ss) /\ e = << >>
  OBVIOUS
<1>1. /\ N \in Nat /\ e \in A
      /\ \A n \in 1 .. N : ss[n] \in A
      /\ \A a \in A, n \in 1 .. N : a \o ss[n] \in A
  BY <1>0
<1>2. PICK step : step = [n \in 1 .. N |-> [a \in A |-> a \o ss[n]]]
  OBVIOUS
<1>3. step \in [1 .. N -> [A -> A]]
  BY <1>1, <1>2
<1>4a. PICK g : Solves(g, A, e, N, step)
  BY <1>1, <1>3, Solution
<1>4. g \in [0 .. N -> A] /\ g[0] = e /\ \A n \in 1 .. N : g[n] = step[n][g[n - 1]]
  BY <1>4a DEF Solves
<1>5. \A n \in 1 .. N : g[n] = g[n - 1] \o ss[n]
  <2> TAKE n \in 1 .. N
  <2>1. g[n - 1] \in A
    BY <1>1, <1>4
  <2>2. QED
    BY <1>2, <1>4, <2>1
<1>6. CASE N = 0
  <2>1. FlattenSeq(ss) = e
    <3>1. Len(ss) = 0 /\ ss = e
      <4>1. Len(ss) = 0
        BY <1>0, <1>6
      <4>2. ss \in Seq(A)
        BY <1>0
      <4>3. ss = << >>
        BY <4>1, <4>2
      <4>4. QED
        BY <1>0, <4>1, <4>3, Zenon
    <3>2. QED
      BY <3>1, Zenon DEF FlattenSeq
  <2>2. QED
    BY <1>0, <1>4, <1>5, <1>6, <2>1
<1>7. CASE N # 0
  <2>1. PICK h : h = [i \in 1 .. N |-> g[i]]
    OBVIOUS
  <2>2. \A i \in 1 .. N : g[i] = IF i = 1 THEN ss[i] ELSE h[i - 1] \o ss[i]
    <3> TAKE i \in 1 .. N
    <3>1. CASE i = 1
      <4>1. g[1] = e \o ss[1]
        <5>1. 1 \in 1 .. N /\ 1 - 1 = 0
          BY <3>1
        <5>2. g[1] = g[1 - 1] \o ss[1]
          BY <1>5, <5>1, Zenon
        <5>3. QED
          BY <1>4, <5>1, <5>2
      <4>2. e \o ss[1] = ss[1]
        BY <1>0, <1>1, <3>1
      <4>3. QED
        BY <3>1, <4>1, <4>2
    <3>2. CASE i # 1
      <4>1. i - 1 \in 1 .. N /\ h[i - 1] = g[i - 1]
        BY <1>1, <2>1, <3>2
      <4>2. QED
        BY <1>5, <3>2, <4>1
    <3>3. QED
      BY <3>1, <3>2
  <2>3. h = [i \in 1 .. N |-> IF i = 1 THEN ss[i] ELSE h[i - 1] \o ss[i]]
    BY <2>1, <2>2, Zenon
  <2>4. PICK f : f = CHOOSE flatten : flatten = [i \in 1 .. N |->
                       IF i = 1 THEN ss[i] ELSE flatten[i - 1] \o ss[i]]
    OBVIOUS
  <2>5. f = [i \in 1 .. N |-> IF i = 1 THEN ss[i] ELSE f[i - 1] \o ss[i]]
    BY <2>3, <2>4, Zenon
  <2>6. FlattenSeq(ss) = f[N]
    <3>1. Len(ss) # 0
      BY <1>0, <1>7
    <3>2. FlattenSeq(ss) = (CHOOSE flatten : flatten = [i \in 1 .. Len(ss) |->
                              IF i = 1 THEN ss[i] ELSE flatten[i - 1] \o ss[i]])[Len(ss)]
      BY <3>1, Zenon DEF FlattenSeq
    <3>3. QED
      BY <1>0, <2>4, <3>2, Zenon
  <2>7. \A i \in 1 .. N : f[i] = g[i]
    <3> DEFINE Same == {n \in 0 .. N : n = 0 \/ f[n] = g[n]}
    <3>1. 0 \in Same
      BY <1>1
    <3>2. \A n \in 1 .. N : n - 1 \in Same => n \in Same
      <4> TAKE n \in 1 .. N
      <4> HAVE n - 1 \in Same
      <4>1. f[n] = IF n = 1 THEN ss[n] ELSE f[n - 1] \o ss[n]
        BY <2>5, Zenon
      <4>2. g[n] = IF n = 1 THEN ss[n] ELSE g[n - 1] \o ss[n]
        <5>1. n # 1 => h[n - 1] = g[n - 1]
          BY <1>1, <2>1
        <5>2. QED
          BY <2>2, <5>1
      <4>3. n # 1 => f[n - 1] = g[n - 1]
        OBVIOUS
      <4>4. QED
        BY <4>1, <4>2, <4>3
    <3>3. \A n \in 0 .. N : n \in Same
      <4> HIDE DEF Same
      <4>1. QED
        BY <1>1, <3>1, <3>2, InductTo
    <3>4. QED
      BY <1>1, <3>3
  <2>8. FlattenSeq(ss) = g[N]
    BY <1>1, <1>7, <2>6, <2>7
  <2>9. QED
    BY <1>0, <1>4, <1>5, <2>8
<1>8. QED
  BY <1>6, <1>7

\* Where each element of the joined list comes from: the lists follow each other, each in
\* its own order, and nothing is left out.
Placed(ss, n, flat, seg, off) ==
  /\ \A k \in 1 .. Len(flat) :
       seg[k] \in 1 .. n /\ off[k] \in 1 .. Len(ss[seg[k]]) /\ flat[k] = ss[seg[k]][off[k]]
  /\ \A k, l \in 1 .. Len(flat) :
       k < l => seg[k] < seg[l] \/ (seg[k] = seg[l] /\ off[k] < off[l])
  /\ \A a \in 1 .. n : \A b \in 1 .. Len(ss[a]) : \E k \in 1 .. Len(flat) : seg[k] = a /\ off[k] = b

\* One list more at the end.
LEMMA PlacedNext ==
  ASSUME NEW T, NEW ss \in Seq(Seq(T)), NEW n \in 1 .. Len(ss), NEW flat \in Seq(T),
         NEW seg, NEW off, Placed(ss, n - 1, flat, seg, off)
  PROVE  \E seg1, off1 : Placed(ss, n, flat \o ss[n], seg1, off1)
<1>1. PICK s, L, M, all : s = ss[n] /\ L = Len(flat) /\ M = Len(s) /\ all = flat \o s
  OBVIOUS
<1>2. /\ n \in Nat /\ s \in Seq(T) /\ L \in Nat /\ M \in Nat /\ Len(all) = L + M
      /\ \A k \in 1 .. L : all[k] = flat[k]
      /\ \A k \in L + 1 .. L + M : k - L \in 1 .. M /\ all[k] = s[k - L]
  BY <1>1
<1>3. PICK seg1, off1 :
        /\ seg1 = [k \in 1 .. L + M |-> IF k <= L THEN seg[k] ELSE n]
        /\ off1 = [k \in 1 .. L + M |-> IF k <= L THEN off[k] ELSE k - L]
  OBVIOUS
<1>4. \A k \in 1 .. L : k \in 1 .. L + M /\ seg1[k] = seg[k] /\ off1[k] = off[k]
  BY <1>2, <1>3
<1>5. \A k \in L + 1 .. L + M : k \in 1 .. L + M /\ seg1[k] = n /\ off1[k] = k - L
  BY <1>2, <1>3
<1>6. \A k \in 1 .. L + M : k \in 1 .. L \/ k \in L + 1 .. L + M
  BY <1>2
<1>7. \A k \in 1 .. L : /\ seg[k] \in 1 .. n - 1 /\ off[k] \in 1 .. Len(ss[seg[k]])
                        /\ flat[k] = ss[seg[k]][off[k]]
  BY <1>1 DEF Placed
<1>8. \A k \in 1 .. L + M :
        seg1[k] \in 1 .. n /\ off1[k] \in 1 .. Len(ss[seg1[k]]) /\ all[k] = ss[seg1[k]][off1[k]]
  <2> TAKE k \in 1 .. L + M
  <2>1. CASE k \in 1 .. L
    <3>1. seg[k] \in 1 .. n
      <4>1. PICK a : a = seg[k]
        OBVIOUS
      <4>2. a \in 1 .. n - 1
        BY <1>7, <2>1, <4>1
      <4>3. a \in 1 .. n
        BY <1>2, <4>2
      <4>4. QED
        BY <4>1, <4>3
    <3>2. QED
      BY <1>2, <1>4, <1>7, <2>1, <3>1
  <2>2. CASE k \in L + 1 .. L + M
    <3>1. seg1[k] = n /\ off1[k] \in 1 .. M /\ all[k] = s[off1[k]]
      BY <1>2, <1>5, <2>2
    <3>2. n \in 1 .. n
      BY <1>2
    <3>3. QED
      BY <1>1, <3>1, <3>2
  <2>3. QED
    BY <1>6, <2>1, <2>2
<1>9. \A k, l \in 1 .. L + M :
        k < l => seg1[k] < seg1[l] \/ (seg1[k] = seg1[l] /\ off1[k] < off1[l])
  <2> SUFFICES ASSUME NEW k \in 1 .. L + M, NEW l \in 1 .. L + M, k < l
               PROVE  seg1[k] < seg1[l] \/ (seg1[k] = seg1[l] /\ off1[k] < off1[l])
    OBVIOUS
  <2>1. CASE k \in 1 .. L /\ l \in 1 .. L
    <3>1. seg[k] < seg[l] \/ (seg[k] = seg[l] /\ off[k] < off[l])
      BY <1>1, <2>1 DEF Placed
    <3>2. QED
      BY <1>4, <2>1, <3>1
  <2>2. CASE k \in 1 .. L /\ l \in L + 1 .. L + M
    <3>1. seg1[k] \in 1 .. n - 1 /\ seg1[l] = n
      BY <1>4, <1>5, <1>7, <2>2
    <3>2. QED
      BY <1>2, <3>1
  <2>3. CASE k \in L + 1 .. L + M /\ l \in L + 1 .. L + M
    BY <1>2, <1>5, <2>3
  <2>4. QED
    BY <1>2, <1>6, <2>1, <2>2, <2>3
<1>10. ASSUME NEW a \in 1 .. n, NEW b \in 1 .. Len(ss[a])
       PROVE  \E k \in 1 .. L + M : seg1[k] = a /\ off1[k] = b
  <2>1. CASE a = n
    <3>1. b \in 1 .. M
      BY <1>1, <1>10, <2>1
    <3>2. L + b \in L + 1 .. L + M /\ (L + b) - L = b
      BY <1>2, <3>1
    <3>3. QED
      BY <1>5, <2>1, <3>2
  <2>2. CASE a # n
    <3>1. a \in 1 .. n - 1
      BY <1>2, <2>2
    <3>2. PICK k \in 1 .. L : seg[k] = a /\ off[k] = b
      BY <1>1, <3>1 DEF Placed
    <3>3. QED
      BY <1>4, <3>2
  <2>3. QED
    BY <2>1, <2>2
<1>11. Placed(ss, n, all, seg1, off1)
  BY <1>2, <1>8, <1>9, <1>10 DEF Placed
<1>12. QED
  BY <1>1, <1>11

\* Every list of lists is joined so.
LEMMA FlattenPlaces ==
  ASSUME NEW T, NEW ss \in Seq(Seq(T))
  PROVE  /\ FlattenSeq(ss) \in Seq(T)
         /\ \E seg, off : Placed(ss, Len(ss), FlattenSeq(ss), seg, off)
<1>1. PICK f \in [0 .. Len(ss) -> Seq(T)] :
        /\ f[0] = << >>
        /\ \A n \in 1 .. Len(ss) : f[n] = f[n - 1] \o ss[n]
        /\ FlattenSeq(ss) = f[Len(ss)]
  BY FlattenDef
<1>2. PICK N : N = Len(ss)
  OBVIOUS
<1>3. N \in Nat
  BY <1>2
<1> DEFINE Good == {n \in 0 .. N : \E seg, off : Placed(ss, n, f[n], seg, off)}
<1>4. 0 \in Good
  <2>1. Len(f[0]) = 0
    BY <1>1
  <2>2. Placed(ss, 0, f[0], << >>, << >>)
    BY <2>1 DEF Placed
  <2>3. QED
    BY <1>3, <2>2
<1>5. ASSUME NEW n \in 1 .. N, n - 1 \in Good PROVE n \in Good
  <2>1. PICK seg, off : Placed(ss, n - 1, f[n - 1], seg, off)
    BY <1>5
  <2>2. PICK flat : flat = f[n - 1]
    OBVIOUS
  <2>3. flat \in Seq(T) /\ f[n] = flat \o ss[n]
    <3>1. n - 1 \in 0 .. N
      BY <1>3
    <3>2. f[n - 1] \in Seq(T)
      BY <1>2, <3>1
    <3>3. QED
      BY <1>1, <1>2, <2>2, <3>2, Zenon
  <2>4. \E seg1, off1 : Placed(ss, n, flat \o ss[n], seg1, off1)
    BY <1>2, <2>1, <2>2, <2>3, PlacedNext
  <2>5. QED
    <3>1. n \in 0 .. N
      BY <1>3
    <3>2. QED
      BY <2>3, <2>4, <3>1
<1>6. \A n \in 0 .. N : n \in Good
  <2> HIDE DEF Good
  <2>1. QED
    BY <1>3, <1>4, <1>5, InductTo
<1>7. N \in Good
  <2> HIDE DEF Good
  <2>1. QED
    BY <1>3, <1>6
<1>8. QED
  BY <1>1, <1>2, <1>3, <1>7

\* No element stands in a list twice.
Distinct(s) == \A i, j \in 1 .. Len(s) : s[i] = s[j] => i = j

\* The elements of a list.
LEMMA SetOf ==
  ASSUME NEW T, NEW s \in Seq(T)
  PROVE  /\ ToSet(s) \subseteq T
         /\ \A x : x \in ToSet(s) <=> \E i \in 1 .. Len(s) : s[i] = x
<1>1. DOMAIN s = 1 .. Len(s) /\ \A i \in 1 .. Len(s) : s[i] \in T
  OBVIOUS
<1>2. QED
  BY <1>1 DEF ToSet

\* A list without repetitions is as long as the set of its elements is large.
LEMMA DistinctCount ==
  ASSUME NEW T, NEW s \in Seq(T), Distinct(s)
  PROVE  Cardinality(ToSet(s)) = Len(s)
<1>1. PICK n, S : n = Len(s) /\ S = ToSet(s)
  OBVIOUS
<1>2. n \in Nat /\ s = [i \in 1 .. n |-> s[i]]
  BY <1>1
<1>3. \A x : x \in S <=> \E i \in 1 .. n : s[i] = x
  BY <1>1, SetOf
<1>4. s \in [1 .. n -> S]
  BY <1>2, <1>3
<1>5. \A i, j \in 1 .. n : s[i] = s[j] => i = j
  BY <1>1 DEF Distinct
<1>6. s \in Bijection(1 .. n, S)
  BY <1>3, <1>4, <1>5 DEF Bijection, Injection, Surjection, IsInjective
<1>7. Cardinality(S) = n
  BY <1>2, <1>6, FS_CountingElements DEF ExistsBijection
<1>8. QED
  BY <1>1, <1>7

\* What the joined list holds.
LEMMA FlattenMembers ==
  ASSUME NEW T, NEW ss \in Seq(Seq(T))
  PROVE  \A x : x \in ToSet(FlattenSeq(ss)) <=> \E a \in 1 .. Len(ss) : x \in ToSet(ss[a])
<1>1. PICK flat, N : flat = FlattenSeq(ss) /\ N = Len(ss)
  OBVIOUS
<1>2. flat \in Seq(T) /\ \A a \in 1 .. N : ss[a] \in Seq(T)
  BY <1>1, FlattenPlaces
<1>3. PICK seg, off : Placed(ss, N, flat, seg, off)
  BY <1>1, FlattenPlaces
<1>4. ASSUME NEW x, x \in ToSet(flat) PROVE \E a \in 1 .. N : x \in ToSet(ss[a])
  <2>1. PICK k \in 1 .. Len(flat) : flat[k] = x
    BY <1>2, <1>4, SetOf
  <2>2. seg[k] \in 1 .. N /\ off[k] \in 1 .. Len(ss[seg[k]]) /\ x = ss[seg[k]][off[k]]
    BY <1>3, <2>1 DEF Placed
  <2>3. QED
    BY <1>2, <2>2, SetOf
<1>5. ASSUME NEW x, NEW a \in 1 .. N, x \in ToSet(ss[a]) PROVE x \in ToSet(flat)
  <2>1. PICK b \in 1 .. Len(ss[a]) : ss[a][b] = x
    BY <1>2, <1>5, SetOf
  <2>2. PICK k \in 1 .. Len(flat) : seg[k] = a /\ off[k] = b
    BY <1>3 DEF Placed
  <2>3. flat[k] = x
    BY <1>3, <2>1, <2>2 DEF Placed
  <2>4. QED
    BY <1>2, <2>3, SetOf
<1>6. QED
  BY <1>1, <1>4, <1>5

\* Lists without repetitions, no two of which share an element, are joined to one.
LEMMA FlattenDistinct ==
  ASSUME NEW T, NEW ss \in Seq(Seq(T)),
         \A a \in 1 .. Len(ss) : Distinct(ss[a]),
         \A a, b \in 1 .. Len(ss) : \A x : x \in ToSet(ss[a]) /\ x \in ToSet(ss[b]) => a = b
  PROVE  Distinct(FlattenSeq(ss))
<1>1. PICK flat, N : flat = FlattenSeq(ss) /\ N = Len(ss)
  OBVIOUS
<1>2. flat \in Seq(T) /\ \A a \in 1 .. N : ss[a] \in Seq(T)
  BY <1>1, FlattenPlaces
<1>3. PICK seg, off : Placed(ss, N, flat, seg, off)
  BY <1>1, FlattenPlaces
<1>4. ASSUME NEW k \in 1 .. Len(flat), NEW l \in 1 .. Len(flat), flat[k] = flat[l], k < l
      PROVE  FALSE
  <2>1. PICK a, b, c, d : a = seg[k] /\ b = off[k] /\ c = seg[l] /\ d = off[l]
    OBVIOUS
  <2>2. /\ a \in 1 .. N /\ b \in 1 .. Len(ss[a]) /\ flat[k] = ss[a][b]
        /\ c \in 1 .. N /\ d \in 1 .. Len(ss[c]) /\ flat[l] = ss[c][d]
        /\ a < c \/ (a = c /\ b < d)
    BY <1>3, <1>4, <2>1 DEF Placed
  <2>3. flat[k] \in ToSet(ss[a]) /\ flat[k] \in ToSet(ss[c])
    BY <1>2, <1>4, <2>2, SetOf
  <2>4. a = c
    BY <1>1, <2>2, <2>3
  <2>5. Distinct(ss[a]) /\ ss[a][b] = ss[a][d]
    BY <1>1, <1>4, <2>2, <2>4
  <2>6. b = d
    BY <2>2, <2>4, <2>5 DEF Distinct
  <2>7. PICK m : m = Len(ss[a])
    OBVIOUS
  <2>8. a \in Nat /\ b \in Nat
    BY <2>2
  <2>9. QED
    BY <2>2, <2>4, <2>6, <2>8
<1>5. \A k, l \in 1 .. Len(flat) : flat[k] = flat[l] => k = l
  <2>1. \A k, l \in 1 .. Len(flat) : k < l \/ l < k \/ k = l
    BY <1>2
  <2>2. QED
    BY <1>4, <2>1
<1>6. QED
  BY <1>1, <1>5 DEF Distinct

\* What a filter keeps ...
LEMMA FilterSet ==
  ASSUME NEW T, NEW list \in Seq(T), NEW S
  PROVE  \A x : x \in ToSet(Filter(list, S)) <=> x \in S /\ x \in ToSet(list)
<1>1. Filter(list, S) \in Seq(T)
  BY FilterType
<1>2. \A x : (\E i \in 1 .. Len(Filter(list, S)) : Filter(list, S)[i] = x)
               <=> (x \in S /\ \E i \in 1 .. Len(list) : list[i] = x)
  BY FilterMembers
<1>3. QED
  BY <1>1, <1>2, SetOf

\* ... and that it repeats nothing.
LEMMA FilterDistinct ==
  ASSUME NEW T, NEW list \in Seq(T), NEW S, Distinct(list)
  PROVE  Distinct(Filter(list, S))
<1>1. PICK f, n, N : f = Filter(list, S) /\ n = Len(f) /\ N = Len(list)
  OBVIOUS
<1>2. f \in Seq(T) /\ n \in Nat /\ N \in Nat
  BY <1>1, FilterType
<1>3. \A i, j \in 1 .. n :
        i < j => \E k, l \in 1 .. N : k < l /\ list[k] = f[i] /\ list[l] = f[j]
  BY <1>1, FilterOrder
<1>4. \A k, l \in 1 .. N : list[k] = list[l] => k = l
  BY <1>1 DEF Distinct
<1>5. \A i, j \in 1 .. n : i < j => f[i] # f[j]
  BY <1>2, <1>3, <1>4
<1>6. \A i, j \in 1 .. n : f[i] = f[j] => i = j
  <2>1. \A i, j \in 1 .. n : i < j \/ j < i \/ i = j
    BY <1>2
  <2>2. QED
    BY <1>5, <2>1
<1>7. QED
  BY <1>1, <1>6 DEF Distinct

-----------------------------------------------------------------------------
(* The resources of an export and the lists that are built of them.          *)

\* What an export may hold.
ResourceTypes == {"workspace", "request_group", "request", "environment"}
Resource == [type : ResourceTypes, id : 1 .. MaxResources, parent : 0 .. MaxResources]

\* What the resources name as theirs, place by place; below a parent p it is these
\* lists that are joined.
Parts(rs, p, below) ==
  [i \in DOMAIN rs |->
     IF rs[i].type \notin {"request", "request_group"} \/ rs[i].parent # p THEN << >>
     ELSE IF rs[i].type = "request_group" THEN below[rs[i].id]
     ELSE <<rs[i].id>>]

Named(root, rs) == {root} \cup {r.id : r \in ToSet(rs)}

\* A resource of the list.
LEMMA ResourceAt ==
  ASSUME NEW rs \in Seq(Resource), NEW i \in 1 .. Len(rs)
  PROVE  /\ rs[i] \in Resource /\ rs[i] \in ToSet(rs)
         /\ rs[i].type \in ResourceTypes /\ rs[i].id \in Int /\ rs[i].parent \in Int
         /\ \A root : rs[i].id \in Named(root, rs)
<1>1. PICK R : R = Resource
  OBVIOUS
<1>2. rs \in Seq(R)
  BY <1>1
<1>3. rs[i] \in R /\ rs[i] \in ToSet(rs)
  BY <1>2 DEF ToSet
<1>4. rs[i].type \in ResourceTypes /\ rs[i].id \in Int /\ rs[i].parent \in Int
  <2>1. PICK r : r = rs[i]
    OBVIOUS
  <2>2. r \in Resource
    BY <1>1, <1>3, <2>1
  <2>3. r.type \in ResourceTypes /\ r.id \in 1 .. MaxResources /\ r.parent \in 0 .. MaxResources
    BY <2>2 DEF Resource
  <2>4. QED
    BY <2>1, <2>3
<1>5. QED
  BY <1>1, <1>3, <1>4 DEF Named

\* Their types.
LEMMA PartsType ==
  ASSUME NEW rs \in Seq(Resource), NEW root, NEW p,
         NEW below \in [Named(root, rs) -> Seq(Int)]
  PROVE  /\ Parts(rs, p, below) \in Seq(Seq(Int))
         /\ Len(Parts(rs, p, below)) = Len(rs)
         /\ \A i \in 1 .. Len(rs) : Parts(rs, p, below)[i] =
              IF rs[i].type \notin {"request", "request_group"} \/ rs[i].parent # p THEN << >>
              ELSE IF rs[i].type = "request_group" THEN below[rs[i].id]
              ELSE <<rs[i].id>>
<1> DEFINE Part(i) ==
      IF rs[i].type \notin {"request", "request_group"} \/ rs[i].parent # p THEN << >>
      ELSE IF rs[i].type = "request_group" THEN below[rs[i].id]
      ELSE <<rs[i].id>>
<1>1. PICK N : N = Len(rs)
  OBVIOUS
<1>2. N \in Nat /\ DOMAIN rs = 1 .. N
  BY <1>1
<1>3. PICK parts : parts = Parts(rs, p, below)
  OBVIOUS
<1>4. parts = [i \in 1 .. N |-> Part(i)]
  BY <1>2, <1>3, Zenon DEF Parts
<1>5. ASSUME NEW i \in 1 .. N PROVE Part(i) \in Seq(Int)
  <2>1. rs[i].id \in Int /\ rs[i].id \in Named(root, rs)
    BY <1>1, ResourceAt
  <2>2. PICK x, B : x = rs[i].id /\ B = Named(root, rs)
    OBVIOUS
  <2>3. below[x] \in Seq(Int)
    <3>1. below \in [B -> Seq(Int)] /\ x \in B
      BY <2>1, <2>2
    <3>2. QED
      BY <3>1
  <2>4. << >> \in Seq(Int) /\ <<x>> \in Seq(Int)
    BY <2>1, <2>2
  <2>5. QED
    BY <2>2, <2>3, <2>4
<1>6. parts \in [1 .. N -> Seq(Int)]
  <2> HIDE DEF Part
  <2>1. QED
    BY <1>4, <1>5
<1>7. parts \in Seq(Seq(Int)) /\ Len(parts) = N
  <2>1. PICK A : A = Seq(Int)
    OBVIOUS
  <2>2. parts \in [1 .. N -> A]
    BY <1>6, <2>1
  <2>3. parts \in Seq(A) /\ Len(parts) = N
    BY <1>2, <2>2
  <2>4. QED
    BY <2>1, <2>3
<1>8. \A i \in 1 .. N : parts[i] = Part(i)
  <2> HIDE DEF Part
  <2>1. QED
    BY <1>4
<1>9. QED
  BY <1>1, <1>3, <1>7, <1>8

\* What Below computes, level by level.
LEMMA BelowDef ==
  ASSUME NEW rs \in Seq(Resource), NEW root
  PROVE  /\ \A n \in 0 .. Len(rs) : Below(root, rs)[n] \in [Named(root, rs) -> Seq(Int)]
         /\ \A p \in Named(root, rs) :
              /\ Below(root, rs)[0][p] = << >>
              /\ \A n \in 1 .. Len(rs) :
                   Below(root, rs)[n][p] = FlattenSeq(Parts(rs, p, Below(root, rs)[n - 1]))
<1> DEFINE Level(b) == [p \in Named(root, rs) |-> FlattenSeq(Parts(rs, p, b))]
<1>0. PICK P, A, N, a0 :
        /\ P = Named(root, rs) /\ A = [P -> Seq(Int)] /\ N = Len(rs)
        /\ a0 = [p \in P |-> << >>]
  OBVIOUS
<1>1. N \in Nat /\ a0 \in A
  BY <1>0
<1>2. \A b \in A : Level(b) \in A
  <2> TAKE b \in A
  <2>1. b \in [Named(root, rs) -> Seq(Int)]
    BY <1>0
  <2>2. ASSUME NEW p \in P PROVE FlattenSeq(Parts(rs, p, b)) \in Seq(Int)
    <3>1. Parts(rs, p, b) \in Seq(Seq(Int))
      BY <2>1, PartsType
    <3>2. QED
      BY <3>1, FlattenPlaces
  <2>3. QED
    BY <1>0, <2>2
<1>3. PICK step : step = [n \in 1 .. N |-> [b \in A |-> Level(b)]]
  OBVIOUS
<1>4. step \in [1 .. N -> [A -> A]]
  <2> HIDE DEF Level
  <2>1. QED
    BY <1>2, <1>3
<1>5a. PICK g : Solves(g, A, a0, N, step)
  BY <1>1, <1>4, Solution
<1>5. g \in [0 .. N -> A] /\ g[0] = a0 /\ \A n \in 1 .. N : g[n] = step[n][g[n - 1]]
  BY <1>5a DEF Solves
<1>6. ASSUME NEW n \in 1 .. N PROVE g[n] = Level(g[n - 1])
  <2> HIDE DEF Level
  <2>1. g[n - 1] \in A
    <3>1. n - 1 \in 0 .. N
      BY <1>1
    <3>2. QED
      BY <1>5, <3>1
  <2>2. QED
    BY <1>3, <1>5, <2>1
<1>7. \A n \in 0 .. N : g[n] = [p \in P |-> IF n = 0 THEN << >> ELSE FlattenSeq(Parts(rs, p, g[n - 1]))]
  <2> TAKE n \in 0 .. N
  <2>1. CASE n = 0
    BY <1>0, <1>5, <2>1, Zenon
  <2>2. CASE n # 0
    <3>1. n \in 1 .. N
      BY <2>2
    <3>2. g[n] = [p \in P |-> FlattenSeq(Parts(rs, p, g[n - 1]))]
      BY <1>0, <1>6, <3>1, Zenon
    <3>3. QED
      BY <2>2, <3>2, Zenon
  <2>3. QED
    BY <2>1, <2>2
<1>8. g = [n \in 0 .. N |-> [p \in P |-> IF n = 0 THEN << >>
                                         ELSE FlattenSeq(Parts(rs, p, g[n - 1]))]]
  <2>1. g = [n \in 0 .. N |-> g[n]]
    BY <1>5
  <2>2. QED
    BY <1>7, <2>1, Zenon
<1>9. PICK f : f = Below(root, rs)
  OBVIOUS
<1>10. f = CHOOSE below : below = [n \in 0 .. N |-> [p \in P |->
             IF n = 0 THEN << >> ELSE FlattenSeq(Parts(rs, p, below[n - 1]))]]
  <2>1. f = CHOOSE below : below = [n \in 0 .. Len(rs) |-> [p \in {root} \cup {r.id : r \in ToSet(rs)} |->
              IF n = 0 THEN << >>
              ELSE FlattenSeq([i \in DOMAIN rs |->
                IF rs[i].type \notin {"request", "request_group"} \/ rs[i].parent # p THEN << >>
                ELSE IF rs[i].type = "request_group" THEN below[n - 1][rs[i].id]
                ELSE <<rs[i].id>>])]]
    BY <1>9, Zenon DEF Below
  <2>2. QED
    BY <1>0, <2>1, Zenon DEF Parts, Named
<1>11. f = [n \in 0 .. N |-> [p \in P |->
             IF n = 0 THEN << >> ELSE FlattenSeq(Parts(rs, p, f[n - 1]))]]
  BY <1>8, <1>10, Zenon
<1>12. \A n \in 0 .. N : f[n] = [p \in P |-> IF n = 0 THEN << >>
                                             ELSE FlattenSeq(Parts(rs, p, f[n - 1]))]
  BY <1>11, Zenon
<1>13. f[0] = a0
  <2>1. 0 \in 0 .. N
    BY <1>1
  <2>2. QED
    BY <1>0, <1>12, <2>1, Zenon
<1>14. \A n \in 1 .. N : f[n] = Level(f[n - 1])
  <2> TAKE n \in 1 .. N
  <2>1. n \in 0 .. N /\ n # 0
    OBVIOUS
  <2>2. QED
    BY <1>0, <1>12, <2>1, Zenon
<1>15. \A n \in 0 .. N : f[n] \in A
  <2> DEFINE S == {n \in 0 .. N : f[n] \in A}
  <2>1. 0 \in S
    BY <1>1, <1>13
  <2>2. \A n \in 1 .. N : n - 1 \in S => n \in S
    <3> HIDE DEF Level
    <3>1. QED
      BY <1>2, <1>14
  <2>3. \A n \in 0 .. N : n \in S
    <3> HIDE DEF S
    <3>1. QED
      BY <1>1, <2>1, <2>2, InductTo
  <2>4. QED
    BY <2>3
<1>16. \A p \in P : f[0][p] = << >>
  BY <1>0, <1>13
<1>17. \A p \in P : \A n \in 1 .. N : f[n][p] = FlattenSeq(Parts(rs, p, f[n - 1]))
  <2> TAKE p \in P
  <2> TAKE n \in 1 .. N
  <2>1. f[n] = [q \in P |-> FlattenSeq(Parts(rs, q, f[n - 1]))]
    BY <1>0, <1>14, Zenon
  <2>2. QED
    BY <2>1, Zenon
<1>18. QED
  BY <1>0, <1>9, <1>15, <1>16, <1>17

-----------------------------------------------------------------------------
(* What hangs below what.                                                    *)

\* open[n][p]: p and the groups that hang below it, at most n levels deep, when
\* par[g] is the parent of the group g.
Opens(open, V, G, par, N) ==
  \A p \in V :
    /\ open[0][p] = {p}
    /\ \A n \in 1 .. N : open[n][p] = open[n - 1][p] \cup {g \in G : par[g] \in open[n - 1][p]}

\* There is such a function.
LEMMA OpensExists ==
  ASSUME NEW V, NEW G \in SUBSET V, NEW par, NEW N \in Nat
  PROVE  \E open : Opens(open, V, G, par, N)
<1> DEFINE Deeper(S) == S \cup {g \in G : par[g] \in S}
           Next1(o) == [p \in V |-> Deeper(o[p])]
<1>1. PICK A, a0 : A = [V -> SUBSET V] /\ a0 = [p \in V |-> {p}]
  OBVIOUS
<1>2. a0 \in A
  BY <1>1
<1>3. \A S \in SUBSET V : Deeper(S) \in SUBSET V
  OBVIOUS
<1>4. \A o \in A : Next1(o) \in A
  <2> HIDE DEF Deeper
  <2>1. QED
    BY <1>1, <1>3
<1>5. PICK step : step = [n \in 1 .. N |-> [o \in A |-> Next1(o)]]
  OBVIOUS
<1>6. step \in [1 .. N -> [A -> A]]
  <2> HIDE DEF Next1
  <2>1. QED
    BY <1>4, <1>5
<1>7a. PICK open : Solves(open, A, a0, N, step)
  BY <1>2, <1>6, Solution
<1>7. open \in [0 .. N -> A] /\ open[0] = a0 /\ \A n \in 1 .. N : open[n] = step[n][open[n - 1]]
  BY <1>7a DEF Solves
<1>8. ASSUME NEW n \in 1 .. N, NEW p \in V PROVE open[n][p] = Deeper(open[n - 1][p])
  <2>1. open[n - 1] \in A
    BY <1>7
  <2>2. open[n] = Next1(open[n - 1])
    <3> HIDE DEF Next1
    <3>1. QED
      BY <1>5, <1>7, <2>1
  <2>3. QED
    <3> HIDE DEF Deeper
    <3>1. QED
      BY <2>2
<1>9. \A p \in V : open[0][p] = {p}
  BY <1>1, <1>7
<1>10. \A n \in 1 .. N : \A p \in V :
         open[n][p] = open[n - 1][p] \cup {g \in G : par[g] \in open[n - 1][p]}
  BY <1>8, Zenon
<1>11. QED
  <2> HIDE DEF Deeper, Next1
  <2>1. QED
    BY <1>9, <1>10 DEF Opens

\* The deeper, the more.
LEMMA OpensMore ==
  ASSUME NEW V, NEW G \in SUBSET V, NEW par, NEW N \in Nat, NEW open, Opens(open, V, G, par, N),
         NEW p \in V
  PROVE  /\ \A n \in 0 .. N : \A k \in 0 .. n : open[k][p] \subseteq open[n][p]
         /\ \A n \in 0 .. N : p \in open[n][p] /\ open[n][p] \subseteq V
<1> DEFINE S == {n \in 0 .. N : \A k \in 0 .. n : open[k][p] \subseteq open[n][p]}
           R == {n \in 0 .. N : p \in open[n][p] /\ open[n][p] \subseteq V}
<1>1. open[0][p] = {p}
  BY DEF Opens
<1>2. \A n \in 1 .. N : open[n][p] = open[n - 1][p] \cup {g \in G : par[g] \in open[n - 1][p]}
  BY DEF Opens
<1>3. 0 \in S
  OBVIOUS
<1>4. ASSUME NEW n \in 1 .. N, n - 1 \in S PROVE n \in S
  <2>1. open[n - 1][p] \subseteq open[n][p]
    BY <1>2
  <2>2. \A k \in 0 .. n : k \in 0 .. n - 1 \/ k = n
    OBVIOUS
  <2>3. \A k \in 0 .. n - 1 : open[k][p] \subseteq open[n - 1][p]
    BY <1>4
  <2>4. QED
    BY <2>1, <2>2, <2>3
<1>5. \A n \in 0 .. N : n \in S
  <2> HIDE DEF S
  <2>1. QED
    BY <1>3, <1>4, InductTo
<1>6. 0 \in R
  BY <1>1
<1>7. ASSUME NEW n \in 1 .. N, n - 1 \in R PROVE n \in R
  <2>1. p \in open[n - 1][p] /\ open[n - 1][p] \subseteq V
    BY <1>7
  <2>2. p \in open[n][p] /\ open[n][p] \subseteq V
    BY <1>2, <2>1
  <2>3. QED
    BY <2>2
<1>8. \A n \in 0 .. N : n \in R
  <2> HIDE DEF R
  <2>1. QED
    BY <1>6, <1>7, InductTo
<1>9. QED
  BY <1>5, <1>8

\* One level more at the top is one level more at the bottom.
FromTop(open, V, G, par, N) ==
  \A n \in 1 .. N : \A p \in V : \A x :
    x \in open[n][p] <=> x = p \/ \E g \in G : par[g] = p /\ x \in open[n - 1][g]

LEMMA OpensFromTop ==
  ASSUME NEW V, NEW G \in SUBSET V, NEW par, NEW N \in Nat, NEW open, Opens(open, V, G, par, N)
  PROVE  FromTop(open, V, G, par, N)
<1> DEFINE Top(n) == \A p \in V : \A x :
             x \in open[n][p] <=> x = p \/ \E g \in G : par[g] = p /\ x \in open[n - 1][g]
           S == {n \in 0 .. N : n = 0 \/ Top(n)}
<1>1. \A p \in V : open[0][p] = {p}
  BY DEF Opens
<1>2. \A p \in V : \A n \in 1 .. N : \A x :
        x \in open[n][p] <=> x \in open[n - 1][p] \/ (x \in G /\ par[x] \in open[n - 1][p])
  BY DEF Opens
<1>3. 0 \in S
  OBVIOUS
<1>4. ASSUME NEW n \in 1 .. N, n - 1 \in S PROVE Top(n)
  <2>1. CASE n = 1
    <3>1. 1 \in 1 .. N /\ 1 - 1 = 0
      BY <2>1
    <3>2. \A p \in V : \A x : x \in open[1][p] <=> x \in open[0][p] \/ (x \in G /\ par[x] \in open[0][p])
      BY <1>2, <3>1
    <3>3. \A p \in V : \A x : x \in open[1][p] <=> x = p \/ (x \in G /\ par[x] = p)
      BY <1>1, <3>2
    <3>4. \A p \in V : \A x : (x \in G /\ par[x] = p) <=> \E g \in G : par[g] = p /\ x \in open[0][g]
      BY <1>1
    <3>5. QED
      BY <2>1, <3>1, <3>3, <3>4
  <2>2. CASE n # 1
    <3>1. PICK m, k : m = n - 1 /\ k = n - 2
      OBVIOUS
    <3>2. m \in 1 .. N /\ k = m - 1
      BY <2>2, <3>1
    <3>3. \A p \in V : \A x : x \in open[m][p] <=> x = p \/ \E g \in G : par[g] = p /\ x \in open[k][g]
      BY <1>4, <3>1, <3>2
    <3>4. \A g \in G : \A x : x \in open[m][g] <=> x \in open[k][g] \/ (x \in G /\ par[x] \in open[k][g])
      BY <1>2, <3>2
    <3>5. \A p \in V : \A x : x \in open[n][p] <=> x \in open[m][p] \/ (x \in G /\ par[x] \in open[m][p])
      BY <1>2, <3>1
    <3>6. ASSUME NEW p \in V, NEW x
          PROVE  x \in open[n][p] <=> x = p \/ \E g \in G : par[g] = p /\ x \in open[m][g]
      <4>0. \A g \in G : g \in open[k][g]
        <5>1. k \in 0 .. N
          BY <3>2
        <5>2. \A g \in G : g \in V
          OBVIOUS
        <5>3. QED
          BY <5>1, <5>2, OpensMore
      <4>1. ASSUME x \in open[n][p], x # p PROVE \E g \in G : par[g] = p /\ x \in open[m][g]
        <5>1. CASE x \in open[m][p]
          BY <3>3, <3>4, <4>1, <5>1
        <5>2. CASE x \in G /\ par[x] = p
          BY <3>4, <4>0, <5>2
        <5>3. CASE x \in G /\ par[x] # p /\ par[x] \in open[m][p]
          <6>1. PICK g \in G : par[g] = p /\ par[x] \in open[k][g]
            BY <3>3, <5>3
          <6>2. QED
            BY <3>4, <5>3, <6>1
        <5>4. QED
          BY <3>5, <4>1, <5>1, <5>2, <5>3
      <4>2. ASSUME NEW g \in G, par[g] = p, x \in open[m][g] PROVE x \in open[n][p]
        <5>1. CASE x \in open[k][g]
          BY <3>3, <3>5, <4>2, <5>1
        <5>2. CASE x \in G /\ par[x] \in open[k][g]
          BY <3>3, <3>5, <4>2, <5>2
        <5>3. QED
          BY <3>4, <4>2, <5>1, <5>2
      <4>3. p \in open[n][p]
        <5>1. n \in 0 .. N
          OBVIOUS
        <5>2. QED
          BY <5>1, OpensMore
      <4>4. QED
        BY <4>1, <4>2, <4>3
    <3>7. QED
      BY <3>1, <3>6
  <2>3. QED
    BY <2>1, <2>2
<1>5. \A n \in 1 .. N : n - 1 \in S => n \in S
  <2> HIDE DEF Top
  <2>1. QED
    BY <1>4
<1>6. \A n \in 0 .. N : n \in S
  <2> HIDE DEF S
  <2>1. QED
    BY <1>3, <1>5, InductTo
<1>7. \A n \in 1 .. N : Top(n)
  <2> HIDE DEF Top
  <2>1. QED
    BY <1>6
<1>8. QED
  BY <1>7 DEF FromTop

\* What hangs below what hangs below p hangs below p.
LEMMA OpensJoin ==
  ASSUME NEW V, NEW G \in SUBSET V, NEW par, NEW N \in Nat, NEW open, Opens(open, V, G, par, N),
         NEW p \in V, NEW m \in 0 .. N, NEW q \in open[m][p]
  PROVE  \A n \in 0 .. N - m : open[n][q] \subseteq open[m + n][p]
<1>1. PICK M : M = N - m
  OBVIOUS
<1>2. M \in Nat /\ \A n \in 0 .. M : n \in 0 .. N /\ m + n \in 0 .. N
  BY <1>1
<1>3. q \in V
  BY OpensMore
<1> DEFINE S == {n \in 0 .. M : open[n][q] \subseteq open[m + n][p]}
<1>4. 0 \in S
  <2>1. open[0][q] = {q}
    BY <1>3 DEF Opens
  <2>2. m + 0 = m
    OBVIOUS
  <2>3. QED
    BY <1>2, <2>1, <2>2
<1>5. ASSUME NEW n \in 1 .. M, n - 1 \in S PROVE n \in S
  <2>1. n \in 1 .. N /\ m + n \in 1 .. N /\ (m + n) - 1 = m + (n - 1)
    BY <1>1
  <2>2. open[n][q] = open[n - 1][q] \cup {g \in G : par[g] \in open[n - 1][q]}
    BY <1>3, <2>1 DEF Opens
  <2>3. PICK k : k = m + (n - 1)
    OBVIOUS
  <2>4. open[m + n][p] = open[k][p] \cup {g \in G : par[g] \in open[k][p]}
    <3>1. k = (m + n) - 1
      BY <2>1, <2>3
    <3>2. QED
      <4>1. PICK l : l = m + n
        OBVIOUS
      <4>2. l \in 1 .. N /\ k = l - 1
        BY <2>1, <3>1, <4>1
      <4>3. open[l][p] = open[l - 1][p] \cup {g \in G : par[g] \in open[l - 1][p]}
        BY <4>2 DEF Opens
      <4>4. QED
        BY <4>1, <4>2, <4>3
  <2>5. open[n - 1][q] \subseteq open[k][p]
    BY <1>5, <2>3
  <2>6. QED
    BY <2>2, <2>4, <2>5
<1>6. \A n \in 0 .. M : n \in S
  <2> HIDE DEF S
  <2>1. QED
    BY <1>2, <1>4, <1>5, InductTo
<1>7. QED
  BY <1>1, <1>6

\* What hangs below p, and is not p, has its parent one level less deep.
LEMMA OpensParent ==
  ASSUME NEW V, NEW G \in SUBSET V, NEW par, NEW N \in Nat, NEW open, Opens(open, V, G, par, N),
         NEW p \in V
  PROVE  \A n \in 0 .. N : \A q \in open[n][p] :
           q = p \/ (n \in 1 .. N /\ q \in G /\ par[q] \in open[n - 1][p])
<1> DEFINE S == {n \in 0 .. N : \A q \in open[n][p] :
                   q = p \/ (n \in 1 .. N /\ q \in G /\ par[q] \in open[n - 1][p])}
<1>1. open[0][p] = {p}
  BY DEF Opens
<1>2. \A n \in 1 .. N : open[n][p] = open[n - 1][p] \cup {g \in G : par[g] \in open[n - 1][p]}
  BY DEF Opens
<1>3. 0 \in S
  BY <1>1
<1>4. ASSUME NEW n \in 1 .. N, n - 1 \in S PROVE n \in S
  <2>1. ASSUME NEW q \in open[n][p], q # p PROVE q \in G /\ par[q] \in open[n - 1][p]
    <3>1. CASE q \in open[n - 1][p]
      <4>1. PICK m : m = n - 1
        OBVIOUS
      <4>2. m \in 1 .. N /\ q \in G /\ par[q] \in open[m - 1][p]
        BY <1>4, <2>1, <3>1, <4>1
      <4>3. open[m - 1][p] \subseteq open[m][p]
        BY <1>2, <4>2
      <4>4. QED
        BY <4>1, <4>2, <4>3
    <3>2. QED
      BY <1>2, <2>1, <3>1
  <2>2. QED
    BY <2>1
<1>5. \A n \in 0 .. N : n \in S
  <2> HIDE DEF S
  <2>1. QED
    BY <1>3, <1>4, InductTo
<1>6. QED
  BY <1>5

\* How deep below root each thing hangs.
Depths(D, par, open, root, N) ==
  /\ D[root] = 0
  /\ \A x \in open[N][root] :
       D[x] \in Nat /\ (x # root => par[x] \in open[N][root] /\ D[x] = D[par[x]] + 1)

\* There are such depths: the first level at which a thing is found.
LEMMA DepthsExist ==
  ASSUME NEW V, NEW G \in SUBSET V, NEW par, NEW N \in Nat, NEW open, Opens(open, V, G, par, N),
         NEW root \in V
  PROVE  \E D : Depths(D, par, open, root, N)
<1> DEFINE First(x, n) == /\ n \in 0 .. N /\ x \in open[n][root]
                          /\ \A m \in 0 .. N : x \in open[m][root] => n <= m
<1>1. PICK D : D = [x \in open[N][root] |-> CHOOSE n : First(x, n)]
  OBVIOUS
<1>2. ASSUME NEW x \in open[N][root] PROVE First(x, D[x])
  <2>1. PICK S : S = {n \in 0 .. N : x \in open[n][root]}
    OBVIOUS
  <2>2. N \in S /\ S \in SUBSET Nat
    BY <2>1
  <2>3. PICK n \in S : \A m \in S : n <= m
    BY <2>2, Least
  <2>4. First(x, n)
    BY <2>1, <2>3
  <2>5. First(x, CHOOSE k : First(x, k))
    <3> HIDE DEF First
    <3>1. QED
      BY <2>4, Zenon
  <2>6. D[x] = CHOOSE k : First(x, k)
    <3> HIDE DEF First
    <3>1. QED
      BY <1>1
  <2>7. QED
    <3> HIDE DEF First
    <3>1. QED
      BY <2>5, <2>6
<1>3. \A n \in 0 .. N : open[n][root] \subseteq open[N][root]
  <2>1. \A n \in 0 .. N : N \in 0 .. N /\ n \in 0 .. N
    OBVIOUS
  <2>2. QED
    BY <2>1, OpensMore
<1>4. root \in open[0][root] /\ root \in open[N][root]
  <2>1. 0 \in 0 .. N /\ N \in 0 .. N
    OBVIOUS
  <2>2. QED
    BY <2>1, OpensMore
<1>5. D[root] = 0
  <2>1. First(root, D[root])
    BY <1>2, <1>4
  <2>2. D[root] \in 0 .. N /\ D[root] <= 0
    BY <1>4, <2>1
  <2>3. QED
    BY <2>2
<1>6. ASSUME NEW x \in open[N][root], x # root
      PROVE  par[x] \in open[N][root] /\ D[x] = D[par[x]] + 1
  <2>1. PICK n, y, d : n = D[x] /\ y = par[x] /\ d = D[y]
    OBVIOUS
  <2>2. First(x, n)
    BY <1>2, <2>1
  <2>3. n \in 1 .. N /\ x \in G /\ y \in open[n - 1][root]
    <3>1. n \in 0 .. N /\ x \in open[n][root]
      BY <2>2
    <3>2. x = root \/ (n \in 1 .. N /\ x \in G /\ par[x] \in open[n - 1][root])
      BY <3>1, OpensParent
    <3>3. QED
      BY <1>6, <2>1, <3>2
  <2>4. PICK k : k = n - 1
    OBVIOUS
  <2>5. k \in 0 .. N /\ y \in open[k][root]
    BY <2>3, <2>4
  <2>6. y \in open[N][root]
    BY <1>3, <2>5
  <2>7. First(y, d)
    BY <1>2, <2>1, <2>6
  <2>8. d \in 0 .. N /\ d <= k
    BY <2>5, <2>7
  <2>9. x \in open[d + 1][root] /\ d + 1 \in 0 .. N
    <3>1. PICK e : e = d + 1
      OBVIOUS
    <3>2. e \in 1 .. N /\ d = e - 1
      BY <2>3, <2>4, <2>8, <3>1
    <3>3. open[e][root] = open[d][root] \cup {g \in G : par[g] \in open[d][root]}
      BY <3>2 DEF Opens
    <3>4. x \in open[e][root]
      BY <2>1, <2>3, <2>7, <3>3
    <3>5. QED
      BY <3>1, <3>2, <3>4
  <2>10. n <= d + 1
    BY <2>2, <2>9
  <2>11. n = d + 1
    BY <2>3, <2>4, <2>8, <2>10
  <2>12. QED
    BY <2>1, <2>6, <2>11
<1>7. \A x \in open[N][root] : D[x] \in Nat
  <2>1. \A x \in open[N][root] : D[x] \in 0 .. N
    BY <1>2
  <2>2. QED
    BY <2>1
<1>8. QED
  BY <1>5, <1>6, <1>7 DEF Depths

\* What hangs below p hangs deeper than p.
Deepens(D, open, root, N) ==
  \A m \in 0 .. N : \A p \in open[m][root] : \A n \in 0 .. N - m : \A q \in open[n][p] :
    q \in open[N][root] /\ D[q] \in Nat /\ (q # p => D[q] > D[p])

LEMMA DeeperBelow ==
  ASSUME NEW V, NEW G \in SUBSET V, NEW par, NEW N \in Nat, NEW open, Opens(open, V, G, par, N),
         NEW root \in V, root \notin G, NEW D, Depths(D, par, open, root, N)
  PROVE  Deepens(D, open, root, N)
<1> SUFFICES ASSUME NEW m \in 0 .. N, NEW p \in open[m][root]
             PROVE  \A n \in 0 .. N - m : \A q \in open[n][p] :
                      q \in open[N][root] /\ D[q] \in Nat /\ (q # p => D[q] > D[p])
  BY DEF Deepens
<1>1. PICK M : M = N - m
  OBVIOUS
<1>2. M \in Nat /\ \A n \in 0 .. M : n \in 0 .. N /\ m + n \in 0 .. N
  BY <1>1
<1>3. p \in V
  BY OpensMore
<1>4. \A n \in 0 .. M : open[n][p] \subseteq open[N][root]
  <2> TAKE n \in 0 .. M
  <2>1. PICK k : k = m + n
    OBVIOUS
  <2>2. open[n][p] \subseteq open[k][root]
    BY <1>1, <2>1, OpensJoin
  <2>3. N \in 0 .. N /\ k \in 0 .. N
    BY <1>2, <2>1
  <2>4. open[k][root] \subseteq open[N][root]
    BY <2>3, OpensMore
  <2>5. QED
    BY <2>2, <2>4
<1>5. \A q \in open[N][root] : D[q] \in Nat
  BY DEF Depths
<1>6. D[p] \in Nat
  <2>1. 0 \in 0 .. M /\ open[0][p] = {p}
    BY <1>2, <1>3 DEF Opens
  <2>2. QED
    BY <1>4, <1>5, <2>1
<1> DEFINE S == {n \in 0 .. M : \A q \in open[n][p] : q # p => D[q] > D[p]}
<1>7. 0 \in S
  <2>1. open[0][p] = {p}
    BY <1>3 DEF Opens
  <2>2. QED
    BY <1>2, <2>1
<1>8. ASSUME NEW n \in 1 .. M, n - 1 \in S PROVE n \in S
  <2>1. ASSUME NEW q \in open[n][p], q # p PROVE D[q] > D[p]
    <3>1. PICK k, r : k = n - 1 /\ r = par[q]
      OBVIOUS
    <3>2. n \in 0 .. N /\ k \in 0 .. M
      BY <1>2, <3>1
    <3>3. q \in G /\ r \in open[k][p]
      <4>1. q = p \/ (n \in 1 .. N /\ q \in G /\ par[q] \in open[n - 1][p])
        BY <1>3, <2>1, <3>2, OpensParent
      <4>2. QED
        BY <2>1, <3>1, <4>1
    <3>4. q \in open[N][root] /\ q # root /\ n \in 0 .. M
      BY <1>4, <2>1, <3>3
    <3>5. D[q] = D[r] + 1
      BY <3>1, <3>4 DEF Depths
    <3>6. r # p => D[r] > D[p]
      BY <1>8, <3>1, <3>3
    <3>7. D[r] \in Nat
      BY <1>4, <1>5, <3>2, <3>3
    <3>8. QED
      BY <1>6, <3>5, <3>6, <3>7
  <2>2. QED
    BY <2>1
<1>9. \A n \in 0 .. M : n \in S
  <2> HIDE DEF S
  <2>1. QED
    BY <1>2, <1>7, <1>8, InductTo
<1>10. QED
  BY <1>1, <1>4, <1>5, <1>9

\* Nothing hangs below two groups of the same depth.
Separates(D, open, root, N) ==
  \A m \in 0 .. N : \A p, q \in open[m][root] : D[p] = D[q] /\ p # q =>
    \A n \in 0 .. N - m : open[n][p] \cap open[n][q] = {}

LEMMA OpensApart ==
  ASSUME NEW V, NEW G \in SUBSET V, NEW par, NEW N \in Nat, NEW open, Opens(open, V, G, par, N),
         NEW root \in V, root \notin G, NEW D, Depths(D, par, open, root, N)
  PROVE  Separates(D, open, root, N)
<1>0. Deepens(D, open, root, N)
  BY DeeperBelow
<1> SUFFICES ASSUME NEW m \in 0 .. N, NEW p \in open[m][root], NEW q \in open[m][root],
                    D[p] = D[q], p # q
             PROVE  \A n \in 0 .. N - m : open[n][p] \cap open[n][q] = {}
  BY DEF Separates
<1>1. PICK M : M = N - m
  OBVIOUS
<1>2. M \in Nat /\ \A n \in 0 .. M : n \in 0 .. N
  BY <1>1
<1>3. p \in V /\ q \in V
  BY OpensMore
<1>4. \A n \in 0 .. M : \A x \in open[n][p] : D[x] \in Nat /\ (x # p => D[x] > D[p])
  BY <1>0, <1>1 DEF Deepens
<1>5. \A n \in 0 .. M : \A x \in open[n][q] : D[x] \in Nat /\ (x # q => D[x] > D[q])
  BY <1>0, <1>1 DEF Deepens
<1>6. open[0][p] = {p} /\ open[0][q] = {q}
  BY <1>3 DEF Opens
<1>7. D[p] \in Nat
  BY <1>2, <1>4, <1>6
<1> DEFINE S == {n \in 0 .. M : open[n][p] \cap open[n][q] = {}}
<1>8. 0 \in S
  BY <1>2, <1>6
<1>9. ASSUME NEW n \in 1 .. M, n - 1 \in S PROVE n \in S
  <2> SUFFICES ASSUME NEW x, x \in open[n][p], x \in open[n][q] PROVE FALSE
    BY <1>2
  <2>1. n \in 0 .. M /\ n \in 0 .. N
    BY <1>2
  <2>2. x # p
    BY <1>5, <1>7, <2>1
  <2>3. x # q
    BY <1>4, <1>7, <2>1
  <2>4. par[x] \in open[n - 1][p]
    BY <1>3, <2>1, <2>2, OpensParent
  <2>5. par[x] \in open[n - 1][q]
    BY <1>3, <2>1, <2>3, OpensParent
  <2>6. QED
    BY <1>9, <2>4, <2>5
<1>10. \A n \in 0 .. M : n \in S
  <2> HIDE DEF S
  <2>1. QED
    BY <1>2, <1>8, <1>9, InductTo
<1>11. QED
  BY <1>1, <1>10

-----------------------------------------------------------------------------
(* The tree of an export.                                                    *)

\* The names of the requests and of the groups.
Requests(rs) == {rs[i].id : i \in {j \in 1 .. Len(rs) : rs[j].type = "request"}}
Groups(rs) == {rs[i].id : i \in {j \in 1 .. Len(rs) : rs[j].type = "request_group"}}
Unique(rs) == \A i, j \in 1 .. Len(rs) : rs[i].id = rs[j].id => i = j

\* Resources that name their parents, no two of one name, and what hangs below the root.
Tree(rs, root, par, open) ==
  /\ Unique(rs) /\ root \notin Groups(rs) \cup Requests(rs)
  /\ \A i \in 1 .. Len(rs) : par[rs[i].id] = rs[i].parent
  /\ Opens(open, {root} \cup Groups(rs), Groups(rs), par, Len(rs))

\* Every such list has a tree.
LEMMA TreeExists ==
  ASSUME NEW rs \in Seq(Resource), Unique(rs), NEW root, root \notin Groups(rs) \cup Requests(rs)
  PROVE  \E par, open : Tree(rs, root, par, open)
<1>1. PICK N, ids : N = Len(rs) /\ ids = {rs[i].id : i \in 1 .. N}
  OBVIOUS
<1>2. PICK par : par = [x \in ids |-> rs[CHOOSE i \in 1 .. N : rs[i].id = x].parent]
  OBVIOUS
<1>3. ASSUME NEW i \in 1 .. N PROVE par[rs[i].id] = rs[i].parent
  <2>1. PICK x : x = rs[i].id
    OBVIOUS
  <2>2. PICK k : k = CHOOSE j \in 1 .. N : rs[j].id = x
    OBVIOUS
  <2>3. k \in 1 .. N /\ rs[k].id = x
    BY <2>1, <2>2
  <2>4. k = i
    BY <1>1, <2>1, <2>3 DEF Unique
  <2>5. x \in ids
    BY <1>1, <2>1
  <2>6. par[x] = rs[k].parent
    BY <1>2, <2>2, <2>5
  <2>7. QED
    BY <2>1, <2>4, <2>6
<1>4. \E open : Opens(open, {root} \cup Groups(rs), Groups(rs), par, N)
  <2>1. N \in Nat /\ Groups(rs) \in SUBSET ({root} \cup Groups(rs))
    BY <1>1
  <2>2. QED
    BY <2>1, OpensExists
<1>5. QED
  BY <1>1, <1>3, <1>4 DEF Tree

\* What the parts below p hold together.
LEMMA PartMembers ==
  ASSUME NEW rs \in Seq(Resource), NEW root, NEW par, NEW open, Tree(rs, root, par, open),
         NEW p, NEW below \in [Named(root, rs) -> Seq(Int)]
  PROVE  \A x : x \in ToSet(FlattenSeq(Parts(rs, p, below))) <=>
                  \/ x \in Requests(rs) /\ par[x] = p
                  \/ \E g \in Groups(rs) : par[g] = p /\ x \in ToSet(below[g])
<1>1. PICK N, parts : N = Len(rs) /\ parts = Parts(rs, p, below)
  OBVIOUS
<1>2. parts \in Seq(Seq(Int)) /\ Len(parts) = N
  BY <1>1, PartsType
<1>3. \A i \in 1 .. N : parts[i] =
        IF rs[i].type \notin {"request", "request_group"} \/ rs[i].parent # p THEN << >>
        ELSE IF rs[i].type = "request_group" THEN below[rs[i].id]
        ELSE <<rs[i].id>>
  BY <1>1, PartsType
<1>4. \A x : x \in ToSet(FlattenSeq(parts)) <=> \E i \in 1 .. N : x \in ToSet(parts[i])
  BY <1>2, FlattenMembers
<1>5. \A i \in 1 .. N : par[rs[i].id] = rs[i].parent
  BY <1>1 DEF Tree
<1>6. ToSet(<< >>) = {} /\ \A y : ToSet(<<y>>) = {y}
  BY DEF ToSet
<1>7. ASSUME NEW x, NEW i \in 1 .. N, x \in ToSet(parts[i])
      PROVE  \/ x \in Requests(rs) /\ par[x] = p
             \/ \E g \in Groups(rs) : par[g] = p /\ x \in ToSet(below[g])
  <2>1. parts[i] # << >>
    BY <1>6, <1>7
  <2>2. rs[i].type \in {"request", "request_group"} /\ rs[i].parent = p
    BY <1>3, <2>1
  <2>3. CASE rs[i].type = "request_group"
    <3>1. PICK g : g = rs[i].id
      OBVIOUS
    <3>2. parts[i] = below[g]
      BY <1>3, <2>2, <2>3, <3>1
    <3>3. g \in Groups(rs) /\ par[g] = p
      BY <1>1, <1>5, <2>2, <2>3, <3>1 DEF Groups
    <3>4. QED
      BY <1>7, <3>2, <3>3
  <2>4. CASE rs[i].type = "request"
    <3>1. parts[i] = <<rs[i].id>>
      BY <1>3, <2>2, <2>4
    <3>2. x = rs[i].id
      BY <1>6, <1>7, <3>1
    <3>3. x \in Requests(rs) /\ par[x] = p
      BY <1>1, <1>5, <2>2, <2>4, <3>2 DEF Requests
    <3>4. QED
      BY <3>3
  <2>5. QED
    BY <2>2, <2>3, <2>4
<1>8. ASSUME NEW x \in Requests(rs), par[x] = p PROVE \E i \in 1 .. N : x \in ToSet(parts[i])
  <2>1. PICK i \in 1 .. N : rs[i].id = x /\ rs[i].type = "request"
    BY <1>1 DEF Requests
  <2>2. rs[i].parent = p
    BY <1>5, <1>8, <2>1
  <2>3. parts[i] = <<x>>
    BY <1>3, <2>1, <2>2
  <2>4. QED
    BY <1>6, <2>3
<1>9. ASSUME NEW x, NEW g \in Groups(rs), par[g] = p, x \in ToSet(below[g])
      PROVE  \E i \in 1 .. N : x \in ToSet(parts[i])
  <2>1. PICK i \in 1 .. N : rs[i].id = g /\ rs[i].type = "request_group"
    BY <1>1 DEF Groups
  <2>2. rs[i].parent = p
    BY <1>5, <1>9, <2>1
  <2>3. parts[i] = below[g]
    BY <1>3, <2>1, <2>2
  <2>4. QED
    BY <1>9, <2>3
<1>10. QED
  BY <1>1, <1>4, <1>7, <1>8, <1>9

\* What is built below p, n levels deep: the requests whose parent hangs there.
Gathers(rs, root, par, open) ==
  \A n \in 1 .. Len(rs) : \A p \in {root} \cup Groups(rs) : \A x :
    x \in ToSet(Below(root, rs)[n][p]) <=> x \in Requests(rs) /\ par[x] \in open[n - 1][p]

LEMMA BelowMembers ==
  ASSUME NEW rs \in Seq(Resource), NEW root, NEW par, NEW open, Tree(rs, root, par, open)
  PROVE  Gathers(rs, root, par, open)
<1>1. PICK N, V, G, f : /\ N = Len(rs) /\ G = Groups(rs) /\ V = {root} \cup G
                        /\ f = Below(root, rs)
  OBVIOUS
<1>2. N \in Nat /\ G \in SUBSET V
  BY <1>1
<1>3. Opens(open, V, G, par, N)
  BY <1>1 DEF Tree
<1>4. V \subseteq Named(root, rs)
  <2>1. ASSUME NEW g \in G PROVE g \in Named(root, rs)
    <3>1. PICK i \in 1 .. Len(rs) : rs[i].id = g
      BY <1>1, <2>1 DEF Groups
    <3>2. QED
      BY <3>1, ResourceAt
  <2>2. root \in Named(root, rs)
    BY DEF Named
  <2>3. QED
    BY <1>1, <2>1, <2>2
<1>5. \A n \in 0 .. N : f[n] \in [Named(root, rs) -> Seq(Int)]
  BY <1>1, BelowDef
<1>6. \A p \in V : f[0][p] = << >> /\ \A n \in 1 .. N : f[n][p] = FlattenSeq(Parts(rs, p, f[n - 1]))
  BY <1>1, <1>4, BelowDef
<1>7. ASSUME NEW n \in 1 .. N, NEW p \in V, NEW x
      PROVE  x \in ToSet(f[n][p]) <=> \/ x \in Requests(rs) /\ par[x] = p
                                      \/ \E g \in G : par[g] = p /\ x \in ToSet(f[n - 1][g])
  <2>1. PICK b : b = f[n - 1]
    OBVIOUS
  <2>2. b \in [Named(root, rs) -> Seq(Int)]
    <3>1. n - 1 \in 0 .. N
      BY <1>2
    <3>2. QED
      BY <1>5, <2>1, <3>1
  <2>3. f[n][p] = FlattenSeq(Parts(rs, p, b))
    BY <1>6, <2>1
  <2>4. x \in ToSet(FlattenSeq(Parts(rs, p, b))) <=>
          \/ x \in Requests(rs) /\ par[x] = p
          \/ \E g \in G : par[g] = p /\ x \in ToSet(b[g])
    BY <1>1, <2>2, PartMembers
  <2>5. QED
    BY <2>1, <2>3, <2>4
<1> DEFINE Full(n) == \A p \in V : \A x :
             x \in ToSet(f[n][p]) <=> x \in Requests(rs) /\ par[x] \in open[n - 1][p]
           S == {n \in 0 .. N : n = 0 \/ Full(n)}
<1>8. 0 \in S
  BY <1>2
<1>9. ASSUME NEW n \in 1 .. N, n - 1 \in S PROVE Full(n)
  <2>1. CASE n = 1
    <3>1. n - 1 = 0 /\ 0 \in 0 .. N
      BY <1>2, <2>1
    <3>2. \A p \in V : f[n - 1][p] = << >>
      BY <1>6, <3>1
    <3>3. \A p \in V : open[n - 1][p] = {p}
      BY <1>3, <3>1 DEF Opens
    <3>4. ToSet(<< >>) = {}
      BY DEF ToSet
    <3>5. ASSUME NEW p \in V, NEW x
          PROVE  x \in ToSet(f[n][p]) <=> x \in Requests(rs) /\ par[x] \in open[n - 1][p]
      <4>1. \A g \in G : x \notin ToSet(f[n - 1][g])
        BY <1>2, <3>2, <3>4
      <4>2. QED
        BY <1>7, <3>3, <4>1
    <3>6. QED
      BY <3>5
  <2>2. CASE n # 1
    <3>1. PICK m, k : m = n - 1 /\ k = n - 2
      OBVIOUS
    <3>2. m \in 1 .. N /\ k = m - 1
      BY <1>2, <2>2, <3>1
    <3>3. \A g \in V : \A x : x \in ToSet(f[m][g]) <=> x \in Requests(rs) /\ par[x] \in open[k][g]
      <4>1. Full(m)
        BY <1>9, <3>1, <3>2
      <4>2. QED
        BY <3>2, <4>1
    <3>4. \A p \in V : \A y :
            y \in open[m][p] <=> y = p \/ \E g \in G : par[g] = p /\ y \in open[k][g]
      <4>1. \A l \in 1 .. N : \A p \in V : \A y :
              y \in open[l][p] <=> y = p \/ \E g \in G : par[g] = p /\ y \in open[l - 1][g]
        <5>1. FromTop(open, V, G, par, N)
          BY <1>2, <1>3, OpensFromTop
        <5>2. QED
          BY <5>1 DEF FromTop
      <4>2. QED
        BY <3>2, <4>1
    <3>5. ASSUME NEW p \in V, NEW x
          PROVE  x \in ToSet(f[n][p]) <=> x \in Requests(rs) /\ par[x] \in open[n - 1][p]
      <4>1. x \in ToSet(f[n][p]) <=> \/ x \in Requests(rs) /\ par[x] = p
                                     \/ \E g \in G : par[g] = p /\ x \in ToSet(f[m][g])
        BY <1>7, <3>1
      <4>2. \A g \in G : x \in ToSet(f[m][g]) <=> x \in Requests(rs) /\ par[x] \in open[k][g]
        BY <1>2, <3>3
      <4>3. PICK y : y = par[x]
        OBVIOUS
      <4>4. y \in open[m][p] <=> y = p \/ \E g \in G : par[g] = p /\ y \in open[k][g]
        BY <3>4
      <4>5. QED
        BY <3>1, <4>1, <4>2, <4>3, <4>4
    <3>6. QED
      BY <3>5
  <2>3. QED
    BY <2>1, <2>2
<1>10. \A n \in 1 .. N : n - 1 \in S => n \in S
  <2> HIDE DEF Full
  <2>1. QED
    BY <1>9
<1>11. \A n \in 0 .. N : n \in S
  <2> HIDE DEF S
  <2>1. QED
    BY <1>2, <1>8, <1>10, InductTo
<1>12. \A n \in 1 .. N : Full(n)
  <2> HIDE DEF Full
  <2>1. QED
    BY <1>11
<1>13. QED
  BY <1>1, <1>12 DEF Gathers

\* No request is built twice.
LEMMA BelowDistinct ==
  ASSUME NEW rs \in Seq(Resource), NEW root, NEW par, NEW open, Tree(rs, root, par, open)
  PROVE  Distinct(Below(root, rs)[Len(rs)][root])
<1>1. PICK N, V, G, f : /\ N = Len(rs) /\ G = Groups(rs) /\ V = {root} \cup G
                        /\ f = Below(root, rs)
  OBVIOUS
<1>2. N \in Nat /\ G \in SUBSET V /\ root \in V /\ root \notin G
  BY <1>1 DEF Tree
<1>3. Opens(open, V, G, par, N)
  BY <1>1 DEF Tree
<1>4. PICK D : Depths(D, par, open, root, N)
  BY <1>2, <1>3, DepthsExist
<1>5. Deepens(D, open, root, N)
  BY <1>2, <1>3, <1>4, DeeperBelow
<1>6. Separates(D, open, root, N)
  BY <1>2, <1>3, <1>4, OpensApart
<1>7. V \subseteq Named(root, rs)
  <2>1. ASSUME NEW g \in G PROVE g \in Named(root, rs)
    <3>1. PICK i \in 1 .. Len(rs) : rs[i].id = g
      BY <1>1, <2>1 DEF Groups
    <3>2. QED
      BY <3>1, ResourceAt
  <2>2. root \in Named(root, rs)
    BY DEF Named
  <2>3. QED
    BY <1>1, <2>1, <2>2
<1>8. \A n \in 0 .. N : f[n] \in [Named(root, rs) -> Seq(Int)]
  BY <1>1, BelowDef
<1>9. \A p \in V : f[0][p] = << >> /\ \A n \in 1 .. N : f[n][p] = FlattenSeq(Parts(rs, p, f[n - 1]))
  BY <1>1, <1>7, BelowDef
<1>10. \A n \in 1 .. N : \A p \in V : \A x :
         x \in ToSet(f[n][p]) <=> x \in Requests(rs) /\ par[x] \in open[n - 1][p]
  <2>1. Gathers(rs, root, par, open)
    BY BelowMembers
  <2>2. QED
    BY <1>1, <2>1 DEF Gathers
<1>11. \A m \in 0 .. N : open[m][root] \subseteq V
  BY <1>2, <1>3, OpensMore
<1>12. ToSet(<< >>) = {} /\ \A y : ToSet(<<y>>) = {y}
  BY DEF ToSet
<1>13. Distinct(<< >>) /\ \A y : Distinct(<<y>>)
  BY DEF Distinct
<1>14. /\ \A i \in 1 .. N : par[rs[i].id] = rs[i].parent
       /\ \A i, j \in 1 .. N : rs[i].id = rs[j].id => i = j
  BY <1>1 DEF Tree, Unique
<1>15. ASSUME NEW m \in 0 .. N, NEW p \in open[m][root], NEW g \in G, par[g] = p, m + 1 \in 0 .. N
       PROVE  g \in open[m + 1][root] /\ D[g] = D[p] + 1 /\ D[p] \in Nat
  <2>1. PICK k : k = m + 1
    OBVIOUS
  <2>2. k \in 1 .. N /\ m = k - 1
    BY <1>15, <2>1
  <2>3. open[k][root] = open[k - 1][root] \cup {h \in G : par[h] \in open[k - 1][root]}
    BY <1>2, <1>3, <2>2 DEF Opens
  <2>4. g \in open[k][root]
    BY <1>15, <2>2, <2>3
  <2>5. g \in open[N][root] /\ p \in open[N][root]
    <3>1. N \in 0 .. N /\ k \in 0 .. N /\ m \in 0 .. N
      BY <1>2, <2>2
    <3>2. open[k][root] \subseteq open[N][root] /\ open[m][root] \subseteq open[N][root]
      BY <1>2, <1>3, <3>1, OpensMore
    <3>3. QED
      BY <2>4, <3>2
  <2>6. g # root
    BY <1>2
  <2>7. D[g] = D[p] + 1 /\ D[p] \in Nat
    BY <1>4, <1>15, <2>5, <2>6 DEF Depths
  <2>8. QED
    BY <2>1, <2>4, <2>7
<1> DEFINE Good(n) == \A p \in open[N - n][root] : Distinct(f[n][p])
           S == {n \in 0 .. N : Good(n)}
<1>16. 0 \in S
  <2>1. N - 0 \in 0 .. N /\ 0 \in 0 .. N
    BY <1>2
  <2>2. \A p \in open[N - 0][root] : f[0][p] = << >>
    BY <1>9, <1>11, <2>1
  <2>3. QED
    BY <1>13, <2>1, <2>2
<1>17. ASSUME NEW n \in 1 .. N, n - 1 \in S PROVE Good(n)
  <2> SUFFICES ASSUME NEW p \in open[N - n][root] PROVE Distinct(f[n][p])
    OBVIOUS
  <2>1. PICK m, k, b, parts : /\ m = N - n /\ k = n - 1 /\ b = f[k]
                              /\ parts = Parts(rs, p, b)
    OBVIOUS
  <2>2. /\ m \in 0 .. N /\ k \in 0 .. N /\ m + 1 = N - k /\ m + 1 \in 0 .. N
        /\ p \in open[m][root]
    BY <1>2, <2>1
  <2>3. p \in V
    BY <1>11, <2>2
  <2>4. \A g \in open[m + 1][root] : Distinct(b[g])
    <3>1. Good(k)
      BY <1>17, <2>1
    <3>2. QED
      BY <2>1, <2>2, <3>1
  <2>5. b \in [Named(root, rs) -> Seq(Int)]
    BY <1>8, <2>1, <2>2
  <2>6. parts \in Seq(Seq(Int)) /\ Len(parts) = N
    BY <1>1, <2>1, <2>5, PartsType
  <2>7. \A i \in 1 .. N : parts[i] =
          IF rs[i].type \notin {"request", "request_group"} \/ rs[i].parent # p THEN << >>
          ELSE IF rs[i].type = "request_group" THEN b[rs[i].id]
          ELSE <<rs[i].id>>
    BY <1>1, <2>1, <2>5, PartsType
  <2>8. ASSUME NEW i \in 1 .. N, rs[i].type = "request_group", rs[i].parent = p
        PROVE  /\ rs[i].id \in G /\ rs[i].id \in open[m + 1][root]
               /\ D[rs[i].id] = D[p] + 1 /\ D[p] \in Nat
               /\ parts[i] = b[rs[i].id]
    <3>1. PICK g : g = rs[i].id
      OBVIOUS
    <3>2. g \in G /\ par[g] = p
      BY <1>1, <1>14, <2>8, <3>1 DEF Groups
    <3>3. g \in open[m + 1][root] /\ D[g] = D[p] + 1 /\ D[p] \in Nat
      BY <1>15, <2>2, <3>2
    <3>4. parts[i] = b[g]
      BY <2>7, <2>8, <3>1
    <3>5. QED
      BY <3>1, <3>2, <3>3, <3>4
  <2>9. ASSUME NEW i \in 1 .. N PROVE Distinct(parts[i])
    <3>1. CASE rs[i].type = "request_group" /\ rs[i].parent = p
      BY <2>4, <2>8, <3>1
    <3>2. CASE rs[i].type = "request" /\ rs[i].parent = p
      <4>1. parts[i] = <<rs[i].id>>
        BY <2>7, <3>2
      <4>2. QED
        BY <1>13, <4>1
    <3>3. CASE rs[i].type \notin {"request", "request_group"} \/ rs[i].parent # p
      <4>1. parts[i] = << >>
        BY <2>7, <3>3
      <4>2. QED
        BY <1>13, <4>1
    <3>4. QED
      BY <3>1, <3>2, <3>3
  <2>10. \* What a group gathers has its parent in the group or below it.
         ASSUME NEW g \in G, NEW x \in ToSet(b[g])
         PROVE  k \in 1 .. N /\ par[x] \in open[k - 1][g]
    <3>1. CASE k = 0
      <4>1. b[g] = << >>
        BY <1>2, <1>9, <2>1, <3>1
      <4>2. QED
        BY <1>12, <2>10, <4>1
    <3>2. CASE k # 0
      <4>1. k \in 1 .. N
        BY <2>2, <3>2
      <4>2. QED
        BY <1>2, <1>10, <2>1, <2>10, <4>1
    <3>3. QED
      BY <3>1, <3>2
  <2>11. ASSUME NEW i \in 1 .. N, rs[i].type = "request", rs[i].parent = p,
                NEW j \in 1 .. N, rs[j].type = "request_group", rs[j].parent = p,
                NEW x \in ToSet(parts[i]), x \in ToSet(parts[j])
         PROVE  FALSE
    <3>1. parts[i] = <<rs[i].id>>
      BY <2>7, <2>11
    <3>2. x = rs[i].id /\ par[x] = p
      BY <1>12, <1>14, <2>11, <3>1
    <3>3. PICK g : g = rs[j].id
      OBVIOUS
    <3>4. /\ g \in G /\ g \in open[m + 1][root] /\ D[g] = D[p] + 1 /\ D[p] \in Nat
          /\ x \in ToSet(b[g])
      BY <2>8, <2>11, <3>3
    <3>5. k \in 1 .. N /\ p \in open[k - 1][g]
      BY <2>10, <3>2, <3>4
    <3>6. k - 1 \in 0 .. N - (m + 1) /\ m + 1 \in 0 .. N
      BY <1>2, <2>1, <2>2, <3>5
    <3>7. p # g => D[p] > D[g]
      BY <1>5, <3>4, <3>5, <3>6 DEF Deepens
    <3>8. QED
      BY <3>4, <3>7
  <2>12. ASSUME NEW i \in 1 .. N, rs[i].type = "request_group", rs[i].parent = p,
                NEW j \in 1 .. N, rs[j].type = "request_group", rs[j].parent = p,
                NEW x \in ToSet(parts[i]), x \in ToSet(parts[j])
         PROVE  i = j
    <3>1. PICK g, h : g = rs[i].id /\ h = rs[j].id
      OBVIOUS
    <3>2. /\ g \in G /\ g \in open[m + 1][root] /\ x \in ToSet(b[g])
          /\ h \in G /\ h \in open[m + 1][root] /\ x \in ToSet(b[h])
          /\ D[g] = D[h]
      BY <2>8, <2>12, <3>1
    <3>3. k \in 1 .. N /\ par[x] \in open[k - 1][g] /\ par[x] \in open[k - 1][h]
      BY <2>10, <3>2
    <3>4. k - 1 \in 0 .. N - (m + 1) /\ m + 1 \in 0 .. N
      BY <1>2, <2>1, <2>2, <3>3
    <3>5. g # h => open[k - 1][g] \cap open[k - 1][h] = {}
      BY <1>6, <3>2, <3>4 DEF Separates
    <3>6. g = h
      BY <3>3, <3>5
    <3>7. QED
      BY <1>14, <3>1, <3>6
  <2>13. ASSUME NEW i \in 1 .. N, NEW j \in 1 .. N, NEW x,
                x \in ToSet(parts[i]), x \in ToSet(parts[j])
         PROVE  i = j
    <3>1. ASSUME NEW l \in 1 .. N, x \in ToSet(parts[l])
          PROVE  rs[l].type \in {"request", "request_group"} /\ rs[l].parent = p
      BY <1>12, <2>7, <3>1
    <3>2. rs[i].type \in {"request", "request_group"} /\ rs[i].parent = p
      BY <2>13, <3>1
    <3>3. rs[j].type \in {"request", "request_group"} /\ rs[j].parent = p
      BY <2>13, <3>1
    <3>4. CASE rs[i].type = "request" /\ rs[j].type = "request"
      <4>1. parts[i] = <<rs[i].id>> /\ parts[j] = <<rs[j].id>>
        BY <2>7, <3>2, <3>3, <3>4
      <4>2. rs[i].id = rs[j].id
        BY <1>12, <2>13, <4>1
      <4>3. QED
        BY <1>14, <4>2
    <3>5. CASE rs[i].type = "request" /\ rs[j].type = "request_group"
      BY <2>11, <2>13, <3>2, <3>3, <3>5
    <3>6. CASE rs[i].type = "request_group" /\ rs[j].type = "request"
      BY <2>11, <2>13, <3>2, <3>3, <3>6
    <3>7. CASE rs[i].type = "request_group" /\ rs[j].type = "request_group"
      BY <2>12, <2>13, <3>2, <3>3, <3>7
    <3>8. QED
      BY <3>2, <3>3, <3>4, <3>5, <3>6, <3>7
  <2>14. Distinct(FlattenSeq(parts))
    BY <2>6, <2>9, <2>13, FlattenDistinct
  <2>15. f[n][p] = FlattenSeq(parts)
    BY <1>9, <2>1, <2>3
  <2>16. QED
    BY <2>14, <2>15
<1>18. \A n \in 1 .. N : n - 1 \in S => n \in S
  <2> HIDE DEF Good
  <2>1. QED
    BY <1>17
<1>19. \A n \in 0 .. N : n \in S
  <2> HIDE DEF S
  <2>1. QED
    BY <1>2, <1>16, <1>18, InductTo
<1>20. Good(N)
  <2> HIDE DEF Good
  <2>1. N \in 0 .. N
    BY <1>2
  <2>2. QED
    BY <1>19, <2>1
<1>21. N - N = 0 /\ open[0][root] = {root}
  BY <1>2, <1>3 DEF Opens
<1>22. Distinct(f[N][root])
  BY <1>20, <1>21
<1>23. QED
  BY <1>1, <1>22

\* One level further than set.
Further(root, set) ==
  set \cup {r.id : r \in {s \in ToSet(resources) :
              /\ s.type \in {"request", "request_group"} /\ s.parent \in set
              /\ s.parent = root \/ "request_group" \in Type(s.parent)}}

\* The levels of Reached.
LEMMA ReachedDef ==
  ASSUME resources \in Seq(Resource), NEW root
  PROVE  /\ Reached(root)[0] = {root}
         /\ \A n \in 1 .. Len(resources) : Reached(root)[n] = Further(root, Reached(root)[n - 1])
<1>1. PICK N, A, a0 : /\ N = Len(resources) /\ A = SUBSET Named(root, resources) /\ a0 = {root}
  OBVIOUS
<1>2. N \in Nat /\ a0 \in A
  BY <1>1 DEF Named
<1>3. \A set \in A : Further(root, set) \in A
  BY <1>1 DEF Further, Named
<1>4. PICK step : step = [n \in 1 .. N |-> [set \in A |-> Further(root, set)]]
  OBVIOUS
<1>5. step \in [1 .. N -> [A -> A]]
  BY <1>3, <1>4
<1>6. PICK g : Solves(g, A, a0, N, step)
  BY <1>2, <1>5, Solution
<1>7. g \in [0 .. N -> A] /\ g[0] = a0 /\ \A n \in 1 .. N : g[n] = step[n][g[n - 1]]
  BY <1>6 DEF Solves
<1>8. \A n \in 1 .. N : g[n] = Further(root, g[n - 1])
  <2> TAKE n \in 1 .. N
  <2>1. g[n - 1] \in A
    <3>1. n - 1 \in 0 .. N
      BY <1>2
    <3>2. QED
      BY <1>7, <3>1
  <2>2. QED
    BY <1>4, <1>7, <2>1
<1>9. \A n \in 0 .. N : g[n] = IF n = 0 THEN {root} ELSE Further(root, g[n - 1])
  <2> TAKE n \in 0 .. N
  <2>1. CASE n = 0
    BY <1>1, <1>7, <2>1
  <2>2. CASE n # 0
    <3>1. n \in 1 .. N
      BY <1>2, <2>2
    <3>2. QED
      BY <1>8, <2>2, <3>1
  <2>3. QED
    BY <2>1, <2>2
<1>10. g = [n \in 0 .. N |-> IF n = 0 THEN {root} ELSE Further(root, g[n - 1])]
  <2>1. g = [n \in 0 .. N |-> g[n]]
    BY <1>7
  <2>2. QED
    BY <1>9, <2>1, Zenon
<1>11. PICK f : f = Reached(root)
  OBVIOUS
<1>12. f = CHOOSE reached : reached = [n \in 0 .. N |->
              IF n = 0 THEN {root} ELSE Further(root, reached[n - 1])]
  BY <1>1, <1>11, Zenon DEF Reached, Further
<1>13. f = [n \in 0 .. N |-> IF n = 0 THEN {root} ELSE Further(root, f[n - 1])]
  BY <1>10, <1>12, Zenon
<1>14. f[0] = {root}
  <2>1. 0 \in 0 .. N
    BY <1>2
  <2>2. QED
    BY <1>13, <2>1, Zenon
<1>15. ASSUME NEW n \in 1 .. N PROVE f[n] = Further(root, f[n - 1])
  <2>1. n \in 0 .. N /\ n # 0
    OBVIOUS
  <2>2. QED
    BY <1>13, <2>1, Zenon
<1>16. QED
  BY <1>1, <1>11, <1>14, <1>15

\* What is reached from the root: the groups that hang there, and the requests whose
\* parents do.
LEMMA ReachedMembers ==
  ASSUME resources \in Seq(Resource), NEW root, NEW par, NEW open,
         Tree(resources, root, par, open)
  PROVE  \A x \in Requests(resources) :
           x \in Reached(root)[Len(resources)] <=> par[x] \in open[Len(resources) - 1][root]
<1>1. PICK N, G, V, Q, f : /\ N = Len(resources) /\ G = Groups(resources) /\ V = {root} \cup G
                           /\ Q = Requests(resources) /\ f = Reached(root)
  OBVIOUS
<1>2. N \in Nat /\ G \in SUBSET V /\ root \in V /\ root \notin G /\ root \notin Q
  BY <1>1 DEF Tree
<1>3. Opens(open, V, G, par, N)
  BY <1>1 DEF Tree
<1>4. /\ open[0][root] = {root}
      /\ \A n \in 1 .. N : open[n][root] = open[n - 1][root] \cup {g \in G : par[g] \in open[n - 1][root]}
  BY <1>2, <1>3 DEF Opens
<1>5. f[0] = {root} /\ \A n \in 1 .. N : f[n] = Further(root, f[n - 1])
  BY <1>1, ReachedDef
<1>6. \A i \in 1 .. N : par[resources[i].id] = resources[i].parent
  BY <1>1 DEF Tree
<1>7. G \cap Q = {}
  <2> SUFFICES ASSUME NEW x, x \in G, x \in Q PROVE FALSE
    OBVIOUS
  <2>1. PICK i \in 1 .. N : resources[i].id = x /\ resources[i].type = "request_group"
    BY <1>1 DEF Groups
  <2>2. PICK j \in 1 .. N : resources[j].id = x /\ resources[j].type = "request"
    BY <1>1 DEF Requests
  <2>3. i = j
    BY <1>1, <2>1, <2>2 DEF Tree, Unique
  <2>4. QED
    BY <2>1, <2>2, <2>3
<1>8. \A y : "request_group" \in Type(y) <=> y \in G
  <2>1. DOMAIN resources = 1 .. N
    BY <1>1
  <2>2. QED
    BY <1>1, <2>1 DEF Type, Groups
<1>9. ASSUME NEW set, NEW x
      PROVE  x \in Further(root, set) <=>
               x \in set \/ (x \in G \cup Q /\ par[x] \in set /\ par[x] \in V)
  <2>1. ASSUME x \in Further(root, set), x \notin set
        PROVE  x \in G \cup Q /\ par[x] \in set /\ par[x] \in V
    <3>1. PICK r \in ToSet(resources) :
            /\ r.id = x /\ r.type \in {"request", "request_group"} /\ r.parent \in set
            /\ r.parent = root \/ "request_group" \in Type(r.parent)
      BY <2>1 DEF Further
    <3>2. PICK i \in 1 .. N : resources[i] = r
      <4>1. DOMAIN resources = 1 .. N
        BY <1>1
      <4>2. QED
        BY <4>1 DEF ToSet
    <3>3. par[x] = r.parent
      BY <1>6, <3>1, <3>2
    <3>4. x \in G \cup Q
      BY <1>1, <3>1, <3>2 DEF Groups, Requests
    <3>5. QED
      BY <1>1, <1>8, <3>1, <3>3, <3>4
  <2>2. ASSUME x \in G \cup Q, par[x] \in set, par[x] \in V PROVE x \in Further(root, set)
    <3>1. PICK i \in 1 .. N :
            resources[i].id = x /\ resources[i].type \in {"request", "request_group"}
      BY <1>1, <2>2 DEF Groups, Requests
    <3>2. resources[i] \in ToSet(resources)
      BY <1>1 DEF ToSet
    <3>3. resources[i].parent = par[x]
      BY <1>6, <3>1
    <3>4. par[x] = root \/ "request_group" \in Type(par[x])
      BY <1>1, <1>8, <2>2
    <3>5. QED
      BY <2>2, <3>1, <3>2, <3>3, <3>4 DEF Further
  <2>3. x \in set => x \in Further(root, set)
    BY DEF Further
  <2>4. QED
    BY <2>1, <2>2, <2>3
<1>10. \A n \in 0 .. N : open[n][root] \subseteq V
  BY <1>2, <1>3, OpensMore
<1> DEFINE Same(n) == \A x : x \in f[n] <=>
             x \in open[n][root] \/ (n # 0 /\ x \in Q /\ par[x] \in open[n - 1][root])
           S == {n \in 0 .. N : Same(n)}
<1>11. 0 \in S
  BY <1>2, <1>4, <1>5
<1>12. ASSUME NEW n \in 1 .. N, n - 1 \in S PROVE Same(n)
  <2>1. PICK k, o, q : k = n - 1 /\ o = open[k][root] /\ q = open[n][root]
    OBVIOUS
  <2>2. k \in 0 .. N /\ n # 0
    BY <1>2, <2>1
  <2>3. o \subseteq V /\ q = o \cup {g \in G : par[g] \in o}
    BY <1>4, <1>10, <2>1, <2>2
  <2>4. \A x : x \in f[k] <=> x \in o \/ (k # 0 /\ x \in Q /\ par[x] \in open[k - 1][root])
    BY <1>12, <2>1, <2>2
  <2>5. k # 0 => open[k - 1][root] \subseteq o
    <3>1. k # 0 => k \in 1 .. N
      BY <2>2
    <3>2. QED
      BY <1>4, <2>1, <3>1
  <2>6. V \cap Q = {}
    BY <1>1, <1>2, <1>7
  <2>7. \A y : y \in f[k] /\ y \in V <=> y \in o
    BY <2>3, <2>4, <2>6
  <2>8. f[n] = Further(root, f[k])
    BY <1>5, <2>1
  <2>9. ASSUME NEW x
        PROVE  x \in f[n] <=> x \in q \/ (x \in Q /\ par[x] \in o)
    <3>1. PICK y : y = par[x]
      OBVIOUS
    <3>2. x \in f[n] <=> x \in f[k] \/ (x \in G \cup Q /\ y \in o)
      BY <1>9, <2>7, <2>8, <3>1
    <3>3. x \in q <=> x \in o \/ (x \in G /\ y \in o)
      BY <2>3, <3>1
    <3>4. x \in f[k] => x \in o \/ (x \in Q /\ y \in o)
      BY <2>4, <2>5, <3>1
    <3>5. x \in o => x \in f[k]
      BY <2>4
    <3>6. QED
      BY <3>1, <3>2, <3>3, <3>4, <3>5
  <2>10. QED
    BY <2>1, <2>2, <2>9
<1>13. \A n \in 1 .. N : n - 1 \in S => n \in S
  <2> HIDE DEF Same
  <2>1. QED
    BY <1>2, <1>12
<1>14. \A n \in 0 .. N : n \in S
  <2> HIDE DEF S
  <2>1. QED
    BY <1>2, <1>11, <1>13, InductTo
<1>15. Same(N)
  <2> HIDE DEF Same
  <2>1. N \in 0 .. N
    BY <1>2
  <2>2. QED
    BY <1>14, <2>1
<1>16. ASSUME NEW x \in Q PROVE x \in f[N] <=> par[x] \in open[N - 1][root]
  <2>1. N # 0
    <3>1. PICK i \in 1 .. N : resources[i].id = x
      BY <1>1, <1>16 DEF Requests
    <3>2. QED
      BY <1>2, <3>1
  <2>2. x \notin open[N][root]
    <3>1. N \in 0 .. N
      BY <1>2
    <3>2. QED
      BY <1>1, <1>2, <1>7, <1>10, <1>16, <3>1
  <2>3. QED
    BY <1>15, <1>16, <2>1, <2>2
<1>17. QED
  BY <1>1, <1>16

\* The export as it is put together: a list of resources, each under its own name.
ResourcesInv == resources \in Seq(Resource) /\ Unique(resources)

\* Its root is no group and no request.
LEMMA RootApart ==
  ASSUME ResourcesInv, NEW workspaces, NEW root,
         workspaces = Filter(resources, {r \in ToSet(resources) : r.type = "workspace"}),
         root = IF workspaces = << >> THEN 0 ELSE workspaces[1].id
  PROVE  root \notin Groups(resources) \cup Requests(resources)
<1>1. PICK R, N : R = Resource /\ N = Len(resources)
  OBVIOUS
<1>2. resources \in Seq(R)
  BY <1>1 DEF ResourcesInv
<1>3. ASSUME NEW x \in Groups(resources) \cup Requests(resources)
      PROVE  \E i \in 1 .. N : resources[i].id = x /\ resources[i].type \in {"request", "request_group"}
  BY <1>1, <1>3 DEF Groups, Requests
<1>4. CASE workspaces = << >>
  <2>1. ASSUME NEW i \in 1 .. N PROVE resources[i].id # 0
    <3>1. resources[i] \in Resource
      BY <1>1, <2>1, ResourceAt DEF ResourcesInv
    <3>2. PICK r : r = resources[i]
      OBVIOUS
    <3>3. r.id \in 1 .. MaxResources
      BY <3>1, <3>2 DEF Resource
    <3>4. QED
      BY <3>2, <3>3
  <2>2. QED
    BY <1>3, <1>4, <2>1
<1>5. CASE workspaces # << >>
  <2>1. workspaces \in Seq(R)
    BY <1>2, FilterType
  <2>2. 1 \in 1 .. Len(workspaces)
    BY <1>5, <2>1
  <2>3. workspaces[1] \in ToSet(workspaces)
    BY <2>1, <2>2, SetOf
  <2>4. workspaces[1].type = "workspace" /\ workspaces[1] \in ToSet(resources)
    BY <1>2, <2>3, FilterSet
  <2>5. PICK k \in 1 .. N : resources[k] = workspaces[1]
    BY <1>1, <1>2, <2>4, SetOf
  <2>6. resources[k].type = "workspace" /\ resources[k].id = root
    BY <1>5, <2>4, <2>5
  <2>7. \A i \in 1 .. N : resources[i].id = root => i = k
    BY <1>1, <2>6 DEF ResourcesInv, Unique
  <2>8. \A i \in 1 .. N : resources[i].id = root => resources[i].type = "workspace"
    BY <2>6, <2>7
  <2>9. QED
    BY <1>3, <2>8
<1>6. QED
  BY <1>4, <1>5

\* What the export names as wanted is what is built, each request once.
LEMMA InsomniaKeeps ==
  ASSUME ResourcesInv, NEW root, root \notin Groups(resources) \cup Requests(resources),
         NEW wanted,
         wanted = {r.id : r \in {s \in ToSet(resources) :
                     s.type = "request" /\ s.id \in Reached(root)[Len(resources)]}},
         NEW got, got = BuildChildren(root, resources)
  PROVE  ToSet(got) = wanted /\ Len(got) = Cardinality(wanted)
<1>1. resources \in Seq(Resource) /\ Unique(resources)
  BY DEF ResourcesInv
<1>2. PICK par, open : Tree(resources, root, par, open)
  BY <1>1, TreeExists
<1>3. PICK N : N = Len(resources)
  OBVIOUS
<1>4. N \in Nat
  BY <1>3
<1>5. got = Below(root, resources)[N][root]
  BY <1>3, Zenon DEF BuildChildren
<1>6. root \in Named(root, resources)
  BY DEF Named
<1>7. got \in Seq(Int)
  <2>1. N \in 0 .. N
    BY <1>4
  <2>2. Below(root, resources)[N] \in [Named(root, resources) -> Seq(Int)]
    BY <1>1, <1>3, <2>1, BelowDef
  <2>3. PICK b : b = Below(root, resources)[N]
    OBVIOUS
  <2>4. b[root] \in Seq(Int)
    BY <1>6, <2>2, <2>3
  <2>5. QED
    BY <1>5, <2>3, <2>4
<1>8. Distinct(got)
  BY <1>1, <1>2, <1>3, <1>5, BelowDistinct
<1>9. ASSUME NEW x
      PROVE  x \in wanted <=> x \in Requests(resources) /\ x \in Reached(root)[N]
  <2>1. DOMAIN resources = 1 .. N
    BY <1>3
  <2>2. QED
    BY <1>3, <2>1 DEF ToSet, Requests
<1>10. \A x \in Requests(resources) : x \in Reached(root)[N] <=> par[x] \in open[N - 1][root]
  BY <1>1, <1>2, <1>3, ReachedMembers
<1>11. ToSet(got) = wanted
  <2>1. CASE N = 0
    <3>1. Below(root, resources)[0][root] = << >>
      BY <1>1, <1>6, BelowDef
    <3>2. ToSet(got) = {}
      BY <1>5, <2>1, <3>1 DEF ToSet
    <3>3. Requests(resources) = {}
      BY <1>3, <2>1 DEF Requests
    <3>4. QED
      BY <1>9, <3>2, <3>3
  <2>2. CASE N # 0
    <3>1. N \in 1 .. Len(resources) /\ root \in {root} \cup Groups(resources)
      BY <1>3, <1>4, <2>2
    <3>2. Gathers(resources, root, par, open)
      BY <1>1, <1>2, BelowMembers
    <3>3. \A x : x \in ToSet(got) <=> x \in Requests(resources) /\ par[x] \in open[N - 1][root]
      BY <1>5, <3>1, <3>2 DEF Gathers
    <3>4. QED
      BY <1>9, <1>10, <3>3
  <2>3. QED
    BY <2>1, <2>2
<1>12. Cardinality(ToSet(got)) = Len(got)
  BY <1>7, <1>8, DistinctCount
<1>13. QED
  BY <1>11, <1>12

-----------------------------------------------------------------------------
(* The operations of an OpenAPI document.                                    *)

Operation == [id : Int, tags : Seq(Int)]

\* The first tags of the first n operations: each once, and all of them.
LEMMA FirstTagsFacts ==
  ASSUME NEW listed \in Seq(Operation), \A i \in 1 .. Len(listed) : listed[i].tags # << >>
  PROVE  LET tags == FirstTags(listed)[Len(listed)]
         IN  /\ tags \in Seq(Int) /\ Distinct(tags)
             /\ \A i \in 1 .. Len(listed) : listed[i].tags[1] \in ToSet(tags)
<1> DEFINE Step(a, n) == IF listed[n].tags[1] \in ToSet(a) THEN a ELSE Append(a, listed[n].tags[1])
<1>1. PICK A, N, e : A = Seq(Int) /\ N = Len(listed) /\ e = << >>
  OBVIOUS
<1>2. N \in Nat /\ e \in A
  BY <1>1
<1>3. ASSUME NEW n \in 1 .. N PROVE listed[n].tags[1] \in Int
  <2>1. PICK o, t : o = listed[n] /\ t = o.tags
    OBVIOUS
  <2>2. o \in Operation
    BY <1>1, <1>3, <2>1
  <2>3. t \in Seq(Int)
    BY <2>1, <2>2 DEF Operation
  <2>4. t # << >>
    BY <1>1, <1>3, <2>1
  <2>5. t[1] \in Int
    BY <2>3, <2>4
  <2>6. QED
    BY <2>1, <2>5
<1>4. \A n \in 1 .. N, a \in A : Step(a, n) \in A
  BY <1>1, <1>3
<1>5. PICK step : step = [n \in 1 .. N |-> [a \in A |-> Step(a, n)]]
  OBVIOUS
<1>6. step \in [1 .. N -> [A -> A]]
  <2> HIDE DEF Step
  <2>1. QED
    BY <1>4, <1>5
<1>7. PICK g : Solves(g, A, e, N, step)
  <2> HIDE DEF Step
  <2>1. QED
    BY <1>2, <1>6, Solution
<1>8. g \in [0 .. N -> A] /\ g[0] = e /\ \A n \in 1 .. N : g[n] = step[n][g[n - 1]]
  BY <1>7 DEF Solves
<1>9. ASSUME NEW n \in 1 .. N PROVE g[n - 1] \in A /\ g[n] = Step(g[n - 1], n)
  <2> HIDE DEF Step
  <2>1. g[n - 1] \in A
    <3>1. n - 1 \in 0 .. N
      BY <1>2
    <3>2. QED
      BY <1>8, <3>1
  <2>2. QED
    BY <1>5, <1>8, <2>1
<1>10. g = [n \in 0 .. N |-> IF n = 0 THEN e ELSE Step(g[n - 1], n)]
  <2> HIDE DEF Step
  <2>1. g = [n \in 0 .. N |-> g[n]]
    BY <1>8
  <2>2. \A n \in 0 .. N : g[n] = IF n = 0 THEN e ELSE Step(g[n - 1], n)
    <3> TAKE n \in 0 .. N
    <3>1. n = 0 \/ n \in 1 .. N
      BY <1>2
    <3>2. QED
      BY <1>8, <1>9, <3>1
  <2>3. QED
    BY <2>1, <2>2, Zenon
<1>11. PICK f : f = FirstTags(listed)
  OBVIOUS
<1>12. f = CHOOSE seen : seen = [n \in 0 .. N |-> IF n = 0 THEN e ELSE Step(seen[n - 1], n)]
  BY <1>1, <1>11, Zenon DEF FirstTags
<1>13. f = [n \in 0 .. N |-> IF n = 0 THEN e ELSE Step(f[n - 1], n)]
  BY <1>10, <1>12, Zenon
<1>14. f[0] = e
  <2>1. 0 \in 0 .. N
    BY <1>2
  <2>2. QED
    BY <1>13, <2>1, Zenon
<1>15. ASSUME NEW n \in 1 .. N PROVE f[n] = Step(f[n - 1], n)
  <2>1. n \in 0 .. N /\ n # 0
    OBVIOUS
  <2>2. QED
    BY <1>13, <2>1, Zenon
<1> DEFINE Fine(n) == /\ f[n] \in Seq(Int) /\ Distinct(f[n])
                      /\ \A i \in 1 .. n : listed[i].tags[1] \in ToSet(f[n])
           S == {n \in 0 .. N : Fine(n)}
<1>16. 0 \in S
  <2>1. e \in Seq(Int) /\ Distinct(e)
    BY <1>1 DEF Distinct
  <2>2. QED
    BY <1>2, <1>14, <2>1
<1>17. ASSUME NEW n \in 1 .. N, n - 1 \in S PROVE Fine(n)
  <2>1. PICK a, t, L : a = f[n - 1] /\ t = listed[n].tags[1] /\ L = Len(a)
    OBVIOUS
  <2>2. /\ a \in Seq(Int) /\ Distinct(a) /\ L \in Nat /\ t \in Int
        /\ \A i \in 1 .. n - 1 : listed[i].tags[1] \in ToSet(a)
    BY <1>3, <1>17, <2>1
  <2>3. f[n] = IF t \in ToSet(a) THEN a ELSE Append(a, t)
    BY <1>15, <2>1
  <2>4. \A i \in 1 .. n : i \in 1 .. n - 1 \/ i = n
    OBVIOUS
  <2>5. CASE t \in ToSet(a)
    <3>1. f[n] = a
      BY <2>3, <2>5
    <3>2. \A i \in 1 .. n : listed[i].tags[1] \in ToSet(a)
      BY <2>1, <2>2, <2>4, <2>5
    <3>3. QED
      BY <2>2, <3>1, <3>2
  <2>6. CASE t \notin ToSet(a)
    <3>1. PICK b : b = Append(a, t)
      OBVIOUS
    <3>2. /\ b \in Seq(Int) /\ Len(b) = L + 1 /\ b[L + 1] = t
          /\ \A i \in 1 .. L : b[i] = a[i]
      BY <2>1, <2>2, <3>1
    <3>3. \A i \in 1 .. L : a[i] # t
      BY <2>1, <2>2, <2>6, SetOf
    <3>4. \A i, j \in 1 .. L : a[i] = a[j] => i = j
      BY <2>1, <2>2 DEF Distinct
    <3>5. \A i, j \in 1 .. L + 1 : b[i] = b[j] => i = j
      <4>1. \A i \in 1 .. L + 1 : i \in 1 .. L \/ i = L + 1
        BY <2>2
      <4>2. QED
        BY <3>2, <3>3, <3>4, <4>1
    <3>6. Distinct(b)
      BY <3>2, <3>5 DEF Distinct
    <3>7. ToSet(a) \subseteq ToSet(b) /\ t \in ToSet(b)
      <4>1. \A x \in ToSet(a) : \E i \in 1 .. L : a[i] = x
        <5>1. DOMAIN a = 1 .. L
          BY <2>1, <2>2
        <5>2. QED
          BY <5>1 DEF ToSet
      <4>2. \A i \in 1 .. L + 1 : b[i] \in ToSet(b)
        BY <3>2, SetOf
      <4>3. \A i \in 1 .. L : i \in 1 .. L + 1
        BY <2>2
      <4>4. L + 1 \in 1 .. L + 1
        BY <2>2
      <4>5. QED
        BY <3>2, <4>1, <4>2, <4>3, <4>4
    <3>8. \A i \in 1 .. n : listed[i].tags[1] \in ToSet(b)
      BY <2>1, <2>2, <2>4, <3>7
    <3>9. f[n] = b
      BY <2>3, <2>6, <3>1
    <3>10. QED
      BY <3>2, <3>6, <3>8, <3>9
  <2>7. QED
    BY <2>5, <2>6
<1>18. \A n \in 1 .. N : n - 1 \in S => n \in S
  <2> HIDE DEF Fine
  <2>1. QED
    BY <1>2, <1>17
<1>19. \A n \in 0 .. N : n \in S
  <2> HIDE DEF S
  <2>1. QED
    BY <1>2, <1>16, <1>18, InductTo
<1>20. Fine(N)
  <2> HIDE DEF Fine
  <2>1. N \in 0 .. N
    BY <1>2
  <2>2. QED
    BY <1>19, <2>1
<1>21. QED
  BY <1>1, <1>11, <1>20

\* Two lists without an element in common, one after the other.
LEMMA ConcatFacts ==
  ASSUME NEW T, NEW s \in Seq(T), NEW t \in Seq(T), Distinct(s), Distinct(t),
         ToSet(s) \cap ToSet(t) = {}
  PROVE  /\ s \o t \in Seq(T) /\ Distinct(s \o t)
         /\ ToSet(s \o t) = ToSet(s) \cup ToSet(t)
<1>1. PICK all, L, M : all = s \o t /\ L = Len(s) /\ M = Len(t)
  OBVIOUS
<1>2. /\ all \in Seq(T) /\ L \in Nat /\ M \in Nat /\ Len(all) = L + M
      /\ \A i \in 1 .. L : all[i] = s[i]
      /\ \A i \in L + 1 .. L + M : i - L \in 1 .. M /\ all[i] = t[i - L]
  BY <1>1
<1>3. \A i \in 1 .. L + M : i \in 1 .. L \/ i \in L + 1 .. L + M
  BY <1>2
<1>4. DOMAIN s = 1 .. L /\ DOMAIN t = 1 .. M /\ DOMAIN all = 1 .. L + M
  BY <1>1, <1>2
<1>5. \A i \in 1 .. L : s[i] \in ToSet(s)
  BY <1>4 DEF ToSet
<1>6. \A i \in 1 .. M : t[i] \in ToSet(t)
  BY <1>4 DEF ToSet
<1>7. ASSUME NEW i \in 1 .. L + M, NEW j \in 1 .. L + M, all[i] = all[j] PROVE i = j
  <2>1. CASE i \in 1 .. L /\ j \in 1 .. L
    BY <1>1, <1>2, <1>7, <2>1 DEF Distinct
  <2>2. CASE i \in L + 1 .. L + M /\ j \in L + 1 .. L + M
    <3>1. PICK a, b : a = i - L /\ b = j - L
      OBVIOUS
    <3>2. a \in 1 .. M /\ b \in 1 .. M /\ t[a] = t[b]
      BY <1>2, <1>7, <2>2, <3>1
    <3>3. a = b
      BY <1>1, <3>2 DEF Distinct
    <3>4. QED
      BY <1>2, <3>1, <3>3
  <2>3. CASE i \in 1 .. L /\ j \in L + 1 .. L + M
    BY <1>2, <1>5, <1>6, <1>7, <2>3
  <2>4. CASE i \in L + 1 .. L + M /\ j \in 1 .. L
    BY <1>2, <1>5, <1>6, <1>7, <2>4
  <2>5. QED
    BY <1>3, <2>1, <2>2, <2>3, <2>4
<1>8. Distinct(all)
  BY <1>2, <1>7 DEF Distinct
<1>9. ASSUME NEW x PROVE x \in ToSet(all) <=> x \in ToSet(s) \/ x \in ToSet(t)
  <2>1. ASSUME x \in ToSet(all) PROVE x \in ToSet(s) \/ x \in ToSet(t)
    <3>1. PICK i \in 1 .. L + M : all[i] = x
      BY <1>4, <2>1 DEF ToSet
    <3>2. QED
      BY <1>2, <1>3, <1>5, <1>6, <3>1
  <2>2. ASSUME x \in ToSet(s) PROVE x \in ToSet(all)
    <3>1. PICK i \in 1 .. L : s[i] = x
      BY <1>4, <2>2 DEF ToSet
    <3>2. i \in 1 .. L + M /\ all[i] = x
      BY <1>2, <3>1
    <3>3. QED
      BY <1>4, <3>2 DEF ToSet
  <2>3. ASSUME x \in ToSet(t) PROVE x \in ToSet(all)
    <3>1. PICK i \in 1 .. M : t[i] = x
      BY <1>4, <2>3 DEF ToSet
    <3>2. PICK k : k = L + i
      OBVIOUS
    <3>3. k \in L + 1 .. L + M /\ k - L = i /\ k \in 1 .. L + M
      BY <1>2, <3>2
    <3>4. all[k] = x
      BY <1>2, <3>1, <3>3
    <3>5. QED
      BY <1>4, <3>3, <3>4 DEF ToSet
  <2>4. QED
    BY <2>1, <2>2, <2>3
<1>10. ToSet(all) = ToSet(s) \cup ToSet(t)
  BY <1>9
<1>11. QED
  BY <1>1, <1>2, <1>8, <1>10

\* Every operation is imported once; those of a first tag stand together, and before
\* those without a tag.
InFolders(imported) ==
  \A i, j \in 1 .. Len(imported) : i < j /\ imported[j].tags # << >> =>
    /\ imported[i].tags # << >>
    /\ imported[i].tags[1] = imported[j].tags[1] =>
         \A k \in i .. j : imported[k].tags[1] = imported[i].tags[1]

LEMMA OpenApiKeeps ==
  ASSUME NEW listed \in Seq(Operation), Distinct(listed), NEW imported, imported = ImportOpenApi(listed)
  PROVE  /\ imported \in Seq(Operation)
         /\ ToSet(imported) = ToSet(listed) /\ Len(imported) = Len(listed)
         /\ InFolders(imported)
<1>1. PICK T, tagless, tagged, tags :
        /\ T = Operation
        /\ tagless = {o \in ToSet(listed) : o.tags = << >>}
        /\ tagged = Filter(listed, ToSet(listed) \ tagless)
        /\ tags = FirstTags(tagged)[Len(tagged)]
  OBVIOUS
<1>2. PICK segs, flat, rest :
        /\ segs = [i \in DOMAIN tags |-> Filter(tagged, {o \in ToSet(tagged) : o.tags[1] = tags[i]})]
        /\ flat = FlattenSeq(segs)
        /\ rest = Filter(listed, tagless)
  OBVIOUS
<1>3. imported = flat \o rest
  BY <1>1, <1>2, Zenon DEF ImportOpenApi
<1>4. /\ listed \in Seq(T) /\ tagged \in Seq(T) /\ rest \in Seq(T)
      /\ Distinct(tagged) /\ Distinct(rest)
  BY <1>1, <1>2, FilterType, FilterDistinct
<1>5. /\ \A x : x \in ToSet(tagged) <=> x \in ToSet(listed) /\ x.tags # << >>
      /\ \A x : x \in ToSet(rest) <=> x \in ToSet(listed) /\ x.tags = << >>
  <2>1. \A x : x \in ToSet(tagged) <=> x \in ToSet(listed) \ tagless /\ x \in ToSet(listed)
    BY <1>1, <1>4, FilterSet
  <2>2. \A x : x \in ToSet(rest) <=> x \in tagless /\ x \in ToSet(listed)
    BY <1>2, <1>4, FilterSet
  <2>3. QED
    BY <1>1, <2>1, <2>2
<1>6. \A i \in 1 .. Len(tagged) : tagged[i] \in ToSet(tagged) /\ tagged[i].tags # << >>
  <2>1. \A i \in 1 .. Len(tagged) : tagged[i] \in ToSet(tagged)
    BY <1>4, SetOf
  <2>2. QED
    BY <1>5, <2>1
<1>7. PICK M : M = Len(tags)
  OBVIOUS
<1>8. /\ tags \in Seq(Int) /\ M \in Nat /\ DOMAIN tags = 1 .. M
      /\ \A a, b \in 1 .. M : tags[a] = tags[b] => a = b
      /\ \A i \in 1 .. Len(tagged) : tagged[i].tags[1] \in ToSet(tags)
  <2>1. /\ tags \in Seq(Int) /\ Distinct(tags)
        /\ \A i \in 1 .. Len(tagged) : tagged[i].tags[1] \in ToSet(tags)
    BY <1>1, <1>4, <1>6, FirstTagsFacts
  <2>2. M \in Nat /\ DOMAIN tags = 1 .. M
    BY <1>7, <2>1
  <2>3. QED
    BY <1>7, <2>1, <2>2 DEF Distinct
<1>9. ASSUME NEW a \in 1 .. M
      PROVE  /\ segs[a] \in Seq(T) /\ Distinct(segs[a])
             /\ \A x : x \in ToSet(segs[a]) <=> x \in ToSet(tagged) /\ x.tags[1] = tags[a]
  <2>1. PICK S : S = {o \in ToSet(tagged) : o.tags[1] = tags[a]}
    OBVIOUS
  <2>2. segs[a] = Filter(tagged, S)
    BY <1>2, <1>8, <2>1
  <2>3. segs[a] \in Seq(T) /\ Distinct(segs[a])
    BY <1>4, <2>2, FilterType, FilterDistinct
  <2>4. \A x : x \in ToSet(segs[a]) <=> x \in S /\ x \in ToSet(tagged)
    BY <1>4, <2>2, FilterSet
  <2>5. QED
    BY <2>1, <2>3, <2>4
<1>10. segs \in Seq(Seq(T)) /\ Len(segs) = M
  <2>1. PICK A : A = Seq(T)
    OBVIOUS
  <2>2. segs \in [1 .. M -> A]
    <3>1. segs = [i \in 1 .. M |-> segs[i]]
      BY <1>2, <1>8
    <3>2. \A i \in 1 .. M : segs[i] \in A
      BY <1>9, <2>1
    <3>3. QED
      BY <3>1, <3>2
  <2>3. segs \in Seq(A) /\ Len(segs) = M
    BY <1>8, <2>2
  <2>4. QED
    BY <2>1, <2>3
<1>11. flat \in Seq(T) /\ \E seg, off : Placed(segs, M, flat, seg, off)
  BY <1>2, <1>10, FlattenPlaces
<1>12. Distinct(flat)
  <2>1. \A a \in 1 .. Len(segs) : Distinct(segs[a])
    BY <1>9, <1>10
  <2>2. \A a, b \in 1 .. Len(segs) : \A x : x \in ToSet(segs[a]) /\ x \in ToSet(segs[b]) => a = b
    <3>1. ASSUME NEW a \in 1 .. M, NEW b \in 1 .. M, NEW x, x \in ToSet(segs[a]), x \in ToSet(segs[b])
          PROVE  a = b
      <4>1. tags[a] = tags[b]
        BY <1>9, <3>1
      <4>2. QED
        BY <1>8, <4>1
    <3>2. QED
      BY <1>10, <3>1
  <2>3. QED
    BY <1>2, <1>10, <2>1, <2>2, FlattenDistinct
<1>13. \A x : x \in ToSet(flat) <=> x \in ToSet(tagged)
  <2>1. \A x : x \in ToSet(flat) <=> \E a \in 1 .. M : x \in ToSet(segs[a])
    BY <1>2, <1>10, FlattenMembers
  <2>2. ASSUME NEW x \in ToSet(tagged) PROVE \E a \in 1 .. M : x \in ToSet(segs[a])
    <3>1. PICK i \in 1 .. Len(tagged) : tagged[i] = x
      BY <1>4, <2>2, SetOf
    <3>2. x.tags[1] \in ToSet(tags)
      BY <1>8, <3>1
    <3>3. PICK a \in 1 .. M : tags[a] = x.tags[1]
      BY <1>8, <3>2 DEF ToSet
    <3>4. QED
      BY <1>9, <2>2, <3>3
  <2>3. QED
    BY <1>9, <2>1, <2>2
<1>14. imported \in Seq(T) /\ Distinct(imported) /\ ToSet(imported) = ToSet(flat) \cup ToSet(rest)
  <2>1. ToSet(flat) \cap ToSet(rest) = {}
    BY <1>5, <1>13
  <2>2. QED
    BY <1>3, <1>4, <1>11, <1>12, <2>1, ConcatFacts
<1>15. ToSet(imported) = ToSet(listed)
  BY <1>5, <1>13, <1>14
<1>16. Len(imported) = Len(listed)
  <2>1. Cardinality(ToSet(imported)) = Len(imported)
    BY <1>14, DistinctCount
  <2>2. Cardinality(ToSet(listed)) = Len(listed)
    BY <1>4, DistinctCount
  <2>3. QED
    BY <1>15, <2>1, <2>2
<1>17. PICK seg, off : Placed(segs, M, flat, seg, off)
  BY <1>11
<1>18. PICK L, R : L = Len(flat) /\ R = Len(rest)
  OBVIOUS
<1>19. /\ L \in Nat /\ R \in Nat /\ Len(imported) = L + R
       /\ \A k \in 1 .. L : imported[k] = flat[k]
       /\ \A k \in L + 1 .. L + R : k - L \in 1 .. R /\ imported[k] = rest[k - L]
  BY <1>3, <1>4, <1>11, <1>18
<1>20. ASSUME NEW k \in 1 .. L
       PROVE  /\ imported[k].tags # << >>
              /\ seg[k] \in 1 .. M /\ imported[k].tags[1] = tags[seg[k]]
  <2>1. PICK a : a = seg[k]
    OBVIOUS
  <2>2. a \in 1 .. M /\ off[k] \in 1 .. Len(segs[a]) /\ flat[k] = segs[a][off[k]]
    BY <1>17, <1>18, <2>1 DEF Placed
  <2>3. flat[k] \in ToSet(segs[a])
    BY <1>9, <2>2, SetOf
  <2>4. flat[k] \in ToSet(tagged) /\ flat[k].tags[1] = tags[a]
    BY <1>9, <2>2, <2>3
  <2>5. QED
    BY <1>5, <1>19, <2>1, <2>2, <2>4
<1>21. ASSUME NEW k \in L + 1 .. L + R PROVE imported[k].tags = << >>
  <2>1. PICK m : m = k - L
    OBVIOUS
  <2>2. m \in 1 .. R /\ imported[k] = rest[m]
    BY <1>19, <2>1
  <2>3. rest[m] \in ToSet(rest)
    BY <1>4, <1>18, <2>2, SetOf
  <2>4. QED
    BY <1>5, <2>2, <2>3
<1>22. ASSUME NEW i \in 1 .. L + R, NEW j \in 1 .. L + R, i < j, imported[j].tags # << >>
       PROVE  /\ imported[i].tags # << >>
              /\ imported[i].tags[1] = imported[j].tags[1] =>
                   \A k \in i .. j : imported[k].tags[1] = imported[i].tags[1]
  <2>1. j \notin L + 1 .. L + R
    BY <1>21, <1>22
  <2>2. i \in 1 .. L /\ j \in 1 .. L
    BY <1>19, <1>22, <2>1
  <2>3. ASSUME imported[i].tags[1] = imported[j].tags[1], NEW k \in i .. j
        PROVE  imported[k].tags[1] = imported[i].tags[1]
    <3>1. k \in 1 .. L
      BY <1>19, <2>2
    <3>2. PICK a, b, c : a = seg[i] /\ b = seg[j] /\ c = seg[k]
      OBVIOUS
    <3>3. /\ a \in 1 .. M /\ b \in 1 .. M /\ c \in 1 .. M
          /\ imported[i].tags[1] = tags[a] /\ imported[j].tags[1] = tags[b]
          /\ imported[k].tags[1] = tags[c]
      BY <1>20, <2>2, <3>1, <3>2
    <3>4. a = b
      BY <1>8, <2>3, <3>3
    <3>5. \A x, y \in 1 .. L : x < y => seg[x] < seg[y] \/ seg[x] = seg[y]
      BY <1>17, <1>18 DEF Placed
    <3>6. i = k \/ i < k
      BY <1>19, <2>2, <3>1
    <3>7. k = j \/ k < j
      BY <1>19, <2>2, <3>1
    <3>8. a <= c
      <4>1. i < k => a < c \/ a = c
        BY <2>2, <3>1, <3>2, <3>5
      <4>2. QED
        BY <1>8, <3>2, <3>3, <3>6, <4>1
    <3>9. c <= b
      <4>1. k < j => c < b \/ c = b
        BY <2>2, <3>1, <3>2, <3>5
      <4>2. QED
        BY <1>8, <3>2, <3>3, <3>7, <4>1
    <3>10. c = a
      BY <1>8, <3>3, <3>4, <3>8, <3>9
    <3>11. QED
      BY <3>3, <3>10
  <2>4. QED
    BY <1>20, <2>2, <2>3
<1>23. InFolders(imported)
  BY <1>19, <1>22 DEF InFolders
<1>24. QED
  BY <1>1, <1>14, <1>15, <1>16, <1>23

\* The operations that stand for the resources.
LEMMA OperationsFacts ==
  ASSUME ResourcesInv
  PROVE  Operations \in Seq(Operation) /\ Distinct(Operations)
<1>1. PICK N, listed : N = Len(resources) /\ listed = Operations
  OBVIOUS
<1>2. N \in Nat /\ DOMAIN resources = 1 .. N
  BY <1>1 DEF ResourcesInv
<1>3. listed = [i \in 1 .. N |->
        [id |-> resources[i].id,
         tags |-> IF resources[i].parent = 0 THEN << >>
                  ELSE <<resources[i].parent, resources[i].id>>]]
  BY <1>1, <1>2, Zenon DEF Operations
<1>4. ASSUME NEW i \in 1 .. N PROVE listed[i] \in Operation /\ listed[i].id = resources[i].id
  <2>1. PICK x, p, t : x = resources[i].id /\ p = resources[i].parent
                       /\ t = IF p = 0 THEN << >> ELSE <<p, x>>
    OBVIOUS
  <2>2. x \in Int /\ p \in Int
    BY <1>1, <2>1, ResourceAt DEF ResourcesInv
  <2>3. t \in Seq(Int)
    BY <2>1, <2>2
  <2>4. listed[i] = [id |-> x, tags |-> t]
    BY <1>3, <2>1
  <2>5. QED
    BY <2>1, <2>2, <2>3, <2>4 DEF Operation
<1>5. listed \in [1 .. N -> Operation]
  BY <1>3, <1>4
<1>6. listed \in Seq(Operation) /\ Len(listed) = N
  BY <1>2, <1>5
<1>7. \A i, j \in 1 .. N : listed[i] = listed[j] => i = j
  <2>1. \A i, j \in 1 .. N : resources[i].id = resources[j].id => i = j
    BY <1>1 DEF ResourcesInv, Unique
  <2>2. QED
    BY <1>4, <2>1
<1>8. QED
  BY <1>1, <1>6, <1>7 DEF Distinct

LEMMA ImportsKeep == ASSUME ResourcesInv PROVE ImportsKeepRequests
<1>1. PICK workspaces, root, wanted, got, imported :
        /\ workspaces = Filter(resources, {r \in ToSet(resources) : r.type = "workspace"})
        /\ root = IF workspaces = << >> THEN 0 ELSE workspaces[1].id
        /\ wanted = {r.id : r \in {s \in ToSet(resources) :
                       s.type = "request" /\ s.id \in Reached(root)[Len(resources)]}}
        /\ got = ImportInsomnia(resources)
        /\ imported = ImportOpenApi(Operations)
  OBVIOUS
<1>2. root \notin Groups(resources) \cup Requests(resources)
  BY <1>1, RootApart
<1>3. got = BuildChildren(root, resources)
  BY <1>1, Zenon DEF ImportInsomnia
<1>4. ToSet(got) = wanted /\ Len(got) = Cardinality(wanted)
  BY <1>1, <1>2, <1>3, InsomniaKeeps
<1>5. /\ imported \in Seq(Operation)
      /\ ToSet(imported) = ToSet(Operations) /\ Len(imported) = Len(Operations)
      /\ InFolders(imported)
  BY <1>1, OperationsFacts, OpenApiKeeps
<1>6. DOMAIN imported = 1 .. Len(imported)
  BY <1>5
<1>7. \A i, j \in DOMAIN imported : i < j /\ imported[j].tags # << >> =>
        /\ imported[i].tags # << >>
        /\ imported[i].tags[1] = imported[j].tags[1] =>
             \A k \in i .. j : imported[k].tags[1] = imported[i].tags[1]
  BY <1>5, <1>6, Zenon DEF InFolders
<1>8. QED
  BY <1>1, <1>4, <1>5, <1>7, Zenon DEF ImportsKeepRequests

LEMMA ResourcesStep ==
  ASSUME ResourcesInv, [RequestNext]_requestVars
  PROVE  ResourcesInv'
<1>1. CASE UNCHANGED resources
  BY <1>1 DEF ResourcesInv, Unique
<1>2. CASE AddResource
  <2>0. PICK type \in ResourceTypes :
          \E id \in (1 .. MaxResources) \ {resources[i].id : i \in DOMAIN resources} :
          \E parent \in (0 .. MaxResources) \ {id} :
            resources' = Append(resources, [type |-> type, id |-> id, parent |-> parent])
    BY <1>2, Zenon DEF AddResource, ResourceTypes
  <2>1a. PICK id \in (1 .. MaxResources) \ {resources[i].id : i \in DOMAIN resources} :
          \E parent \in (0 .. MaxResources) \ {id} :
            resources' = Append(resources, [type |-> type, id |-> id, parent |-> parent])
    BY <2>0, Zenon
  <2>1. PICK parent \in (0 .. MaxResources) \ {id} :
          resources' = Append(resources, [type |-> type, id |-> id, parent |-> parent])
    BY <2>1a, Zenon
  <2>2. PICK r, N, R : r = [type |-> type, id |-> id, parent |-> parent]
                       /\ N = Len(resources) /\ R = Resource
    OBVIOUS
  <2>3. r \in Resource /\ r.id = id
    BY <2>2 DEF Resource
  <2>4. resources \in Seq(R) /\ N \in Nat /\ r \in R
    BY <2>2, <2>3 DEF ResourcesInv
  <2>5. PICK next : next = Append(resources, r)
    OBVIOUS
  <2>6. /\ next \in Seq(R) /\ Len(next) = N + 1 /\ next[N + 1] = r
        /\ \A i \in 1 .. N : next[i] = resources[i]
    BY <2>2, <2>4, <2>5
  <2>7. \A i \in 1 .. N : resources[i].id # id
    <3>1. DOMAIN resources = 1 .. N
      BY <2>2, <2>4
    <3>2. QED
      BY <2>1, <3>1
  <2>8. \A i, j \in 1 .. N : resources[i].id = resources[j].id => i = j
    BY <2>2 DEF ResourcesInv, Unique
  <2>9. \A i, j \in 1 .. N + 1 : next[i].id = next[j].id => i = j
    <3>1. \A i \in 1 .. N + 1 : i \in 1 .. N \/ i = N + 1
      BY <2>4
    <3>2. QED
      BY <2>3, <2>6, <2>7, <2>8, <3>1
  <2>10. next \in Seq(Resource) /\ Unique(next)
    BY <2>2, <2>6, <2>9 DEF Unique
  <2>11. resources' = next
    BY <2>1, <2>2, <2>5
  <2>12. QED
    BY <2>10, <2>11 DEF ResourcesInv, Unique
<1>3. UNCHANGED resources \/ AddResource
  BY DEF RequestNext, requestVars, EditMethod, EditUrl, EditParams, EditHeaders, EditBody, EditAuth,
         Patch, Send, Redirected, Answered
<1>4. QED
  BY <1>1, <1>2, <1>3

\* Whatever the order of the resources of an export and whoever names whom as parent, every
\* request that hangs below the root is built exactly once and nothing else is; and every
\* operation of a document is imported exactly once, in the folder of its first tag
\* (insomnia.ts and openapi.ts): for any number of resources.
THEOREM ImportsKeepRequestsAlways == RequestSpec => []ImportsKeepRequests
<1>1. RequestInit => ResourcesInv
  BY DEF RequestInit, ResourcesInv, Unique
<1>2. ResourcesInv /\ [RequestNext]_requestVars => ResourcesInv'
  BY ResourcesStep
<1>3. ResourcesInv => ImportsKeepRequests
  BY ImportsKeep
<1>4. QED
  BY <1>1, <1>2, <1>3, PTL DEF RequestSpec

=============================================================================
