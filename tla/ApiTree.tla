------------------------------- MODULE ApiTree -------------------------------
(***************************************************************************)
(* The API client's collections and the operations on them                  *)
(* (packages/api-client-core/src/factory.ts, webview/tree.ts): a collection  *)
(* holds folders and requests, a folder holds the same again.  The tree of a *)
(* collection is the list of its nodes in the order a search meets them, each *)
(* with the folders it is in: a folder's nodes follow it.  A request is       *)
(* abstracted to its id and a version of its definition.  Ids are pairs of   *)
(* a kind and a number, unique as the factory's random ids are.              *)
(***************************************************************************)
EXTENDS Integers, Sequences, SequencesExt, Scans

Request(k) == [kind |-> "request", id |-> <<"r", k>>, http |-> k, within |-> {}]
Folder(k) == [kind |-> "folder", id |-> <<"f", k>>, http |-> 0, within |-> {}]
Collection(k, nodes) == [id |-> <<"c", k>>, nodes |-> nodes]

Nodes(collections) == UNION {ToSet(collections[i].nodes) : i \in DOMAIN collections}

\* findInNodes: the requests of that id; the first of the first collection with one.
Hits(nodes, id) == {i \in DOMAIN nodes : nodes[i].kind = "request" /\ nodes[i].id = id}

\* findRequestNode, as a set of none or one.
FindRequest(collections, id) ==
  UNION {LET hits == Hits(collections[i].nodes, id)
         IN {collections[i].nodes[j] : j \in {k \in hits : \A l \in hits : k <= l}}
         : i \in {k \in DOMAIN collections :
                    \A l \in 1 .. k - 1 : Hits(collections[l].nodes, id) = {}}}

ReplaceInNodes(nodes, node) ==
  [i \in DOMAIN nodes |->
     IF nodes[i].kind = "request" /\ nodes[i].id = node.id THEN node ELSE nodes[i]]

ReplaceRequestNode(collections, node) ==
  [i \in DOMAIN collections |->
     [collections[i] EXCEPT !.nodes = ReplaceInNodes(@, node)]]

\* What is in a removed folder goes with it.
RemoveFromNodes(nodes, id) ==
  Filter(nodes, {n \in ToSet(nodes) : n.id # id /\ id \notin n.within})

RemoveNode(collections, id) ==
  [i \in DOMAIN collections |->
     [collections[i] EXCEPT !.nodes = RemoveFromNodes(@, id)]]

\* After what the folder holds already.
AddToFolder(nodes, folder, node) ==
  LET own == {i \in DOMAIN nodes : nodes[i].kind = "folder" /\ nodes[i].id = folder}
      held == {i \in DOMAIN nodes : folder \in nodes[i].within}
      around == {folder} \cup UNION {nodes[i].within : i \in own}
  IN IF own = {} THEN nodes
     ELSE InsertAt(nodes, Max(own \cup held) + 1, [node EXCEPT !.within = around])

\* At the end of the list (no folder: << >>) or of the folder.
AddToNodes(nodes, folder, node) ==
  IF folder = << >> THEN Append(nodes, node) ELSE AddToFolder(nodes, folder, node)

\* A plausible slip: what is returned is the collection added to, alone.
AddNodeAlone(collections, collection, folder, node) ==
  LET own == SelectSeq(collections, LAMBDA c : c.id = collection)
  IN [i \in DOMAIN own |-> [own[i] EXCEPT !.nodes = AddToNodes(@, folder, node)]]

\* addNode.
AddNode(collections, collection, folder, node) ==
  [i \in DOMAIN collections |->
     IF collections[i].id # collection THEN collections[i]
     ELSE [collections[i] EXCEPT !.nodes = AddToNodes(@, folder, node)]]
=============================================================================
