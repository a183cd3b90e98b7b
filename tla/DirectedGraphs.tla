----------------------------- MODULE DirectedGraphs -----------------------------
(***************************************************************************)
(* A mutable collection of directed graphs and what is worked out for each *)
(* of them (DirectedGraphs.js, DirectedGraphNode.js, BaseDirectedGraph.js, *)
(* DirectedGraph.js).                                                      *)
(*                                                                         *)
(* Nodes are linked in both directions by maps that keep the order of      *)
(* insertion, here sequences of ids: a map that requires unique keys holds *)
(* the nodes, so an id stands for one node at a time.  The graphs are      *)
(* worked out when they are asked for and kept until the next change.      *)
(***************************************************************************)
EXTENDS Naturals, Sequences, SequencesExt, FiniteSets

CONSTANTS
  Ids,
  Pairs, MaxEdges,    \* the edges that may be added, and how many at a time
  RespectEdgeOrder, Nothing

VARIABLES nodes, sources, destinations, graphs
links == <<sources, destinations>>
vars == <<nodes, links, graphs>>

Init ==
  /\ nodes = <<>> /\ graphs = Nothing
  /\ sources = [n \in Ids |-> <<>>] /\ destinations = [n \in Ids |-> <<>>]

Here == ToSet(nodes)
Edges == {<<a, b>> \in Here \X Here : Contains(destinations[a], b)}
DidMutate == graphs' = Nothing

(***************************************************************************)
(* Traversal in both directions, _traverse: the nodes of one graph in the  *)
(* order they are met.                                                     *)
(***************************************************************************)
RECURSIVE Traverse(_, _)
Traverse(n, met) ==
  IF Contains(met, n) THEN met
  ELSE FoldLeft(LAMBDA m, x : Traverse(x, m), Append(met, n), sources[n] \o destinations[n])

\* getGraphs: from every node that no traversal has met, in order.
RECURSIVE Groups(_)
Groups(unvisited) ==
  IF unvisited = <<>> THEN <<>>
  ELSE LET g == Traverse(Head(unvisited), <<>>)
       IN <<g>> \o Groups(SelectSeq(unvisited, LAMBDA n : ~Contains(g, n)))

(***************************************************************************)
(* DirectedGraph: one graph, given by its nodes.                           *)
(***************************************************************************)
IsRoot(n) == sources[n] = <<>>
RootNodes(g) == SelectSeq(g, IsRoot)

\* A mutant: a node met again is not noticed while it is being left.
RECURSIVE SortPreorder(_, _, _)
SortPreorder(n, sort, walk) ==
  IF n \in walk THEN [sort EXCEPT !.acyclic = FALSE]
  ELSE IF Contains(sort.order, n) THEN sort
  ELSE FoldLeft(LAMBDA s, x : IF s.acyclic THEN SortPreorder(x, s, walk \cup {n}) ELSE s,
                [sort EXCEPT !.order = Append(@, n)], destinations[n])

\* _topologicalSort: the visited nodes are those already in the order.
RECURSIVE TopologicalSort(_, _, _)
TopologicalSort(n, sort, walk) ==
  IF n \in walk THEN [sort EXCEPT !.acyclic = FALSE]
  ELSE IF Contains(sort.order, n) THEN sort
  ELSE LET next == IF RespectEdgeOrder THEN Reverse(destinations[n]) ELSE destinations[n]
           down == FoldLeft(LAMBDA s, x : IF s.acyclic THEN TopologicalSort(x, s, walk \cup {n}) ELSE s,
                            sort, next)
       IN IF down.acyclic THEN [down EXCEPT !.order = <<n>> \o @] ELSE down

\* The constructor: a cycle that no root leads to is not seen.
Analysis(g) ==
  LET roots == RootNodes(g)
      sort == FoldLeft(LAMBDA s, n : IF s.acyclic THEN TopologicalSort(n, s, {}) ELSE s,
                       [acyclic |-> TRUE, order |-> <<>>], roots)
  IN IF roots = <<>> \/ ~sort.acyclic THEN [nodes |-> g, acyclic |-> FALSE, order |-> Nothing]
     ELSE [nodes |-> g, acyclic |-> TRUE, order |-> sort.order]

\* The source that is furthest from the roots, the first of them.
Furthest(s, known) ==
  FoldLeft(LAMBDA best, x : IF best = Nothing THEN known[x]
                            ELSE IF known[x].distance > best.distance THEN known[x] ELSE best,
           Nothing, s)

\* getLongestPath: "parent" is the one of the node before when the node is a
\* root.  It throws when a source is not in the order.  The path stands for the chain of parents.
LongestPath(graph) ==
  LET visit(w, n) ==
        IF w.thrown \/ \E x \in ToSet(sources[n]) : w.known[x] = Nothing
        THEN [w EXCEPT !.thrown = TRUE]
        ELSE LET parent == IF IsRoot(n) THEN w.parent ELSE Furthest(sources[n], w.known)
                 here == [distance |-> IF IsRoot(n) THEN 0 ELSE parent.distance + 1,
                          path |-> IF parent = Nothing THEN <<n>> ELSE Append(parent.path, n)]
             IN [thrown |-> FALSE, known |-> [w.known EXCEPT ![n] = here], parent |-> parent,
                 longest |-> IF w.longest = Nothing THEN here
                             ELSE IF here.distance > w.longest.distance THEN here ELSE w.longest]
      last == FoldLeft(visit, [thrown |-> FALSE, known |-> [n \in Ids |-> Nothing],
                               parent |-> Nothing, longest |-> Nothing], graph.order)
  IN IF last.thrown THEN Nothing ELSE last.longest.path

IsLinear(graph) ==
  graph.acyclic /\ \A n \in ToSet(graph.nodes) : Len(sources[n]) <= 1 /\ Len(destinations[n]) <= 1

(***************************************************************************)
(* getDescendants and getAncestors of several nodes.                       *)
(***************************************************************************)
RECURSIVE TraverseGraph(_, _, _, _)
TraverseGraph(n, next, ignore, seen) ==
  FoldLeft(LAMBDA s, x : IF x \in ignore \/ x \in s THEN s
                         ELSE TraverseGraph(x, next, ignore, s \cup {x}),
           seen, next[n])

AncestorsOrDescendants(starts, next) ==
  FoldLeft(LAMBDA found, n : found \cup TraverseGraph(n, next, ToSet(starts) \cup found, {}), {}, starts)

(***************************************************************************)
(* Operations.                                                             *)
(***************************************************************************)
\* Which of the unused ids it takes makes no difference.
AddNode(n) ==
  /\ n \notin Here /\ \A m \in Ids \ Here : n <= m
  /\ nodes' = Append(nodes, n)
  /\ DidMutate /\ UNCHANGED links

Gone(m, n) == [x \in Ids |-> IF x = n THEN <<>> ELSE SelectSeq(m[x], LAMBDA y : y # n)]

UnlinkAll(n) == sources' = Gone(sources, n) /\ destinations' = Gone(destinations, n)

DeleteNode(n) ==
  /\ n \in Here
  /\ UnlinkAll(n)
  /\ nodes' = SelectSeq(nodes, LAMBDA m : m # n)
  /\ DidMutate

\* An edge that is there already is returned; the graphs are dropped all the same.
AddEdge(a, b) ==
  /\ {a, b} \subseteq Here
  /\ IF Contains(sources[b], a) THEN UNCHANGED links
     ELSE /\ sources' = [sources EXCEPT ![b] = Append(@, a)]
          /\ destinations' = [destinations EXCEPT ![a] = Append(@, b)]
  /\ DidMutate /\ UNCHANGED nodes

Unlinked(a, b) ==
  /\ sources' = [sources EXCEPT ![b] = SelectSeq(@, LAMBDA x : x # a)]
  /\ destinations' = [destinations EXCEPT ![a] = SelectSeq(@, LAMBDA x : x # b)]

\* An edge that is not there makes it throw, after _didMutate.
DeleteEdge(a, b) ==
  /\ {a, b} \subseteq Here
  /\ Unlinked(a, b)
  /\ DidMutate /\ UNCHANGED nodes

GetGraphs ==
  /\ graphs = Nothing
  /\ graphs' = [i \in DOMAIN Groups(nodes) |-> Analysis(Groups(nodes)[i])]
  /\ UNCHANGED <<nodes, links>>

Room(e) == Cardinality(Edges \cup {e}) <= MaxEdges
Next ==
  \/ \E n \in Ids : AddNode(n) \/ DeleteNode(n)
  \/ \E e \in Pairs : (Room(e) /\ AddEdge(e[1], e[2])) \/ DeleteEdge(e[1], e[2])
  \/ GetGraphs
Spec == Init /\ [][Next]_vars

(***************************************************************************)
(* Reference definitions, over the edges alone.                            *)
(***************************************************************************)
\* The pairs that a walk over E leads from and to (Warshall).
Closure(E) ==
  FoldLeft(LAMBDA R, k : R \cup {e \in Here \X Here : <<e[1], k>> \in R /\ <<k, e[2]>> \in R}, E, nodes)
Rooted(S, reached) == \A n \in S : \E r \in S : IsRoot(r) /\ (r = n \/ <<r, n>> \in reached)
IsPath(p) == \A i \in 1..(Len(p) - 1) : <<p[i], p[i + 1]>> \in Edges
Known == graphs # Nothing
Sorted == IF Known THEN {g \in ToSet(graphs) : g.acyclic} ELSE {}

(***************************************************************************)
(* Properties.                                                             *)
(***************************************************************************)
\* The types of all variables; no node is linked twice, or to one deleted.
TypeOK ==
  /\ nodes \in Seq(Ids) /\ IsInjective(nodes)
  /\ \A n \in Ids, m \in {sources, destinations} :
       IsInjective(m[n]) /\ ToSet(m[n]) \subseteq (IF n \in Here THEN Here ELSE {})
  /\ graphs = Nothing \/ \A g \in ToSet(graphs) : ToSet(g.nodes) \subseteq Ids

\* What the graphs were worked out from is still there: they are the
\* connected components of the nodes, each node in one of them.
GraphsAreComponents ==
  Known =>
    LET either == Closure(Edges \cup {<<e[2], e[1]>> : e \in Edges})
        together(a, b) == a = b \/ <<a, b>> \in either
    IN /\ \A g \in ToSet(graphs) : \A a \in ToSet(g.nodes) :
            ToSet(g.nodes) = {b \in Here : together(a, b)}
       /\ UNION {ToSet(g.nodes) : g \in ToSet(graphs)} = Here

\* A graph whose nodes a root leads to is called acyclic when it has no
\* cycle, and then its order has every node after all its sources.
OrderIsTopological ==
  Known =>
    LET reached == Closure(Edges) IN
    \A g \in {h \in ToSet(graphs) : Rooted(ToSet(h.nodes), reached)} :
      /\ g.acyclic <=> \A n \in ToSet(g.nodes) : <<n, n>> \notin reached
      /\ g.acyclic =>
           /\ IsInjective(g.order) /\ ToSet(g.order) = ToSet(g.nodes)
           /\ \A e \in Edges : e[1] \in ToSet(g.nodes) =>
                \E i, j \in DOMAIN g.order : i < j /\ g.order[i] = e[1] /\ g.order[j] = e[2]

\* The longest path of a graph with one root that leads everywhere is a
\* path, and there is none longer.
LongestPathIsLongest ==
  \A g \in {h \in Sorted : Len(RootNodes(h.nodes)) = 1 /\ Rooted(ToSet(h.nodes), Closure(Edges))} :
    LET p == LongestPath(g)
        longer[k \in Nat] == IF k = 1 THEN ToSet(g.nodes)
                             ELSE {n \in ToSet(g.nodes) : \E m \in longer[k - 1] : <<m, n>> \in Edges}
    IN IsPath(p) /\ IsInjective(p) /\ longer[Len(p) + 1] = {}

\* A linear graph is one path through all of its nodes.
LinearIsAChain == \A g \in Sorted : IsLinear(g) => IsPath(g.order) /\ Len(g.order) = Len(g.nodes)

\* The descendants of two nodes are what is reached from either, without the
\* two, although the second traversal leaves out what the first has found.
DescendantsAreReached ==
  LET reached == Closure(Edges) IN
  \A a, b \in Here :
    AncestorsOrDescendants(<<a, b>>, destinations)
      = {n \in Here : <<a, n>> \in reached \/ <<b, n>> \in reached} \ {a, b}
================================================================================
