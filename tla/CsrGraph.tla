------------------------------ MODULE CsrGraph ------------------------------
(***************************************************************************)
(* The adjacency index of crates/cdf-graph/src/lib.rs: a list of edges,    *)
(* and a compressed copy of it that ensure_csr rebuilds when an edge was   *)
(* added since.  A lookup reads the list while the copy is stale, and the  *)
(* copy once it is not.                                                    *)
(*                                                                         *)
(* Nodes are numbers, for the order of their ids; an edge's properties     *)
(* follow it unread and are left out.                                      *)
(***************************************************************************)
EXTENDS Integers, Sequences, SequencesExt, Iterators

CONSTANTS Node,     \* ids, ordered
          MaxNode,  \* no id is greater
          EdgeType,
          Label,    \* the labels a caller gives a node
          NoNode,   \* no entry in the node map
          AnyType,  \* edge_type: None
          MaxEdges  \* bound: edges in the graph

ASSUME GraphAssumption == /\ MaxNode \in Nat /\ Node \subseteq 0..MaxNode
                          /\ AnyType \notin EdgeType
                          /\ NoNode \notin Label
                          /\ MaxEdges \in Nat

VARIABLES labels, \* nodes: the label each node was added with
          edges,  \* the list of edges
          csr,    \* sorted_from_ids, row_ptr, and col_idx with edge_types
          dirty,
          added   \* history: the edges in the order they were added

csrVars == <<labels, edges, csr, dirty, added>>

Edge == [from : Node, to : Node, type : EdgeType]
Column == [to : Node, type : EdgeType]
Csr == [fromIds : Seq(Node), rowPtr : Seq(Nat), col : Seq(Column)]

GraphTypeOK ==
  /\ labels \in [Node -> Label \cup {NoNode}]
  /\ {edges, added} \subseteq Seq(Edge)
  /\ csr \in Csr
  /\ dirty \in BOOLEAN

EmptyCsr == [fromIds |-> <<>>, rowPtr |-> <<>>, col |-> <<>>]

GraphInit ==
  /\ labels = [n \in Node |-> NoNode]
  /\ edges = <<>>
  /\ csr = [EmptyCsr EXCEPT !.rowPtr = <<0>>]
  /\ dirty = FALSE
  /\ added = <<>>

-----------------------------------------------------------------------------
(* ensure_csr *)

From(es, n) == Filter(es, {e \in Edge : e.from = n})

\* sort_by_key, which is stable: the edges of each node in turn, in the order they had.
SortByFrom(es) == FlattenSeq([i \in 1..(MaxNode + 1) |-> From(es, i - 1)])

\* The row of an edge is the last one, or a new one when its source is another.
WithRow(c, n) ==
  IF c.fromIds # <<>> /\ Last(c.fromIds) = n THEN c
  ELSE [c EXCEPT !.fromIds = Append(@, n), !.rowPtr = Append(@, Len(c.col))]

AddColumn(c, e) ==
  [WithRow(c, e.from) EXCEPT !.col = Append(@, [to |-> e.to, type |-> e.type])]

\* Bug: no sentinel after the last row.
Build_NoSentinel(es) == FoldLeft(AddColumn, EmptyCsr, es)

Build(es) ==
  LET c == FoldLeft(AddColumn, EmptyCsr, es)
  IN  [c EXCEPT !.rowPtr = Append(@, Len(c.col))]

ensure_csr ==
  IF dirty THEN /\ edges' = SortByFrom(edges)
                /\ csr' = Build(edges')
                /\ dirty' = FALSE
           ELSE UNCHANGED <<edges, csr, dirty>>

-----------------------------------------------------------------------------
(* Lookups *)

OfType(t, type) == t \in {AnyType, type}

Targets(s) == [i \in DOMAIN s |-> s[i].to]

\* The list of edges, filtered.
Scan(es, n, t) == Targets(Filter(es, {e \in Edge : e.from = n /\ OfType(t, e.type)}))

\* binary_search over ids that are sorted and distinct: the row of n, or none.
find_row(n) == {i \in DOMAIN csr.fromIds : csr.fromIds[i] = n}

\* start..end: the columns of a row.
Row(i) == [k \in 1..(csr.rowPtr[i + 1] - csr.rowPtr[i]) |-> csr.col[csr.rowPtr[i] + k]]

Lookup(n, t) ==
  IF find_row(n) = {} THEN <<>>
  ELSE Targets(Filter(Row(Min(find_row(n))), {c \in Column : OfType(t, c.type)}))

get_neighbors(n, t) == IF dirty THEN Scan(edges, n, t) ELSE Lookup(n, t)

get_outgoing_edges(n) == From(edges, n)

-----------------------------------------------------------------------------
(* Operations *)

\* entry().or_insert: the first labels stay.
add_node(n, l) ==
  /\ labels' = IF labels[n] = NoNode THEN [labels EXCEPT ![n] = l] ELSE labels
  /\ UNCHANGED <<edges, csr, dirty, added>>

\* Bug: the copy is not marked stale.
add_edge_Clean(e) ==
  /\ Len(added) < MaxEdges
  /\ edges' = Append(edges, e)
  /\ added' = Append(added, e)
  /\ UNCHANGED <<labels, csr, dirty>>

\* Neither end need be in the node map.
add_edge(e) ==
  /\ Len(added) < MaxEdges
  /\ edges' = Append(edges, e)
  /\ dirty' = TRUE
  /\ added' = Append(added, e)
  /\ UNCHANGED <<labels, csr>>

\* refresh, and get_neighbors_csr before its lookup.
refresh == ensure_csr /\ UNCHANGED <<labels, added>>

GraphNext ==
  \/ \E n \in Node, l \in Label : add_node(n, l)
  \/ \E e \in Edge : add_edge(e)
  \/ refresh

GraphSpec == GraphInit /\ [][GraphNext]_csrVars

-----------------------------------------------------------------------------
(* Properties *)

\* Whatever mixture of additions and rebuilds came before, stale or not, a lookup
\* answers what a scan of the edges in the order they were added answers.
NeighborsAreScan ==
  \A n \in Node, t \in EdgeType \cup {AnyType} : get_neighbors(n, t) = Scan(added, n, t)

\* Sorting the list loses and repeats no edge, and the edges of a node keep their order.
OutgoingAreKept == \A n \in Node : get_outgoing_edges(n) = From(added, n)

\* Both lookups answer as if the list had never been sorted and never been copied.
LookupsAreExact == NeighborsAreScan /\ OutgoingAreKept

\* The fresh copy is well formed: the ids are sorted, so that a binary search may be
\* used, each has a row that is not empty, and the rows partition the columns.
CsrIsSorted ==
  ~dirty => /\ Len(csr.rowPtr) = Len(csr.fromIds) + 1
            /\ csr.rowPtr[1] = 0 /\ Last(csr.rowPtr) = Len(edges)
            /\ \A i \in 1..(Len(csr.fromIds) - 1) : csr.fromIds[i] < csr.fromIds[i + 1]
            /\ \A i \in DOMAIN csr.fromIds : csr.rowPtr[i] < csr.rowPtr[i + 1]
=============================================================================
