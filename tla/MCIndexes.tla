----------------------------- MODULE MCIndexes -----------------------------
(* Small instances of the vector index, the graph index and the searches in a  *)
(* graph: three vectors in the plane with a query whose nearest vector may be  *)
(* linked to nothing but the farthest one; three nodes with up to three edges; *)
(* and the searches of graphs of five nodes, the first with up to two          *)
(* neighbors, itself or one twice among them, the others with at most one and  *)
(* the last with the first or none, as two paths to a node, of different       *)
(* lengths, need five.  The three share no state, so one of them takes the     *)
(* steps of a behaviour and the others stay as they began, with no call and no *)
(* search under way.                                                           *)
EXTENDS Hnsw, CsrGraph, GraphSearch

VARIABLE part

allVars == <<part, vars, csrVars, bfsVars>>

East == <<4, 0>>
North == <<0, 3>>
Origin == <<0, 0>>
South == <<1, -1>>

MCVector == {East, North, Origin}
MCQuery == {South, North}

Gap(x, y) == IF x < y THEN y - x ELSE x - y

MCDistance == [p \in (MCVector \cup MCQuery) \X MCVector |->
                 Gap(p[1][1], p[2][1]) + Gap(p[1][2], p[2][2])]

FirstNeighbors == {<<2>>, <<2, 3>>, <<1, 2>>, <<2, 2>>}
OneNeighbor == [2..4 -> {<<>>} \cup {<<n>> : n \in 1..5}]
LastNeighbors == {<<>>, <<1>>}

MCGraphs == {<<first>> \o [i \in 1..3 |-> rest[i + 1]] \o <<last>> :
               first \in FirstNeighbors, rest \in OneNeighbor, last \in LastNeighbors}

Loop == [n \in 1..5 |-> <<(n % 5) + 1>>]

\* A search for its own start is done at once.
NoSearch ==
  /\ adj = Loop
  /\ done
  /\ \A d \in Depths : job.depth <= d

MCInit ==
  /\ part \in {"hnsw", "graph", "search"}
  /\ Init /\ GraphInit /\ SearchInit
  /\ part # "search" => NoSearch

\* A search takes its next step, or is over and stays as it is.
Searching == /\ part = "search"
             /\ SearchNext \/ (done /\ UNCHANGED bfsVars)
             /\ UNCHANGED <<part, vars, csrVars>>

MCNext ==
  \/ part = "hnsw" /\ Next /\ UNCHANGED <<part, csrVars, bfsVars>>
  \/ part = "graph" /\ GraphNext /\ UNCHANGED <<part, vars, bfsVars>>
  \/ Searching

\* Type correctness of both indexes, and the form a binary search in the copy relies on.
IndexesTypeOK == TypeOK /\ GraphTypeOK /\ CsrIsSorted

\* The calls on the vector index and the searches of the graph go on, as in FairSpec and
\* FairSearchSpec.
MCSpec == MCInit /\ [][MCNext]_allVars /\ WF_vars(Work) /\ WF_bfsVars(SearchNext)
=============================================================================
