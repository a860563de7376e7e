-------------------------------- MODULE Hnsw --------------------------------
(***************************************************************************)
(* The vector index of crates/cdf-vector/src/hnsw.rs: insert, search and    *)
(* remove.  insert and search walk the layers from the top, and a step is   *)
(* one iteration of the beam search of a layer or its end.  The index is    *)
(* behind &mut, so calls do not interleave.                                 *)
(*                                                                         *)
(* Links are sets, since the order of a node's links decides nothing but    *)
(* ties; where vectors tie, every outcome a heap may give is allowed.       *)
(***************************************************************************)
EXTENDS Integers, FiniteSets, FiniteSetsExt

CONSTANTS Id,
          Vector, Query,  \* the vectors stored, and those searched for
          Distance,       \* the metric: a number for each two vectors
          Levels,         \* the levels random_level draws
          M,              \* params.m
          EfConstruction, \* params.ef_construction
          Ks, Efs,        \* the k and ef searches are called with
          NoId, NoCall, NoAnswer,
          MaxInserts, MaxRemoves  \* bounds

Call == [kind : {"insert"}, vector : Vector, id : Id, level : Levels] \cup
        [kind : {"search"}, vector : Query, k : Ks, ef : Efs]

ASSUME HnswAssumption ==
  /\ IsFiniteSet(Id) /\ NoId \notin Id /\ NoCall \notin Call
  /\ Distance \in [(Vector \cup Query) \X Vector -> Nat]
  /\ Levels \subseteq Nat
  /\ {M, EfConstruction} \subseteq Nat \ {0}
  /\ Ks \subseteq Nat \ {0} /\ Efs \subseteq Nat
  /\ {MaxInserts, MaxRemoves} \subseteq Nat

VARIABLES nodes, entry_point, current_level,
          call,        \* the call under way
          curr_entry,  \* where the search of a layer starts
          level,       \* the layer searched
          visited, candidates, results,  \* search_layer
          links,       \* insert: the links of the new node
          answer,      \* of the last call, if it was a search
          panicked,    \* whether some call panicked
          known,       \* history: the ids ever inserted
          live,        \* history: those not removed since
          reused,      \* history: whether one was inserted twice
          inserts, removes

indexVars == <<nodes, entry_point, current_level>>
beamVars == <<curr_entry, level, visited, candidates, results>>
historyVars == <<known, live, reused, inserts, removes>>
vars == <<indexVars, call, beamVars, links, answer, panicked, historyVars>>

Stored == DOMAIN nodes

Layers == UNION {[0..l -> SUBSET Id] : l \in Levels}

TypeOK ==
  /\ Stored \subseteq Id
  /\ \A n \in Stored : nodes[n] \in [vector : Vector, layers : Layers]
  /\ entry_point \in Id \cup {NoId}
  /\ current_level \in Levels \cup {0}
  /\ call \in Call \cup {NoCall}
  /\ call # NoCall => level \in 0..current_level /\ curr_entry \in Stored
  /\ candidates \subseteq visited /\ results \subseteq visited /\ visited \subseteq Id
  /\ call # NoCall /\ call.kind = "insert" => links \in [0..call.level -> SUBSET Id]
  /\ answer \in [vector : Query, k : Ks, ef : Efs, ids : SUBSET Id] \cup {NoAnswer}
  /\ {panicked, reused} \subseteq BOOLEAN
  /\ live \subseteq known /\ known \subseteq Id
  /\ inserts \in 0..MaxInserts /\ removes \in 0..MaxRemoves

Init ==
  /\ nodes = <<>>
  /\ entry_point = NoId
  /\ current_level = 0
  /\ call = NoCall
  /\ curr_entry = NoId
  /\ level = 0
  /\ visited = {} /\ candidates = {} /\ results = {}
  /\ links = <<>>
  /\ answer = NoAnswer
  /\ panicked = FALSE
  /\ known = {} /\ live = {} /\ reused = FALSE
  /\ inserts = 0 /\ removes = 0

-----------------------------------------------------------------------------

Dist(v, n) == Distance[v, nodes[n].vector]

\* The sets of n nodes (or all) of S such that no other is nearer to v.
Nearest(v, S, n) ==
  {T \in kSubset(IF n < Cardinality(S) THEN n ELSE Cardinality(S), S) :
     \A near \in T, far \in S \ T : Dist(v, near) <= Dist(v, far)}

LinksAt(n, l) ==
  IF l \in DOMAIN nodes[n].layers THEN nodes[n].layers[l] ELSE {}

\* The layer down to which a call only looks for its entry point.
Floor == IF call.kind = "insert" THEN call.level ELSE 0

Descending == level > Floor

\* Bug: a search's beam is k wide.
Ef_OfK ==
  IF Descending THEN 1
  ELSE IF call.kind = "insert" THEN EfConstruction
  ELSE call.k

\* The width of the beam.
Ef ==
  IF Descending THEN 1
  ELSE IF call.kind = "insert" THEN EfConstruction
  ELSE IF call.ef > call.k THEN call.ef ELSE call.k

\* The next layer, searched from n.
Enter(n, l) ==
  /\ curr_entry' = n
  /\ level' = l
  /\ visited' = {n} /\ candidates' = {n} /\ results' = {n}

Leave ==
  /\ curr_entry' = NoId
  /\ level' = 0
  /\ visited' = {} /\ candidates' = {} /\ results' = {}

Idle == call = NoCall

CountInsert(id) ==
  /\ inserts < MaxInserts
  /\ inserts' = inserts + 1
  /\ known' = known \cup {id}
  /\ live' = live \cup {id}
  /\ reused' = (reused \/ id \in known)

\* The first vector becomes the entry point.
InsertFirst(id, v, lev) ==
  /\ Idle /\ entry_point = NoId
  /\ nodes' = [n \in Stored \cup {id} |->
                 IF n = id THEN [vector |-> v, layers |-> [l \in 0..lev |-> {}]]
                 ELSE nodes[n]]
  /\ entry_point' = id
  /\ current_level' = lev
  /\ answer' = NoAnswer
  /\ CountInsert(id)
  /\ UNCHANGED <<call, beamVars, links, panicked, removes>>

\* Later ones start at the top layer, whatever their own.
StartInsert(id, v, lev) ==
  /\ Idle /\ entry_point \in Stored
  /\ call' = [kind |-> "insert", vector |-> v, id |-> id, level |-> lev]
  /\ links' = [l \in 0..lev |-> {}]
  /\ Enter(entry_point, current_level)
  /\ answer' = NoAnswer
  /\ CountInsert(id)
  /\ UNCHANGED <<indexVars, panicked, removes>>

StartSearch(v, k, ef) ==
  /\ Idle /\ entry_point \in Stored
  /\ call' = [kind |-> "search", vector |-> v, k |-> k, ef |-> ef]
  /\ Enter(entry_point, current_level)
  /\ answer' = NoAnswer
  /\ UNCHANGED <<indexVars, links, panicked, historyVars>>

SearchEmpty(v, k, ef) ==
  /\ Idle /\ entry_point = NoId
  /\ answer' = [vector |-> v, k |-> k, ef |-> ef, ids |-> {}]
  /\ UNCHANGED <<indexVars, call, beamVars, links, panicked, historyVars>>

\* search_layer expects its entry to be stored: a call with an entry point that was
\* removed panics before it changes anything.
Panic ==
  /\ Idle /\ entry_point # NoId /\ entry_point \notin Stored
  /\ panicked' = TRUE
  /\ answer' = NoAnswer
  /\ UNCHANGED <<indexVars, call, beamVars, links, historyVars>>

-----------------------------------------------------------------------------
(* search_layer *)

\* No candidate is left, or ef results are all nearer than the nearest of them.
Finished ==
  \/ candidates = {}
  \/ /\ Cardinality(results) >= Ef
     /\ \A c \in candidates, r \in results : Dist(call.vector, c) > Dist(call.vector, r)

\* Bug: neighbors seen before are candidates again.
Expand_Revisits ==
  /\ ~Idle /\ ~Finished
  /\ \E closest \in Nearest(call.vector, candidates, 1), c \in candidates :
       /\ c \in closest
       /\ LET found == LinksAt(c, level) \cap Stored IN
            /\ candidates' = (candidates \ {c}) \cup found
            /\ results' \in Nearest(call.vector, results \cup found, Ef)
       /\ visited' = visited \cup LinksAt(c, level)
  /\ UNCHANGED <<indexVars, call, curr_entry, level, links, answer, panicked, historyVars>>

\* The closest candidate is expanded; of its neighbors and the results so far the
\* nearest ef remain.
Expand ==
  /\ ~Idle /\ ~Finished
  /\ \E closest \in Nearest(call.vector, candidates, 1), c \in candidates :
       /\ c \in closest
       /\ LET found == (LinksAt(c, level) \ visited) \cap Stored IN
            /\ candidates' = (candidates \ {c}) \cup found
            /\ results' \in Nearest(call.vector, results \cup found, Ef)
       /\ visited' = visited \cup LinksAt(c, level)
  /\ UNCHANGED <<indexVars, call, curr_entry, level, links, answer, panicked, historyVars>>

\* Above its floor a call goes on from the nearest node of the layer.
Descend ==
  /\ ~Idle /\ Finished /\ Descending
  /\ \E n \in results : Enter(n, level - 1)
  /\ UNCHANGED <<indexVars, call, links, answer, panicked, historyVars>>

-----------------------------------------------------------------------------
(* insert, search, remove *)

\* Bug: a neighbor with m links forgets one of them for the new one.
BackLinked_Replaces(neighbors) ==
  [n \in Stored |->
     IF n \in neighbors /\ level \in DOMAIN nodes[n].layers
     THEN [nodes[n] EXCEPT !.layers[level] =
             IF Cardinality(@) < M THEN @ \cup {call.id} ELSE {call.id}]
     ELSE nodes[n]]

\* The nodes, with a link to the new one from each neighbor that has the layer.
BackLinked(neighbors) ==
  [n \in Stored |->
     IF n \in neighbors /\ level \in DOMAIN nodes[n].layers
     THEN [nodes[n] EXCEPT !.layers[level] = @ \cup {call.id}] ELSE nodes[n]]

\* At and below its floor an insert links the new node and the m nearest of the layer;
\* each layer is searched from the same entry.  After layer 0 the node is stored.
Connect ==
  /\ ~Idle /\ call.kind = "insert" /\ Finished /\ ~Descending
  /\ \E neighbors \in Nearest(call.vector, results, M) :
       LET new == [links EXCEPT ![level] = neighbors]
           linked == BackLinked(neighbors)
       IN  IF level > 0
           THEN /\ nodes' = linked /\ links' = new
                /\ Enter(curr_entry, level - 1)
                /\ UNCHANGED call
           ELSE /\ nodes' = [n \in Stored \cup {call.id} |->
                               IF n = call.id THEN [vector |-> call.vector, layers |-> new]
                               ELSE linked[n]]
                /\ links' = <<>> /\ call' = NoCall
                /\ Leave
  /\ UNCHANGED <<entry_point, current_level, answer, panicked, historyVars>>

Answer ==
  /\ ~Idle /\ call.kind = "search" /\ Finished /\ ~Descending
  /\ \E ids \in Nearest(call.vector, results, call.k) :
       answer' = [vector |-> call.vector, k |-> call.k, ef |-> call.ef, ids |-> ids]
  /\ call' = NoCall
  /\ Leave
  /\ UNCHANGED <<indexVars, links, panicked, historyVars>>

\* Bug: the node is cut off and kept.
remove_Unlinks(id) ==
  /\ Idle /\ removes < MaxRemoves
  /\ nodes' = [n \in Stored |->
                 IF n = id THEN [nodes[n] EXCEPT !.layers = [l \in DOMAIN @ |-> {}]]
                 ELSE nodes[n]]
  /\ live' = live \ {id}
  /\ removes' = removes + 1
  /\ answer' = NoAnswer
  /\ UNCHANGED <<entry_point, current_level, call, beamVars, links, panicked, known, reused, inserts>>

\* remove() drops the node; links to it stay, and so does the entry point.
remove(id) ==
  /\ Idle /\ removes < MaxRemoves
  /\ nodes' = [n \in Stored \ {id} |-> nodes[n]]
  /\ live' = live \ {id}
  /\ removes' = removes + 1
  /\ answer' = NoAnswer
  /\ UNCHANGED <<entry_point, current_level, call, beamVars, links, panicked, known, reused, inserts>>

Work == Expand \/ Descend \/ Connect \/ Answer

Next ==
  \/ \E id \in Id, v \in Vector, lev \in Levels :
       InsertFirst(id, v, lev) \/ StartInsert(id, v, lev)
  \/ \E v \in Query, k \in Ks, ef \in Efs : StartSearch(v, k, ef) \/ SearchEmpty(v, k, ef)
  \/ \E id \in Id : remove(id)
  \/ Panic
  \/ Work

Spec == Init /\ [][Next]_vars

\* A call is a loop of the calling thread: it goes on.
FairSpec == Spec /\ WF_vars(Work)

-----------------------------------------------------------------------------
(* Properties *)

\* A search never returns a node that was removed, although links to it stay.
FoundAreLive == answer # NoAnswer => answer.ids \subseteq live

\* Links are made in both directions on the layers both nodes have, and none is ever
\* dropped: while no id was inserted twice, a link between stored nodes has its reverse.
LinksAreMutual ==
  Idle /\ ~reused =>
    \A a, b \in Stored : \A l \in DOMAIN nodes[a].layers :
      b \in nodes[a].layers[l] => l \in DOMAIN nodes[b].layers /\ a \in nodes[b].layers[l]

\* Nothing was removed and nothing inserted twice.
Grown == removes = 0 /\ ~reused

\* The nodes a search of layer l can come to.
Reached(l) ==
  LET reach[i \in 0..Cardinality(Stored)] ==
        IF i = 0 THEN {entry_point}
        ELSE reach[i - 1] \cup UNION {LinksAt(n, l) : n \in reach[i - 1]}
  IN  reach[Cardinality(Stored)]

\* An index that has only grown leads from its entry point to every node, on each layer
\* the node has below the index's top: no node is cut off by a link that was not made or
\* given to another.
EveryLayerIsReachable ==
  Idle /\ Grown /\ entry_point # NoId =>
    \A l \in 0..current_level :
      {n \in Stored : l \in DOMAIN nodes[n].layers} \subseteq Reached(l)

\* Searches can come to each node, and from it to those that link to it.
LayersAreConnected == LinksAreMutual /\ EveryLayerIsReachable

\* In such an index a beam as wide as the index makes search exact: it answers the k
\* nearest nodes, from whatever node the layers above led it to.
SearchIsExact ==
  answer # NoAnswer /\ Grown =>
    LET width == IF answer.ef > answer.k THEN answer.ef ELSE answer.k IN
      Cardinality(Stored) <= width => answer.ids \in Nearest(answer.vector, Stored, answer.k)

\* No call loops, whatever links removed or repeated ids have left.
CallsEnd == (call # NoCall) ~> (call = NoCall)

\* "entry must exist" (hnsw.rs:139): the entry a search starts from is stored.
EntryExists == ~panicked
=============================================================================
