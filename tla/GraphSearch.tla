----------------------------- MODULE GraphSearch -----------------------------
(***************************************************************************)
(* The breadth-first searches of CsrGraph: bfs and shortest_path in        *)
(* crates/cdf-graph/src/lib.rs, one loop iteration per step.  The graph    *)
(* does not change during a search; adj is what get_neighbors(n, None)     *)
(* answers (module CsrGraph).  A queue entry is its path: the node and the *)
(* depth the code keeps with it are the path's last node and length.       *)
(***************************************************************************)
EXTENDS Integers, Sequences, SequencesExt

CONSTANTS Vertex,  \* the nodes of the graph
          Graphs,  \* the graphs searched: for each node its neighbors, in order
          Starts,  \* the nodes searches start from
          Depths,  \* the depths asked for
          NoPath   \* None, and no path being expanded

ASSUME SearchAssumption == /\ Graphs \subseteq [Vertex -> Seq(Vertex)]
                           /\ Starts \subseteq Vertex
                           /\ Depths \subseteq Nat
                           /\ NoPath \notin Vertex /\ NoPath \notin Seq(Vertex)

VARIABLES adj,     \* the graph
          job,     \* the search: its kind, start, target and max_depth
          marked,  \* visited
          queue,
          paths,   \* bfs: the paths returned so far
          path,    \* the path being expanded
          next,    \* the index of the neighbor looked at next
          result,  \* shortest_path: the path found
          done

graphVars == <<adj, job>>
searchVars == <<marked, queue, paths, path, next, result, done>>
bfsVars == <<graphVars, searchVars>>

Job == [kind : {"bfs"}, start : Starts, target : {NoPath}, depth : Depths] \cup
       [kind : {"shortest"}, start : Starts, target : Vertex, depth : Depths]

Path == Seq(Vertex)

\* Nodes are marked when they are queued, so that each is queued once and the queue
\* never holds more than the graph has nodes.
QueuedOnce ==
  \A i, j \in DOMAIN queue : Last(queue[i]) = Last(queue[j]) => i = j

SearchTypeOK ==
  /\ adj \in [Vertex -> Seq(Vertex)]
  /\ job \in Job
  /\ marked \subseteq Vertex
  /\ {queue, paths} \subseteq Seq(Path)
  /\ {path, result} \subseteq Path \cup {NoPath}
  /\ next \in Nat \ {0}
  /\ done \in BOOLEAN
  /\ QueuedOnce

\* shortest_path answers at once when the target is the start.
AtStart == job.kind = "shortest" /\ job.target = job.start

SearchInit ==
  /\ adj \in Graphs
  /\ job \in Job
  /\ marked = {job.start}
  /\ queue = << <<job.start>> >>
  /\ paths = <<>>
  /\ path = NoPath
  /\ next = 1
  /\ result = IF AtStart THEN <<job.start>> ELSE NoPath
  /\ done = AtStart

-----------------------------------------------------------------------------

\* bfs does not expand a path of max_depth edges; shortest_path still does.
TooDeep(p) ==
  IF job.kind = "bfs" THEN Len(p) - 1 >= job.depth ELSE Len(p) - 1 > job.depth

\* Bug: pop_back.
Pop_Back ==
  /\ ~done /\ path = NoPath /\ queue # <<>>
  /\ LET p == Last(queue) IN
       /\ paths' = IF job.kind = "bfs" THEN Append(paths, p) ELSE paths
       /\ path' = IF TooDeep(p) THEN NoPath ELSE p
  /\ queue' = Front(queue)
  /\ next' = 1
  /\ UNCHANGED <<graphVars, marked, result, done>>

\* Bug: a path that is too deep is put back.
Pop_PutsBack ==
  /\ ~done /\ path = NoPath /\ queue # <<>>
  /\ LET p == Head(queue) IN
       /\ paths' = IF job.kind = "bfs" THEN Append(paths, p) ELSE paths
       /\ path' = IF TooDeep(p) THEN NoPath ELSE p
       /\ queue' = IF TooDeep(p) /\ job.kind = "shortest" THEN queue ELSE Tail(queue)
  /\ next' = 1
  /\ UNCHANGED <<graphVars, marked, result, done>>

Pop ==
  /\ ~done /\ path = NoPath /\ queue # <<>>
  /\ LET p == Head(queue) IN
       /\ paths' = IF job.kind = "bfs" THEN Append(paths, p) ELSE paths
       /\ path' = IF TooDeep(p) THEN NoPath ELSE p
  /\ queue' = Tail(queue)
  /\ next' = 1
  /\ UNCHANGED <<graphVars, marked, result, done>>

Neighbor == adj[Last(path)][next]

Looking == ~done /\ path # NoPath /\ next <= Len(adj[Last(path)])

\* Bug: a node is marked when it is popped, not when it is queued.
Visit_Unmarked ==
  /\ Looking
  /\ Neighbor \notin marked
  /\ Neighbor # job.target
  /\ marked' = marked \cup {Last(path)}
  /\ queue' = Append(queue, Append(path, Neighbor))
  /\ next' = next + 1
  /\ UNCHANGED <<graphVars, paths, path, result, done>>

\* A neighbor not seen before is marked and queued.
Visit ==
  /\ Looking
  /\ Neighbor \notin marked
  /\ Neighbor # job.target
  /\ marked' = marked \cup {Neighbor}
  /\ queue' = Append(queue, Append(path, Neighbor))
  /\ next' = next + 1
  /\ UNCHANGED <<graphVars, paths, path, result, done>>

Found ==
  /\ Looking
  /\ Neighbor \notin marked
  /\ Neighbor = job.target
  /\ result' = Append(path, Neighbor)
  /\ done' = TRUE
  /\ UNCHANGED <<graphVars, marked, queue, paths, path, next>>

Skip ==
  /\ Looking
  /\ Neighbor \in marked
  /\ next' = next + 1
  /\ UNCHANGED <<graphVars, marked, queue, paths, path, result, done>>

Expanded ==
  /\ ~done /\ path # NoPath /\ next > Len(adj[Last(path)])
  /\ path' = NoPath
  /\ UNCHANGED <<graphVars, marked, queue, paths, next, result, done>>

Finish ==
  /\ ~done /\ path = NoPath /\ queue = <<>>
  /\ done' = TRUE
  /\ UNCHANGED <<graphVars, marked, queue, paths, path, next, result>>

SearchNext == Pop \/ Visit \/ Found \/ Skip \/ Expanded \/ Finish

SearchSpec == SearchInit /\ [][SearchNext]_bfsVars

\* The search is a loop of the calling thread: it takes its next step.
FairSearchSpec == SearchSpec /\ WF_bfsVars(SearchNext)

-----------------------------------------------------------------------------
(* Properties *)

\* The nodes reachable from the start in at most k steps.
Ball(k) ==
  LET ball[j \in 0..k] ==
        IF j = 0 THEN {job.start}
        ELSE ball[j - 1] \cup UNION {Range(adj[n]) : n \in ball[j - 1]}
  IN  ball[k]

IsPath(p) ==
  /\ p # <<>> /\ p[1] = job.start
  /\ \A i \in 1..(Len(p) - 1) : p[i + 1] \in Range(adj[p[i]])

\* No path from the start to the same node is shorter.
IsShortest(p) == IsPath(p) /\ (Len(p) > 1 => Last(p) \notin Ball(Len(p) - 2))

\* "BFS from `start` up to `max_depth`, returning all visited paths" (lib.rs:130): one
\* path for each node within max_depth, a shortest one.
BfsIsComplete ==
  done /\ job.kind = "bfs" =>
    /\ {Last(paths[i]) : i \in DOMAIN paths} = Ball(job.depth)
    /\ \A i, j \in DOMAIN paths : Last(paths[i]) = Last(paths[j]) => i = j

\* At every moment each path returned, queued or being expanded is a shortest one.
PathsAreShortest ==
  \A p \in Range(queue) \cup Range(paths) \cup ({path, result} \ {NoPath}) : IsShortest(p)

\* "returns a single shortest path to a target, if one exists" (lib.rs:156): within one
\* step more than max_depth, it does find one.
TargetIsFound ==
  done /\ job.kind = "shortest" =>
    (result # NoPath <=> job.target \in Ball(job.depth + 1))

\* What both searches promise, at every moment and of their results.
SearchesAreExact == BfsIsComplete /\ PathsAreShortest /\ TargetIsFound

\* Every search ends, cycles and self-loops included.
Terminates == <>done
=============================================================================
