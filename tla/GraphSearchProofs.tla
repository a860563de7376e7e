------------------------- MODULE GraphSearchProofs -------------------------
(***************************************************************************)
(* What the searches of the graph answer, for every graph, start, target   *)
(* and depth.  Ball is a recursive function: its equations and the facts   *)
(* about it are proved by looking at the least depth that breaks them.     *)
(***************************************************************************)
EXTENDS GraphSearch, SequenceLemmas

\* The length in edges beyond which no path is queued: bfs does not expand a path of
\* depth edges, shortest_path does.
Lim == IF job.kind = "bfs" THEN job.depth ELSE job.depth + 1

Spread(B) == B \cup UNION {Range(adj[n]) : n \in B}

Ends(s) == {Last(s[i]) : i \in DOMAIN s}

Sound(p) == IsShortest(p) /\ Last(p) \in Ball(Len(p) - 1) /\ Len(p) - 1 <= Lim

PathsAreSound ==
  \A p \in Range(queue) \cup Range(paths) \cup ({path, result} \ {NoPath}) : Sound(p)

\* The queue is sorted by length and spans two lengths at most, the first of them that
\* of the path being expanded.
QueueIsOrdered ==
  /\ \A i, j \in DOMAIN queue :
       i <= j => Len(queue[i]) <= Len(queue[j]) /\ Len(queue[j]) <= Len(queue[i]) + 1
  /\ path # NoPath =>
       /\ Len(path) <= Lim
       /\ \A i \in DOMAIN queue :
            Len(path) <= Len(queue[i]) /\ Len(queue[i]) <= Len(path) + 1

\* A node is marked when a path to it is queued, and bfs returns that path.
NodesAreMarkedOnce ==
  /\ QueuedOnce
  /\ \A i, j \in DOMAIN paths : Last(paths[i]) = Last(paths[j]) => i = j
  /\ \A i \in DOMAIN queue, j \in DOMAIN paths : Last(queue[i]) # Last(paths[j])
  /\ Ends(queue) \cup Ends(paths) \subseteq marked
  /\ job.kind = "bfs" => marked \subseteq Ends(queue) \cup Ends(paths)

\* All neighbors of a node that was expanded are marked, and those already looked at of
\* the node being expanded.
ExpandedAreClosed ==
  /\ job.start \in marked
  /\ path # NoPath =>
       /\ Last(path) \in marked
       /\ \A i \in 1..(next - 1) :
            i <= Len(adj[Last(path)]) => adj[Last(path)][i] \in marked
  /\ \A n \in marked \ Ends(queue) : path = NoPath \/ n # Last(path) =>
       \A k \in 0..(Lim - 1) : n \in Ball(k) => Range(adj[n]) \subseteq marked

\* A search ends with a path to its target, or with nothing left to expand.
EndsWithReason ==
  /\ result # NoPath => done /\ job.kind = "shortest" /\ Last(result) = job.target
  /\ job.kind = "shortest" /\ result = NoPath => job.target \notin marked
  /\ done /\ result = NoPath => queue = <<>> /\ path = NoPath

SearchInv ==
  /\ SearchTypeOK /\ PathsAreSound /\ QueueIsOrdered /\ NodesAreMarkedOnce
  /\ ExpandedAreClosed /\ EndsWithReason

-----------------------------------------------------------------------------
(* Balls *)

\* The functions that satisfy the equation by which Ball(k) is defined.
IsBalls(f, k) ==
  f = [j \in 0..k |-> IF j = 0 THEN {job.start}
                      ELSE f[j - 1] \cup UNION {Range(adj[n]) : n \in f[j - 1]}]

LEMMA BallsExist ==
  ASSUME NEW k \in Nat
  PROVE  \E f : IsBalls(f, k)
<1> DEFINE T == {j \in Nat : ~\E f : IsBalls(f, j)}
<1>1. SUFFICES ASSUME T # {} PROVE FALSE
  OBVIOUS
<1>2. PICK m \in T : \A j \in T : m <= j
  BY <1>1, LeastNatural
<1>3. CASE m = 0
  <2> DEFINE f == [j \in 0..0 |-> {job.start}]
  <2>1. IsBalls(f, 0)
    BY DEF IsBalls
  <2> QED BY <2>1, <1>2, <1>3
<1>4. CASE m # 0
  <2>1. m \in Nat /\ m - 1 \in Nat /\ ~(m <= m - 1)
    BY <1>4
  <2>2. PICK g : IsBalls(g, m - 1)
    BY <2>1, <1>2
  <2> DEFINE f == [j \in 0..m |-> IF j = m THEN Spread(g[m - 1]) ELSE g[j]]
  <2>3. ASSUME NEW j \in 0..m
        PROVE  f[j] = IF j = 0 THEN {job.start} ELSE Spread(f[j - 1])
    <3>1. j = 0 \/ j - 1 \in 0..(m - 1)
      BY <2>1
    <3>2. j = m \/ j \in 0..(m - 1)
      BY <2>1
    <3>3. \A i \in 0..(m - 1) : i # m /\ f[i] = g[i]
      BY <2>1
    <3>4. CASE j = m
      BY <3>4, <3>1, <3>3, <1>4
    <3>5. CASE j \in 0..(m - 1)
      <4>1. f[j] = g[j]
        BY <3>5, <3>3
      <4>2. g[j] = IF j = 0 THEN {job.start} ELSE Spread(g[j - 1])
        BY <3>5, <2>2 DEF IsBalls, Spread
      <4>3. j # 0 => f[j - 1] = g[j - 1]
        BY <3>1, <3>3
      <4> QED BY <4>1, <4>2, <4>3
    <3> QED BY <3>2, <3>4, <3>5
  <2>4. f = [j \in 0..m |-> IF j = 0 THEN {job.start} ELSE Spread(f[j - 1])]
    BY <2>3
  <2> HIDE DEF f
  <2>5. IsBalls(f, m)
    BY <2>4 DEF IsBalls, Spread
  <2> QED BY <2>5, <1>2
<1> QED BY <1>3, <1>4

LEMMA BallsAgree ==
  ASSUME NEW k \in Nat, NEW m \in Nat, NEW f, NEW g, IsBalls(f, k), IsBalls(g, m),
         NEW i \in Nat, i <= k, i <= m
  PROVE  f[i] = g[i]
<1> DEFINE T == {j \in Nat : j <= k /\ j <= m /\ f[j] # g[j]}
<1>1. SUFFICES ASSUME T # {} PROVE FALSE
  OBVIOUS
<1>2. PICK l \in T : \A j \in T : l <= j
  BY <1>1, LeastNatural
<1>3. l \in 0..k /\ l \in 0..m
  BY <1>2
<1>4. f[l] = IF l = 0 THEN {job.start} ELSE Spread(f[l - 1])
  BY <1>3 DEF IsBalls, Spread
<1>5. g[l] = IF l = 0 THEN {job.start} ELSE Spread(g[l - 1])
  BY <1>3 DEF IsBalls, Spread
<1>6. l # 0 => l - 1 \in Nat /\ l - 1 <= k /\ l - 1 <= m /\ ~(l <= l - 1)
  BY <1>3
<1>7. l # 0 => f[l - 1] = g[l - 1]
  BY <1>6, <1>2
<1> QED BY <1>2, <1>4, <1>5, <1>7

LEMMA BallIsBalls ==
  ASSUME NEW k \in Nat
  PROVE  \E f : IsBalls(f, k) /\ Ball(k) = f[k]
<1> DEFINE ball == CHOOSE f : IsBalls(f, k)
<1>1. IsBalls(ball, k)
  BY BallsExist
<1>2. Ball(k) = ball[k]
  BY DEF Ball, IsBalls
<1> QED BY <1>1, <1>2

\* What a recursive definition is meant to say: the start, then one step more each time.
LEMMA BallEquations ==
  /\ Ball(0) = {job.start}
  /\ \A k \in Nat : Ball(k + 1) = Spread(Ball(k))
<1>1. Ball(0) = {job.start}
  BY BallIsBalls DEF IsBalls
<1>2. ASSUME NEW k \in Nat
      PROVE  Ball(k + 1) = Spread(Ball(k))
  <2>1. PICK f : IsBalls(f, k) /\ Ball(k) = f[k]
    BY BallIsBalls
  <2>2. PICK g : IsBalls(g, k + 1) /\ Ball(k + 1) = g[k + 1]
    BY BallIsBalls
  <2>3. g[k + 1] = Spread(g[k])
    BY <2>2 DEF IsBalls, Spread
  <2>4. f[k] = g[k]
    BY <2>1, <2>2, BallsAgree
  <2> QED BY <2>1, <2>2, <2>3, <2>4
<1> QED BY <1>1, <1>2

\* A ball holds the smaller ones.
LEMMA BallsGrow ==
  ASSUME NEW k \in Nat, NEW m \in Nat, k <= m
  PROVE  Ball(k) \subseteq Ball(m)
<1> DEFINE T == {j \in Nat : k <= j /\ ~(Ball(k) \subseteq Ball(j))}
<1>1. SUFFICES ASSUME T # {} PROVE FALSE
  OBVIOUS
<1>2. PICK l \in T : \A j \in T : l <= j
  BY <1>1, LeastNatural
<1>3. l # k /\ l - 1 \in Nat /\ k <= l - 1 /\ ~(l <= l - 1) /\ (l - 1) + 1 = l
  BY <1>2
<1>4. Ball(k) \subseteq Ball(l - 1)
  BY <1>2, <1>3
<1>5. Ball((l - 1) + 1) = Spread(Ball(l - 1))
  BY <1>3, BallEquations
<1> QED BY <1>2, <1>3, <1>4, <1>5 DEF Spread

\* A set that holds the start and, up to a depth, the neighbors of its own members
\* holds the ball of that depth.
LEMMA ClosedHoldsBall ==
  ASSUME NEW K \in Nat, NEW S, job.start \in S,
         \A k \in 0..(K - 1) : \A n \in S : n \in Ball(k) => Range(adj[n]) \subseteq S
  PROVE  Ball(K) \subseteq S
<1> DEFINE T == {j \in Nat : j <= K /\ ~(Ball(j) \subseteq S)}
<1>1. SUFFICES ASSUME T # {} PROVE FALSE
  OBVIOUS
<1>2. PICK l \in T : \A j \in T : l <= j
  BY <1>1, LeastNatural
<1>3. l # 0
  BY <1>2, BallEquations
<1>4. l - 1 \in 0..(K - 1) /\ l - 1 <= K /\ ~(l <= l - 1) /\ (l - 1) + 1 = l /\ l - 1 \in Nat
  BY <1>2, <1>3
<1>5. Ball(l - 1) \subseteq S
  BY <1>2, <1>4
<1>6. Ball(l) = Spread(Ball(l - 1))
  BY <1>4, BallEquations
<1>7. \A n \in Ball(l - 1) : Range(adj[n]) \subseteq S
  BY <1>4, <1>5
<1>8. Ball(l) \subseteq S
  BY <1>5, <1>6, <1>7 DEF Spread
<1> QED BY <1>2, <1>8

\* A step that leaves the graph and the search leaves the balls.
LEMMA BallsStay ==
  ASSUME UNCHANGED graphVars
  PROVE  \A k \in Nat : Ball(k)' = Ball(k)
BY DEF graphVars, Ball, Range

-----------------------------------------------------------------------------
(* Paths *)

LEMMA LimIsNat ==
  ASSUME SearchTypeOK
  PROVE  Lim \in Nat /\ job.start \in Vertex /\ job.kind \in {"bfs", "shortest"}
<1>1. job \in Job
  BY DEF SearchTypeOK
<1>2. job.depth \in Depths /\ job.start \in Starts /\ job.kind \in {"bfs", "shortest"}
  BY <1>1 DEF Job
<1>3. job.depth \in Nat /\ job.start \in Vertex
  BY <1>2, SearchAssumption DEF SearchAssumption
<1> QED BY <1>2, <1>3 DEF Lim

LEMMA AppendFacts ==
  ASSUME NEW S, NEW s \in Seq(S), NEW e \in S
  PROVE  /\ Append(s, e) \in Seq(S) /\ Append(s, e) # <<>>
         /\ DOMAIN s = 1..Len(s) /\ DOMAIN Append(s, e) = 1..(Len(s) + 1)
         /\ Len(Append(s, e)) = Len(s) + 1 /\ Len(s) \in Nat
         /\ \A i \in 1..Len(s) : Append(s, e)[i] = s[i]
         /\ Append(s, e)[Len(s) + 1] = e /\ Last(Append(s, e)) = e
BY DEF Last

LEMMA TailFacts ==
  ASSUME NEW S, NEW s \in Seq(S), s # <<>>
  PROVE  /\ Tail(s) \in Seq(S) /\ Head(s) = s[1] /\ s[1] \in S
         /\ Len(s) \in Nat \ {0} /\ DOMAIN s = 1..Len(s)
         /\ DOMAIN Tail(s) = 1..(Len(s) - 1)
         /\ \A i \in 1..(Len(s) - 1) : Tail(s)[i] = s[i + 1]
OBVIOUS

\* A sound path is not empty and its end is a node.
LEMMA SoundFacts ==
  ASSUME NEW p \in Path, Sound(p)
  PROVE  p # <<>> /\ Len(p) \in Nat \ {0} /\ p[1] \in Vertex /\ Last(p) \in Vertex
         /\ Len(p) - 1 \in Nat
<1>1. p # <<>>
  BY DEF Sound, IsShortest, IsPath
<1> QED BY <1>1 DEF Path, Last

\* Soundness depends on the graph and the search alone.
LEMMA SoundStays ==
  ASSUME UNCHANGED graphVars, NEW p \in Path, Sound(p)
  PROVE  Sound(p)'
<1>1. Len(p) - 1 \in Nat /\ (Len(p) > 1 => Len(p) - 2 \in Nat)
  BY SoundFacts
<1>2. Ball(Len(p) - 1)' = Ball(Len(p) - 1)
  BY <1>1, BallsStay
<1>3. Len(p) > 1 => Ball(Len(p) - 2)' = Ball(Len(p) - 2)
  BY <1>1, BallsStay
<1>4. IsPath(p)' = IsPath(p) /\ Lim' = Lim
  BY DEF IsPath, Lim, graphVars, Range
<1> QED BY <1>2, <1>3, <1>4 DEF Sound, IsShortest

\* A sound path goes on to a node that is no nearer.
LEMMA SoundGoesOn ==
  ASSUME SearchTypeOK, NEW p \in Path, Sound(p), Len(p) <= Lim,
         NEW n \in Range(adj[Last(p)]), n \notin Ball(Len(p) - 1)
  PROVE  n \in Vertex /\ Append(p, n) \in Path /\ Sound(Append(p, n))
<1> DEFINE q == Append(p, n)
<1>1. Len(p) \in Nat \ {0} /\ Last(p) \in Vertex /\ Len(p) - 1 \in Nat /\ Last(p) = p[Len(p)]
      /\ (Len(p) - 1) + 1 = Len(p)
  BY SoundFacts DEF Last
<1>2. n \in Vertex
  BY <1>1 DEF SearchTypeOK, Range
<1>3. /\ q \in Path /\ q # <<>> /\ Len(q) = Len(p) + 1 /\ Last(q) = n
      /\ \A i \in 1..Len(p) : q[i] = p[i]
      /\ q[Len(p) + 1] = n
  BY <1>2, AppendFacts DEF Path
<1>8. Len(q) - 2 = Len(p) - 1 /\ Len(q) - 1 = Len(p)
  BY <1>1, <1>3
<1> HIDE DEF q
<1>4. Ball(Len(p)) = Spread(Ball(Len(p) - 1))
  BY <1>1, BallEquations
<1>5. n \in Ball(Len(p))
  BY <1>4 DEF Spread, Sound
<1>6. ASSUME NEW i \in 1..(Len(q) - 1)
      PROVE  q[i + 1] \in Range(adj[q[i]])
  <2>1. CASE i = Len(p)
    BY <2>1, <1>1, <1>3
  <2>2. CASE i # Len(p)
    <3>1. i \in 1..(Len(p) - 1) /\ i \in 1..Len(p) /\ i + 1 \in 1..Len(p)
      <4>1. i \in 1..Len(p) /\ Len(p) \in Nat
        BY <1>1, <1>8
      <4> QED BY <4>1, <2>2
    <3> QED BY <3>1, <1>3 DEF Sound, IsShortest, IsPath
  <2> QED BY <2>1, <2>2
<1>7. q[1] = job.start
  BY <1>1, <1>3 DEF Sound, IsShortest, IsPath
<1>9. Sound(q)
  BY <1>3, <1>5, <1>6, <1>7, <1>8 DEF Sound, IsShortest, IsPath
<1> QED BY <1>2, <1>3, <1>9 DEF q

\* The ball that ends one step before the path being expanded is marked whole: why a
\* node that is not marked is no nearer than that path leads.
LEMMA NearIsMarked ==
  ASSUME SearchInv, path # NoPath
  PROVE  path \in Path /\ Sound(path) /\ Ball(Len(path) - 1) \subseteq marked
<1>1. path \in Path /\ Sound(path)
  BY DEF SearchInv, PathsAreSound, SearchTypeOK
<1>2. Len(path) \in Nat \ {0} /\ Len(path) - 1 \in Nat /\ Len(path) <= Lim /\ Lim \in Nat
  BY <1>1, SoundFacts, LimIsNat DEF SearchInv, QueueIsOrdered
<1>3. job.start \in marked
  BY DEF SearchInv, ExpandedAreClosed
<1>4. ASSUME NEW k \in 0..((Len(path) - 1) - 1), NEW n \in marked, n \in Ball(k)
      PROVE  Range(adj[n]) \subseteq marked
  <2>1. k \in Nat /\ Len(path) > 1 /\ Len(path) - 2 \in Nat /\ k <= Len(path) - 2
        /\ k \in 0..(Lim - 1)
    BY <1>2
  <2>2. n # Last(path)
    <3>1. Last(path) \notin Ball(Len(path) - 2)
      BY <1>1, <2>1 DEF Sound, IsShortest
    <3>2. Ball(k) \subseteq Ball(Len(path) - 2)
      BY <2>1, BallsGrow
    <3> QED BY <3>1, <3>2, <1>4
  <2>3. ASSUME NEW i \in DOMAIN queue
        PROVE  n # Last(queue[i])
    <3>1. queue[i] \in Path /\ Sound(queue[i]) /\ Len(path) <= Len(queue[i])
      BY DEF SearchInv, PathsAreSound, SearchTypeOK, Range, QueueIsOrdered
    <3>2. Len(queue[i]) \in Nat
      BY <3>1, SoundFacts
    <3>3. Len(queue[i]) > 1 /\ Len(queue[i]) - 2 \in Nat /\ k <= Len(queue[i]) - 2
      BY <3>1, <3>2, <2>1, <1>2
    <3>4. Last(queue[i]) \notin Ball(Len(queue[i]) - 2)
      BY <3>1, <3>3 DEF Sound, IsShortest
    <3>5. Ball(k) \subseteq Ball(Len(queue[i]) - 2)
      BY <3>3, <2>1, BallsGrow
    <3> QED BY <3>4, <3>5, <1>4
  <2>4. n \in marked \ Ends(queue)
    BY <2>3, <1>4 DEF Ends
  <2> QED BY <2>1, <2>2, <2>4, <1>4 DEF SearchInv, ExpandedAreClosed
<1>5. Ball(Len(path) - 1) \subseteq marked
  BY <1>2, <1>3, <1>4, ClosedHoldsBall
<1> QED BY <1>1, <1>5

-----------------------------------------------------------------------------
(* The steps *)

LEMMA PopKeeps ==
  ASSUME SearchInv, Pop
  PROVE  SearchInv'
<1> DEFINE p == queue[1]
<1>1. /\ queue \in Seq(Path) /\ paths \in Seq(Path) /\ queue # <<>> /\ path = NoPath
      /\ ~done /\ done' = done /\ result' = result /\ marked' = marked /\ next' = 1
      /\ UNCHANGED graphVars /\ adj' = adj /\ job' = job
      /\ adj \in [Vertex -> Seq(Vertex)] /\ job \in Job /\ marked \subseteq Vertex
      /\ result \in Path \cup {NoPath} /\ done \in BOOLEAN
  BY DEF SearchInv, SearchTypeOK, Pop, graphVars
<1>2. /\ queue' = Tail(queue) /\ Head(queue) = p /\ p \in Path
      /\ queue' \in Seq(Path) /\ Len(queue) \in Nat \ {0}
      /\ DOMAIN queue = 1..Len(queue) /\ DOMAIN queue' = 1..(Len(queue) - 1)
      /\ \A i \in 1..(Len(queue) - 1) : queue'[i] = queue[i + 1]
  BY <1>1, TailFacts DEF Pop
<1>3. \A i \in DOMAIN queue' : i + 1 \in DOMAIN queue /\ queue'[i] = queue[i + 1] /\ i + 1 # 1
  BY <1>2
<1>4. 1 \in DOMAIN queue /\ \A i \in DOMAIN queue : i # 1 => i - 1 \in DOMAIN queue' /\ queue'[i - 1] = queue[i]
  BY <1>2
<1>5. path' = (IF TooDeep(p) THEN NoPath ELSE p)
      /\ paths' = (IF job.kind = "bfs" THEN Append(paths, p) ELSE paths)
  BY <1>2 DEF Pop
<1>6. p \in Range(queue) /\ Sound(p) /\ Len(p) \in Nat \ {0} /\ Lim \in Nat /\ Len(p) - 1 <= Lim
  <2>1. p \in Range(queue)
    BY <1>4 DEF Range
  <2>2. Sound(p)
    BY <2>1 DEF SearchInv, PathsAreSound
  <2> QED BY <2>1, <2>2, <1>2, SoundFacts, LimIsNat DEF SearchInv, Sound
<1>7. TooDeep(p) <=> Len(p) - 1 >= Lim
  <2>1. job.depth \in Nat
    BY <1>1, SearchAssumption DEF SearchAssumption, Job
  <2> QED BY <1>6, <2>1 DEF TooDeep, Lim
<1>8. /\ paths' \in Seq(Path) /\ DOMAIN paths \subseteq DOMAIN paths'
      /\ \A i \in DOMAIN paths : paths'[i] = paths[i]
      /\ \A i \in DOMAIN paths' : i \notin DOMAIN paths => i = Len(paths) + 1 /\ paths'[i] = p
      /\ job.kind = "bfs" => Len(paths) + 1 \in DOMAIN paths' /\ paths'[Len(paths) + 1] = p
  <2>1. CASE job.kind = "bfs"
    <3>1. paths' = Append(paths, p) /\ Len(paths) \in Nat
      BY <2>1, <1>1, <1>5
    <3>2. /\ paths' \in Seq(Path) /\ DOMAIN paths = 1..Len(paths)
          /\ DOMAIN paths' = 1..(Len(paths) + 1) /\ paths'[Len(paths) + 1] = p
          /\ \A i \in 1..Len(paths) : paths'[i] = paths[i]
      BY <3>1, <1>1, <1>2, AppendFacts
    <3> HIDE DEF p
    <3>3. \A i \in 1..(Len(paths) + 1) : i \in 1..Len(paths) \/ i = Len(paths) + 1
      BY <3>1
    <3>4. Len(paths) + 1 \in 1..(Len(paths) + 1) /\ 1..Len(paths) \subseteq 1..(Len(paths) + 1)
      BY <3>1
    <3> QED BY <3>2, <3>3, <3>4
  <2>2. CASE job.kind # "bfs"
    BY <2>2, <1>1, <1>5
  <2> QED BY <2>1, <2>2
<1>9. Ends(queue) = Ends(queue') \cup {Last(p)}
  BY <1>3, <1>4 DEF Ends
<1> HIDE DEF p
<1>10. QueuedOnce'
  BY <1>3, <1>2 DEF SearchInv, SearchTypeOK, QueuedOnce
<1>11. SearchTypeOK'
  BY <1>1, <1>2, <1>5, <1>8, <1>10 DEF SearchTypeOK
<1>12. PathsAreSound'
  <2>1. ASSUME NEW q \in Range(queue') \cup Range(paths') \cup ({path', result'} \ {NoPath})
        PROVE  q \in Range(queue) \cup Range(paths) \cup {p} \cup ({result} \ {NoPath})
    BY <1>1, <1>3, <1>5, <1>8 DEF Range
  <2>2. ASSUME NEW q \in Range(queue) \cup Range(paths) \cup {p} \cup ({result} \ {NoPath})
        PROVE  q \in Path /\ Sound(q)
    BY <1>1, <1>2, <1>6 DEF SearchInv, PathsAreSound, Range
  <2> QED BY <2>1, <2>2, <1>1, SoundStays DEF PathsAreSound, Range
<1>13. QueueIsOrdered'
  <2>1. ASSUME NEW i \in DOMAIN queue', NEW j \in DOMAIN queue', i <= j
        PROVE  Len(queue'[i]) <= Len(queue'[j]) /\ Len(queue'[j]) <= Len(queue'[i]) + 1
    <3>1. i + 1 <= j + 1
      BY <2>1, <1>2
    <3> QED BY <3>1, <1>3 DEF SearchInv, QueueIsOrdered
  <2>2. ASSUME path' # NoPath
        PROVE  Len(path') <= Lim' /\ \A i \in DOMAIN queue' :
                 Len(path') <= Len(queue'[i]) /\ Len(queue'[i]) <= Len(path') + 1
    <3>1. path' = p /\ ~(Len(p) - 1 >= Lim) /\ Lim' = Lim
      BY <2>2, <1>1, <1>5, <1>7 DEF Lim
    <3>2. Len(p) <= Lim
      BY <3>1, <1>6
    <3>3. \A i \in DOMAIN queue : 1 <= i
      BY <1>2
    <3>4. \A i \in DOMAIN queue : Len(p) <= Len(queue[i]) /\ Len(queue[i]) <= Len(p) + 1
      BY <3>3, <1>4 DEF SearchInv, QueueIsOrdered, p
    <3> QED BY <3>1, <3>2, <3>4, <1>3
  <2> QED BY <2>1, <2>2 DEF QueueIsOrdered
<1>14. NodesAreMarkedOnce'
  <2>1. \A i \in DOMAIN queue' : Last(queue'[i]) # Last(p)
    BY <1>3, <1>4 DEF SearchInv, NodesAreMarkedOnce, QueuedOnce, p
  <2>2. \A i \in DOMAIN paths : Last(paths[i]) # Last(p)
    BY <1>4 DEF SearchInv, NodesAreMarkedOnce, p
  <2>3. \A i, j \in DOMAIN paths' : Last(paths'[i]) = Last(paths'[j]) => i = j
    BY <2>2, <1>8 DEF SearchInv, NodesAreMarkedOnce
  <2>4. \A i \in DOMAIN queue', j \in DOMAIN paths' : Last(queue'[i]) # Last(paths'[j])
    BY <2>1, <1>3, <1>8 DEF SearchInv, NodesAreMarkedOnce
  <2>5. Ends(paths') \subseteq Ends(paths) \cup {Last(p)} /\ Ends(paths) \subseteq Ends(paths')
        /\ (job.kind = "bfs" => Last(p) \in Ends(paths'))
    BY <1>8 DEF Ends
  <2>6. Ends(queue') \cup Ends(paths') \subseteq marked'
    BY <2>5, <1>9, <1>1 DEF SearchInv, NodesAreMarkedOnce
  <2>7. job'.kind = "bfs" => marked' \subseteq Ends(queue') \cup Ends(paths')
    BY <2>5, <1>9, <1>1 DEF SearchInv, NodesAreMarkedOnce
  <2>8. Ends(queue)' = Ends(queue') /\ Ends(paths)' = Ends(paths')
    BY DEF Ends
  <2> QED BY <2>3, <2>4, <2>6, <2>7, <2>8, <1>10 DEF NodesAreMarkedOnce
<1>15. ExpandedAreClosed'
  <2>1. Last(p) \in marked /\ job.start \in marked
    BY <1>9 DEF SearchInv, NodesAreMarkedOnce, ExpandedAreClosed
  <2>2. ASSUME NEW n \in marked \ Ends(queue'), path' = NoPath \/ n # Last(path'),
               NEW k \in 0..(Lim - 1), n \in Ball(k)
        PROVE  Range(adj[n]) \subseteq marked
    <3>1. CASE n # Last(p)
      <4>1. n \in marked \ Ends(queue)
        BY <3>1, <2>2, <1>9
      <4> QED BY <4>1, <2>2, <1>1 DEF SearchInv, ExpandedAreClosed
    <3>2. CASE n = Last(p)
      <4>1. TooDeep(p)
        BY <3>2, <2>2, <1>2, <1>5, SearchAssumption DEF SearchAssumption, Path
      <4>2. Len(p) > 1 /\ Len(p) - 2 \in Nat /\ k \in Nat /\ k <= Len(p) - 2
        BY <4>1, <1>6, <1>7
      <4>3. n \notin Ball(Len(p) - 2)
        BY <3>2, <4>2, <1>6 DEF Sound, IsShortest
      <4> QED BY <4>2, <4>3, <2>2, BallsGrow
    <3> QED BY <3>1, <3>2
  <2>3. Lim' = Lim /\ \A k \in 0..(Lim - 1) : Ball(k)' = Ball(k)
    BY <1>1, <1>6, BallsStay DEF Lim
  <2>4. path' # NoPath => Last(path') \in marked'
    BY <2>1, <1>1, <1>5
  <2>5. Ends(queue)' = Ends(queue')
    BY DEF Ends
  <2>6. \A n \in marked' \ Ends(queue)' : path' = NoPath \/ n # Last(path') =>
          \A k \in 0..(Lim' - 1) : n \in Ball(k)' => Range(adj'[n]) \subseteq marked'
    BY <2>2, <2>3, <2>5, <1>1
  <2>7. \A i \in 1..(next' - 1) : FALSE
    BY <1>1
  <2>8. job'.start \in marked'
    BY <2>1, <1>1
  <2> QED BY <2>4, <2>6, <2>7, <2>8 DEF ExpandedAreClosed, Range
<1>16. EndsWithReason'
  BY <1>1 DEF SearchInv, EndsWithReason
<1> QED BY <1>11, <1>12, <1>13, <1>14, <1>15, <1>16 DEF SearchInv

\* What every step finds while it looks at a neighbor of the path's end.
LEMMA LookingFacts ==
  ASSUME SearchInv, Looking
  PROVE  /\ path \in Path /\ Sound(path) /\ path # NoPath /\ ~done /\ result = NoPath
         /\ Last(path) \in Vertex /\ Last(path) \in marked
         /\ Len(path) \in Nat \ {0} /\ Len(path) <= Lim
         /\ next \in Nat \ {0} /\ next <= Len(adj[Last(path)])
         /\ Neighbor \in Vertex /\ Neighbor \in Range(adj[Last(path)])
         /\ Neighbor \notin marked => Append(path, Neighbor) \in Path
                                       /\ Sound(Append(path, Neighbor))
<1>1. /\ path # NoPath /\ ~done /\ next <= Len(adj[Last(path)]) /\ next \in Nat \ {0}
      /\ Last(path) \in marked /\ marked \subseteq Vertex /\ adj \in [Vertex -> Seq(Vertex)]
      /\ result = NoPath /\ Len(path) <= Lim
  BY DEF SearchInv, SearchTypeOK, Looking, ExpandedAreClosed, EndsWithReason, QueueIsOrdered
<1>2. path \in Path /\ Sound(path) /\ Ball(Len(path) - 1) \subseteq marked
  BY <1>1, NearIsMarked
<1>3. Len(path) \in Nat \ {0}
  BY <1>2, SoundFacts
<1>4. adj[Last(path)] \in Seq(Vertex) /\ next \in DOMAIN adj[Last(path)]
  BY <1>1
<1>5. Neighbor \in Vertex /\ Neighbor \in Range(adj[Last(path)])
  BY <1>4 DEF Neighbor, Range
<1>6. Neighbor \notin marked => Append(path, Neighbor) \in Path /\ Sound(Append(path, Neighbor))
  BY <1>1, <1>2, <1>5, SoundGoesOn DEF SearchInv
<1> QED BY <1>1, <1>2, <1>3, <1>5, <1>6

LEMMA VisitKeeps ==
  ASSUME SearchInv, Visit
  PROVE  SearchInv'
<1> DEFINE q == Append(path, Neighbor)
<1>1. /\ Looking /\ Neighbor \notin marked /\ Neighbor # job.target
      /\ marked' = marked \cup {Neighbor} /\ queue' = Append(queue, q) /\ next' = next + 1
      /\ path' = path /\ paths' = paths /\ result' = result /\ done' = done
      /\ UNCHANGED graphVars /\ adj' = adj /\ job' = job
  BY DEF Visit, graphVars
<1>2. /\ path \in Path /\ Sound(path) /\ path # NoPath /\ ~done /\ result = NoPath
      /\ Last(path) \in Vertex /\ Len(path) \in Nat \ {0} /\ Len(path) <= Lim
      /\ next \in Nat \ {0} /\ next <= Len(adj[Last(path)]) /\ Neighbor \in Vertex
      /\ q \in Path /\ Sound(q) /\ Last(path) \in marked
  BY <1>1, LookingFacts
<1>3. /\ queue \in Seq(Path) /\ paths \in Seq(Path) /\ marked \subseteq Vertex
      /\ adj \in [Vertex -> Seq(Vertex)] /\ job \in Job /\ done \in BOOLEAN
  BY DEF SearchInv, SearchTypeOK
<1>4. Len(q) = Len(path) + 1 /\ Last(q) = Neighbor
  BY <1>2, AppendFacts DEF Path
<1> HIDE DEF q
<1>5. /\ queue' \in Seq(Path) /\ DOMAIN queue' = 1..(Len(queue) + 1)
      /\ DOMAIN queue = 1..Len(queue) /\ Len(queue) \in Nat
      /\ queue'[Len(queue) + 1] = q
      /\ \A i \in 1..Len(queue) : queue'[i] = queue[i]
  BY <1>1, <1>2, <1>3, AppendFacts
<1>6. /\ \A i \in DOMAIN queue : i \in DOMAIN queue' /\ queue'[i] = queue[i]
      /\ Len(queue) + 1 \in DOMAIN queue'
      /\ \A i \in DOMAIN queue' : i \notin DOMAIN queue => i = Len(queue) + 1 /\ queue'[i] = q
  BY <1>5
<1>7. Ends(queue') = Ends(queue) \cup {Neighbor}
  BY <1>4, <1>5, <1>6 DEF Ends
<1>8. \A i \in DOMAIN queue : Last(queue[i]) # Neighbor
  BY <1>1 DEF SearchInv, NodesAreMarkedOnce, Ends
<1>9. QueuedOnce'
  BY <1>4, <1>6, <1>8 DEF SearchInv, SearchTypeOK, QueuedOnce
<1>10. SearchTypeOK'
  BY <1>1, <1>2, <1>3, <1>5, <1>9 DEF SearchTypeOK
<1>11. PathsAreSound'
  <2>1. ASSUME NEW r \in Range(queue') \cup Range(paths') \cup ({path', result'} \ {NoPath})
        PROVE  r \in Path /\ Sound(r)
    <3>1. CASE r = q
      BY <3>1, <1>2
    <3>2. CASE r # q
      <4>1. r \in Range(queue) \cup Range(paths) \cup {path}
        BY <2>1, <3>2, <1>1, <1>2, <1>6 DEF Range
      <4> QED BY <4>1, <1>2, <1>3 DEF SearchInv, PathsAreSound, Range
    <3> QED BY <3>1, <3>2
  <2> QED BY <2>1, <1>1, SoundStays DEF PathsAreSound, Range
<1>12. QueueIsOrdered'
  <2>1. Lim' = Lim
    BY <1>1 DEF Lim
  <2>2. \A i \in DOMAIN queue : Len(path) <= Len(queue[i]) /\ Len(queue[i]) <= Len(path) + 1
                                /\ Len(queue[i]) \in Nat
    BY <1>2, <1>3 DEF SearchInv, QueueIsOrdered, Path
  <2>3. ASSUME NEW i \in DOMAIN queue', NEW j \in DOMAIN queue', i <= j
        PROVE  Len(queue'[i]) <= Len(queue'[j]) /\ Len(queue'[j]) <= Len(queue'[i]) + 1
    <3>1. CASE j \in DOMAIN queue
      <4>1. i \in DOMAIN queue
        BY <3>1, <2>3, <1>5
      <4> QED BY <3>1, <4>1, <2>3, <1>6 DEF SearchInv, QueueIsOrdered
    <3>2. CASE j \notin DOMAIN queue
      <4>1. Len(queue'[j]) = Len(path) + 1
        BY <3>2, <1>4, <1>6
      <4>2. CASE i \in DOMAIN queue
        BY <4>1, <4>2, <2>2, <1>2, <1>6
      <4>3. CASE i \notin DOMAIN queue
        BY <4>1, <4>3, <1>2, <1>4, <1>6
      <4> QED BY <4>2, <4>3
    <3> QED BY <3>1, <3>2
  <2>4. \A i \in DOMAIN queue' : Len(path) <= Len(queue'[i]) /\ Len(queue'[i]) <= Len(path) + 1
    BY <2>2, <1>2, <1>4, <1>6
  <2> QED BY <2>1, <2>3, <2>4, <1>1, <1>2 DEF QueueIsOrdered
<1>13. NodesAreMarkedOnce'
  <2>1. \A j \in DOMAIN paths : Last(paths[j]) # Neighbor
    BY <1>1 DEF SearchInv, NodesAreMarkedOnce, Ends
  <2>2. \A i \in DOMAIN queue', j \in DOMAIN paths' : Last(queue'[i]) # Last(paths'[j])
    BY <2>1, <1>1, <1>4, <1>6 DEF SearchInv, NodesAreMarkedOnce
  <2>3. Ends(queue)' = Ends(queue') /\ Ends(paths)' = Ends(paths)
    BY <1>1 DEF Ends
  <2>4. Ends(queue)' \cup Ends(paths)' \subseteq marked'
    BY <2>3, <1>1, <1>7 DEF SearchInv, NodesAreMarkedOnce
  <2>5. job'.kind = "bfs" => marked' \subseteq Ends(queue)' \cup Ends(paths)'
    BY <2>3, <1>1, <1>7 DEF SearchInv, NodesAreMarkedOnce
  <2>6. \A i, j \in DOMAIN paths' : Last(paths'[i]) = Last(paths'[j]) => i = j
    BY <1>1 DEF SearchInv, NodesAreMarkedOnce
  <2> QED BY <2>2, <2>4, <2>5, <2>6, <1>9 DEF NodesAreMarkedOnce
<1>14. ExpandedAreClosed'
  <2>1. Lim' = Lim /\ \A k \in 0..(Lim - 1) : Ball(k)' = Ball(k)
    BY <1>1, BallsStay, LimIsNat DEF Lim, SearchInv
  <2>2. ASSUME NEW i \in 1..next, i <= Len(adj[Last(path)])
        PROVE  adj[Last(path)][i] \in marked'
    <3>1. CASE i = next
      BY <3>1, <1>1 DEF Neighbor
    <3>2. CASE i # next
      <4>1. i \in 1..(next - 1)
        BY <3>2, <1>2
      <4> QED BY <4>1, <2>2, <1>1, <1>2 DEF SearchInv, ExpandedAreClosed
    <3> QED BY <3>1, <3>2
  <2>3. (next + 1) - 1 = next
    BY <1>2
  <2>4. ASSUME NEW n \in marked' \ Ends(queue)', n # Last(path),
               NEW k \in 0..(Lim - 1), n \in Ball(k)
        PROVE  Range(adj[n]) \subseteq marked'
    <3>1. Ends(queue)' = Ends(queue')
      BY DEF Ends
    <3>2. n \in marked \ Ends(queue)
      BY <3>1, <2>4, <1>1, <1>7
    <3> QED BY <3>2, <2>4, <1>1 DEF SearchInv, ExpandedAreClosed
  <2>5. job'.start \in marked'
    BY <1>1 DEF SearchInv, ExpandedAreClosed
  <2>6. /\ Last(path') \in marked'
        /\ \A i \in 1..(next' - 1) :
             i <= Len(adj'[Last(path')]) => adj'[Last(path')][i] \in marked'
    BY <2>2, <2>3, <1>1, <1>2
  <2>7. \A n \in marked' \ Ends(queue)' : path' = NoPath \/ n # Last(path') =>
          \A k \in 0..(Lim' - 1) : n \in Ball(k)' => Range(adj'[n]) \subseteq marked'
    BY <2>1, <2>4, <1>1, <1>2
  <2> QED BY <2>5, <2>6, <2>7 DEF ExpandedAreClosed, Range
<1>15. EndsWithReason'
  BY <1>1, <1>2 DEF SearchInv, EndsWithReason
<1> QED BY <1>10, <1>11, <1>12, <1>13, <1>14, <1>15 DEF SearchInv

\* A step that leaves the queue and the marks keeps what is said of them alone.
LEMMA FrameKeeps ==
  ASSUME SearchInv, UNCHANGED <<graphVars, marked, queue, paths>>,
         next' \in Nat \ {0}, done' \in BOOLEAN, path' \in {path, NoPath},
         result' = result \/ (result' \in Path /\ Sound(result'))
  PROVE  SearchTypeOK' /\ PathsAreSound' /\ QueueIsOrdered' /\ NodesAreMarkedOnce'
<1>1. /\ UNCHANGED graphVars /\ adj' = adj /\ job' = job
      /\ marked' = marked /\ queue' = queue /\ paths' = paths
  BY DEF graphVars
<1>2. SearchTypeOK'
  BY <1>1 DEF SearchInv, SearchTypeOK, QueuedOnce
<1>3. PathsAreSound'
  <2>1. ASSUME NEW r \in Range(queue') \cup Range(paths') \cup ({path', result'} \ {NoPath})
        PROVE  r \in Path /\ Sound(r)
    <3>1. CASE r = result' /\ result' # result
      BY <3>1
    <3>2. CASE ~(r = result' /\ result' # result)
      <4>1. r \in Range(queue) \cup Range(paths) \cup ({path, result} \ {NoPath})
        BY <2>1, <3>2, <1>1 DEF Range
      <4>2. r \in Path
        BY <4>1 DEF SearchInv, SearchTypeOK, Range
      <4> QED BY <4>1, <4>2 DEF SearchInv, PathsAreSound
    <3> QED BY <3>1, <3>2
  <2> QED BY <2>1, <1>1, SoundStays DEF PathsAreSound, Range
<1>4. QueueIsOrdered'
  <2>1. Lim' = Lim
    BY <1>1 DEF Lim
  <2> QED BY <2>1, <1>1 DEF SearchInv, QueueIsOrdered
<1>5. NodesAreMarkedOnce'
  BY <1>1 DEF SearchInv, NodesAreMarkedOnce, QueuedOnce, Ends
<1> QED BY <1>2, <1>3, <1>4, <1>5

\* The nodes expanded stay closed while the marks and the queue do not change.
LEMMA ClosedStay ==
  ASSUME SearchInv, UNCHANGED <<graphVars, marked, queue, path>>
  PROVE  /\ job'.start \in marked' /\ (path' # NoPath => Last(path') \in marked')
         /\ \A n \in marked' \ Ends(queue)' : path' = NoPath \/ n # Last(path') =>
              \A k \in 0..(Lim - 1)' : n \in Ball(k)' => Range(adj[n])' \subseteq marked'
<1>1. UNCHANGED graphVars /\ adj' = adj /\ job' = job /\ marked' = marked /\ path' = path
      /\ Ends(queue)' = Ends(queue)
  BY DEF graphVars, Ends
<1>2. Lim' = Lim /\ \A k \in 0..(Lim - 1) : Ball(k)' = Ball(k)
  BY <1>1, BallsStay, LimIsNat DEF Lim, SearchInv
<1> QED BY <1>1, <1>2 DEF SearchInv, ExpandedAreClosed, Range

LEMMA FoundKeeps ==
  ASSUME SearchInv, Found
  PROVE  SearchInv'
<1>1. /\ Looking /\ Neighbor \notin marked /\ Neighbor = job.target
      /\ result' = Append(path, Neighbor) /\ done' = TRUE
      /\ UNCHANGED <<graphVars, marked, queue, paths, path, next>> /\ job' = job
  BY DEF Found, graphVars
<1>2. /\ path \in Path /\ next \in Nat \ {0} /\ Neighbor \in Vertex
      /\ result' \in Path /\ Sound(result')
  BY <1>1, LookingFacts
<1>3. Last(result') = job.target
  BY <1>1, <1>2, AppendFacts DEF Path
<1>4. job.kind = "shortest"
  <2>1. job \in Job
    BY DEF SearchInv, SearchTypeOK
  <2>2. job.kind = "shortest" \/ job.target = NoPath
    BY <2>1 DEF Job
  <2> QED BY <2>2, <1>1, <1>2, SearchAssumption DEF SearchAssumption
<1>5. ExpandedAreClosed'
  <2>1. next' = next /\ path' = path /\ adj' = adj /\ marked' = marked
    BY <1>1 DEF graphVars
  <2> QED BY <2>1, <1>1, ClosedStay DEF ExpandedAreClosed, SearchInv
<1>6. EndsWithReason'
  BY <1>1, <1>2, <1>3, <1>4, SearchAssumption DEF EndsWithReason, SearchAssumption, Path
<1> QED BY <1>1, <1>2, <1>5, <1>6, FrameKeeps DEF SearchInv

LEMMA SkipKeeps ==
  ASSUME SearchInv, Skip
  PROVE  SearchInv'
<1>1. /\ Looking /\ Neighbor \in marked /\ next' = next + 1
      /\ UNCHANGED <<graphVars, marked, queue, paths, path, result, done>>
      /\ path' = path /\ adj' = adj /\ job' = job /\ marked' = marked
      /\ result' = result /\ queue' = queue /\ done' = done
  BY DEF Skip, graphVars
<1>2. /\ path # NoPath /\ next \in Nat \ {0} /\ done \in BOOLEAN
  BY <1>1, LookingFacts DEF SearchInv, SearchTypeOK
<1>3. ASSUME NEW i \in 1..(next' - 1), i <= Len(adj[Last(path)])
      PROVE  adj[Last(path)][i] \in marked
  <2>1. i = next \/ i \in 1..(next - 1)
    BY <1>1, <1>2
  <2>2. adj[Last(path)][next] \in marked
    BY <1>1 DEF Neighbor
  <2> QED BY <2>1, <2>2, <1>2, <1>3 DEF SearchInv, ExpandedAreClosed
<1>4. ExpandedAreClosed'
  BY <1>1, <1>3, ClosedStay DEF ExpandedAreClosed
<1>5. EndsWithReason'
  BY <1>1 DEF SearchInv, EndsWithReason
<1> QED BY <1>1, <1>2, <1>4, <1>5, FrameKeeps DEF SearchInv

LEMMA ExpandedKeeps ==
  ASSUME SearchInv, Expanded
  PROVE  SearchInv'
<1>1. /\ ~done /\ path # NoPath /\ next > Len(adj[Last(path)]) /\ path' = NoPath
      /\ UNCHANGED <<graphVars, marked, queue, paths, next, result, done>>
      /\ adj' = adj /\ job' = job /\ marked' = marked /\ next' = next
      /\ result' = result /\ queue' = queue /\ done' = done
  BY DEF Expanded, graphVars
<1>2. /\ next \in Nat \ {0} /\ done \in BOOLEAN /\ adj \in [Vertex -> Seq(Vertex)]
      /\ Last(path) \in Vertex /\ job.start \in marked
  BY <1>1 DEF SearchInv, SearchTypeOK, ExpandedAreClosed
<1>3. Range(adj[Last(path)]) \subseteq marked
  <2>1. adj[Last(path)] \in Seq(Vertex)
    BY <1>2
  <2>2. ASSUME NEW i \in DOMAIN adj[Last(path)]
        PROVE  adj[Last(path)][i] \in marked
    <3>1. i \in 1..(next - 1) /\ i <= Len(adj[Last(path)])
      BY <2>1, <1>1, <1>2
    <3> QED BY <3>1, <1>1 DEF SearchInv, ExpandedAreClosed
  <2> QED BY <2>2 DEF Range
<1>4. \A n \in marked \ Ends(queue) :
        \A k \in 0..(Lim - 1) : n \in Ball(k) => Range(adj[n]) \subseteq marked
  BY <1>3 DEF SearchInv, ExpandedAreClosed
<1>5. Lim' = Lim /\ \A k \in 0..(Lim - 1) : Ball(k)' = Ball(k)
  BY <1>1, BallsStay, LimIsNat DEF Lim, SearchInv
<1>6. Ends(queue)' = Ends(queue)
  BY <1>1 DEF Ends
<1>7. ExpandedAreClosed'
  <2>1. \A n \in marked' \ Ends(queue)' :
          \A k \in 0..(Lim' - 1) : n \in Ball(k)' => Range(adj'[n]) \subseteq marked'
    BY <1>1, <1>4, <1>5, <1>6
  <2>2. job'.start \in marked' /\ path' = NoPath
    BY <1>1, <1>2
  <2> QED BY <2>1, <2>2 DEF ExpandedAreClosed, Range
<1>8. EndsWithReason'
  BY <1>1 DEF SearchInv, EndsWithReason
<1> QED BY <1>1, <1>2, <1>7, <1>8, FrameKeeps DEF SearchInv

LEMMA FinishKeeps ==
  ASSUME SearchInv, Finish
  PROVE  SearchInv'
<1>1. /\ ~done /\ path = NoPath /\ queue = <<>> /\ done' = TRUE
      /\ UNCHANGED <<graphVars, marked, queue, paths, path, next, result>>
      /\ path' = path /\ adj' = adj /\ job' = job /\ marked' = marked /\ next' = next
      /\ result' = result /\ queue' = queue
  BY DEF Finish, graphVars
<1>2. next \in Nat \ {0}
  BY DEF SearchInv, SearchTypeOK
<1>3. ExpandedAreClosed'
  BY <1>1, ClosedStay DEF ExpandedAreClosed
<1>4. EndsWithReason'
  BY <1>1 DEF SearchInv, EndsWithReason
<1> QED BY <1>1, <1>2, <1>3, <1>4, FrameKeeps DEF SearchInv

LEMMA SearchStarts == SearchInit => SearchInv
<1> SUFFICES ASSUME SearchInit PROVE SearchInv
  OBVIOUS
<1> DEFINE p == <<job.start>>
<1>1. /\ adj \in [Vertex -> Seq(Vertex)] /\ job \in Job /\ marked = {job.start}
      /\ queue = <<p>> /\ paths = <<>> /\ path = NoPath /\ next = 1
      /\ result = (IF AtStart THEN p ELSE NoPath) /\ done = AtStart
  BY SearchAssumption DEF SearchInit, SearchAssumption
<1>2. /\ job.start \in Vertex /\ job.depth \in Nat /\ Lim \in Nat
      /\ job.kind \in {"bfs", "shortest"}
  <2>1. job.depth \in Depths /\ job.start \in Starts /\ job.kind \in {"bfs", "shortest"}
    BY <1>1 DEF Job
  <2>2. job.depth \in Nat /\ job.start \in Vertex
    BY <2>1, SearchAssumption DEF SearchAssumption
  <2> QED BY <2>1, <2>2 DEF Lim
<1>3. p \in Path /\ Len(p) = 1 /\ p[1] = job.start /\ p # <<>> /\ Last(p) = job.start
  BY <1>2 DEF Path, Last
<1>4. Sound(p)
  BY <1>2, <1>3, BallEquations DEF Sound, IsShortest, IsPath
<1> HIDE DEF p
<1>5. queue \in Seq(Path) /\ Len(queue) = 1 /\ DOMAIN queue = {1} /\ queue[1] = p
  BY <1>1, <1>3
<1>6. paths \in Seq(Path) /\ DOMAIN paths = {}
  BY <1>1
<1>7. Ends(queue) = {job.start} /\ Ends(paths) = {}
  BY <1>3, <1>5, <1>6 DEF Ends
<1>8. QueuedOnce
  BY <1>5 DEF QueuedOnce
<1>9. SearchTypeOK
  BY <1>1, <1>2, <1>3, <1>5, <1>6, <1>8 DEF SearchTypeOK, AtStart
<1>10. PathsAreSound
  BY <1>1, <1>4, <1>5, <1>6 DEF PathsAreSound, Range
<1>11. QueueIsOrdered
  BY <1>1, <1>3, <1>5 DEF QueueIsOrdered
<1>12. NodesAreMarkedOnce
  BY <1>1, <1>6, <1>7, <1>8 DEF NodesAreMarkedOnce
<1>13. ExpandedAreClosed
  BY <1>1, <1>7 DEF ExpandedAreClosed
<1>14. EndsWithReason
  <2>1. p # NoPath
    BY <1>3, SearchAssumption DEF SearchAssumption, Path
  <2> QED BY <2>1, <1>1, <1>2, <1>3 DEF EndsWithReason, AtStart
<1> QED BY <1>9, <1>10, <1>11, <1>12, <1>13, <1>14 DEF SearchInv

\* The inductive invariant of both searches: paths queued in the order of their lengths,
\* each node marked once, and no expanded node with a neighbor that is not marked.
THEOREM SearchInvariant == SearchSpec => []SearchInv
<1>1. SearchInv /\ [SearchNext]_bfsVars => SearchInv'
  <2> SUFFICES ASSUME SearchInv, [SearchNext]_bfsVars PROVE SearchInv'
    OBVIOUS
  <2>1. CASE UNCHANGED bfsVars
    <3>1. UNCHANGED <<graphVars, marked, queue, paths, path>> /\ next' = next
          /\ done' = done /\ result' = result /\ path' = path /\ adj' = adj
          /\ job' = job /\ marked' = marked /\ queue' = queue
      BY <2>1 DEF bfsVars, graphVars, searchVars
    <3>2. next \in Nat \ {0} /\ done \in BOOLEAN
      BY DEF SearchInv, SearchTypeOK
    <3>3. ExpandedAreClosed'
      BY <3>1, ClosedStay DEF ExpandedAreClosed, SearchInv
    <3>4. EndsWithReason'
      BY <3>1 DEF SearchInv, EndsWithReason
    <3> QED BY <3>1, <3>2, <3>3, <3>4, FrameKeeps DEF SearchInv
  <2>2. CASE SearchNext
    BY <2>2, PopKeeps, VisitKeeps, FoundKeeps, SkipKeeps, ExpandedKeeps, FinishKeeps
       DEF SearchNext
  <2> QED BY <2>1, <2>2
<1> QED BY <1>1, SearchStarts, PTL DEF SearchSpec

\* The type of a search's state, and that no node waits twice in the queue, whatever
\* cycles and parallel edges the graph has.
THEOREM SearchTypeCorrect == SearchSpec => []SearchTypeOK
<1>1. SearchInv => SearchTypeOK
  BY DEF SearchInv
<1> QED BY <1>1, SearchInvariant, PTL

\* When nothing is left to expand, the marked nodes are those within the limit.
LEMMA MarkedAtEnd ==
  ASSUME SearchInv, done, result = NoPath
  PROVE  Ball(Lim) \subseteq marked /\ queue = <<>>
<1>1. queue = <<>> /\ path = NoPath /\ job.start \in marked /\ Lim \in Nat
  BY LimIsNat DEF SearchInv, EndsWithReason, ExpandedAreClosed
<1>2. Ends(queue) = {}
  BY <1>1 DEF Ends
<1>3. \A k \in 0..(Lim - 1) : \A n \in marked : n \in Ball(k) => Range(adj[n]) \subseteq marked
  BY <1>1, <1>2 DEF SearchInv, ExpandedAreClosed
<1>4. Ball(Lim) \subseteq marked
  BY <1>1, <1>3, ClosedHoldsBall
<1> QED BY <1>1, <1>4

\* The end of a sound path is within the limit.
LEMMA EndsAreNear ==
  ASSUME SearchTypeOK, NEW p \in Path, Sound(p)
  PROVE  Last(p) \in Ball(Lim)
BY SoundFacts, LimIsNat, BallsGrow DEF Sound

LEMMA SearchInvIsExact == SearchInv => SearchesAreExact
<1> SUFFICES ASSUME SearchInv PROVE SearchesAreExact
  OBVIOUS
<1>1. PathsAreShortest
  BY DEF PathsAreShortest, SearchInv, PathsAreSound, Sound
<1>2. ASSUME done, job.kind = "bfs"
      PROVE  /\ {Last(paths[i]) : i \in DOMAIN paths} = Ball(job.depth)
             /\ \A i, j \in DOMAIN paths : Last(paths[i]) = Last(paths[j]) => i = j
  <2>1. result = NoPath /\ Lim = job.depth
    BY <1>2 DEF SearchInv, EndsWithReason, Lim
  <2>2. Ball(Lim) \subseteq marked /\ queue = <<>>
    BY <2>1, <1>2, MarkedAtEnd
  <2>3. Ends(queue) = {}
    BY <2>2 DEF Ends
  <2>4. marked \subseteq Ends(paths)
    BY <2>3, <1>2 DEF SearchInv, NodesAreMarkedOnce
  <2>5. \A i \in DOMAIN paths : paths[i] \in Path /\ Sound(paths[i])
    BY DEF SearchInv, SearchTypeOK, PathsAreSound, Range
  <2>6. Ends(paths) \subseteq Ball(Lim)
    BY <2>5, EndsAreNear DEF Ends, SearchInv
  <2> QED BY <2>1, <2>2, <2>4, <2>6 DEF Ends, SearchInv, NodesAreMarkedOnce
<1>3. ASSUME done, job.kind = "shortest"
      PROVE  result # NoPath <=> job.target \in Ball(job.depth + 1)
  <2>1. Lim = job.depth + 1
    BY <1>3 DEF Lim
  <2>2. CASE result # NoPath
    <3>1. result \in Path /\ Sound(result) /\ Last(result) = job.target
      BY <2>2 DEF SearchInv, SearchTypeOK, PathsAreSound, EndsWithReason
    <3> QED BY <3>1, <2>1, <2>2, EndsAreNear DEF SearchInv
  <2>3. CASE result = NoPath
    <3>1. job.target \notin marked /\ Ball(Lim) \subseteq marked
      BY <1>3, <2>3, MarkedAtEnd DEF SearchInv, EndsWithReason
    <3> QED BY <3>1, <2>1, <2>3
  <2> QED BY <2>2, <2>3
<1> QED BY <1>1, <1>2, <1>3 DEF SearchesAreExact, BfsIsComplete, TargetIsFound

\* For every graph, start, target and depth: bfs answers one shortest path for each node
\* within the depth, and shortest_path finds its target just if one step more than the
\* depth reaches it, by a path that no other path is shorter than.
THEOREM SearchesAnswerExactly == SearchSpec => []SearchesAreExact
BY SearchInvariant, SearchInvIsExact, PTL

-----------------------------------------------------------------------------
(* No search loops *)

\* The neighbors of the path being expanded that are left to look at, and its end.
Ahead ==
  IF path = NoPath THEN 0
  ELSE IF next <= Len(adj[Last(path)]) THEN Len(adj[Last(path)]) - next + 2 ELSE 1

\* A step ends the search or marks a node; or else the queue gets shorter, or there is
\* less of the path being expanded.
GoesOn ==
  /\ marked \subseteq marked' /\ marked' \subseteq Vertex
  /\ \/ ~done /\ done'
     \/ marked' # marked
     \/ Len(queue') < Len(queue)
     \/ queue' = queue /\ Ahead \in Nat /\ Ahead' \in Nat /\ Ahead' < Ahead

\* Why a search of finitely many nodes ends, once it takes its steps: a node is marked
\* once, and between two marks the queue and the path only run down.
THEOREM SearchesGoOn == SearchSpec => [][GoesOn]_bfsVars
<1>1. ASSUME SearchInv, [SearchNext]_bfsVars PROVE [GoesOn]_bfsVars
  <2> SUFFICES ASSUME SearchNext PROVE GoesOn
    BY <1>1
  <2>1. marked \subseteq Vertex /\ queue \in Seq(Path) /\ next \in Nat \ {0}
    BY <1>1 DEF SearchInv, SearchTypeOK
  <2>2. CASE Pop
    <3>1. queue # <<>> /\ queue' = Tail(queue) /\ marked' = marked
      BY <2>2 DEF Pop
    <3>2. Len(queue') < Len(queue)
      BY <2>1, <3>1
    <3> QED BY <2>1, <3>1, <3>2 DEF GoesOn
  <2>3. CASE Visit
    <3>1. Looking /\ Neighbor \notin marked /\ marked' = marked \cup {Neighbor}
      BY <2>3 DEF Visit
    <3>2. Neighbor \in Vertex
      BY <1>1, <2>1, <3>1, LookingFacts DEF Neighbor
    <3> QED BY <2>1, <3>1, <3>2 DEF GoesOn
  <2>4. CASE Found \/ Finish
    BY <2>1, <2>4 DEF Found, Finish, Looking, GoesOn
  <2>5. CASE Skip
    <3>1. /\ Looking /\ next' = next + 1
          /\ marked' = marked /\ queue' = queue /\ path' = path /\ adj' = adj
      BY <2>5 DEF Skip, graphVars
    <3>2. path # NoPath /\ next <= Len(adj[Last(path)]) /\ Len(adj[Last(path)]) \in Nat
      BY <1>1, <3>1, LookingFacts DEF Looking
    <3>3. PICK n : n = Len(adj[Last(path)])
      OBVIOUS
    <3>4. /\ Ahead = n - next + 2
          /\ Ahead' = IF next + 1 <= n THEN n - (next + 1) + 2 ELSE 1
      BY <3>1, <3>2, <3>3 DEF Ahead
    <3>5. Ahead \in Nat /\ Ahead' \in Nat /\ Ahead' < Ahead
      BY <2>1, <3>2, <3>3, <3>4
    <3> QED BY <2>1, <3>1, <3>5 DEF GoesOn
  <2>6. CASE Expanded
    <3>1. /\ path # NoPath /\ path' = NoPath /\ next > Len(adj[Last(path)])
          /\ marked' = marked /\ queue' = queue
      BY <2>6 DEF Expanded
    <3>2. Last(path) \in Vertex /\ adj[Last(path)] \in Seq(Vertex)
      <4>1. path \in Path /\ Sound(path)
        BY <1>1, <3>1 DEF SearchInv, SearchTypeOK, PathsAreSound
      <4> QED BY <1>1, <4>1, SoundFacts DEF SearchInv, SearchTypeOK
    <3>3. ~(next <= Len(adj[Last(path)]))
      BY <2>1, <3>1, <3>2
    <3>4. Ahead = 1 /\ Ahead' = 0
      BY <3>1, <3>3 DEF Ahead
    <3> QED BY <2>1, <3>1, <3>4 DEF GoesOn
  <2> QED BY <2>2, <2>3, <2>4, <2>5, <2>6 DEF SearchNext
<1> QED BY <1>1, SearchInvariant, PTL DEF SearchSpec
=============================================================================
