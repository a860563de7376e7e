--------------------------- MODULE IndexesProofs ---------------------------
(***************************************************************************)
(* Proofs about the indexes: what the vector index promises, for every     *)
(* metric, parameter, sequence of levels drawn and choice among vectors    *)
(* that tie, what the adjacency index answers, stale or not, and both of   *)
(* them side by side.                                                      *)
(***************************************************************************)
EXTENDS MCIndexes, SequenceLemmas

-----------------------------------------------------------------------------
(* The vector index *)

Inserting == call # NoCall /\ call.kind = "insert"

HasLayer(n, l) == l \in DOMAIN nodes[n].layers

\* The ids stored, linked to and known.
IdsFollow ==
  /\ Stored \subseteq live
  /\ Inserting => call.id \in live
  /\ Inserting /\ ~reused => call.id \notin Stored /\ entry_point # call.id
  /\ removes = 0 => known = Stored \cup (IF Inserting THEN {call.id} ELSE {})
  /\ entry_point = NoId => known = {}
  /\ removes = 0 /\ entry_point # NoId => entry_point \in Stored
  /\ ~reused /\ entry_point \in Stored =>
       DOMAIN nodes[entry_point].layers = 0..current_level
  /\ \A n \in Stored : \A l \in DOMAIN nodes[n].layers : nodes[n].layers[l] \subseteq known

\* The beam: what has been expanded has its links in visited, and a beam wide enough
\* forgets no node.
BeamInv ==
  call # NoCall =>
    /\ answer = NoAnswer
    /\ candidates \cup results \subseteq Stored /\ results # {} /\ curr_entry \in visited
    /\ \A n \in (visited \cap Stored) \ candidates : LinksAt(n, level) \subseteq visited
    /\ Cardinality(Stored) <= Ef => results = visited \cap Stored
    /\ ~reused => \A n \in visited \cap Stored : HasLayer(n, level)

Mutual ==
  \A a, b \in Stored : \A l \in DOMAIN nodes[a].layers :
    b \in nodes[a].layers[l] => HasLayer(b, l) /\ a \in nodes[b].layers[l]

\* An insert under way has linked the layers above the one it searches, in both
\* directions.
LinksFollow ==
  /\ ~reused => Mutual
  /\ Inserting => \A l \in DOMAIN links :
       links[l] \subseteq Stored /\ (l <= level => links[l] = {})
  /\ Inserting /\ ~reused =>
       /\ \A n \in Stored : \A l \in DOMAIN nodes[n].layers :
            call.id \in nodes[n].layers[l] => l \in DOMAIN links /\ n \in links[l]
       /\ \A l \in DOMAIN links : \A n \in links[l] :
            HasLayer(n, l) /\ call.id \in nodes[n].layers[l]
       /\ \A l \in DOMAIN links : level < l /\ l <= current_level => links[l] # {}

\* A set of stored nodes that a search of layer l does not leave.
ClosedAt(T, l) == \A n \in T : LinksAt(n, l) \cap Stored \subseteq T

\* What such a set holds with the entry point: every node of the layer.
EntryLeadsOn ==
  Grown /\ entry_point # NoId =>
    \A l \in 0..current_level : \A T \in SUBSET Stored :
      entry_point \in T /\ ClosedAt(T, l) => {n \in Stored : HasLayer(n, l)} \subseteq T

HnswInv ==
  /\ TypeOK /\ IdsFollow /\ BeamInv /\ LinksFollow /\ EntryLeadsOn
  /\ FoundAreLive /\ SearchIsExact

-----------------------------------------------------------------------------
(* Sets of nearest nodes, and the types *)

LEMMA NearestFacts ==
  ASSUME NEW v, NEW S, IsFiniteSet(S), NEW n \in Nat \ {0}, NEW T \in Nearest(v, S, n)
  PROVE  T \subseteq S /\ (S # {} => T # {}) /\ (Cardinality(S) <= n => T = S)
<1> DEFINE m == IF n < Cardinality(S) THEN n ELSE Cardinality(S)
<1>1. T \subseteq S /\ Cardinality(T) = m
  BY DEF Nearest, kSubset
<1>2. Cardinality(S) \in Nat
  BY FS_CardinalityType
<1>3. S # {} => Cardinality(S) # 0
  BY FS_EmptySet
<1>4. S # {} => Cardinality(T) # 0
  BY <1>1, <1>2, <1>3
<1>5. T = {} => Cardinality(T) = 0
  BY FS_EmptySet
<1>6. Cardinality(S) <= n => Cardinality(T) = Cardinality(S)
  BY <1>1, <1>2
<1>7. Cardinality(T) = Cardinality(S) => T = S
  BY <1>1, FS_Subset
<1> QED BY <1>1, <1>4, <1>5, <1>6, <1>7

\* A node's layers are those from 0 to its own level.
LEMMA LayersFacts ==
  ASSUME NEW f \in Layers
  PROVE  \E top \in Levels : /\ DOMAIN f = 0..top /\ top \in Nat
                             /\ \A l \in 0..top : f[l] \subseteq Id
<1>1. PICK top \in Levels : f \in [0..top -> SUBSET Id]
  BY DEF Layers
<1>2. top \in Nat
  BY HnswAssumption DEF HnswAssumption
<1> QED BY <1>1, <1>2

LEMMA NodeFacts ==
  ASSUME TypeOK, NEW n \in Stored
  PROVE  /\ n \in Id /\ nodes[n].vector \in Vector /\ nodes[n].layers \in Layers
         /\ nodes[n] = [vector |-> nodes[n].vector, layers |-> nodes[n].layers]
         /\ HasLayer(n, 0)
         /\ \A l \in Nat : HasLayer(n, l + 1) => HasLayer(n, l)
         /\ \A l : HasLayer(n, l) => l \in Nat
         /\ \A l : LinksAt(n, l) \subseteq Id
<1>1. n \in Id /\ nodes[n] \in [vector : Vector, layers : Layers]
  BY DEF TypeOK
<1>2. nodes[n].vector \in Vector /\ nodes[n].layers \in Layers
      /\ nodes[n] = [vector |-> nodes[n].vector, layers |-> nodes[n].layers]
  BY <1>1
<1>3. PICK top \in Levels : /\ DOMAIN nodes[n].layers = 0..top /\ top \in Nat
                            /\ \A l \in 0..top : nodes[n].layers[l] \subseteq Id
  BY <1>2, LayersFacts
<1>4. HasLayer(n, 0) /\ (\A l \in Nat : HasLayer(n, l + 1) => HasLayer(n, l))
      /\ (\A l : HasLayer(n, l) => l \in Nat)
  BY <1>3 DEF HasLayer
<1>5. \A l : LinksAt(n, l) \subseteq Id
  BY <1>3 DEF LinksAt
<1> QED BY <1>1, <1>2, <1>4, <1>5

LEMMA CallFacts ==
  ASSUME TypeOK, call # NoCall
  PROVE  /\ call.kind \in {"insert", "search"} /\ Ef \in Nat \ {0} /\ Floor \in Nat
         /\ call.kind = "insert" =>
              call.vector \in Vector /\ call.id \in Id /\ call.level \in Levels
              /\ call.level \in Nat
         /\ call.kind = "search" =>
              call.vector \in Query /\ call.k \in Ks /\ call.ef \in Efs
              /\ call.k \in Nat \ {0} /\ call.ef \in Nat
         /\ level \in Nat /\ current_level \in Nat /\ level <= current_level
<1>1. call \in Call
  BY DEF TypeOK
<1>2. Levels \subseteq Nat /\ Ks \subseteq Nat \ {0} /\ Efs \subseteq Nat
      /\ EfConstruction \in Nat \ {0}
  BY HnswAssumption DEF HnswAssumption
<1>3. CASE call.kind = "insert"
  <2>1. call.vector \in Vector /\ call.id \in Id /\ call.level \in Levels
    BY <1>1, <1>3 DEF Call
  <2>2. Ef \in Nat \ {0} /\ Floor = call.level
    BY <1>2, <1>3 DEF Ef, Floor
  <2>3. level \in Nat /\ current_level \in Nat /\ level <= current_level
    BY <1>2 DEF TypeOK
  <2> QED BY <2>1, <2>2, <2>3, <1>2, <1>3
<1>4. CASE call.kind # "insert"
  <2>1. call.kind = "search" /\ call.vector \in Query /\ call.k \in Ks /\ call.ef \in Efs
    BY <1>1, <1>4 DEF Call
  <2>2. call.k \in Nat \ {0} /\ call.ef \in Nat
    BY <2>1, <1>2
  <2>3. Ef \in Nat \ {0} /\ Floor = 0
    BY <2>2, <1>4 DEF Ef, Floor
  <2>4. level \in Nat /\ current_level \in Nat /\ level <= current_level
    BY <1>2 DEF TypeOK
  <2> QED BY <2>1, <2>2, <2>3, <2>4, <1>4
<1> QED BY <1>3, <1>4

LEMMA StoredAreFinite ==
  ASSUME TypeOK
  PROVE  IsFiniteSet(Stored) /\ Cardinality(Stored) \in Nat
         /\ \A S \in SUBSET Stored : IsFiniteSet(S) /\ Cardinality(S) \in Nat
<1>1. IsFiniteSet(Stored)
  BY HnswAssumption, FS_Subset DEF HnswAssumption, TypeOK
<1> QED BY <1>1, FS_Subset, FS_CardinalityType

-----------------------------------------------------------------------------
(* The calls begin *)

\* The beam of a layer that was just entered.
LEMMA EnterBeam ==
  ASSUME NEW n, NEW l, Enter(n, l), n \in Stored', answer' = NoAnswer,
         reused' = FALSE => l \in DOMAIN nodes'[n].layers
  PROVE  BeamInv'
<1>1. /\ curr_entry' = n /\ level' = l
      /\ visited' = {n} /\ candidates' = {n} /\ results' = {n}
  BY DEF Enter
<1>2. (visited' \cap Stored') \ candidates' = {} /\ results' = visited' \cap Stored'
  BY <1>1
<1>3. \A m \in visited' \cap Stored' : m = n
  BY <1>1
<1> QED BY <1>1, <1>2, <1>3 DEF BeamInv, HasLayer

\* While the index does not change, nor does what leads on in it.
LEMMA LeadsOnStays ==
  ASSUME EntryLeadsOn, UNCHANGED indexVars, Grown' => Grown
  PROVE  EntryLeadsOn'
<1>1. nodes' = nodes /\ entry_point' = entry_point /\ current_level' = current_level
  BY DEF indexVars
<1>2. Stored' = Stored
  BY <1>1 DEF Stored
<1>3. \A n, l : LinksAt(n, l)' = LinksAt(n, l) /\ HasLayer(n, l)' = HasLayer(n, l)
  BY <1>1 DEF LinksAt, HasLayer
<1>4. \A T, l : ClosedAt(T, l)' = ClosedAt(T, l)
  BY <1>2, <1>3 DEF ClosedAt
<1>5. ASSUME Grown, entry_point # NoId, NEW l \in 0..current_level, NEW T \in SUBSET Stored,
             entry_point \in T, ClosedAt(T, l)
      PROVE  {n \in Stored : HasLayer(n, l)} \subseteq T
  BY <1>5 DEF EntryLeadsOn
<1> QED BY <1>1, <1>2, <1>3, <1>4, <1>5 DEF EntryLeadsOn

LEMMA InsertFirstKeeps ==
  ASSUME HnswInv, NEW id \in Id, NEW v \in Vector, NEW lev \in Levels, InsertFirst(id, v, lev)
  PROVE  HnswInv'
<1> DEFINE node == [vector |-> v, layers |-> [l \in 0..lev |-> {}]]
<1>1. /\ call = NoCall /\ entry_point = NoId /\ entry_point' = id /\ current_level' = lev
      /\ answer' = NoAnswer /\ inserts < MaxInserts /\ inserts' = inserts + 1
      /\ known' = known \cup {id} /\ live' = live \cup {id} /\ reused' = (reused \/ id \in known)
      /\ UNCHANGED <<call, beamVars, links, panicked, removes>>
      /\ nodes' = [n \in Stored \cup {id} |-> IF n = id THEN node ELSE nodes[n]]
  BY DEF InsertFirst, CountInsert, Idle
<1>2. known = {} /\ live = {} /\ Stored = {}
  BY <1>1 DEF HnswInv, IdsFollow, TypeOK
<1>3. Stored' = {id} /\ nodes'[id] = node
  BY <1>1, <1>2 DEF Stored
<1>4. node.vector = v /\ node.layers = [l \in 0..lev |-> {}] /\ DOMAIN node.layers = 0..lev
      /\ \A l \in 0..lev : node.layers[l] = {}
  OBVIOUS
<1>5. node \in [vector : Vector, layers : Layers]
  <2>1. node.layers \in [0..lev -> SUBSET Id]
    BY <1>4
  <2>2. node.layers \in Layers
    BY <2>1 DEF Layers
  <2> QED BY <2>2
<1> HIDE DEF node
<1>6. TypeOK'
  <2>1. inserts' \in 0..MaxInserts
    BY <1>1, HnswAssumption DEF HnswInv, TypeOK, HnswAssumption
  <2>2. /\ visited' = visited /\ candidates' = candidates /\ results' = results /\ call' = NoCall
        /\ panicked' = panicked /\ removes' = removes
    BY <1>1 DEF beamVars
  <2> QED BY <2>1, <2>2, <1>1, <1>2, <1>3, <1>5 DEF HnswInv, TypeOK
<1>7. IdsFollow'
  <2>1. call' = NoCall /\ known' = {id} /\ live' = {id}
    BY <1>1, <1>2
  <2>2. id # NoId
    BY HnswAssumption DEF HnswAssumption
  <2> QED BY <2>1, <2>2, <1>1, <1>3, <1>4 DEF IdsFollow, Inserting
<1>8. BeamInv' /\ ~Inserting'
  BY <1>1 DEF BeamInv, Inserting
<1>9. LinksFollow'
  BY <1>3, <1>4, <1>8 DEF LinksFollow, Mutual, HasLayer
<1>10. EntryLeadsOn'
  BY <1>1, <1>3 DEF EntryLeadsOn, HasLayer
<1>11. FoundAreLive' /\ SearchIsExact'
  BY <1>1 DEF FoundAreLive, SearchIsExact
<1> QED BY <1>6, <1>7, <1>8, <1>9, <1>10, <1>11 DEF HnswInv

LEMMA StartInsertKeeps ==
  ASSUME HnswInv, NEW id \in Id, NEW v \in Vector, NEW lev \in Levels, StartInsert(id, v, lev)
  PROVE  HnswInv'
<1> DEFINE new == [kind |-> "insert", vector |-> v, id |-> id, level |-> lev]
<1>1. /\ call = NoCall /\ entry_point \in Stored /\ call' = new
      /\ links' = [l \in 0..lev |-> {}] /\ Enter(entry_point, current_level)
      /\ answer' = NoAnswer /\ inserts < MaxInserts /\ inserts' = inserts + 1
      /\ known' = known \cup {id} /\ live' = live \cup {id} /\ reused' = (reused \/ id \in known)
      /\ UNCHANGED <<indexVars, panicked, removes>>
      /\ nodes' = nodes /\ entry_point' = entry_point /\ current_level' = current_level
      /\ Stored' = Stored
  BY DEF StartInsert, CountInsert, Idle, indexVars, Stored
<1>2. /\ new \in Call /\ new # NoCall /\ new.kind = "insert" /\ new.id = id
      /\ new.level = lev
  BY HnswAssumption DEF HnswAssumption, Call
<1> HIDE DEF new
<1>3. /\ Stored \subseteq live /\ live \subseteq known /\ known \subseteq Id
      /\ current_level \in Nat /\ reused \in BOOLEAN
      /\ removes = 0 => known = Stored
      /\ ~reused => DOMAIN nodes[entry_point].layers = 0..current_level
      /\ \A n \in Stored : \A l \in DOMAIN nodes[n].layers : nodes[n].layers[l] \subseteq known
  BY <1>1, HnswAssumption DEF HnswInv, TypeOK, IdsFollow, Inserting, HnswAssumption
<1>4. reused' = FALSE => ~reused /\ id \notin known
  BY <1>1, <1>3
<1>5. /\ curr_entry' = entry_point /\ level' = current_level
      /\ visited' = {entry_point} /\ candidates' = {entry_point} /\ results' = {entry_point}
  BY <1>1 DEF Enter
<1>6. TypeOK'
  <2>1. inserts' \in 0..MaxInserts
    BY <1>1, HnswAssumption DEF HnswInv, TypeOK, HnswAssumption
  <2>2. level' \in 0..current_level'
    BY <1>1, <1>3, <1>5
  <2>3. links' \in [0..call'.level -> SUBSET Id]
    BY <1>1, <1>2
  <2>4. panicked' = panicked /\ removes' = removes /\ reused' \in BOOLEAN
    BY <1>1, <1>3
  <2> QED BY <2>1, <2>2, <2>3, <2>4, <1>1, <1>2, <1>3, <1>5 DEF HnswInv, TypeOK
<1>7. IdsFollow'
  <2>1. Inserting' /\ call'.id = id
    BY <1>1, <1>2 DEF Inserting
  <2>2. entry_point # NoId
    BY <1>1, <1>3, HnswAssumption DEF HnswAssumption
  <2>3. \A n \in Stored : \A l \in DOMAIN nodes[n].layers : nodes[n].layers[l] \subseteq known'
    BY <1>1, <1>3
  <2> QED BY <2>1, <2>2, <2>3, <1>1, <1>3, <1>4 DEF IdsFollow
<1>8. BeamInv'
  <2>1. current_level \in 0..current_level
    BY <1>3
  <2>2. entry_point \in Stored'
    BY <1>1
  <2>3. reused' = FALSE => current_level \in DOMAIN nodes'[entry_point].layers
    BY <2>1, <1>1, <1>3, <1>4
  <2> QED BY <2>2, <2>3, <1>1, EnterBeam
<1>9. LinksFollow'
  <2>1. Inserting' /\ call'.id = id /\ DOMAIN links' = 0..lev /\ \A l \in 0..lev : links'[l] = {}
    BY <1>1, <1>2 DEF Inserting
  <2>2. reused' = FALSE => \A n \in Stored : \A l \in DOMAIN nodes[n].layers :
                             id \notin nodes[n].layers[l]
    BY <1>3, <1>4
  <2>3. \A l \in 0..lev : ~(level' < l /\ l <= current_level')
    BY <1>1, <1>3, <1>5, HnswAssumption DEF HnswAssumption
  <2>4. reused' = FALSE => Mutual'
    BY <1>1, <1>4 DEF HnswInv, LinksFollow, Mutual, HasLayer
  <2> QED BY <2>1, <2>2, <2>3, <2>4, <1>1 DEF LinksFollow
<1>10. EntryLeadsOn'
  BY <1>1, <1>4, LeadsOnStays DEF Grown, HnswInv
<1>11. FoundAreLive' /\ SearchIsExact'
  BY <1>1 DEF FoundAreLive, SearchIsExact
<1> QED BY <1>6, <1>7, <1>8, <1>9, <1>10, <1>11 DEF HnswInv

\* Steps that change neither the index nor its history, and no insert's links.
LEMMA QuietKeeps ==
  ASSUME HnswInv, UNCHANGED <<indexVars, historyVars>>, ~Inserting, ~Inserting'
  PROVE  IdsFollow' /\ LinksFollow' /\ EntryLeadsOn'
<1>1. /\ nodes' = nodes /\ entry_point' = entry_point /\ current_level' = current_level
      /\ UNCHANGED indexVars
      /\ known' = known /\ live' = live /\ reused' = reused /\ removes' = removes
      /\ Stored' = Stored
  BY DEF indexVars, historyVars, Stored
<1>2. IdsFollow'
  BY <1>1 DEF HnswInv, IdsFollow
<1>3. LinksFollow'
  BY <1>1 DEF HnswInv, LinksFollow, Mutual, HasLayer
<1>4. EntryLeadsOn'
  BY <1>1, LeadsOnStays DEF HnswInv, Grown
<1> QED BY <1>2, <1>3, <1>4

LEMMA StartSearchKeeps ==
  ASSUME HnswInv, NEW v \in Query, NEW k \in Ks, NEW ef \in Efs, StartSearch(v, k, ef)
  PROVE  HnswInv'
<1> DEFINE new == [kind |-> "search", vector |-> v, k |-> k, ef |-> ef]
<1>1. /\ call = NoCall /\ entry_point \in Stored /\ call' = new
      /\ Enter(entry_point, current_level)
      /\ answer' = NoAnswer /\ UNCHANGED <<indexVars, links, panicked, historyVars>>
      /\ nodes' = nodes /\ current_level' = current_level /\ reused' = reused
      /\ Stored' = Stored
  BY DEF StartSearch, Idle, indexVars, historyVars, Stored
<1>2. new \in Call /\ new # NoCall /\ new.kind = "search"
  BY HnswAssumption DEF HnswAssumption, Call
<1> HIDE DEF new
<1>3. /\ Stored \subseteq Id /\ current_level \in Nat
      /\ ~reused => DOMAIN nodes[entry_point].layers = 0..current_level
  <2>1. Stored \subseteq Id /\ current_level \in Levels \cup {0}
    BY DEF HnswInv, TypeOK
  <2>2. ~reused => DOMAIN nodes[entry_point].layers = 0..current_level
    BY <1>1 DEF HnswInv, IdsFollow
  <2> QED BY <2>1, <2>2, HnswAssumption DEF HnswAssumption
<1>4. /\ curr_entry' = entry_point /\ level' = current_level
      /\ visited' = {entry_point} /\ candidates' = {entry_point} /\ results' = {entry_point}
  BY <1>1 DEF Enter
<1>5. TypeOK'
  <2>1. level' \in 0..current_level'
    BY <1>1, <1>3, <1>4
  <2>2. /\ panicked' = panicked /\ known' = known /\ live' = live /\ inserts' = inserts
        /\ removes' = removes /\ entry_point' = entry_point /\ links' = links
    BY <1>1 DEF historyVars, indexVars
  <2> QED BY <2>1, <2>2, <1>1, <1>2, <1>3, <1>4 DEF HnswInv, TypeOK
<1>6. ~Inserting /\ ~Inserting'
  BY <1>1, <1>2 DEF Inserting
<1>7. IdsFollow' /\ LinksFollow' /\ EntryLeadsOn'
  BY <1>1, <1>6, QuietKeeps
<1>8. BeamInv'
  <2>1. current_level \in 0..current_level
    BY <1>3
  <2>2. entry_point \in Stored'
    BY <1>1
  <2>3. reused' = FALSE => current_level \in DOMAIN nodes'[entry_point].layers
    BY <2>1, <1>1, <1>3
  <2> QED BY <2>2, <2>3, <1>1, EnterBeam
<1>9. FoundAreLive' /\ SearchIsExact'
  BY <1>1 DEF FoundAreLive, SearchIsExact
<1> QED BY <1>5, <1>7, <1>8, <1>9 DEF HnswInv

-----------------------------------------------------------------------------
(* The beam *)

LEMMA ExpandKeeps ==
  ASSUME HnswInv, Expand
  PROVE  HnswInv'
<1>1. /\ call # NoCall
      /\ UNCHANGED <<indexVars, call, curr_entry, level, links, answer, panicked, historyVars>>
      /\ nodes' = nodes /\ call' = call /\ level' = level /\ answer' = answer
      /\ reused' = reused /\ curr_entry' = curr_entry /\ links' = links /\ Stored' = Stored
      /\ entry_point' = entry_point /\ current_level' = current_level
      /\ known' = known /\ live' = live /\ removes' = removes /\ inserts' = inserts
      /\ panicked' = panicked
  BY DEF Expand, Idle, indexVars, historyVars, Stored
<1>2. PICK c \in candidates :
        LET found == (LinksAt(c, level) \ visited) \cap Stored IN
          /\ candidates' = (candidates \ {c}) \cup found
          /\ results' \in Nearest(call.vector, results \cup found, Ef)
          /\ visited' = visited \cup LinksAt(c, level)
  BY DEF Expand
<1> DEFINE found == (LinksAt(c, level) \ visited) \cap Stored
<1>3. /\ candidates' = (candidates \ {c}) \cup found
      /\ results' \in Nearest(call.vector, results \cup found, Ef)
      /\ visited' = visited \cup LinksAt(c, level)
      /\ found \subseteq Stored /\ found \subseteq LinksAt(c, level)
      /\ found \cap visited = {}
      /\ LinksAt(c, level) \cap Stored \subseteq visited \cup found
  BY <1>2
<1> HIDE DEF found
<1>4. /\ answer = NoAnswer /\ candidates \subseteq Stored /\ results \subseteq Stored
      /\ results # {} /\ curr_entry \in visited
      /\ \A n \in (visited \cap Stored) \ candidates : LinksAt(n, level) \subseteq visited
      /\ Cardinality(Stored) <= Ef => results = visited \cap Stored
      /\ ~reused => \A n \in visited \cap Stored : HasLayer(n, level)
  BY <1>1 DEF HnswInv, BeamInv
<1>5. /\ candidates \subseteq visited /\ results \subseteq visited /\ visited \subseteq Id
      /\ c \in Stored /\ c \in visited
  BY <1>4 DEF HnswInv, TypeOK
<1>6. LinksAt(c, level) \subseteq Id
  BY <1>5, NodeFacts DEF HnswInv
<1>7. Ef \in Nat \ {0} /\ Ef' = Ef
  BY <1>1, CallFacts DEF HnswInv, Ef, Descending, Floor
<1>8. /\ results' \subseteq results \cup found /\ results' # {}
      /\ Cardinality(results \cup found) <= Ef => results' = results \cup found
  <2>1. IsFiniteSet(results \cup found)
    BY <1>3, <1>4, StoredAreFinite DEF HnswInv
  <2>2. results \cup found # {}
    BY <1>4
  <2>3. PICK T \in Nearest(call.vector, results \cup found, Ef) : results' = T
    BY <1>3
  <2>4. /\ T \subseteq results \cup found /\ (results \cup found # {} => T # {})
        /\ Cardinality(results \cup found) <= Ef => T = results \cup found
    <3>1. \A v, S : \A n \in Nat \ {0} : \A U \in Nearest(v, S, n) : IsFiniteSet(S) =>
            U \subseteq S /\ (S # {} => U # {}) /\ (Cardinality(S) <= n => U = S)
      BY NearestFacts
    <3> QED BY <3>1, <2>1, <1>7
  <2> QED BY <2>2, <2>3, <2>4
<1>9. \A n, l : LinksAt(n, l)' = LinksAt(n, l) /\ HasLayer(n, l)' = HasLayer(n, l)
  BY <1>1 DEF LinksAt, HasLayer
<1>10. TypeOK'
  <2>1. candidates' \subseteq visited' /\ results' \subseteq visited' /\ visited' \subseteq Id
    BY <1>3, <1>5, <1>6, <1>8
  <2> QED BY <2>1, <1>1 DEF HnswInv, TypeOK
<1>11. IdsFollow'
  BY <1>1 DEF HnswInv, IdsFollow, Inserting
<1>12. BeamInv'
  <2>1. candidates' \cup results' \subseteq Stored
    BY <1>3, <1>4, <1>8
  <2>2. ASSUME NEW n \in (visited' \cap Stored) \ candidates'
        PROVE  LinksAt(n, level) \subseteq visited'
    <3>1. n = c \/ n \in (visited \cap Stored) \ candidates
      BY <2>2, <1>3
    <3> QED BY <3>1, <1>3, <1>4
  <2>3. ASSUME Cardinality(Stored) <= Ef
        PROVE  results' = visited' \cap Stored
    <3>1. results \cup found = visited' \cap Stored
      BY <2>3, <1>3, <1>4
    <3>2. Cardinality(results \cup found) <= Cardinality(Stored)
          /\ Cardinality(results \cup found) \in Nat /\ Cardinality(Stored) \in Nat
      BY <3>1, StoredAreFinite, FS_Subset DEF HnswInv
    <3> QED BY <3>1, <3>2, <2>3, <1>7, <1>8
  <2>4. ASSUME ~reused, NEW n \in visited' \cap Stored
        PROVE  HasLayer(n, level)
    <3>1. CASE n \in visited
      BY <3>1, <2>4, <1>4
    <3>2. CASE n \notin visited
      <4>1. n \in LinksAt(c, level) /\ HasLayer(c, level)
        BY <3>2, <2>4, <1>3, <1>4, <1>5
      <4>2. n \in nodes[c].layers[level] /\ level \in DOMAIN nodes[c].layers
        BY <4>1 DEF LinksAt, HasLayer
      <4> QED BY <4>2, <2>4, <1>5 DEF HnswInv, LinksFollow, Mutual
    <3> QED BY <3>1, <3>2
  <2> QED BY <2>1, <2>2, <2>3, <2>4, <1>1, <1>3, <1>4, <1>7, <1>8, <1>9 DEF BeamInv
<1>13. LinksFollow'
  BY <1>1 DEF HnswInv, LinksFollow, Mutual, HasLayer, Inserting
<1>14. EntryLeadsOn'
  BY <1>1, LeadsOnStays DEF HnswInv, Grown
<1>15. FoundAreLive' /\ SearchIsExact'
  BY <1>1, <1>4 DEF FoundAreLive, SearchIsExact
<1> QED BY <1>10, <1>11, <1>12, <1>13, <1>14, <1>15 DEF HnswInv

LEMMA DescendKeeps ==
  ASSUME HnswInv, Descend
  PROVE  HnswInv'
<1>1. /\ call # NoCall /\ level > Floor
      /\ UNCHANGED <<indexVars, call, links, answer, panicked, historyVars>>
      /\ nodes' = nodes /\ call' = call /\ answer' = answer
      /\ reused' = reused /\ links' = links /\ Stored' = Stored
      /\ entry_point' = entry_point /\ current_level' = current_level
      /\ known' = known /\ live' = live /\ removes' = removes /\ inserts' = inserts
      /\ panicked' = panicked
  BY DEF Descend, Idle, indexVars, historyVars, Stored, Descending
<1>2. PICK n \in results : Enter(n, level - 1)
  BY DEF Descend
<1>3. /\ curr_entry' = n /\ level' = level - 1
      /\ visited' = {n} /\ candidates' = {n} /\ results' = {n}
  BY <1>2 DEF Enter
<1>4. /\ answer = NoAnswer /\ n \in Stored /\ n \in visited
      /\ ~reused => HasLayer(n, level)
  BY <1>1 DEF HnswInv, BeamInv, TypeOK
<1>5. /\ level \in Nat /\ current_level \in Nat /\ level <= current_level /\ Floor \in Nat
  BY <1>1, CallFacts DEF HnswInv
<1>6. level - 1 \in Nat /\ level - 1 \in 0..current_level /\ level = (level - 1) + 1
  BY <1>1, <1>5
<1>7. TypeOK'
  BY <1>1, <1>3, <1>4, <1>6 DEF HnswInv, TypeOK
<1>8. IdsFollow'
  BY <1>1 DEF HnswInv, IdsFollow, Inserting
<1>9. BeamInv'
  <2>1. reused' = FALSE => HasLayer(n, level - 1)
    BY <1>1, <1>4, <1>6, NodeFacts DEF HnswInv
  <2>2. n \in Stored' /\ (reused' = FALSE => level - 1 \in DOMAIN nodes'[n].layers)
    BY <2>1, <1>1, <1>4 DEF HasLayer
  <2> QED BY <2>2, <1>1, <1>2, <1>4, EnterBeam
<1>10. LinksFollow'
  <2>1. Inserting => DOMAIN links = 0..call.level /\ Floor = call.level /\ call.level \in Nat
    BY CallFacts DEF HnswInv, TypeOK, Inserting, Floor
  <2>2. Inserting => \A l \in DOMAIN links : (l <= level' <=> l <= level) /\ ~(level' < l)
                                             /\ l <= level
    BY <2>1, <1>1, <1>3, <1>5
  <2> QED BY <2>2, <1>1 DEF HnswInv, LinksFollow, Mutual, HasLayer, Inserting
<1>11. EntryLeadsOn'
  BY <1>1, LeadsOnStays DEF HnswInv, Grown
<1>12. FoundAreLive' /\ SearchIsExact'
  BY <1>1, <1>4 DEF FoundAreLive, SearchIsExact
<1> QED BY <1>7, <1>8, <1>9, <1>10, <1>11, <1>12 DEF HnswInv

\* A beam as wide as the index has found every node when it ends on layer 0: what it
\* visited and what it did not are both closed, and the entry point is in one of them.
LEMMA WideBeamFindsAll ==
  ASSUME HnswInv, call # NoCall, Grown, level = 0, Finished, Cardinality(Stored) <= Ef
  PROVE  results = Stored
<1>1. /\ results = visited \cap Stored /\ results \subseteq Stored /\ curr_entry \in visited
      /\ \A n \in (visited \cap Stored) \ candidates : LinksAt(n, level) \subseteq visited
      /\ Ef \in Nat \ {0} /\ curr_entry \in Stored
  BY CallFacts DEF HnswInv, BeamInv, TypeOK
<1>2. CASE candidates = {}
  <2> DEFINE S == visited \cap Stored
             T == Stored \ visited
  <2>1. \A n \in Stored : HasLayer(n, 0)
    BY NodeFacts DEF HnswInv
  <2>2. ClosedAt(S, 0)
    BY <1>1, <1>2 DEF ClosedAt
  <2>3. ClosedAt(T, 0)
    <3>1. ASSUME NEW a \in T, NEW b \in LinksAt(a, 0) \cap Stored, b \in visited
          PROVE  FALSE
      <4>1. a \in Stored /\ b \in nodes[a].layers[0] /\ 0 \in DOMAIN nodes[a].layers
        BY <3>1 DEF LinksAt
      <4>2. a \in nodes[b].layers[0] /\ 0 \in DOMAIN nodes[b].layers
        BY <4>1, <3>1 DEF HnswInv, LinksFollow, Mutual, HasLayer, Grown
      <4>3. a \in LinksAt(b, 0) /\ b \in (visited \cap Stored) \ candidates
        BY <4>2, <3>1, <1>2 DEF LinksAt
      <4> QED BY <4>3, <3>1, <1>1
    <3> QED BY <3>1 DEF ClosedAt
  <2>4. /\ entry_point # NoId /\ entry_point \in Stored /\ 0 \in 0..current_level
    <3>1. current_level \in Nat
      BY CallFacts DEF HnswInv
    <3> QED BY <3>1, <1>1 DEF HnswInv, IdsFollow, TypeOK, Grown
  <2>5. entry_point \in S \/ entry_point \in T
    BY <2>4
  <2>6. ASSUME NEW U \in SUBSET Stored, entry_point \in U, ClosedAt(U, 0)
        PROVE  Stored \subseteq U
    BY <2>6, <2>1, <2>4 DEF HnswInv, EntryLeadsOn
  <2>7. entry_point \notin T
    BY <2>3, <2>6, <1>1
  <2> QED BY <2>2, <2>5, <2>6, <2>7, <1>1
<1>3. CASE candidates # {}
  <2>1. Cardinality(results) >= Ef
    BY <1>3 DEF Finished
  <2>2. Cardinality(results) <= Cardinality(Stored) /\ Cardinality(results) \in Nat
        /\ Cardinality(Stored) \in Nat
    BY <1>1, StoredAreFinite, FS_Subset DEF HnswInv
  <2>3. Cardinality(results) = Cardinality(Stored)
    BY <2>1, <2>2, <1>1
  <2> QED BY <2>3, <1>1, StoredAreFinite, FS_Subset DEF HnswInv
<1> QED BY <1>2, <1>3

LEMMA AnswerKeeps ==
  ASSUME HnswInv, Answer
  PROVE  HnswInv'
<1>1. /\ call # NoCall /\ call.kind = "search" /\ Finished /\ ~(level > Floor) /\ call' = NoCall
      /\ UNCHANGED <<indexVars, links, panicked, historyVars>>
      /\ visited' = {} /\ candidates' = {} /\ results' = {}
      /\ nodes' = nodes /\ Stored' = Stored /\ removes' = removes /\ reused' = reused
      /\ live' = live /\ known' = known /\ inserts' = inserts /\ panicked' = panicked
      /\ entry_point' = entry_point /\ current_level' = current_level /\ links' = links
  BY DEF Answer, Idle, indexVars, historyVars, Stored, Descending, Leave
<1>2. PICK ids \in Nearest(call.vector, results, call.k) :
        answer' = [vector |-> call.vector, k |-> call.k, ef |-> call.ef, ids |-> ids]
  BY DEF Answer
<1>3. /\ results \subseteq Stored /\ Stored \subseteq live /\ Stored \subseteq Id
      /\ call.k \in Nat \ {0} /\ call.vector \in Query /\ call.k \in Ks /\ call.ef \in Efs
      /\ level = 0 /\ call.ef \in Nat
  <2>1. Floor = 0
    BY <1>1 DEF Floor
  <2> QED BY <2>1, <1>1, CallFacts DEF HnswInv, BeamInv, IdsFollow, TypeOK
<1>4. ids \subseteq results
  <2>1. IsFiniteSet(results)
    BY <1>3, StoredAreFinite DEF HnswInv
  <2> QED BY <2>1, <1>3, NearestFacts
<1>5. TypeOK'
  <2>1. answer' \in [vector : Query, k : Ks, ef : Efs, ids : SUBSET Id]
    BY <1>2, <1>3, <1>4
  <2> QED BY <2>1, <1>1 DEF HnswInv, TypeOK
<1>6. ~Inserting /\ ~Inserting'
  BY <1>1 DEF Inserting
<1>7. IdsFollow' /\ LinksFollow' /\ EntryLeadsOn'
  BY <1>1, <1>6, QuietKeeps
<1>8. BeamInv'
  BY <1>1 DEF BeamInv
<1>9. FoundAreLive'
  BY <1>1, <1>2, <1>3, <1>4 DEF FoundAreLive
<1>10. SearchIsExact'
  <2>1. answer'.vector = call.vector /\ answer'.k = call.k /\ answer'.ef = call.ef
        /\ answer'.ids = ids
    BY <1>2
  <2>2. Ef = IF call.ef > call.k THEN call.ef ELSE call.k
    BY <1>1, <1>3 DEF Ef, Descending, Floor
  <2>3. ASSUME Grown, Cardinality(Stored) <= Ef
        PROVE  ids \in Nearest(call.vector, Stored, call.k)
    <3>1. results = Stored
      BY <2>3, <1>1, <1>3, WideBeamFindsAll
    <3> QED BY <3>1
  <2>4. Grown' = Grown
    BY <1>1 DEF Grown
  <2>5. \A v, S, n : Nearest(v, S, n)' = Nearest(v, S, n)
    BY <1>1 DEF Nearest, Dist
  <2> QED BY <2>1, <2>2, <2>3, <2>4, <2>5, <1>1 DEF SearchIsExact
<1> QED BY <1>5, <1>7, <1>8, <1>9, <1>10 DEF HnswInv

-----------------------------------------------------------------------------
(* Removals and links *)

LEMMA RemoveKeeps ==
  ASSUME HnswInv, NEW id \in Id, remove(id)
  PROVE  HnswInv'
<1>1. /\ call = NoCall /\ removes < MaxRemoves /\ removes' = removes + 1
      /\ nodes' = [n \in Stored \ {id} |-> nodes[n]]
      /\ live' = live \ {id} /\ answer' = NoAnswer
      /\ entry_point' = entry_point /\ current_level' = current_level /\ call' = call
      /\ visited' = visited /\ candidates' = candidates /\ results' = results
      /\ known' = known /\ reused' = reused /\ inserts' = inserts /\ panicked' = panicked
  BY DEF remove, Idle, beamVars
<1>2. Stored' = Stored \ {id} /\ \A n \in Stored' : nodes'[n] = nodes[n]
  BY <1>1 DEF Stored
<1>3. removes \in Nat /\ removes' \in 0..MaxRemoves /\ removes' # 0
  BY <1>1, HnswAssumption DEF HnswInv, TypeOK, HnswAssumption
<1>4. ~Inserting' /\ ~Grown'
  BY <1>1, <1>3 DEF Inserting, Grown
<1>5. TypeOK'
  BY <1>1, <1>2, <1>3 DEF HnswInv, TypeOK
<1>6. IdsFollow'
  BY <1>1, <1>2, <1>3, <1>4 DEF HnswInv, IdsFollow
<1>7. BeamInv'
  BY <1>1 DEF BeamInv
<1>8. LinksFollow'
  BY <1>1, <1>2, <1>4 DEF HnswInv, LinksFollow, Mutual, HasLayer
<1>9. EntryLeadsOn' /\ FoundAreLive' /\ SearchIsExact'
  BY <1>1, <1>4 DEF EntryLeadsOn, FoundAreLive, SearchIsExact
<1> QED BY <1>5, <1>6, <1>7, <1>8, <1>9 DEF HnswInv

\* A node is node n with the link of the layer searched, if n is in N and has the layer.
Relinked(node, n, N) ==
  /\ node \in [vector : Vector, layers : Layers]
  /\ DOMAIN node.layers = DOMAIN nodes[n].layers
  /\ \A l \in DOMAIN nodes[n].layers :
       node.layers[l] = IF n \in N /\ l = level THEN nodes[n].layers[l] \cup {call.id}
                        ELSE nodes[n].layers[l]

LEMMA LinkedFacts ==
  ASSUME TypeOK, call.id \in Id, NEW N, NEW n \in Stored
  PROVE  Relinked(BackLinked(N)[n], n, N)
<1> DEFINE f == nodes[n].layers
           g == [f EXCEPT ![level] = @ \cup {call.id}]
<1>1. f \in Layers /\ nodes[n].vector \in Vector
      /\ nodes[n] = [vector |-> nodes[n].vector, layers |-> f]
  BY NodeFacts
<1>2. CASE n \in N /\ level \in DOMAIN f
  <2>1. BackLinked(N)[n] = [nodes[n] EXCEPT !.layers = g]
    BY <1>2 DEF BackLinked
  <2>2. BackLinked(N)[n] = [vector |-> nodes[n].vector, layers |-> g]
    BY <2>1, <1>1
  <2>3. g \in Layers
    <3>1. PICK top \in Levels : f \in [0..top -> SUBSET Id]
      BY <1>1 DEF Layers
    <3>2. g \in [0..top -> SUBSET Id]
      BY <3>1, <1>2
    <3> QED BY <3>2 DEF Layers
  <2>4. DOMAIN g = DOMAIN f /\ \A l \in DOMAIN f :
          g[l] = IF l = level THEN f[l] \cup {call.id} ELSE f[l]
    BY <1>2
  <2>5. BackLinked(N)[n].layers = g
        /\ BackLinked(N)[n] \in [vector : Vector, layers : Layers]
    BY <2>2, <2>3, <1>1
  <2> QED BY <2>4, <2>5, <1>2 DEF Relinked
<1>3. CASE ~(n \in N /\ level \in DOMAIN f)
  <2>1. BackLinked(N)[n] = nodes[n]
    BY <1>3 DEF BackLinked
  <2> QED BY <2>1, <1>1, <1>3 DEF Relinked
<1> QED BY <1>2, <1>3

\* What an insert knows when it links a layer.
LEMMA ConnectFacts ==
  ASSUME HnswInv, Connect
  PROVE  /\ call # NoCall /\ call.kind = "insert" /\ Inserting
         /\ call.id \in Id /\ call.vector \in Vector /\ call.level \in Levels
         /\ call.level \in Nat /\ level \in 0..call.level /\ level \in 0..current_level
         /\ current_level \in Nat /\ level \in Nat /\ call.id \in live
         /\ links \in [0..call.level -> SUBSET Id] /\ DOMAIN links = 0..call.level
         /\ curr_entry \in Stored /\ curr_entry \in visited /\ answer = NoAnswer
         /\ ~reused => call.id \notin Stored
         /\ \A N \in Nearest(call.vector, results, M) :
              /\ N # {} /\ N \subseteq Stored
              /\ ~reused => \A n \in N : HasLayer(n, level)
<1>1. /\ call # NoCall /\ call.kind = "insert" /\ ~(level > Floor) /\ Floor = call.level
  BY DEF Connect, Idle, Descending, Floor
<1>2. /\ call.id \in Id /\ call.vector \in Vector /\ call.level \in Levels
      /\ call.level \in Nat /\ level \in Nat /\ current_level \in Nat /\ level <= current_level
  BY <1>1, CallFacts DEF HnswInv
<1>3. level \in 0..call.level /\ level \in 0..current_level
  BY <1>1, <1>2
<1>4. /\ links \in [0..call.level -> SUBSET Id] /\ curr_entry \in Stored
      /\ curr_entry \in visited /\ answer = NoAnswer /\ results \subseteq Stored /\ results # {}
      /\ results \subseteq visited /\ Inserting /\ call.id \in live
      /\ ~reused => call.id \notin Stored /\ \A n \in results : HasLayer(n, level)
  BY <1>1 DEF HnswInv, TypeOK, BeamInv, IdsFollow, Inserting
<1>5. IsFiniteSet(results) /\ M \in Nat \ {0}
  BY <1>4, StoredAreFinite, HnswAssumption DEF HnswInv, HnswAssumption
<1>6. ASSUME NEW N \in Nearest(call.vector, results, M)
      PROVE  N # {} /\ N \subseteq results
  BY <1>4, <1>5, NearestFacts
<1> QED BY <1>1, <1>2, <1>3, <1>4, <1>6

LEMMA ConnectUpperKeeps ==
  ASSUME HnswInv, Connect, level > 0
  PROVE  HnswInv'
<1>1. PICK N \in Nearest(call.vector, results, M) :
        /\ nodes' = BackLinked(N) /\ links' = [links EXCEPT ![level] = N]
        /\ Enter(curr_entry, level - 1) /\ call' = call
  BY DEF Connect
<1>2. /\ UNCHANGED <<entry_point, current_level, answer, panicked, historyVars>>
      /\ entry_point' = entry_point /\ current_level' = current_level /\ answer' = answer
      /\ known' = known /\ live' = live /\ reused' = reused
      /\ inserts' = inserts /\ removes' = removes /\ panicked' = panicked
      /\ curr_entry' = curr_entry /\ level' = level - 1
      /\ visited' = {curr_entry} /\ candidates' = {curr_entry} /\ results' = {curr_entry}
  BY <1>1 DEF Connect, historyVars, Enter
<1>3. /\ call # NoCall /\ call.kind = "insert" /\ Inserting
      /\ call.id \in Id /\ call.level \in Nat /\ level \in 0..call.level
      /\ level \in 0..current_level /\ current_level \in Nat /\ level \in Nat
      /\ links \in [0..call.level -> SUBSET Id] /\ DOMAIN links = 0..call.level
      /\ curr_entry \in Stored /\ curr_entry \in visited /\ answer = NoAnswer
      /\ call.id \in live
      /\ ~reused => call.id \notin Stored
      /\ N # {} /\ N \subseteq Stored /\ (~reused => \A n \in N : HasLayer(n, level))
  BY ConnectFacts, <1>1
<1>4. Stored' = Stored
  BY <1>1 DEF Stored, BackLinked
<1>5. \A n \in Stored :
        /\ nodes'[n] \in [vector : Vector, layers : Layers]
        /\ DOMAIN nodes'[n].layers = DOMAIN nodes[n].layers
        /\ \A l \in DOMAIN nodes[n].layers : nodes'[n].layers[l] =
              IF n \in N /\ l = level THEN nodes[n].layers[l] \cup {call.id}
              ELSE nodes[n].layers[l]
  <2>1. TypeOK
    BY DEF HnswInv
  <2>2. ASSUME NEW n \in Stored
        PROVE  Relinked(BackLinked(N)[n], n, N)
    BY <2>1, <1>3, LinkedFacts
  <2> QED BY <2>2, <1>1 DEF Relinked
<1>6. \A n \in Stored : \A l : HasLayer(n, l)' = HasLayer(n, l)
  BY <1>5 DEF HasLayer
<1>7. /\ links' \in [0..call.level -> SUBSET Id] /\ links'[level] = N
      /\ \A l \in 0..call.level : l # level => links'[l] = links[l]
      /\ DOMAIN links' = 0..call.level
  <2>1. N \subseteq Id
    BY <1>3 DEF HnswInv, TypeOK
  <2> QED BY <2>1, <1>1, <1>3
<1>8. level - 1 \in Nat /\ level - 1 \in 0..current_level /\ level = (level - 1) + 1
  BY <1>3
<1>9. Inserting' = Inserting
  BY <1>1 DEF Inserting
<1>10. TypeOK'
  BY <1>1, <1>2, <1>3, <1>4, <1>5, <1>7, <1>8 DEF HnswInv, TypeOK
<1>11. IdsFollow'
  <2>1. call.id \in known
    BY <1>3 DEF HnswInv, TypeOK
  <2>2. ASSUME NEW n \in Stored, NEW l \in DOMAIN nodes'[n].layers
        PROVE  nodes'[n].layers[l] \subseteq known
    <3>1. l \in DOMAIN nodes[n].layers
      BY <1>5
    <3>2. nodes[n].layers[l] \subseteq known
      BY <3>1 DEF HnswInv, IdsFollow
    <3>3. nodes'[n].layers[l] \subseteq nodes[n].layers[l] \cup {call.id}
      BY <3>1, <1>5
    <3> QED BY <3>2, <3>3, <2>1
  <2>3. ~reused /\ entry_point \in Stored => DOMAIN nodes'[entry_point].layers = 0..current_level
    BY <1>5 DEF HnswInv, IdsFollow
  <2> QED BY <2>2, <2>3, <1>1, <1>2, <1>4, <1>9 DEF HnswInv, IdsFollow
<1>12. BeamInv'
  <2>1. reused' = FALSE => level - 1 \in DOMAIN nodes'[curr_entry].layers
    <3>1. ~reused => HasLayer(curr_entry, level)
      BY <1>3 DEF HnswInv, BeamInv
    <3>2. ~reused => HasLayer(curr_entry, level - 1)
      BY <3>1, <1>3, <1>8, NodeFacts DEF HnswInv
    <3> QED BY <3>2, <1>2, <1>3, <1>5 DEF HasLayer
  <2> QED BY <2>1, <1>1, <1>2, <1>3, <1>4, EnterBeam
<1>13. LinksFollow'
  <2>1. ASSUME ~reused
        PROVE  Mutual'
    <3>1. ASSUME NEW a \in Stored, NEW b \in Stored, NEW l \in DOMAIN nodes[a].layers,
                 b \in nodes'[a].layers[l]
          PROVE  l \in DOMAIN nodes[b].layers /\ a \in nodes'[b].layers[l]
      <4>1. b # call.id
        BY <2>1, <1>3
      <4>2. b \in nodes[a].layers[l]
        BY <4>1, <3>1, <1>5
      <4>3. l \in DOMAIN nodes[b].layers /\ a \in nodes[b].layers[l]
        BY <4>2, <2>1 DEF HnswInv, LinksFollow, Mutual, HasLayer
      <4> QED BY <4>3, <1>5
    <3> QED BY <3>1, <1>4, <1>5, <1>6 DEF Mutual, HasLayer
  <2>2. \A l \in 0..call.level : links'[l] \subseteq Stored /\ (l <= level - 1 => links'[l] = {})
    BY <1>3, <1>7 DEF HnswInv, LinksFollow
  <2>3. ASSUME ~reused, NEW n \in Stored, NEW l \in DOMAIN nodes[n].layers,
               call.id \in nodes'[n].layers[l]
        PROVE  l \in 0..call.level /\ n \in links'[l]
    <3>1. CASE n \in N /\ l = level
      BY <3>1, <1>3, <1>7
    <3>2. CASE ~(n \in N /\ l = level)
      <4>1. call.id \in nodes[n].layers[l]
        BY <3>2, <2>3, <1>5
      <4>2. l \in 0..call.level /\ n \in links[l]
        BY <4>1, <2>3, <1>3 DEF HnswInv, LinksFollow
      <4>3. links[level] = {}
        BY <1>3 DEF HnswInv, LinksFollow
      <4> QED BY <4>2, <4>3, <1>7
    <3> QED BY <3>1, <3>2
  <2>4. ASSUME ~reused, NEW l \in 0..call.level, NEW n \in links'[l]
        PROVE  l \in DOMAIN nodes[n].layers /\ call.id \in nodes'[n].layers[l] /\ n \in Stored
    <3>1. CASE l = level
      <4>1. n \in N /\ HasLayer(n, level) /\ n \in Stored
        BY <3>1, <2>4, <1>3, <1>7
      <4> QED BY <4>1, <3>1, <1>5 DEF HasLayer
    <3>2. CASE l # level
      <4>1. n \in links[l]
        BY <3>2, <2>4, <1>7
      <4>2. HasLayer(n, l) /\ call.id \in nodes[n].layers[l] /\ n \in Stored
        BY <4>1, <2>4, <1>3 DEF HnswInv, LinksFollow
      <4> QED BY <4>2, <1>5 DEF HasLayer
    <3> QED BY <3>1, <3>2
  <2>5. ASSUME ~reused, NEW l \in 0..call.level, level - 1 < l, l <= current_level
        PROVE  links'[l] # {}
    <3>1. CASE l = level
      BY <3>1, <1>3, <1>7
    <3>2. CASE l # level
      <4>1. level < l
        BY <3>2, <2>5, <1>3
      <4>2. links[l] # {}
        BY <4>1, <2>5, <1>3 DEF HnswInv, LinksFollow
      <4> QED BY <4>2, <3>2, <1>7
    <3> QED BY <3>1, <3>2
  <2>6. reused' = FALSE => ~reused
    BY <1>2
  <2>7. /\ \A n \in Stored : \A l \in DOMAIN nodes'[n].layers :
             ~reused /\ call.id \in nodes'[n].layers[l] => l \in DOMAIN links' /\ n \in links'[l]
        /\ \A l \in DOMAIN links' : \A n \in links'[l] : ~reused =>
             l \in DOMAIN nodes'[n].layers /\ call.id \in nodes'[n].layers[l]
        /\ \A l \in DOMAIN links' : ~reused /\ level' < l /\ l <= current_level => links'[l] # {}
    BY <2>3, <2>4, <2>5, <1>2, <1>5, <1>7
  <2> QED BY <2>1, <2>2, <2>7, <1>1, <1>2, <1>4, <1>7, <1>9 DEF LinksFollow, HasLayer
<1>14. EntryLeadsOn'
  <2>1. ASSUME Grown, NEW n \in Stored, NEW l
        PROVE  LinksAt(n, l)' \cap Stored = LinksAt(n, l) \cap Stored
    <3>1. call.id \notin Stored
      BY <2>1, <1>3 DEF Grown
    <3>2. CASE l \in DOMAIN nodes[n].layers
      <4>1. nodes'[n].layers[l] \cap Stored = nodes[n].layers[l] \cap Stored
        BY <3>1, <3>2, <1>5
      <4> QED BY <4>1, <3>2, <1>5 DEF LinksAt
    <3>3. CASE l \notin DOMAIN nodes[n].layers
      BY <3>3, <1>5 DEF LinksAt
    <3> QED BY <3>2, <3>3
  <2>2. Grown' = Grown
    BY <1>2 DEF Grown
  <2>3. ASSUME Grown, entry_point # NoId, NEW l \in 0..current_level, NEW T \in SUBSET Stored,
               entry_point \in T, ClosedAt(T, l)'
        PROVE  {n \in Stored : HasLayer(n, l)'} \subseteq T
    <3>1. ClosedAt(T, l)
      BY <2>1, <2>3, <1>4 DEF ClosedAt
    <3>2. {n \in Stored : HasLayer(n, l)} \subseteq T
      BY <3>1, <2>3 DEF HnswInv, EntryLeadsOn
    <3> QED BY <3>2, <1>6
  <2> QED BY <2>2, <2>3, <1>2, <1>4 DEF EntryLeadsOn
<1>15. FoundAreLive' /\ SearchIsExact'
  BY <1>2, <1>3 DEF FoundAreLive, SearchIsExact
<1> QED BY <1>10, <1>11, <1>12, <1>13, <1>14, <1>15 DEF HnswInv

LEMMA ConnectLastKeeps ==
  ASSUME HnswInv, Connect, ~(level > 0)
  PROVE  HnswInv'
<1> DEFINE id == call.id
<1>1. PICK N \in Nearest(call.vector, results, M) :
        LET new == [links EXCEPT ![level] = N]
            linked == BackLinked(N)
        IN  /\ nodes' = [n \in Stored \cup {call.id} |->
                           IF n = call.id THEN [vector |-> call.vector, layers |-> new]
                           ELSE linked[n]]
            /\ call' = NoCall /\ Leave
  BY DEF Connect
<1> DEFINE new == [links EXCEPT ![level] = N]
<1>2. /\ entry_point' = entry_point /\ current_level' = current_level /\ answer' = answer
      /\ known' = known /\ live' = live /\ reused' = reused /\ call' = NoCall
      /\ inserts' = inserts /\ removes' = removes /\ panicked' = panicked
      /\ visited' = {} /\ candidates' = {} /\ results' = {}
  BY <1>1 DEF Connect, historyVars, Leave
<1>3. /\ call # NoCall /\ call.kind = "insert" /\ Inserting
      /\ id \in Id /\ call.level \in Nat /\ call.level \in Levels /\ call.vector \in Vector
      /\ level \in 0..call.level
      /\ level \in 0..current_level /\ current_level \in Nat /\ level \in Nat
      /\ links \in [0..call.level -> SUBSET Id] /\ DOMAIN links = 0..call.level
      /\ answer = NoAnswer /\ id \in live
      /\ ~reused => id \notin Stored
      /\ N # {} /\ N \subseteq Stored /\ (~reused => \A n \in N : HasLayer(n, level))
  BY ConnectFacts, <1>1
<1>4. level = 0
  BY <1>3
<1>5. /\ Stored' = Stored \cup {id}
      /\ nodes'[id] = [vector |-> call.vector, layers |-> new]
      /\ \A n \in Stored : n # id => nodes'[n] = BackLinked(N)[n]
  BY <1>1 DEF Stored
<1>6. /\ new \in [0..call.level -> SUBSET Id] /\ DOMAIN new = 0..call.level /\ new[0] = N
      /\ \A l \in 0..call.level : l # 0 => new[l] = links[l]
  <2>1. N \subseteq Id
    BY <1>3 DEF HnswInv, TypeOK
  <2> QED BY <2>1, <1>3, <1>4
<1>7. \A l \in 0..call.level : links[l] \subseteq Stored /\ (l <= 0 => links[l] = {})
  BY <1>3, <1>4 DEF HnswInv, LinksFollow
<1>8. nodes'[id].layers = new /\ nodes'[id] \in [vector : Vector, layers : Layers]
  BY <1>3, <1>5, <1>6 DEF Layers
<1> HIDE DEF new
<1>9. \A n \in Stored : n # id =>
        /\ nodes'[n] \in [vector : Vector, layers : Layers]
        /\ DOMAIN nodes'[n].layers = DOMAIN nodes[n].layers
        /\ \A l \in DOMAIN nodes[n].layers : nodes'[n].layers[l] =
              IF n \in N /\ l = 0 THEN nodes[n].layers[l] \cup {id}
              ELSE nodes[n].layers[l]
  <2>1. TypeOK
    BY DEF HnswInv
  <2>2. ASSUME NEW n \in Stored
        PROVE  Relinked(BackLinked(N)[n], n, N)
    BY <2>1, <1>3, LinkedFacts
  <2> QED BY <2>2, <1>4, <1>5 DEF Relinked
<1>10. \A l \in 0..call.level : new[l] \subseteq Stored
  BY <1>3, <1>6, <1>7
<1> HIDE DEF id
<1>11. TypeOK'
  <2>1. Stored' \subseteq Id /\ \A n \in Stored' : nodes'[n] \in [vector : Vector, layers : Layers]
    BY <1>3, <1>5, <1>8, <1>9 DEF HnswInv, TypeOK
  <2> QED BY <2>1, <1>2 DEF HnswInv, TypeOK
<1>12. IdsFollow'
  <2>1. id \in known /\ Stored \subseteq known
    BY <1>3 DEF HnswInv, TypeOK, IdsFollow
  <2>2. ASSUME NEW n \in Stored', NEW l \in DOMAIN nodes'[n].layers
        PROVE  nodes'[n].layers[l] \subseteq known
    <3>1. CASE n = id
      BY <3>1, <2>1, <2>2, <1>6, <1>8, <1>10
    <3>2. CASE n # id
      <4>1. n \in Stored /\ l \in DOMAIN nodes[n].layers
        BY <3>2, <2>2, <1>5, <1>9
      <4>2. nodes[n].layers[l] \subseteq known
        BY <4>1 DEF HnswInv, IdsFollow
      <4>3. nodes'[n].layers[l] \subseteq nodes[n].layers[l] \cup {id}
        BY <4>1, <3>2, <1>9
      <4> QED BY <4>2, <4>3, <2>1
    <3> QED BY <3>1, <3>2
  <2>3. ASSUME ~reused, entry_point \in Stored'
        PROVE  DOMAIN nodes'[entry_point].layers = 0..current_level
    <3>1. entry_point # id
      BY <2>3, <1>3 DEF HnswInv, IdsFollow, id
    <3> QED BY <3>1, <2>3, <1>5, <1>9 DEF HnswInv, IdsFollow
  <2>4. removes = 0 => known = Stored'
    BY <1>3, <1>5 DEF HnswInv, IdsFollow, id
  <2>5. Stored' \subseteq live
    BY <1>3, <1>5 DEF HnswInv, IdsFollow
  <2>6. removes = 0 /\ entry_point # NoId => entry_point \in Stored'
    BY <1>5 DEF HnswInv, IdsFollow
  <2>7. entry_point = NoId => known = {}
    BY DEF HnswInv, IdsFollow
  <2> QED BY <2>2, <2>3, <2>4, <2>5, <2>6, <2>7, <1>2 DEF IdsFollow, Inserting
<1>13. BeamInv' /\ ~Inserting'
  BY <1>2 DEF BeamInv, Inserting
<1>14. ASSUME ~reused, NEW b, NEW l \in 0..call.level, b \in new[l]
       PROVE  /\ b \in Stored /\ b # id /\ HasLayer(b, l)
              /\ l \in DOMAIN nodes'[b].layers /\ id \in nodes'[b].layers[l]
  <2>1. b \in Stored /\ b # id
    BY <1>3, <1>10, <1>14
  <2>2. CASE l = 0
    <3>1. b \in N /\ HasLayer(b, 0)
      BY <2>2, <1>3, <1>4, <1>6, <1>14
    <3> QED BY <3>1, <2>1, <2>2, <1>9 DEF HasLayer
  <2>3. CASE l # 0
    <3>1. b \in links[l]
      BY <2>3, <1>6, <1>14
    <3>2. HasLayer(b, l) /\ id \in nodes[b].layers[l]
      BY <3>1, <1>3, <1>14 DEF HnswInv, LinksFollow, id
    <3> QED BY <3>2, <2>1, <1>9 DEF HasLayer
  <2> QED BY <2>2, <2>3
<1>15. LinksFollow'
  <2>1. ASSUME ~reused, NEW a \in Stored', NEW b \in Stored', NEW l \in DOMAIN nodes'[a].layers,
               b \in nodes'[a].layers[l]
        PROVE  l \in DOMAIN nodes'[b].layers /\ a \in nodes'[b].layers[l]
    <3>1. CASE a = id
      BY <3>1, <2>1, <1>6, <1>8, <1>14
    <3>2. CASE a # id /\ b # id
      <4>1. a \in Stored /\ b \in Stored /\ l \in DOMAIN nodes[a].layers
        BY <3>2, <2>1, <1>5, <1>9
      <4>2. b \in nodes[a].layers[l]
        BY <4>1, <3>2, <2>1, <1>9
      <4>3. l \in DOMAIN nodes[b].layers /\ a \in nodes[b].layers[l]
        BY <4>1, <4>2, <2>1 DEF HnswInv, LinksFollow, Mutual, HasLayer
      <4> QED BY <4>1, <4>3, <3>2, <1>9
    <3>3. CASE a # id /\ b = id
      <4>1. a \in Stored /\ l \in DOMAIN nodes[a].layers
        BY <3>3, <2>1, <1>5, <1>9
      <4>2. CASE a \in N /\ l = 0
        BY <4>2, <3>3, <1>3, <1>6, <1>8
      <4>3. CASE ~(a \in N /\ l = 0)
        <5>1. id \in nodes[a].layers[l]
          BY <4>1, <4>3, <3>3, <2>1, <1>9
        <5>2. l \in 0..call.level /\ a \in links[l]
          BY <5>1, <4>1, <2>1, <1>3 DEF HnswInv, LinksFollow, id
        <5>3. l # 0
          BY <5>2, <1>7
        <5> QED BY <5>2, <5>3, <3>3, <1>6, <1>8
      <4> QED BY <4>2, <4>3
    <3> QED BY <3>1, <3>2, <3>3
  <2> QED BY <2>1, <1>2, <1>13 DEF LinksFollow, Mutual, HasLayer
<1>16. EntryLeadsOn'
  <2>1. ASSUME Grown, entry_point # NoId, NEW l \in 0..current_level, NEW T \in SUBSET Stored',
               entry_point \in T, ClosedAt(T, l)', NEW n \in Stored', l \in DOMAIN nodes'[n].layers
        PROVE  n \in T
    <3> DEFINE S == T \cap Stored
    <3>1. ~reused /\ id \notin Stored /\ entry_point \in S
      BY <2>1, <1>3 DEF Grown, HnswInv, IdsFollow
    <3>2. ASSUME NEW m \in Stored
          PROVE  /\ HasLayer(m, l) <=> l \in DOMAIN nodes'[m].layers
                 /\ LinksAt(m, l) \subseteq LinksAt(m, l)'
      BY <3>1, <3>2, <1>9 DEF HasLayer, LinksAt
    <3>3. ClosedAt(S, l)
      <4>1. ASSUME NEW m \in S, NEW x \in LinksAt(m, l) \cap Stored
            PROVE  x \in T
        <5>1. x \in LinksAt(m, l)' \cap Stored'
          BY <4>1, <3>2, <1>5
        <5> QED BY <5>1, <2>1 DEF ClosedAt
      <4> QED BY <4>1 DEF ClosedAt
    <3>4. \A m \in Stored : HasLayer(m, l) => m \in S
      BY <3>1, <3>3, <2>1 DEF HnswInv, EntryLeadsOn
    <3>5. CASE n \in Stored
      BY <3>5, <3>2, <3>4, <2>1
    <3>6. CASE n \notin Stored
      <4>1. n = id /\ l \in 0..call.level
        BY <3>6, <2>1, <1>5, <1>6, <1>8
      <4>2. new[l] # {}
        <5>1. CASE l = 0
          BY <5>1, <1>3, <1>6
        <5>2. CASE l # 0
          <6>1. level < l /\ l <= current_level
            BY <5>2, <4>1, <2>1, <1>3, <1>4
          <6>2. links[l] # {}
            BY <6>1, <4>1, <3>1, <1>3 DEF HnswInv, LinksFollow
          <6> QED BY <6>2, <5>2, <4>1, <1>6
        <5> QED BY <5>1, <5>2
      <4>3. PICK m : m \in new[l]
        BY <4>2
      <4>4. m \in Stored /\ HasLayer(m, l) /\ l \in DOMAIN nodes'[m].layers
            /\ id \in nodes'[m].layers[l]
        BY <4>1, <4>3, <3>1, <1>14
      <4>5. m \in T
        BY <4>4, <3>4
      <4>6. id \in LinksAt(m, l)' \cap Stored'
        BY <4>4, <1>5 DEF LinksAt
      <4> QED BY <4>1, <4>5, <4>6, <2>1 DEF ClosedAt
    <3> QED BY <3>5, <3>6
  <2>2. Grown' = Grown
    BY <1>2 DEF Grown
  <2> QED BY <2>1, <2>2, <1>2 DEF EntryLeadsOn, HasLayer
<1>17. FoundAreLive' /\ SearchIsExact'
  BY <1>2, <1>3 DEF FoundAreLive, SearchIsExact
<1> QED BY <1>11, <1>12, <1>13, <1>15, <1>16, <1>17 DEF HnswInv

-----------------------------------------------------------------------------
(* The calls that end at once, and the theorems *)

LEMMA SearchEmptyKeeps ==
  ASSUME HnswInv, NEW v \in Query, NEW k \in Ks, NEW ef \in Efs, SearchEmpty(v, k, ef)
  PROVE  HnswInv'
<1> DEFINE ans == [vector |-> v, k |-> k, ef |-> ef, ids |-> {}]
<1>1. /\ call = NoCall /\ entry_point = NoId /\ answer' = ans
      /\ UNCHANGED <<indexVars, call, beamVars, links, panicked, historyVars>>
      /\ nodes' = nodes /\ call' = call /\ live' = live /\ Stored' = Stored
  BY DEF SearchEmpty, Idle, indexVars, historyVars, Stored
<1>2. Stored = {}
  BY <1>1 DEF HnswInv, IdsFollow, TypeOK
<1>3. ans.vector = v /\ ans.k = k /\ ans.ef = ef /\ ans.ids = {}
      /\ ans \in [vector : Query, k : Ks, ef : Efs, ids : SUBSET Id]
  OBVIOUS
<1> HIDE DEF ans
<1>4. TypeOK'
  <2>1. /\ entry_point' = entry_point /\ current_level' = current_level /\ panicked' = panicked
        /\ known' = known /\ reused' = reused /\ inserts' = inserts /\ removes' = removes
        /\ visited' = visited /\ candidates' = candidates /\ results' = results
    BY <1>1 DEF indexVars, historyVars, beamVars
  <2> QED BY <2>1, <1>1, <1>3 DEF HnswInv, TypeOK
<1>5. ~Inserting /\ ~Inserting'
  BY <1>1 DEF Inserting
<1>6. IdsFollow' /\ LinksFollow' /\ EntryLeadsOn'
  BY <1>1, <1>5, QuietKeeps
<1>7. BeamInv'
  BY <1>1 DEF BeamInv
<1>8. FoundAreLive'
  BY <1>1, <1>3 DEF FoundAreLive
<1>9. SearchIsExact'
  <2>1. ans.ids \in Nearest(v, {}, k)'
    <3>1. Cardinality({}) = 0 /\ k \in Nat
      BY FS_EmptySet, HnswAssumption DEF HnswAssumption
    <3> QED BY <3>1, <1>3 DEF Nearest, kSubset
  <2> QED BY <2>1, <1>1, <1>2, <1>3 DEF SearchIsExact
<1> QED BY <1>4, <1>6, <1>7, <1>8, <1>9 DEF HnswInv

LEMMA PanicKeeps ==
  ASSUME HnswInv, Panic
  PROVE  HnswInv'
<1>1. /\ call = NoCall /\ answer' = NoAnswer /\ panicked' = TRUE
      /\ UNCHANGED <<indexVars, call, beamVars, links, historyVars>>
      /\ nodes' = nodes /\ call' = call /\ Stored' = Stored
  BY DEF Panic, Idle, indexVars, Stored
<1>2. TypeOK'
  <2>1. /\ entry_point' = entry_point /\ current_level' = current_level
        /\ known' = known /\ live' = live /\ reused' = reused
        /\ inserts' = inserts /\ removes' = removes
        /\ visited' = visited /\ candidates' = candidates /\ results' = results
    BY <1>1 DEF indexVars, historyVars, beamVars
  <2> QED BY <2>1, <1>1 DEF HnswInv, TypeOK
<1>3. ~Inserting /\ ~Inserting'
  BY <1>1 DEF Inserting
<1>4. IdsFollow' /\ LinksFollow' /\ EntryLeadsOn'
  BY <1>1, <1>3, QuietKeeps
<1> QED BY <1>1, <1>2, <1>4 DEF HnswInv, BeamInv, FoundAreLive, SearchIsExact

LEMMA StutterKeeps ==
  ASSUME HnswInv, UNCHANGED vars
  PROVE  HnswInv'
<1>1. /\ nodes' = nodes /\ entry_point' = entry_point /\ current_level' = current_level
      /\ call' = call /\ curr_entry' = curr_entry /\ level' = level /\ visited' = visited
      /\ candidates' = candidates /\ results' = results /\ links' = links /\ answer' = answer
      /\ panicked' = panicked /\ known' = known /\ live' = live /\ reused' = reused
      /\ inserts' = inserts /\ removes' = removes /\ UNCHANGED indexVars
  BY DEF vars, indexVars, beamVars, historyVars
<1>2. Stored' = Stored /\ \A n, l : LinksAt(n, l)' = LinksAt(n, l) /\ HasLayer(n, l)' = HasLayer(n, l)
  BY <1>1 DEF Stored, LinksAt, HasLayer
<1>3. Inserting' = Inserting /\ Ef' = Ef
  BY <1>1 DEF Inserting, Ef, Descending, Floor
<1>4. TypeOK' /\ IdsFollow' /\ BeamInv'
  BY <1>1, <1>2, <1>3 DEF HnswInv, TypeOK, IdsFollow, BeamInv
<1>5. LinksFollow'
  BY <1>1, <1>2, <1>3 DEF HnswInv, LinksFollow, Mutual
<1>6. EntryLeadsOn'
  BY <1>1, LeadsOnStays DEF HnswInv, Grown
<1>7. FoundAreLive'
  BY <1>1 DEF HnswInv, FoundAreLive
<1>8. SearchIsExact'
  BY <1>1, <1>2 DEF HnswInv, SearchIsExact, Grown, Nearest, Dist
<1> QED BY <1>4, <1>5, <1>6, <1>7, <1>8 DEF HnswInv

LEMMA HnswStarts ==
  ASSUME Init
  PROVE  HnswInv
<1>1. Stored = {} /\ call = NoCall /\ answer = NoAnswer /\ entry_point = NoId
  BY DEF Init, Stored
<1>2. TypeOK
  <2>1. 0 \in 0..MaxInserts /\ 0 \in 0..MaxRemoves
    BY HnswAssumption DEF HnswAssumption
  <2> QED BY <2>1, <1>1 DEF Init, TypeOK
<1>3. ~Inserting
  BY <1>1 DEF Inserting
<1>4. IdsFollow
  <2>1. known = {} /\ live = {}
    BY DEF Init
  <2>2. entry_point \notin Stored
    BY <1>1
  <2> QED BY <2>1, <2>2, <1>1, <1>3 DEF IdsFollow
<1> QED BY <1>1, <1>2, <1>3, <1>4
        DEF HnswInv, BeamInv, LinksFollow, Mutual, EntryLeadsOn, FoundAreLive, SearchIsExact

\* The invariant that every call of insert, search and remove of hnsw.rs keeps, at each
\* iteration of its search of a layer.
THEOREM HnswInvariant == Spec => []HnswInv
<1>1. Init => HnswInv
  BY HnswStarts
<1>2. HnswInv /\ [Next]_vars => HnswInv'
  <2> SUFFICES ASSUME HnswInv, [Next]_vars PROVE HnswInv'
    OBVIOUS
  <2>1. ASSUME NEW id \in Id, NEW v \in Vector, NEW lev \in Levels,
               InsertFirst(id, v, lev) \/ StartInsert(id, v, lev)
        PROVE  HnswInv'
    BY <2>1, InsertFirstKeeps, StartInsertKeeps
  <2>2. ASSUME NEW v \in Query, NEW k \in Ks, NEW ef \in Efs,
               StartSearch(v, k, ef) \/ SearchEmpty(v, k, ef)
        PROVE  HnswInv'
    BY <2>2, StartSearchKeeps, SearchEmptyKeeps
  <2>3. ASSUME NEW id \in Id, remove(id)
        PROVE  HnswInv'
    BY <2>3, RemoveKeeps
  <2>4. CASE Panic
    BY <2>4, PanicKeeps
  <2>5. CASE Expand
    BY <2>5, ExpandKeeps
  <2>6. CASE Descend
    BY <2>6, DescendKeeps
  <2>7. CASE Connect
    BY <2>7, ConnectUpperKeeps, ConnectLastKeeps
  <2>8. CASE Answer
    BY <2>8, AnswerKeeps
  <2>9. CASE UNCHANGED vars
    BY <2>9, StutterKeeps
  <2> QED BY <2>1, <2>2, <2>3, <2>4, <2>5, <2>6, <2>7, <2>8, <2>9 DEF Next, Work
<1> QED BY <1>1, <1>2, PTL DEF Spec

\* The types of the index and of the call under way, whatever links removed or repeated
\* ids have left.
THEOREM HnswTypeCorrect == Spec => []TypeOK
<1>1. HnswInv => TypeOK
  BY DEF HnswInv
<1> QED BY <1>1, HnswInvariant, PTL

\* A step ends the call or goes down a layer; or else it marks a node or, if all links of
\* the candidate it expands were followed before, has a candidate less.
CallGoesOn ==
  ~Idle =>
    \/ Idle'
    \/ level \in Nat /\ level' \in Nat /\ level' < level
    \/ /\ level' = level
       /\ visited \subseteq visited' /\ visited' \subseteq Id
       /\ \/ visited' # visited
          \/ candidates' \subseteq candidates /\ candidates' # candidates

\* Why a call ends, once it takes its steps, whatever links removed or repeated ids have
\* left: the layers, the finitely many ids and the candidates only run down.
THEOREM CallsGoOn == Spec => [][CallGoesOn]_vars
<1>1. ASSUME TypeOK, TypeOK', [Next]_vars PROVE [CallGoesOn]_vars
  <2> SUFFICES ASSUME Next, ~Idle, ~Idle' PROVE CallGoesOn
    BY <1>1 DEF CallGoesOn
  <2>1. level \in Nat /\ visited' \subseteq Id /\ candidates \subseteq visited
    BY <1>1, CallFacts DEF Idle, TypeOK
  <2>2. CASE Expand
    <3>1. PICK c \in candidates :
            /\ candidates' = (candidates \ {c}) \cup ((LinksAt(c, level) \ visited) \cap Stored)
            /\ visited' = visited \cup LinksAt(c, level) /\ level' = level
      BY <2>2 DEF Expand
    <3>2. CASE LinksAt(c, level) \subseteq visited
      BY <2>1, <3>1, <3>2 DEF CallGoesOn
    <3>3. CASE ~(LinksAt(c, level) \subseteq visited)
      BY <2>1, <3>1, <3>3 DEF CallGoesOn
    <3> QED BY <3>2, <3>3
  <2>3. CASE Descend
    <3>1. level' = level - 1 /\ level > Floor /\ Floor \in Nat
      BY <1>1, <2>3, CallFacts DEF Descend, Descending, Enter, Idle
    <3> QED BY <2>1, <3>1 DEF CallGoesOn
  <2>4. CASE Connect
    <3>1. level > 0 /\ level' = level - 1
      BY <2>4 DEF Connect, Enter, Idle
    <3> QED BY <2>1, <3>1 DEF CallGoesOn
  <2>5. CASE Answer
    BY <2>5 DEF Answer, Idle
  <2> QED BY <2>2, <2>3, <2>4, <2>5
          DEF Next, Work, InsertFirst, StartInsert, StartSearch, SearchEmpty, remove, Panic
<1> QED BY <1>1, HnswTypeCorrect, PTL DEF Spec

\* search never returns an id that remove took out, although links to it stay.
THEOREM SearchesFindTheLive == Spec => []FoundAreLive
<1>1. HnswInv => FoundAreLive
  BY DEF HnswInv
<1> QED BY <1>1, HnswInvariant, PTL

\* Why searching with a beam as wide as the index is exact: in an index that has only
\* grown, search_layer ends on layer 0 with every node among its results.
THEOREM WideSearchesAreExact == Spec => []SearchIsExact
<1>1. HnswInv => SearchIsExact
  BY DEF HnswInv
<1> QED BY <1>1, HnswInvariant, PTL

-----------------------------------------------------------------------------
(* What a search of a layer can come to *)

OneLinkOn(B, l) == B \cup UNION {LinksAt(n, l) : n \in B}

\* The functions that satisfy the equation by which Reached(l) is defined.
IsReach(f, l, k) ==
  f = [i \in 0..k |-> IF i = 0 THEN {entry_point}
                      ELSE f[i - 1] \cup UNION {LinksAt(n, l) : n \in f[i - 1]}]

LEMMA ReachExists ==
  ASSUME NEW l, NEW k \in Nat
  PROVE  \E f : IsReach(f, l, k)
<1> DEFINE T == {j \in Nat : ~\E f : IsReach(f, l, j)}
<1>1. SUFFICES ASSUME T # {} PROVE FALSE
  OBVIOUS
<1>2. PICK m \in T : \A j \in T : m <= j
  BY <1>1, LeastNatural
<1>3. CASE m = 0
  <2> DEFINE f == [j \in 0..0 |-> {entry_point}]
  <2>1. IsReach(f, l, 0)
    BY DEF IsReach
  <2> QED BY <2>1, <1>2, <1>3
<1>4. CASE m # 0
  <2>1. m \in Nat /\ m - 1 \in Nat /\ ~(m <= m - 1)
    BY <1>4
  <2>2. PICK g : IsReach(g, l, m - 1)
    BY <2>1, <1>2
  <2> DEFINE f == [j \in 0..m |-> IF j = m THEN OneLinkOn(g[m - 1], l) ELSE g[j]]
  <2>3. ASSUME NEW j \in 0..m
        PROVE  f[j] = IF j = 0 THEN {entry_point} ELSE OneLinkOn(f[j - 1], l)
    <3>1. j = 0 \/ j - 1 \in 0..(m - 1)
      BY <2>1
    <3>2. j = m \/ j \in 0..(m - 1)
      BY <2>1
    <3>3. \A i \in 0..(m - 1) : i # m /\ f[i] = g[i]
      BY <2>1
    <3>4. CASE j = m
      BY <3>4, <3>1, <3>3, <1>4
    <3>5. CASE j \in 0..(m - 1)
      <4>1. f[j] = g[j]
        BY <3>5, <3>3
      <4>2. g[j] = IF j = 0 THEN {entry_point} ELSE OneLinkOn(g[j - 1], l)
        BY <3>5, <2>2 DEF IsReach, OneLinkOn
      <4>3. j # 0 => f[j - 1] = g[j - 1]
        BY <3>1, <3>3
      <4> QED BY <4>1, <4>2, <4>3
    <3> QED BY <3>2, <3>4, <3>5
  <2>4. f = [j \in 0..m |-> IF j = 0 THEN {entry_point} ELSE OneLinkOn(f[j - 1], l)]
    BY <2>3
  <2> HIDE DEF f
  <2>5. IsReach(f, l, m)
    BY <2>4 DEF IsReach, OneLinkOn
  <2> QED BY <2>5, <1>2
<1> QED BY <1>3, <1>4

\* In an index that has only grown, a search of a layer that goes on for as many links as
\* there are nodes leaves none behind it: each link that finds a node finds a new one.
LEMMA ReachIsClosed ==
  ASSUME HnswInv, Idle, Grown, entry_point # NoId, NEW l, NEW f,
         IsReach(f, l, Cardinality(Stored))
  PROVE  LET R == f[Cardinality(Stored)] IN
           R \subseteq Stored /\ entry_point \in R /\ ClosedAt(R, l)
<1> DEFINE N == Cardinality(Stored)
           P(i) == /\ f[i] \subseteq Stored /\ entry_point \in f[i]
                   /\ ClosedAt(f[i], l) \/ Cardinality(f[i]) > i
<1>1. /\ IsFiniteSet(Stored) /\ N \in Nat
      /\ \A S \in SUBSET Stored : IsFiniteSet(S) /\ Cardinality(S) \in Nat /\ Cardinality(S) <= N
  BY StoredAreFinite, FS_Subset DEF HnswInv
<1>2. entry_point \in Stored /\ known = Stored
  BY DEF HnswInv, IdsFollow, Grown, Idle, Inserting
<1>3. \A n \in Stored : LinksAt(n, l) \subseteq Stored
  BY <1>2 DEF HnswInv, IdsFollow, LinksAt
<1> HIDE DEF N
<1>4. f = [i \in 0..N |-> IF i = 0 THEN {entry_point} ELSE OneLinkOn(f[i - 1], l)]
  BY DEF IsReach, OneLinkOn, N
<1>5. \A i \in 0..N : f[i] = IF i = 0 THEN {entry_point} ELSE OneLinkOn(f[i - 1], l)
  BY <1>4
<1>6. P(0)
  <2>1. f[0] = {entry_point}
    BY <1>1, <1>5
  <2>2. Cardinality({entry_point}) = 1
    BY FS_Singleton
  <2> QED BY <2>1, <2>2, <1>2
<1>7. ASSUME NEW i \in Nat, i + 1 <= N, P(i)
      PROVE  P(i + 1)
  <2>1. f[i + 1] = OneLinkOn(f[i], l)
    <3>1. i + 1 \in 0..N /\ i + 1 # 0 /\ (i + 1) - 1 = i
      BY <1>1, <1>7
    <3> QED BY <3>1, <1>5
  <2>2. f[i + 1] \subseteq Stored /\ f[i] \subseteq f[i + 1] /\ f[i] \subseteq Stored
    BY <2>1, <1>3, <1>7 DEF OneLinkOn
  <2>3. CASE ClosedAt(f[i], l)
    <3>1. f[i + 1] = f[i]
      BY <2>1, <2>2, <2>3, <1>3 DEF OneLinkOn, ClosedAt
    <3> QED BY <3>1, <2>3, <1>7
  <2>4. CASE ~ClosedAt(f[i], l)
    <3>1. f[i + 1] # f[i]
      BY <2>1, <2>4 DEF OneLinkOn, ClosedAt
    <3>2. Cardinality(f[i]) <= Cardinality(f[i + 1])
          /\ Cardinality(f[i]) # Cardinality(f[i + 1])
      BY <3>1, <2>2, <1>1, FS_Subset
    <3>3. Cardinality(f[i]) > i
      BY <2>4, <1>7
    <3>4. Cardinality(f[i]) \in Nat /\ Cardinality(f[i + 1]) \in Nat
      BY <2>2, <1>1
    <3>5. Cardinality(f[i + 1]) > i + 1
      BY <3>2, <3>3, <3>4
    <3> QED BY <3>5, <2>2, <1>7
  <2> QED BY <2>3, <2>4
<1> HIDE DEF P
<1>8. P(N)
  <2> DEFINE T == {i \in Nat : i <= N /\ ~P(i)}
  <2>1. SUFFICES ASSUME T # {} PROVE FALSE
    BY <1>1
  <2>2. PICK m \in T : \A j \in T : m <= j
    BY <2>1, LeastNatural
  <2>3. m # 0
    BY <2>2, <1>6
  <2>4. m - 1 \in Nat /\ (m - 1) + 1 = m /\ m - 1 <= N /\ ~(m <= m - 1)
    BY <2>2, <2>3, <1>1
  <2>5. P(m - 1)
    BY <2>2, <2>4
  <2> QED BY <2>2, <2>4, <2>5, <1>7
<1>9. ~(Cardinality(f[N]) > N)
  BY <1>1, <1>8 DEF P
<1> QED BY <1>8, <1>9 DEF P, N

\* A node that no search could come to would be outside that set.
LEMMA LayersLeadOn ==
  ASSUME HnswInv
  PROVE  LayersAreConnected
<1>1. LinksAreMutual
  BY DEF HnswInv, LinksFollow, LinksAreMutual, Mutual, HasLayer
<1>2. ASSUME Idle, Grown, entry_point # NoId, NEW l \in 0..current_level
      PROVE  {n \in Stored : l \in DOMAIN nodes[n].layers} \subseteq Reached(l)
  <2> DEFINE N == Cardinality(Stored)
             reach == CHOOSE f : IsReach(f, l, N)
  <2>1. N \in Nat
    BY StoredAreFinite DEF HnswInv
  <2>2. IsReach(reach, l, N)
    BY <2>1, ReachExists
  <2>3. Reached(l) = reach[N]
    BY DEF Reached, IsReach
  <2> HIDE DEF reach
  <2>4. reach[N] \subseteq Stored /\ entry_point \in reach[N] /\ ClosedAt(reach[N], l)
    BY <2>2, <1>2, ReachIsClosed
  <2>5. {n \in Stored : HasLayer(n, l)} \subseteq reach[N]
    BY <2>4, <1>2 DEF HnswInv, EntryLeadsOn
  <2> QED BY <2>3, <2>5 DEF HasLayer
<1> QED BY <1>1, <1>2 DEF LayersAreConnected, EveryLayerIsReachable

\* Links are made both ways and none is dropped; an index that has only grown leads from
\* its entry point to every node, on each layer that the node and the index have.
THEOREM NoNodeIsCutOff == Spec => []LayersAreConnected
<1>1. HnswInv => LayersAreConnected
  BY LayersLeadOn
<1> QED BY <1>1, HnswInvariant, PTL

-----------------------------------------------------------------------------
(* The adjacency index *)

\* The edges are in the order of their sources.
Sorted(es) == \A i, j \in DOMAIN es : i < j => es[i].from <= es[j].from

Columns(s) == [i \in DOMAIN s |-> [to |-> s[i].to, type |-> s[i].type]]

\* The first n edges of s lie under m ids that increase, each with the place of its first
\* edge, and every edge of an id between its place and the next one's.
Lying(ids, ptr, s, m, n) ==
  /\ m > 0 => ptr[1] = 0
  /\ \A i \in 1..m : ptr[i] < n
  /\ \A i \in 1..(m - 1) : ptr[i] < ptr[i + 1]
  /\ \A i, j \in 1..m : i < j => ids[i] < ids[j]
  /\ \A i \in 1..m : \A k \in 1..n :
       s[k].from = ids[i] <=> ptr[i] < k /\ (i < m => k <= ptr[i + 1])
  /\ \A k \in 1..n : \E i \in 1..m : s[k].from = ids[i]

\* What a copy of s has before its sentinel.
Open(ids, ptr, s) == Len(ptr) = Len(ids) /\ Lying(ids, ptr, s, Len(ids), Len(s))

\* A copy of s: the rows partition the columns, one for each source there is.
Compressed(c, s) ==
  /\ Len(c.rowPtr) = Len(c.fromIds) + 1
  /\ c.col = Columns(s)
  /\ c.rowPtr[1] = 0 /\ c.rowPtr[Len(c.fromIds) + 1] = Len(s)
  /\ \A i \in 1..(Len(c.fromIds) + 1) : c.rowPtr[i] <= Len(s)
  /\ \A i \in 1..Len(c.fromIds) : c.rowPtr[i] < c.rowPtr[i + 1]
  /\ \A i, j \in 1..Len(c.fromIds) : i < j => c.fromIds[i] < c.fromIds[j]
  /\ \A i \in 1..Len(c.fromIds) : \A k \in 1..Len(s) :
       s[k].from = c.fromIds[i] <=> c.rowPtr[i] < k /\ k <= c.rowPtr[i + 1]
  /\ \A k \in 1..Len(s) : \E i \in 1..Len(c.fromIds) : s[k].from = c.fromIds[i]

GraphInv ==
  /\ GraphTypeOK /\ OutgoingAreKept
  /\ ~dirty => Sorted(edges) /\ Compressed(csr, edges)

-----------------------------------------------------------------------------
(* Building the copy *)

\* One more edge, of the last source or of a later one.
LEMMA OpenMore ==
  ASSUME NEW ids \in Seq(Int), NEW ptr \in Seq(Nat), NEW r \in Seq(Edge), NEW x \in Edge,
         \A e \in Edge : e.from \in Int,
         Sorted(Append(r, x)), Open(ids, ptr, r)
  PROVE  IF ids # <<>> /\ ids[Len(ids)] = x.from THEN Open(ids, ptr, Append(r, x))
         ELSE Open(Append(ids, x.from), Append(ptr, Len(r)), Append(r, x))
<1>1. PICK m \in Nat : m = Len(ids)
  OBVIOUS
<1>2. PICK n \in Nat : n = Len(r)
  OBVIOUS
<1>3. PICK s : s = Append(r, x)
  OBVIOUS
<1>4. /\ Len(s) = n + 1 /\ s[n + 1] = x /\ \A k \in 1..n : s[k] = r[k] /\ k \in 1..(n + 1)
      /\ \A k \in 1..(n + 1) : k \in 1..n \/ k = n + 1
  BY <1>2, <1>3
<1>5. /\ Len(ptr) = m /\ (m > 0 => ptr[1] = 0)
      /\ \A i \in 1..m : ptr[i] \in Nat /\ ids[i] \in Int /\ ptr[i] < n
      /\ \A i \in 1..(m - 1) : ptr[i] < ptr[i + 1]
      /\ \A i, j \in 1..m : i < j => ids[i] < ids[j]
      /\ \A i \in 1..m : \A k \in 1..n :
           s[k].from = ids[i] <=> ptr[i] < k /\ (i < m => k <= ptr[i + 1])
      /\ \A k \in 1..n : \E i \in 1..m : s[k].from = ids[i]
  <2>1. /\ Len(ptr) = m /\ (m > 0 => ptr[1] = 0)
        /\ \A i \in 1..m : ptr[i] < n
        /\ \A i \in 1..(m - 1) : ptr[i] < ptr[i + 1]
        /\ \A i, j \in 1..m : i < j => ids[i] < ids[j]
        /\ \A i \in 1..m : \A k \in 1..n :
             r[k].from = ids[i] <=> ptr[i] < k /\ (i < m => k <= ptr[i + 1])
        /\ \A k \in 1..n : \E i \in 1..m : r[k].from = ids[i]
    <3>1. Len(ptr) = m /\ Lying(ids, ptr, r, m, n)
      BY <1>1, <1>2 DEF Open
    <3> QED BY <3>1 DEF Lying
  <2>2. \A i \in 1..m : ptr[i] \in Nat /\ ids[i] \in Int
    BY <1>1, <2>1
  <2>3. \A k \in 1..n : s[k] = r[k]
    BY <1>4
  <2>4. \A i \in 1..m : \A k \in 1..n :
          s[k].from = ids[i] <=> ptr[i] < k /\ (i < m => k <= ptr[i + 1])
    <3> SUFFICES ASSUME NEW i \in 1..m, NEW k \in 1..n
                 PROVE  s[k].from = ids[i] <=> ptr[i] < k /\ (i < m => k <= ptr[i + 1])
      OBVIOUS
    <3>1. r[k].from = ids[i] <=> ptr[i] < k /\ (i < m => k <= ptr[i + 1])
      BY <2>1
    <3>2. s[k] = r[k]
      BY <2>3
    <3> QED BY <3>1, <3>2
  <2>5. ASSUME NEW k \in 1..n PROVE \E i \in 1..m : s[k].from = ids[i]
    <3>1. \E i \in 1..m : r[k].from = ids[i]
      BY <2>1
    <3>2. s[k] = r[k]
      BY <2>3
    <3> QED BY <3>1, <3>2
  <2> QED BY <2>1, <2>2, <2>4, <2>5
<1>6. x.from \in Int /\ \A k \in 1..n : s[k].from \in Int
  <2>1. x.from \in Int
    OBVIOUS
  <2>2. ASSUME NEW k \in 1..n PROVE s[k].from \in Int
    <3>1. r[k] \in Edge
      BY <1>2
    <3>2. s[k] = r[k]
      BY <1>4
    <3> QED BY <3>1, <3>2
  <2> QED BY <2>1, <2>2
<1>7. \A k \in 1..n : s[k].from <= x.from
  <2>1. DOMAIN s = 1..(n + 1) /\ n + 1 \in 1..(n + 1)
    BY <1>4
  <2>2. \A i, j \in 1..(n + 1) : i < j => s[i].from <= s[j].from
    BY <1>3, <2>1 DEF Sorted
  <2>3. \A k \in 1..n : k \in 1..(n + 1) /\ k < n + 1
    OBVIOUS
  <2> QED BY <1>4, <2>1, <2>2, <2>3
<1>8. \A i \in 1..m : ids[i] <= x.from
  <2> SUFFICES ASSUME NEW i \in 1..m PROVE ids[i] <= x.from
    OBVIOUS
  <2>1. PICK k \in Nat : k = ptr[i] + 1
    BY <1>5
  <2>2. k \in 1..n /\ ptr[i] < k
    BY <1>5, <2>1
  <2>3. i < m => i \in 1..(m - 1) /\ i + 1 \in 1..m
    OBVIOUS
  <2>4. i < m => k <= ptr[i + 1]
    BY <1>5, <2>1, <2>3
  <2>5. s[k].from = ids[i]
    BY <1>5, <2>2, <2>4
  <2> QED BY <1>7, <2>2, <2>5
<1>9. \A i \in 1..m : i < m => i + 1 \in 1..m /\ ptr[i + 1] < n /\ ptr[i + 1] \in Nat
  <2>1. \A i \in 1..m : i < m => i + 1 \in 1..m
    OBVIOUS
  <2> QED BY <1>5, <2>1
<1>10. CASE m > 0 /\ ids[m] = x.from
  <2>1. ASSUME NEW i \in 1..m, NEW k \in 1..(n + 1)
        PROVE  s[k].from = ids[i] <=> ptr[i] < k /\ (i < m => k <= ptr[i + 1])
    <3>1. CASE k \in 1..n
      BY <1>5, <3>1
    <3>2. CASE k = n + 1
      <4>1. ptr[i] < k /\ (i < m => ~(k <= ptr[i + 1]))
        <5>1. ptr[i] < n /\ ptr[i] \in Nat
          BY <1>5
        <5>2. i < m => ptr[i + 1] < n /\ ptr[i + 1] \in Nat
          BY <1>9
        <5> QED BY <3>2, <5>1, <5>2
      <4>2. i < m => ids[i] < ids[m]
        <5>1. m \in 1..m
          OBVIOUS
        <5> QED BY <1>5, <5>1
      <4>3. i < m => ids[i] # x.from
        BY <1>5, <1>10, <4>2
      <4> QED BY <1>4, <1>10, <3>2, <4>1, <4>3
    <3> QED BY <1>4, <3>1, <3>2
  <2>2. \A k \in 1..(n + 1) : \E i \in 1..m : s[k].from = ids[i]
    <3> SUFFICES ASSUME NEW k \in 1..(n + 1) PROVE \E i \in 1..m : s[k].from = ids[i]
      OBVIOUS
    <3>1. CASE k \in 1..n
      BY <1>5, <3>1
    <3>2. CASE k = n + 1
      <4>1. m \in 1..m
        BY <1>10
      <4> QED BY <1>4, <1>10, <3>2, <4>1
    <3> QED BY <1>4, <3>1, <3>2
  <2>3. \A i \in 1..m : ptr[i] < n + 1
    BY <1>5
  <2>4. Open(ids, ptr, s)
    <3>1. Lying(ids, ptr, s, m, n + 1)
      BY <1>5, <2>1, <2>2, <2>3 DEF Lying
    <3> QED BY <1>1, <1>4, <1>5, <3>1 DEF Open
  <2> QED BY <1>1, <1>3, <1>10, <2>4
<1>11. CASE ~(m > 0 /\ ids[m] = x.from)
  <2>1. PICK q : q = Append(ids, x.from)
    OBVIOUS
  <2>2. PICK p : p = Append(ptr, n)
    OBVIOUS
  <2>3. /\ Len(q) = m + 1 /\ q[m + 1] = x.from /\ \A i \in 1..m : q[i] = ids[i]
        /\ Len(p) = m + 1 /\ p[m + 1] = n /\ \A i \in 1..m : p[i] = ptr[i]
        /\ \A i \in 1..(m + 1) : i \in 1..m \/ i = m + 1
    BY <1>1, <1>5, <2>1, <2>2
  <2>4. \A i \in 1..m : ids[i] < x.from
    <3> SUFFICES ASSUME NEW i \in 1..m PROVE ids[i] < x.from
      OBVIOUS
    <3>1. m \in 1..m /\ ids[m] # x.from /\ ids[m] <= x.from /\ ids[m] \in Int
      BY <1>5, <1>8, <1>11
    <3>2. i < m => ids[i] < ids[m]
      BY <1>5, <3>1
    <3>3. ids[i] \in Int /\ (i = m \/ i < m)
      BY <1>5
    <3> QED BY <1>6, <3>1, <3>2, <3>3
  <2>5. m = 0 => n = 0
    <3> SUFFICES ASSUME m = 0, n # 0 PROVE FALSE
      OBVIOUS
    <3>1. 1 \in 1..n
      OBVIOUS
    <3> QED BY <1>5, <3>1
  <2>6. m + 1 > 0 /\ p[1] = 0
    <3>1. CASE m = 0
      BY <2>3, <2>5, <3>1
    <3>2. CASE m # 0
      <4>1. 1 \in 1..m
        BY <3>2
      <4> QED BY <1>5, <2>3, <4>1
    <3> QED BY <3>1, <3>2
  <2>7. \A i \in 1..(m + 1) : p[i] < n + 1 /\ p[i] <= n /\ p[i] \in Nat
    <3> SUFFICES ASSUME NEW i \in 1..(m + 1) PROVE p[i] <= n /\ p[i] \in Nat
      OBVIOUS
    <3>1. CASE i \in 1..m
      BY <1>5, <2>3, <3>1
    <3>2. CASE i = m + 1
      BY <2>3, <3>2
    <3> QED BY <2>3, <3>1, <3>2
  <2>8. \A i \in 1..((m + 1) - 1) : p[i] < p[i + 1]
    <3> SUFFICES ASSUME NEW i \in 1..m PROVE p[i] < p[i + 1]
      OBVIOUS
    <3>1. CASE i = m
      BY <1>5, <2>3, <3>1
    <3>2. CASE i < m
      <4>1. PICK j \in 1..m : j = i + 1
        BY <3>2
      <4>2. i \in 1..(m - 1)
        BY <3>2
      <4>3. p[i] = ptr[i] /\ p[j] = ptr[j]
        BY <2>3
      <4>4. ptr[i] < ptr[j]
        BY <1>5, <4>1, <4>2
      <4> QED BY <4>1, <4>3, <4>4
    <3> QED BY <3>1, <3>2
  <2>9. \A i, j \in 1..(m + 1) : i < j => q[i] < q[j]
    <3> SUFFICES ASSUME NEW i \in 1..(m + 1), NEW j \in 1..(m + 1), i < j PROVE q[i] < q[j]
      OBVIOUS
    <3>1. i \in 1..m
      OBVIOUS
    <3>2. CASE j \in 1..m
      BY <1>5, <2>3, <3>1, <3>2
    <3>3. CASE j = m + 1
      BY <2>3, <2>4, <3>1, <3>3
    <3> QED BY <2>3, <3>2, <3>3
  <2>10. ASSUME NEW i \in 1..(m + 1), NEW k \in 1..(n + 1)
         PROVE  s[k].from = q[i] <=> p[i] < k /\ (i < m + 1 => k <= p[i + 1])
    <3>1. CASE i \in 1..m /\ k \in 1..n
      <4>1. q[i] = ids[i] /\ p[i] = ptr[i]
        BY <2>3, <3>1
      <4>2. s[k].from = ids[i] <=> ptr[i] < k /\ (i < m => k <= ptr[i + 1])
        BY <1>5, <3>1
      <4>3. CASE i < m
        <5>1. PICK j \in 1..m : j = i + 1
          BY <3>1, <4>3
        <5>2. p[j] = ptr[j]
          BY <2>3
        <5>3. s[k].from = ids[i] <=> ptr[i] < k /\ k <= ptr[j]
          BY <4>2, <4>3, <5>1
        <5>4. i < m + 1 /\ p[i + 1] = ptr[j]
          BY <3>1, <5>1, <5>2
        <5> QED BY <4>1, <5>3, <5>4
      <4>4. CASE i = m
        <5>1. p[i + 1] = n /\ k <= n
          BY <2>3, <3>1, <4>4
        <5> QED BY <4>1, <4>2, <4>4, <5>1
      <4> QED BY <3>1, <4>3, <4>4
    <3>2. CASE i \in 1..m /\ k = n + 1
      <4>1. q[i] = ids[i] /\ ids[i] < x.from /\ s[k].from = x.from /\ ids[i] \in Int
        BY <1>4, <1>5, <2>3, <2>4, <3>2
      <4>2. PICK j \in 1..(m + 1) : j = i + 1
        BY <3>2
      <4>3. p[j] <= n /\ p[j] \in Nat
        BY <2>7
      <4>4. i < m + 1 /\ ~(k <= p[i + 1])
        BY <3>2, <4>2, <4>3
      <4>5. s[k].from # q[i]
        BY <1>6, <4>1
      <4> QED BY <4>4, <4>5
    <3>3. CASE i = m + 1 /\ k \in 1..n
      <4>1. PICK j \in 1..m : s[k].from = ids[j]
        BY <1>5, <3>3
      <4>2. ids[j] < x.from /\ ids[j] \in Int
        BY <1>5, <2>4
      <4> QED BY <1>6, <2>3, <3>3, <4>1, <4>2
    <3>4. CASE i = m + 1 /\ k = n + 1
      BY <1>4, <2>3, <3>4
    <3> QED BY <1>4, <2>3, <3>1, <3>2, <3>3, <3>4
  <2>11. \A k \in 1..(n + 1) : \E i \in 1..(m + 1) : s[k].from = q[i]
    <3> SUFFICES ASSUME NEW k \in 1..(n + 1) PROVE \E i \in 1..(m + 1) : s[k].from = q[i]
      OBVIOUS
    <3>1. CASE k \in 1..n
      <4>1. PICK i \in 1..m : s[k].from = ids[i]
        BY <1>5, <3>1
      <4>2. i \in 1..(m + 1) /\ q[i] = ids[i]
        BY <2>3
      <4> QED BY <4>1, <4>2
    <3>2. CASE k = n + 1
      <4>1. m + 1 \in 1..(m + 1)
        OBVIOUS
      <4> QED BY <1>4, <2>3, <3>2, <4>1
    <3> QED BY <1>4, <3>1, <3>2
  <2>12. Open(q, p, s)
    <3>1. Lying(q, p, s, m + 1, n + 1)
      BY <2>6, <2>7, <2>8, <2>9, <2>10, <2>11 DEF Lying
    <3> QED BY <1>4, <2>3, <3>1 DEF Open
  <2>13. ids # <<>> => m > 0
    BY <1>1
  <2> QED BY <1>1, <1>2, <1>3, <1>11, <2>1, <2>2, <2>12, <2>13
<1> QED BY <1>10, <1>11

LEMMA EdgeFacts ==
  /\ \A e \in Edge : /\ e.from \in Node /\ e.from \in Int /\ e.to \in Node /\ e.type \in EdgeType
                     /\ [to |-> e.to, type |-> e.type] \in Column
  /\ Node \subseteq 0..MaxNode /\ MaxNode \in Nat
<1>1. Node \subseteq 0..MaxNode /\ MaxNode \in Nat /\ Node \subseteq Int
  BY GraphAssumption DEF GraphAssumption
<1>2. ASSUME NEW e \in Edge
      PROVE  /\ e.from \in Node /\ e.to \in Node /\ e.type \in EdgeType
             /\ [to |-> e.to, type |-> e.type] \in Column
  BY DEF Edge, Column
<1> QED BY <1>1, <1>2

LEMMA ColumnsType ==
  ASSUME NEW s \in Seq(Edge)
  PROVE  /\ Columns(s) \in Seq(Column) /\ Len(Columns(s)) = Len(s)
         /\ \A i \in 1..Len(s) : Columns(s)[i] = [to |-> s[i].to, type |-> s[i].type]
<1>1. Len(s) \in Nat /\ DOMAIN s = 1..Len(s) /\ \A i \in 1..Len(s) : s[i] \in Edge
  OBVIOUS
<1>2. Columns(s) = [i \in 1..Len(s) |-> [to |-> s[i].to, type |-> s[i].type]]
  BY <1>1 DEF Columns
<1> QED BY <1>1, <1>2, EdgeFacts

LEMMA ColumnsOfAppend ==
  ASSUME NEW s \in Seq(Edge), NEW x \in Edge
  PROVE  Columns(Append(s, x)) = Append(Columns(s), [to |-> x.to, type |-> x.type])
<1>1. PICK r : r = Append(s, x)
  OBVIOUS
<1>2. /\ r \in Seq(Edge) /\ Len(s) \in Nat /\ Len(r) = Len(s) + 1 /\ r[Len(s) + 1] = x
      /\ \A i \in 1..Len(s) : r[i] = s[i]
  BY <1>1
<1>3. PICK n \in Nat : n = Len(s)
  BY <1>2
<1>4. PICK y \in Column : y = [to |-> x.to, type |-> x.type]
  BY EdgeFacts
<1>5. /\ Columns(r) \in Seq(Column) /\ Len(Columns(r)) = n + 1
      /\ \A i \in 1..(n + 1) : Columns(r)[i] = [to |-> r[i].to, type |-> r[i].type]
  BY <1>2, <1>3, ColumnsType
<1>6. /\ Columns(s) \in Seq(Column) /\ Len(Columns(s)) = n
      /\ \A i \in 1..n : Columns(s)[i] = [to |-> s[i].to, type |-> s[i].type]
  BY <1>3, ColumnsType
<1>7. PICK q : q = Append(Columns(s), y)
  OBVIOUS
<1>8. /\ q \in Seq(Column) /\ Len(q) = n + 1 /\ q[n + 1] = y
      /\ \A i \in 1..n : q[i] = Columns(s)[i]
  BY <1>6, <1>7
<1>9. ASSUME NEW i \in 1..(n + 1) PROVE Columns(r)[i] = q[i]
  <2>1. CASE i \in 1..n
    <3>1. q[i] = [to |-> s[i].to, type |-> s[i].type] /\ r[i] = s[i]
      BY <1>2, <1>3, <1>6, <1>8, <2>1
    <3> QED BY <1>5, <3>1
  <2>2. CASE i = n + 1
    <3>1. r[i] = x
      BY <1>2, <1>3, <2>2
    <3> QED BY <1>4, <1>5, <1>8, <2>2, <3>1
  <2> QED BY <2>1, <2>2
<1>10. Columns(r) = q
  BY <1>5, <1>8, <1>9
<1> QED BY <1>1, <1>4, <1>7, <1>10

\* The fold, edge by edge.
Folded(es) == FoldLeft(AddColumn, EmptyCsr, es)

FoldsTo(f, s, n) ==
  f = [D \in SUBSET (1..n) |->
         IF D = {} THEN EmptyCsr ELSE AddColumn(f[D \ {Max(D)}], s[Max(D)])]

LEMMA AddColumnType ==
  ASSUME NEW c \in Csr, NEW e \in Edge
  PROVE  AddColumn(c, e) \in Csr
<1>1. /\ c.fromIds \in Seq(Node) /\ c.rowPtr \in Seq(Nat) /\ c.col \in Seq(Column)
      /\ c = [fromIds |-> c.fromIds, rowPtr |-> c.rowPtr, col |-> c.col]
  BY DEF Csr
<1>2. e.from \in Node /\ [to |-> e.to, type |-> e.type] \in Column
  BY EdgeFacts
<1>3. Append(c.fromIds, e.from) \in Seq(Node) /\ Append(c.rowPtr, Len(c.col)) \in Seq(Nat)
  BY <1>1, <1>2
<1>4. WithRow(c, e.from) \in Csr /\ WithRow(c, e.from).col = c.col
  BY <1>1, <1>3 DEF WithRow, Csr
<1>5. Append(c.col, [to |-> e.to, type |-> e.type]) \in Seq(Column)
  BY <1>1, <1>2
<1> QED BY <1>4, <1>5 DEF AddColumn, Csr

LEMMA FoldedExists ==
  ASSUME NEW s \in Seq(Edge)
  PROVE  \E f : FoldsTo(f, s, Len(s)) /\ Folded(s) = f[1..Len(s)]
<1>1. PICK n \in Nat : n = Len(s) /\ DOMAIN s = 1..n
  OBVIOUS
<1>2. \E f : FoldsTo(f, s, n)
  <2> DEFINE G == [p \in Csr \X Edge |-> AddColumn(p[1], p[2])]
  <2>1. G \in [Csr \X Edge -> Csr] /\ \A c \in Csr, e \in Edge : G[<<c, e>>] = AddColumn(c, e)
    BY AddColumnType
  <2>2. EmptyCsr \in Csr
    BY DEF EmptyCsr, Csr
  <2> HIDE DEF G
  <2>3. PICK f \in [SUBSET (1..n) -> Csr] : FoldsBy(f, G, EmptyCsr, s, n)
    <3>1. \A m \in 0..Len(s) : \E f \in [SUBSET (1..m) -> Csr] : FoldsBy(f, G, EmptyCsr, s, m)
      BY <2>1, <2>2, FoldExists
    <3>2. n \in 0..Len(s)
      BY <1>1
    <3> QED BY <3>1, <3>2
  <2>4. ASSUME NEW D \in SUBSET (1..n)
        PROVE  f[D] = IF D = {} THEN EmptyCsr ELSE AddColumn(f[D \ {Max(D)}], s[Max(D)])
    <3> SUFFICES ASSUME D # {} PROVE f[D] = AddColumn(f[D \ {Max(D)}], s[Max(D)])
      BY <2>3 DEF FoldsBy
    <3>1. Max(D) \in 1..n
      BY MaxIsGreatest
    <3>2. s[Max(D)] \in Edge
      BY <1>1, <3>1
    <3>3. f[D \ {Max(D)}] \in Csr
      BY <2>3
    <3> QED BY <2>1, <2>3, <3>2, <3>3 DEF FoldsBy
  <2>5. FoldsTo(f, s, n)
    BY <2>3, <2>4 DEF FoldsTo
  <2> QED BY <2>5
<1>3. Folded(s) = (CHOOSE f : FoldsTo(f, s, n))[1..n]
  BY <1>1 DEF Folded, FoldLeft, MapThenFoldSet, FoldsTo
<1> QED BY <1>1, <1>2, <1>3

LEMMA FoldedOfEmpty == Folded(<<>>) = EmptyCsr
<1>1. PICK s : s = <<>>
  OBVIOUS
<1>2. s \in Seq(Edge) /\ Len(s) = 0 /\ 1..0 = {}
  BY <1>1
<1>3. PICK f : FoldsTo(f, s, 0) /\ Folded(s) = f[1..0]
  BY <1>2, FoldedExists
<1>4. f[{}] = EmptyCsr
  BY <1>3 DEF FoldsTo
<1> QED BY <1>1, <1>2, <1>3, <1>4

\* A rebuild takes one edge after the other.
LEMMA FoldedOfAppend ==
  ASSUME NEW s \in Seq(Edge), NEW x \in Edge
  PROVE  Folded(Append(s, x)) = AddColumn(Folded(s), x)
<1>1. PICK r : r = Append(s, x)
  OBVIOUS
<1>2. PICK n \in Nat : n = Len(s)
  OBVIOUS
<1>3. r \in Seq(Edge) /\ Len(r) = n + 1 /\ r[n + 1] = x /\ \A i \in 1..n : r[i] = s[i]
  BY <1>1, <1>2
<1>4. PICK f : FoldsTo(f, s, n) /\ Folded(s) = f[1..n]
  BY <1>2, FoldedExists
<1>5. PICK g : FoldsTo(g, r, n + 1) /\ Folded(r) = g[1..(n + 1)]
  BY <1>3, FoldedExists
<1>6. \A k \in 1..(n + 1) : g[1..k] = AddColumn(g[1..(k - 1)], r[k])
  <2> SUFFICES ASSUME NEW k \in 1..(n + 1) PROVE g[1..k] = AddColumn(g[1..(k - 1)], r[k])
    OBVIOUS
  <2>1. 1..k \in SUBSET (1..(n + 1)) /\ 1..k # {} /\ Max(1..k) = k /\ (1..k) \ {k} = 1..(k - 1)
    <3>1. PICK o \in Nat : o = n + 1
      OBVIOUS
    <3>2. k \in 1..o
      BY <3>1
    <3> QED BY <3>1, <3>2, FirstPlaces
  <2> QED BY <1>5, <2>1 DEF FoldsTo
<1>7. \A k \in 1..n : f[1..k] = AddColumn(f[1..(k - 1)], s[k])
  <2> SUFFICES ASSUME NEW k \in 1..n PROVE f[1..k] = AddColumn(f[1..(k - 1)], s[k])
    OBVIOUS
  <2>1. 1..k \in SUBSET (1..n) /\ 1..k # {} /\ Max(1..k) = k /\ (1..k) \ {k} = 1..(k - 1)
    BY FirstPlaces
  <2> QED BY <1>4, <2>1 DEF FoldsTo
<1>8. g[1..0] = f[1..0]
  <2>1. 1..0 = {}
    OBVIOUS
  <2> QED BY <1>4, <1>5, <2>1 DEF FoldsTo
<1>9. \A k \in 1..n : g[1..(k - 1)] = f[1..(k - 1)] => g[1..k] = f[1..k]
  <2>1. \A k \in 1..n : k \in 1..(n + 1) /\ r[k] = s[k]
    BY <1>3
  <2> QED BY <1>6, <1>7, <2>1
<1>10. g[1..n] = f[1..n]
  BY <1>8, <1>9, FoldsAgree
<1>11. n + 1 \in 1..(n + 1) /\ (n + 1) - 1 = n
  OBVIOUS
<1>12. g[1..(n + 1)] = AddColumn(g[1..n], x)
  BY <1>3, <1>6, <1>11
<1> QED BY <1>1, <1>4, <1>5, <1>10, <1>12

\* What was read of a sorted list is held row by row, the last row being open.
LEMMA FoldedIsOpen ==
  ASSUME NEW s \in Seq(Edge)
  PROVE  /\ Folded(s) \in Csr /\ Folded(s).col = Columns(s)
         /\ Sorted(s) => Open(Folded(s).fromIds, Folded(s).rowPtr, s)
<1> DEFINE P(q) == /\ Folded(q) \in Csr /\ Folded(q).col = Columns(q)
                   /\ Sorted(q) => Open(Folded(q).fromIds, Folded(q).rowPtr, q)
<1>1. P(<<>>)
  <2>1. Folded(<<>>) = EmptyCsr
    BY FoldedOfEmpty
  <2>2. EmptyCsr \in Csr /\ EmptyCsr.col = <<>> /\ EmptyCsr.fromIds = <<>> /\ EmptyCsr.rowPtr = <<>>
    BY DEF EmptyCsr, Csr
  <2>3. Columns(<<>>) = <<>>
    BY DEF Columns
  <2>4. Open(<<>>, <<>>, <<>>)
    BY DEF Open, Lying
  <2> QED BY <2>1, <2>2, <2>3, <2>4
<1>2. ASSUME NEW r \in Seq(Edge), NEW x \in Edge, P(r) PROVE P(Append(r, x))
  <2>1. PICK c : c = Folded(r)
    OBVIOUS
  <2>2. /\ c \in Csr /\ c.col = Columns(r) /\ (Sorted(r) => Open(c.fromIds, c.rowPtr, r))
    BY <1>2, <2>1
  <2>3. c.fromIds \in Seq(Node) /\ c.rowPtr \in Seq(Nat) /\ c.col \in Seq(Column)
    BY <2>2 DEF Csr
  <2>4. Len(c.col) = Len(r)
    BY <2>2, ColumnsType
  <2>5. PICK d : d = AddColumn(c, x)
    OBVIOUS
  <2>6. Folded(Append(r, x)) = d
    BY <2>1, <2>5, FoldedOfAppend
  <2>7. d \in Csr
    BY <2>2, <2>5, AddColumnType
  <2>8. c = [fromIds |-> c.fromIds, rowPtr |-> c.rowPtr, col |-> c.col]
    BY <2>2 DEF Csr
  <2>9. /\ d.col = Append(c.col, [to |-> x.to, type |-> x.type])
        /\ IF c.fromIds # <<>> /\ c.fromIds[Len(c.fromIds)] = x.from
           THEN d.fromIds = c.fromIds /\ d.rowPtr = c.rowPtr
           ELSE d.fromIds = Append(c.fromIds, x.from) /\ d.rowPtr = Append(c.rowPtr, Len(r))
    BY <2>4, <2>5, <2>8 DEF AddColumn, WithRow, Last
  <2>10. d.col = Columns(Append(r, x))
    BY <2>2, <2>9, ColumnsOfAppend
  <2>11. Sorted(Append(r, x)) => Sorted(r)
    <3>1. PICK q : q = Append(r, x)
      OBVIOUS
    <3>2. /\ DOMAIN r \subseteq DOMAIN q /\ \A i \in DOMAIN r : q[i] = r[i]
      BY <3>1
    <3>3. Sorted(q) => Sorted(r)
      BY <3>2 DEF Sorted
    <3> QED BY <3>1, <3>3
  <2>12. ASSUME Sorted(Append(r, x)) PROVE Open(d.fromIds, d.rowPtr, Append(r, x))
    <3>1. c.fromIds \in Seq(Int) /\ \A e \in Edge : e.from \in Int
      <4>1. \A e \in Edge : e.from \in Int
        BY EdgeFacts
      <4>2. Node \subseteq 0..MaxNode /\ MaxNode \in Nat
        BY EdgeFacts
      <4>3. Node \subseteq Int
        BY <4>2
      <4>4. c.fromIds \in Seq(Int)
        BY <2>3, <4>3, SeqMonotone
      <4> QED BY <4>1, <4>4
    <3>2. Open(c.fromIds, c.rowPtr, r)
      BY <2>2, <2>11, <2>12
    <3>3. IF c.fromIds # <<>> /\ c.fromIds[Len(c.fromIds)] = x.from
          THEN Open(c.fromIds, c.rowPtr, Append(r, x))
          ELSE Open(Append(c.fromIds, x.from), Append(c.rowPtr, Len(r)), Append(r, x))
      BY <2>3, <2>12, <3>1, <3>2, OpenMore
    <3> QED BY <2>9, <3>3
  <2> QED BY <2>6, <2>7, <2>10, <2>12
<1> HIDE DEF P
<1> DEFINE Those == {r \in Seq(Edge) : P(r)}
<1>3. <<>> \in Those /\ \A r \in Seq(Edge), x \in Edge : r \in Those => Append(r, x) \in Those
  BY <1>1, <1>2
<1> HIDE DEF Those
<1>4. Seq(Edge) \subseteq Those
  BY <1>3, SequenceInduction
<1> QED BY <1>4 DEF Those, P

\* The copy of a sorted list is compressed.
LEMMA BuildIsCompressed ==
  ASSUME NEW s \in Seq(Edge)
  PROVE  Build(s) \in Csr /\ (Sorted(s) => Compressed(Build(s), s))
<1>1. PICK c : c = Folded(s)
  OBVIOUS
<1>2. c \in Csr /\ c.col = Columns(s) /\ (Sorted(s) => Open(c.fromIds, c.rowPtr, s))
  BY <1>1, FoldedIsOpen
<1>3. /\ c.fromIds \in Seq(Node) /\ c.rowPtr \in Seq(Nat) /\ c.col \in Seq(Column)
      /\ c = [fromIds |-> c.fromIds, rowPtr |-> c.rowPtr, col |-> c.col]
  BY <1>2 DEF Csr
<1>4. Len(c.col) = Len(s)
  BY <1>2, ColumnsType
<1>5. PICK p : p = Append(c.rowPtr, Len(s))
  OBVIOUS
<1>6. Build(s) = [fromIds |-> c.fromIds, rowPtr |-> p, col |-> c.col]
  <2>1. Build(s) = [c EXCEPT !.rowPtr = Append(@, Len(c.col))]
    BY <1>1 DEF Build, Folded
  <2> QED BY <1>3, <1>4, <1>5, <2>1
<1>7. Build(s) \in Csr
  BY <1>3, <1>5, <1>6 DEF Csr
<1>8. ASSUME Sorted(s) PROVE Compressed(Build(s), s)
  <2>1. PICK ids : ids = c.fromIds
    OBVIOUS
  <2>2. PICK ptr : ptr = c.rowPtr
    OBVIOUS
  <2>3. PICK m \in Nat : m = Len(ids)
    <3>1. ids \in Seq(Node)
      BY <1>3, <2>1
    <3>2. Len(ids) \in Nat
      BY <3>1
    <3> QED BY <3>2
  <2>4. PICK n \in Nat : n = Len(s)
    OBVIOUS
  <2>5. /\ Len(ptr) = m /\ (m > 0 => ptr[1] = 0)
        /\ \A i \in 1..m : ptr[i] < n
        /\ \A i \in 1..(m - 1) : ptr[i] < ptr[i + 1]
        /\ \A i, j \in 1..m : i < j => ids[i] < ids[j]
        /\ \A i \in 1..m : \A k \in 1..n :
             s[k].from = ids[i] <=> ptr[i] < k /\ (i < m => k <= ptr[i + 1])
        /\ \A k \in 1..n : \E i \in 1..m : s[k].from = ids[i]
    <3>1. Len(ptr) = m /\ Lying(ids, ptr, s, m, n)
      BY <1>2, <1>8, <2>1, <2>2, <2>3, <2>4 DEF Open
    <3> QED BY <3>1 DEF Lying
  <2>6. /\ Len(p) = m + 1 /\ p[m + 1] = n /\ \A i \in 1..m : p[i] = ptr[i] /\ ptr[i] \in Nat
    <3>1. ptr \in Seq(Nat) /\ Len(ptr) = m /\ p = Append(ptr, n) /\ m \in Nat
      BY <1>3, <1>5, <2>2, <2>4, <2>5
    <3> QED BY <3>1
  <2>7. p[1] = 0
    <3>1. CASE m = 0
      <4>1. n = 0
        <5> SUFFICES ASSUME n # 0 PROVE FALSE
          OBVIOUS
        <5>1. 1 \in 1..n
          OBVIOUS
        <5>2. \A k \in 1..n : \E i \in 1..m : s[k].from = ids[i]
          BY <2>5
        <5>3. PICK i \in 1..m : s[1].from = ids[i]
          BY <5>1, <5>2
        <5> QED BY <3>1, <5>3
      <4> QED BY <2>6, <3>1, <4>1
    <3>2. CASE m # 0
      <4>1. 1 \in 1..m /\ m > 0
        BY <3>2
      <4> QED BY <2>5, <2>6, <4>1
    <3> QED BY <3>1, <3>2
  <2>8. ASSUME NEW i \in 1..m
        PROVE  /\ p[i] < p[i + 1]
               /\ \A k \in 1..n : s[k].from = ids[i] <=> p[i] < k /\ k <= p[i + 1]
    <3>1. CASE i < m
      <4>1. PICK j \in 1..m : j = i + 1
        BY <3>1
      <4>2. i \in 1..(m - 1) /\ p[j] = ptr[j] /\ p[i] = ptr[i]
        BY <2>6, <3>1
      <4>3. ptr[i] < ptr[j]
        BY <2>5, <4>1, <4>2
      <4>4. \A k \in 1..n : s[k].from = ids[i] <=> ptr[i] < k /\ k <= ptr[j]
        BY <2>5, <3>1, <4>1
      <4> QED BY <4>1, <4>2, <4>3, <4>4
    <3>2. CASE i = m
      <4>1. p[i] = ptr[i] /\ ptr[i] < n
        BY <2>5, <2>6
      <4>2. p[i + 1] = n /\ ~(i < m)
        BY <2>6, <3>2
      <4>3. \A k \in 1..n : s[k].from = ids[i] <=> ptr[i] < k
        BY <2>5, <4>2
      <4> QED BY <4>1, <4>2, <4>3
    <3> QED BY <3>1, <3>2
  <2>8a. ASSUME NEW i \in 1..(m + 1) PROVE p[i] <= n
    <3>1. i = m + 1 \/ i \in 1..m
      OBVIOUS
    <3>2. \A j \in 1..m : p[j] = ptr[j] /\ ptr[j] < n /\ ptr[j] \in Nat
      BY <2>5, <2>6
    <3> QED BY <2>6, <3>1, <3>2
  <2>9. PICK b : b = Build(s)
    OBVIOUS
  <2>10. b.fromIds = ids /\ b.rowPtr = p /\ b.col = Columns(s)
    BY <1>2, <1>6, <2>1, <2>9
  <2>11. Compressed(b, s)
    BY <2>3, <2>4, <2>5, <2>6, <2>7, <2>8, <2>8a, <2>10 DEF Compressed
  <2> QED BY <2>9, <2>11
<1> QED BY <1>7, <1>8

-----------------------------------------------------------------------------
(* Sorting *)

FromNode(n) == {e \in Edge : e.from = n}

\* A sort keeps every edge, those of a node in the order they had.
LEMMA SortIsStable ==
  ASSUME NEW es \in Seq(Edge)
  PROVE  /\ SortByFrom(es) \in Seq(Edge) /\ Sorted(SortByFrom(es))
         /\ \A n \in Node : From(SortByFrom(es), n) = From(es, n)
<1>1. MaxNode \in Nat /\ Node \subseteq 0..MaxNode
  BY EdgeFacts
<1> DEFINE rows == [k \in 0..MaxNode |-> From(es, k)]
<1>2. ASSUME NEW k \in 0..MaxNode
      PROVE  /\ From(es, k) \in Seq(Edge)
             /\ \A x \in ToSet(From(es, k)) : x \in Edge /\ x.from = k
             /\ \A n : Filter(From(es, k), FromNode(n)) = IF n = k THEN From(es, k) ELSE <<>>
  <2>1. From(es, k) = Filter(es, FromNode(k))
    BY DEF From, FromNode
  <2>2. From(es, k) \in Seq(Edge) /\ ToSet(From(es, k)) = ToSet(es) \cap FromNode(k)
    BY <2>1, FilterType
  <2>3. \A x \in ToSet(From(es, k)) : x \in Edge /\ x.from = k
    BY <2>2 DEF FromNode
  <2>4. ASSUME NEW n PROVE Filter(From(es, k), FromNode(n)) = IF n = k THEN From(es, k) ELSE <<>>
    <3>1. CASE n = k
      <4>1. ToSet(From(es, k)) \subseteq FromNode(n)
        BY <2>3, <3>1 DEF FromNode
      <4> QED BY <2>2, <3>1, <4>1, FilterAll
    <3>2. CASE n # k
      <4>1. ToSet(From(es, k)) \cap FromNode(n) = {}
        BY <2>3, <3>2 DEF FromNode
      <4> QED BY <2>2, <3>2, <4>1, FilterNone
    <3> QED BY <3>1, <3>2
  <2> QED BY <2>2, <2>3, <2>4
<1>3. rows \in [0..MaxNode -> Seq(Edge)]
  BY <1>2
<1>4. PICK g : /\ g[0] = From(es, 0) /\ g[MaxNode] = SortByFrom(es)
               /\ \A k \in 1..MaxNode : g[k] = g[k - 1] \o From(es, k)
  <2>1. PICK g : /\ g[0] = rows[0]
                 /\ g[MaxNode] = FlattenSeq([i \in 1..(MaxNode + 1) |-> rows[i - 1]])
                 /\ \A k \in 1..MaxNode : g[k] = g[k - 1] \o rows[k]
    <3> HIDE DEF rows
    <3>1. MaxNode \in Nat
      BY <1>1
    <3>2. PICK n \in Nat : n = MaxNode
      BY <3>1
    <3>3. PICK s \in [0..n -> Seq(Edge)] : s = rows
      BY <1>3, <3>2
    <3>4. \E g : /\ g[0] = s[0] /\ g[n] = FlattenSeq([i \in 1..(n + 1) |-> s[i - 1]])
                 /\ \A k \in 1..n : g[k] = g[k - 1] \o s[k]
      <4>1. \A p \in Nat : \A q \in [0..p -> Seq(Edge)] :
              \E g : /\ g[0] = q[0] /\ g[p] = FlattenSeq([i \in 1..(p + 1) |-> q[i - 1]])
                     /\ \A k \in 1..p : g[k] = g[k - 1] \o q[k]
        BY FlattenSteps
      <4> QED BY <4>1, Zenon
    <3> QED BY <3>2, <3>3, <3>4
  <2>2. \A i \in 1..(MaxNode + 1) : rows[i - 1] = From(es, i - 1)
    BY <1>1
  <2>3. [i \in 1..(MaxNode + 1) |-> rows[i - 1]] = [i \in 1..(MaxNode + 1) |-> From(es, i - 1)]
    BY <2>2
  <2>4. rows[0] = From(es, 0) /\ \A k \in 1..MaxNode : rows[k] = From(es, k)
    BY <1>1
  <2> HIDE DEF rows
  <2> QED BY <2>1, <2>3, <2>4 DEF SortByFrom
<1> DEFINE P(k) == /\ g[k] \in Seq(Edge) /\ Sorted(g[k])
                   /\ \A x \in ToSet(g[k]) : x.from <= k
                   /\ \A n \in 0..MaxNode :
                        Filter(g[k], FromNode(n)) = IF n <= k THEN From(es, n) ELSE <<>>
<1>5. P(0)
  <2>1. g[0] \in Seq(Edge) /\ \A x \in ToSet(g[0]) : x.from = 0
    BY <1>1, <1>2, <1>4
  <2>2. \A i \in DOMAIN g[0] : g[0][i].from = 0
    BY <2>1 DEF ToSet
  <2>3. Sorted(g[0])
    BY <2>2 DEF Sorted
  <2>4. \A n \in 0..MaxNode : Filter(g[0], FromNode(n)) = IF n <= 0 THEN From(es, n) ELSE <<>>
    BY <1>1, <1>2, <1>4
  <2> QED BY <2>1, <2>3, <2>4
<1>6. ASSUME NEW k \in 1..MaxNode, P(k - 1) PROVE P(k)
  <2>1. PICK u : u = g[k - 1]
    OBVIOUS
  <2>2. PICK w : w = From(es, k)
    OBVIOUS
  <2>3. /\ u \in Seq(Edge) /\ Sorted(u) /\ \A x \in ToSet(u) : x.from <= k - 1
        /\ \A n \in 0..MaxNode :
             Filter(u, FromNode(n)) = IF n <= k - 1 THEN From(es, n) ELSE <<>>
    BY <1>6, <2>1
  <2>4. /\ w \in Seq(Edge) /\ \A x \in ToSet(w) : x.from = k
        /\ \A n : Filter(w, FromNode(n)) = IF n = k THEN From(es, k) ELSE <<>>
    BY <1>2, <2>2
  <2>5. g[k] = u \o w
    BY <1>4, <2>1, <2>2
  <2>6. PICK v : v = u \o w
    OBVIOUS
  <2>7. /\ v \in Seq(Edge) /\ DOMAIN v = 1..(Len(u) + Len(w))
        /\ Len(u) \in Nat /\ Len(w) \in Nat
        /\ \A i \in 1..Len(u) : v[i] = u[i]
        /\ \A i \in 1..(Len(u) + Len(w)) : i > Len(u) =>
             i - Len(u) \in 1..Len(w) /\ v[i] = w[i - Len(u)]
    BY <2>3, <2>4, <2>6
  <2>8. /\ \A i \in 1..Len(u) : v[i].from <= k - 1 /\ v[i].from \in Int
        /\ \A i \in 1..(Len(u) + Len(w)) : i > Len(u) => v[i].from = k
    <3>1. \A i \in 1..Len(u) : u[i] \in ToSet(u) /\ u[i] \in Edge
      BY <2>3 DEF ToSet
    <3>2. \A i \in 1..Len(w) : w[i] \in ToSet(w)
      BY <2>4 DEF ToSet
    <3> QED BY <2>3, <2>4, <2>7, <3>1, <3>2, EdgeFacts
  <2>9. Sorted(v)
    <3> SUFFICES ASSUME NEW i \in 1..(Len(u) + Len(w)), NEW j \in 1..(Len(u) + Len(w)), i < j
                 PROVE  v[i].from <= v[j].from
      BY <2>7 DEF Sorted
    <3>1. CASE j \in 1..Len(u)
      <4>1. i \in 1..Len(u) /\ DOMAIN u = 1..Len(u)
        BY <2>3, <3>1
      <4>2. u[i].from <= u[j].from
        BY <2>3, <3>1, <4>1 DEF Sorted
      <4> QED BY <2>7, <3>1, <4>1, <4>2
    <3>2. CASE j \notin 1..Len(u)
      <4>1. j > Len(u) /\ v[j].from = k
        BY <2>7, <2>8, <3>2
      <4>2. CASE i \in 1..Len(u)
        <5>1. v[i].from <= k - 1 /\ v[i].from \in Int
          BY <2>8, <4>2
        <5> QED BY <4>1, <5>1
      <4>3. CASE i \notin 1..Len(u)
        <5>1. i > Len(u) /\ v[i].from = k
          BY <2>7, <2>8, <4>3
        <5> QED BY <4>1, <5>1
      <4> QED BY <4>2, <4>3
    <3> QED BY <3>1, <3>2
  <2>10. \A x \in ToSet(v) : x.from <= k
    <3> SUFFICES ASSUME NEW i \in 1..(Len(u) + Len(w)) PROVE v[i].from <= k
      BY <2>7 DEF ToSet
    <3>1. CASE i \in 1..Len(u)
      <4>1. v[i].from <= k - 1 /\ v[i].from \in Int
        BY <2>8, <3>1
      <4> QED BY <4>1
    <3>2. CASE i \notin 1..Len(u)
      <4>1. i > Len(u)
        BY <2>7, <3>2
      <4>2. v[i].from = k
        BY <2>8, <4>1
      <4> QED BY <4>2
    <3> QED BY <3>1, <3>2
  <2>11. ASSUME NEW n \in 0..MaxNode
         PROVE  Filter(v, FromNode(n)) = IF n <= k THEN From(es, n) ELSE <<>>
    <3>1. Filter(v, FromNode(n)) = Filter(u, FromNode(n)) \o Filter(w, FromNode(n))
      <4>1. u \in Seq(Edge) /\ w \in Seq(Edge)
        BY <2>3, <2>4
      <4>2. Filter(u \o w, FromNode(n)) = Filter(u, FromNode(n)) \o Filter(w, FromNode(n))
        BY <4>1, FilterOfConcat
      <4> QED BY <2>6, <4>2
    <3>2. From(es, n) \in Seq(Edge) /\ From(es, k) \in Seq(Edge)
      BY <1>2
    <3>3. \A q \in Seq(Edge) : q \o <<>> = q /\ <<>> \o q = q
      OBVIOUS
    <3>4. CASE n = k
      <4>1. ~(n <= k - 1) /\ n <= k
        BY <3>4
      <4>2. Filter(u, FromNode(n)) = <<>> /\ Filter(w, FromNode(n)) = From(es, n)
        BY <2>3, <2>4, <3>4, <4>1
      <4> QED BY <3>1, <3>2, <3>3, <4>1, <4>2
    <3>5. CASE n < k
      <4>1. n <= k - 1 /\ n <= k /\ n # k
        BY <3>5
      <4>2. Filter(u, FromNode(n)) = From(es, n) /\ Filter(w, FromNode(n)) = <<>>
        BY <2>3, <2>4, <4>1
      <4> QED BY <3>1, <3>2, <3>3, <4>1, <4>2
    <3>6. CASE n > k
      <4>1. ~(n <= k - 1) /\ ~(n <= k) /\ n # k
        BY <3>6
      <4>2. Filter(u, FromNode(n)) = <<>> /\ Filter(w, FromNode(n)) = <<>>
        BY <2>3, <2>4, <4>1
      <4>3. <<>> \o <<>> = <<>>
        OBVIOUS
      <4> QED BY <3>1, <4>1, <4>2, <4>3
    <3> QED BY <3>4, <3>5, <3>6
  <2> QED BY <2>5, <2>6, <2>7, <2>9, <2>10, <2>11
<1>7. P(MaxNode)
  <2> DEFINE Others == {k \in 0..MaxNode : ~P(k)}
  <2> HIDE DEF P
  <2> SUFFICES ASSUME Others # {} PROVE FALSE
    BY <1>1
  <2>1. PICK m \in Others : \A k \in Others : m <= k
    <3>1. Others \subseteq Nat
      BY <1>1
    <3> QED BY <3>1, LeastNatural
  <2>2. m \in 1..MaxNode /\ m - 1 \in 0..MaxNode /\ ~(m <= m - 1)
    BY <1>1, <1>5, <2>1
  <2>3. P(m - 1)
    BY <2>1, <2>2
  <2> QED BY <1>6, <2>1, <2>2, <2>3
<1>8. \A n \in Node : From(g[MaxNode], n) = From(es, n)
  <2> SUFFICES ASSUME NEW n \in Node PROVE From(g[MaxNode], n) = From(es, n)
    OBVIOUS
  <2>1. n \in 0..MaxNode /\ n <= MaxNode
    BY <1>1
  <2>2. Filter(g[MaxNode], FromNode(n)) = From(es, n)
    BY <1>7, <2>1
  <2> QED BY <2>2 DEF From, FromNode
<1> QED BY <1>4, <1>7, <1>8

-----------------------------------------------------------------------------
(* Lookups *)

EdgesOf(t) == {e \in Edge : OfType(t, e.type)}

ColumnsOf(t) == {c \in Column : OfType(t, c.type)}

LEMMA ScanIsFilter ==
  ASSUME NEW es \in Seq(Edge), NEW n, NEW t
  PROVE  Scan(es, n, t) = Targets(Filter(From(es, n), EdgesOf(t)))
<1>1. Filter(Filter(es, FromNode(n)), EdgesOf(t)) = Filter(es, FromNode(n) \cap EdgesOf(t))
  BY FilterTwice
<1>2. FromNode(n) \cap EdgesOf(t) = {e \in Edge : e.from = n /\ OfType(t, e.type)}
  BY DEF FromNode, EdgesOf
<1>3. From(es, n) = Filter(es, FromNode(n))
  BY DEF From, FromNode
<1> QED BY <1>1, <1>2, <1>3 DEF Scan

LEMMA TargetsOfAppend ==
  ASSUME NEW S, NEW s \in Seq(S), NEW x \in S
  PROVE  Targets(Append(s, x)) = Append(Targets(s), x.to)
<1>1. PICK r : r = Append(s, x)
  OBVIOUS
<1>2. PICK n \in Nat : n = Len(s)
  OBVIOUS
<1>3. /\ DOMAIN r = 1..(n + 1) /\ r[n + 1] = x /\ \A i \in 1..n : r[i] = s[i]
      /\ DOMAIN s = 1..n
  BY <1>1, <1>2
<1>4. Targets(r) = [i \in 1..(n + 1) |-> r[i].to] /\ Targets(s) = [i \in 1..n |-> s[i].to]
  BY <1>3 DEF Targets
<1>5. PICK q : q = Append(Targets(s), x.to)
  OBVIOUS
<1>6. PICK T : T = {s[i].to : i \in 1..n} \cup {x.to}
  OBVIOUS
<1>7. Targets(s) \in Seq(T) /\ Len(Targets(s)) = n /\ x.to \in T
  BY <1>4, <1>6
<1>8. /\ q \in Seq(T) /\ Len(q) = n + 1 /\ q[n + 1] = x.to
      /\ \A i \in 1..n : q[i] = Targets(s)[i]
  BY <1>5, <1>7
<1>9. \A i \in 1..(n + 1) : i \in 1..n \/ i = n + 1
  OBVIOUS
<1>10. \A i \in 1..(n + 1) : q[i] = r[i].to
  BY <1>3, <1>4, <1>8, <1>9
<1>11. q = [i \in 1..(n + 1) |-> q[i]]
  BY <1>8
<1>12. q = Targets(r)
  BY <1>4, <1>10, <1>11
<1> QED BY <1>1, <1>5, <1>12

\* The types of columns are those of their edges.
LEMMA ColumnsCommute ==
  ASSUME NEW t, NEW s \in Seq(Edge)
  PROVE  Targets(Filter(Columns(s), ColumnsOf(t))) = Targets(Filter(s, EdgesOf(t)))
<1> DEFINE P(r) == Targets(Filter(Columns(r), ColumnsOf(t))) = Targets(Filter(r, EdgesOf(t)))
<1>1. P(<<>>)
  <2>1. Columns(<<>>) = <<>>
    BY DEF Columns
  <2> QED BY <2>1, FilterOfEmpty
<1>2. ASSUME NEW r \in Seq(Edge), NEW x \in Edge, P(r) PROVE P(Append(r, x))
  <2>1. PICK y \in Column : y = [to |-> x.to, type |-> x.type]
    BY EdgeFacts
  <2>2. y.to = x.to /\ y.type = x.type
    BY <2>1
  <2>3. PICK c \in Seq(Column) : c = Columns(r)
    BY ColumnsType
  <2>4. Columns(Append(r, x)) = Append(c, y)
    BY <2>1, <2>3, ColumnsOfAppend
  <2>5. PICK f \in Seq(Column) : f = Filter(c, ColumnsOf(t))
    BY FilterType
  <2>6. PICK h \in Seq(Edge) : h = Filter(r, EdgesOf(t))
    BY FilterType
  <2>7. Targets(f) = Targets(h)
    BY <1>2, <2>3, <2>5, <2>6
  <2>8. \A T : Filter(Append(r, x), T) = IF x \in T THEN Append(Filter(r, T), x) ELSE Filter(r, T)
    BY FilterOfAppend
  <2>9. \A T : Filter(Append(c, y), T) = IF y \in T THEN Append(Filter(c, T), y) ELSE Filter(c, T)
    BY FilterOfAppend
  <2>10. CASE OfType(t, x.type)
    <3>1. y \in ColumnsOf(t) /\ x \in EdgesOf(t)
      BY <2>2, <2>10 DEF ColumnsOf, EdgesOf
    <3>2. Filter(Append(c, y), ColumnsOf(t)) = Append(f, y)
      BY <2>5, <2>9, <3>1
    <3>3. Filter(Append(r, x), EdgesOf(t)) = Append(h, x)
      BY <2>6, <2>8, <3>1
    <3>4. Targets(Append(f, y)) = Append(Targets(f), y.to)
      BY TargetsOfAppend
    <3>5. Targets(Append(h, x)) = Append(Targets(h), x.to)
      BY TargetsOfAppend
    <3> QED BY <2>2, <2>4, <2>7, <3>2, <3>3, <3>4, <3>5
  <2>11. CASE ~OfType(t, x.type)
    <3>1. y \notin ColumnsOf(t) /\ x \notin EdgesOf(t)
      BY <2>2, <2>11 DEF ColumnsOf, EdgesOf
    <3>2. Filter(Append(c, y), ColumnsOf(t)) = f
      BY <2>5, <2>9, <3>1
    <3>3. Filter(Append(r, x), EdgesOf(t)) = h
      BY <2>6, <2>8, <3>1
    <3> QED BY <2>4, <2>7, <3>2, <3>3
  <2> QED BY <2>10, <2>11
<1> HIDE DEF P
<1> DEFINE Those == {r \in Seq(Edge) : P(r)}
<1>3. <<>> \in Those /\ \A r \in Seq(Edge), x \in Edge : r \in Those => Append(r, x) \in Those
  BY <1>1, <1>2
<1> HIDE DEF Those
<1>4. Seq(Edge) \subseteq Those
  BY <1>3, SequenceInduction
<1> QED BY <1>4 DEF Those, P

\* A row holds the columns of its node's edges.
LEMMA RowIsColumns ==
  ASSUME edges \in Seq(Edge), csr \in Csr, Compressed(csr, edges), NEW i \in 1..Len(csr.fromIds)
  PROVE  Row(i) = Columns(From(edges, csr.fromIds[i]))
<1>1. PICK n : n = csr.fromIds[i]
  OBVIOUS
<1>2. csr.rowPtr \in Seq(Nat) /\ Len(csr.rowPtr) = Len(csr.fromIds) + 1
      /\ Len(csr.fromIds) \in Nat
  BY DEF Csr, Compressed
<1>3. i + 1 \in 1..(Len(csr.fromIds) + 1) /\ i \in 1..(Len(csr.fromIds) + 1)
  BY <1>2
<1>4. PICK a \in Nat : a = csr.rowPtr[i]
  <2>1. i \in 1..Len(csr.rowPtr)
    BY <1>2, <1>3
  <2>2. csr.rowPtr[i] \in Nat
    BY <1>2, <2>1, Elements
  <2> QED BY <2>2
<1>5. PICK b \in Nat : b = csr.rowPtr[i + 1]
  <2>1. i + 1 \in 1..Len(csr.rowPtr)
    BY <1>2, <1>3
  <2>2. csr.rowPtr[i + 1] \in Nat
    BY <1>2, <2>1, Elements
  <2> QED BY <2>2
<1>6. a < b /\ b <= Len(edges)
      /\ \A k \in 1..Len(edges) : edges[k].from = n <=> a < k /\ k <= b
  BY <1>1, <1>3, <1>4, <1>5 DEF Compressed
<1>7. \A k \in 1..Len(edges) : edges[k] \in FromNode(n) <=> a < k /\ k <= b
  <2>1. \A k \in 1..Len(edges) : edges[k] \in Edge
    OBVIOUS
  <2> QED BY <1>6, <2>1 DEF FromNode
<1>8. From(edges, n) = [k \in 1..(b - a) |-> edges[a + k]]
  <2>1. a <= b
    BY <1>6
  <2>2. Filter(edges, FromNode(n)) = [k \in 1..(b - a) |-> edges[a + k]]
    <3>1. Lies(FromNode(n), edges, a, b)
      BY <1>6, <1>7, <2>1 DEF Lies
    <3>2. Filter(edges, FromNode(n)) = Part(edges, a, b)
      BY <3>1, FilterOfPart
    <3> QED BY <3>2 DEF Part
  <2> QED BY <2>2 DEF From, FromNode
<1>9. \A k \in 1..(b - a) : a + k \in 1..Len(edges)
  BY <1>6
<1>10. \A k \in 1..(b - a) :
         csr.col[a + k] = [to |-> edges[a + k].to, type |-> edges[a + k].type]
  <2>1. csr.col = Columns(edges)
    BY DEF Compressed
  <2> QED BY <1>9, <2>1, ColumnsType
<1>11. Columns(From(edges, n))
         = [k \in 1..(b - a) |-> [to |-> edges[a + k].to, type |-> edges[a + k].type]]
  BY <1>8 DEF Columns
<1>12. Row(i) = [k \in 1..(b - a) |-> csr.col[a + k]]
  BY <1>4, <1>5 DEF Row
<1> QED BY <1>1, <1>10, <1>11, <1>12

\* A lookup in a copy is a scan of what was copied.
LEMMA LookupIsScan ==
  ASSUME edges \in Seq(Edge), csr \in Csr, Compressed(csr, edges),
         NEW n \in Node, NEW t
  PROVE  Lookup(n, t) = Scan(edges, n, t)
<1>1. Scan(edges, n, t) = Targets(Filter(From(edges, n), EdgesOf(t)))
  BY ScanIsFilter
<1>2. csr.fromIds \in Seq(Node)
  BY DEF Csr
<1>3. Len(csr.fromIds) \in Nat /\ DOMAIN csr.fromIds = 1..Len(csr.fromIds)
  BY <1>2
<1>4. CASE find_row(n) = {}
  <2>1. \A i \in 1..Len(csr.fromIds) : csr.fromIds[i] # n
    BY <1>3, <1>4 DEF find_row
  <2>2. \A k \in 1..Len(edges) : edges[k].from # n
    BY <2>1 DEF Compressed
  <2>3. ToSet(edges) \cap FromNode(n) = {}
    BY <2>2 DEF ToSet, FromNode
  <2>4. From(edges, n) = <<>>
    <3>1. Filter(edges, FromNode(n)) = <<>>
      BY <2>3, FilterNone
    <3> QED BY <3>1 DEF From, FromNode
  <2>5. Targets(Filter(<<>>, EdgesOf(t))) = <<>>
    <3>1. Targets(<<>>) = <<>>
      BY DEF Targets
    <3> QED BY <3>1, FilterOfEmpty
  <2> QED BY <1>1, <1>4, <2>4, <2>5 DEF Lookup
<1>5. CASE find_row(n) # {}
  <2>1. PICK i \in 1..Len(csr.fromIds) : i \in find_row(n) /\ csr.fromIds[i] = n
    BY <1>3, <1>5 DEF find_row
  <2>2. ASSUME NEW j \in find_row(n) PROVE j = i
    <3>1. j \in 1..Len(csr.fromIds) /\ csr.fromIds[j] = n
      BY <1>3 DEF find_row
    <3>2. n \in Int
      BY EdgeFacts
    <3>3. \A k, l \in 1..Len(csr.fromIds) : k < l => csr.fromIds[k] < csr.fromIds[l]
      BY DEF Compressed
    <3>4. ~(i < j) /\ ~(j < i)
      BY <2>1, <3>1, <3>2, <3>3
    <3> QED BY <1>3, <3>1, <3>4
  <2>3. Min(find_row(n)) = i
    <3>1. find_row(n) \subseteq Nat /\ i \in Nat
      <4>1. i \in Nat
        BY <1>3
      <4> QED BY <2>2, <4>1
    <3>2. \A k \in find_row(n) : i <= k
      BY <2>2, <3>1
    <3> QED BY <2>1, <3>1, <3>2, MinIsLeast
  <2>4. Row(i) = Columns(From(edges, n))
    BY <2>1, RowIsColumns
  <2>5. From(edges, n) \in Seq(Edge)
    BY FilterType DEF From
  <2>6. Lookup(n, t) = Targets(Filter(Columns(From(edges, n)), ColumnsOf(t)))
    BY <1>5, <2>3, <2>4 DEF Lookup, ColumnsOf
  <2> QED BY <1>1, <2>5, <2>6, ColumnsCommute
<1> QED BY <1>4, <1>5

LEMMA LookupsAgree == GraphInv => LookupsAreExact
<1> SUFFICES ASSUME GraphInv, NEW n \in Node, NEW t \in EdgeType \cup {AnyType}
             PROVE  get_neighbors(n, t) = Scan(added, n, t)
  BY DEF LookupsAreExact, NeighborsAreScan, GraphInv
<1>1. edges \in Seq(Edge) /\ added \in Seq(Edge) /\ csr \in Csr
  BY DEF GraphInv, GraphTypeOK
<1>2. From(edges, n) = From(added, n)
  BY DEF GraphInv, OutgoingAreKept, get_outgoing_edges
<1>3. Scan(edges, n, t) = Scan(added, n, t)
  BY <1>1, <1>2, ScanIsFilter
<1>4. ~dirty => Lookup(n, t) = Scan(edges, n, t)
  BY <1>1, LookupIsScan DEF GraphInv
<1> QED BY <1>3, <1>4 DEF get_neighbors

LEMMA CopyIsSorted == GraphInv => CsrIsSorted
<1> SUFFICES ASSUME GraphInv, ~dirty
             PROVE  /\ Len(csr.rowPtr) = Len(csr.fromIds) + 1
                    /\ csr.rowPtr[1] = 0 /\ Last(csr.rowPtr) = Len(edges)
                    /\ \A i \in 1..(Len(csr.fromIds) - 1) : csr.fromIds[i] < csr.fromIds[i + 1]
                    /\ \A i \in DOMAIN csr.fromIds : csr.rowPtr[i] < csr.rowPtr[i + 1]
  BY DEF CsrIsSorted
<1>1. Compressed(csr, edges) /\ csr.fromIds \in Seq(Node)
  BY DEF GraphInv, GraphTypeOK, Csr
<1>2. Len(csr.fromIds) \in Nat /\ DOMAIN csr.fromIds = 1..Len(csr.fromIds)
  BY <1>1
<1>3. \A i \in 1..(Len(csr.fromIds) - 1) : csr.fromIds[i] < csr.fromIds[i + 1]
  <2>1. \A i \in 1..(Len(csr.fromIds) - 1) :
          i \in 1..Len(csr.fromIds) /\ i + 1 \in 1..Len(csr.fromIds) /\ i < i + 1
    BY <1>2
  <2> QED BY <1>1, <2>1 DEF Compressed
<1> QED BY <1>1, <1>2, <1>3 DEF Compressed, Last

-----------------------------------------------------------------------------
(* The invariant of the adjacency index *)

LEMMA GraphInitInv == GraphInit => GraphInv
<1> SUFFICES ASSUME GraphInit PROVE GraphInv
  OBVIOUS
<1>1. edges = <<>> /\ added = <<>> /\ csr = [fromIds |-> <<>>, rowPtr |-> <<0>>, col |-> <<>>]
  BY DEF GraphInit, EmptyCsr
<1>2. GraphTypeOK
  <2>1. labels \in [Node -> Label \cup {NoNode}] /\ dirty \in BOOLEAN
    BY DEF GraphInit
  <2>2. <<>> \in Seq(Node) /\ <<0>> \in Seq(Nat) /\ <<>> \in Seq(Column) /\ <<>> \in Seq(Edge)
    <3>1. 0 \in Nat
      OBVIOUS
    <3> QED BY <3>1
  <2>3. csr \in Csr
    BY <1>1, <2>2 DEF Csr
  <2> QED BY <1>1, <2>1, <2>2, <2>3 DEF GraphTypeOK
<1>3. OutgoingAreKept
  BY <1>1 DEF OutgoingAreKept, get_outgoing_edges
<1>4. Sorted(edges)
  BY <1>1 DEF Sorted
<1>5. Compressed(csr, edges)
  <2>1. csr.fromIds = <<>> /\ csr.rowPtr = <<0>> /\ csr.col = <<>> /\ Len(<<0>>) = 1 /\ <<0>>[1] = 0
    BY <1>1
  <2>2. Columns(<<>>) = <<>>
    BY DEF Columns
  <2> QED BY <1>1, <2>1, <2>2 DEF Compressed
<1> QED BY <1>2, <1>3, <1>4, <1>5 DEF GraphInv

LEMMA AddEdgeInv == ASSUME GraphInv, NEW e \in Edge, add_edge(e) PROVE GraphInv'
<1>1. edges \in Seq(Edge) /\ added \in Seq(Edge)
  BY DEF GraphInv, GraphTypeOK
<1>2. edges' = Append(edges, e) /\ added' = Append(added, e) /\ dirty' = TRUE
      /\ UNCHANGED <<labels, csr>>
  BY DEF add_edge
<1>3. GraphTypeOK'
  BY <1>1, <1>2 DEF GraphInv, GraphTypeOK
<1>4. ASSUME NEW n \in Node PROVE From(edges', n) = From(added', n)
  <2>1. From(edges, n) = From(added, n)
    BY DEF GraphInv, OutgoingAreKept, get_outgoing_edges
  <2>2. \A es \in Seq(Edge) : From(Append(es, e), n)
          = IF e \in FromNode(n) THEN Append(From(es, n), e) ELSE From(es, n)
    BY FilterOfAppend DEF From, FromNode
  <2> QED BY <1>1, <1>2, <2>1, <2>2
<1>5. OutgoingAreKept'
  BY <1>4 DEF OutgoingAreKept, get_outgoing_edges
<1> QED BY <1>2, <1>3, <1>5 DEF GraphInv

LEMMA RefreshInv == ASSUME GraphInv, refresh PROVE GraphInv'
<1>1. edges \in Seq(Edge) /\ added \in Seq(Edge) /\ csr \in Csr
  BY DEF GraphInv, GraphTypeOK
<1>2. CASE ~dirty
  BY <1>2 DEF refresh, ensure_csr, GraphInv, GraphTypeOK, OutgoingAreKept, get_outgoing_edges
<1>3. CASE dirty
  <2>1. edges' = SortByFrom(edges) /\ csr' = Build(edges') /\ dirty' = FALSE
        /\ UNCHANGED <<labels, added>>
    BY <1>3 DEF refresh, ensure_csr
  <2>2. edges' \in Seq(Edge) /\ Sorted(edges') /\ \A n \in Node : From(edges', n) = From(edges, n)
    BY <1>1, <2>1, SortIsStable
  <2>3. csr' \in Csr /\ Compressed(csr', edges')
    BY <2>1, <2>2, BuildIsCompressed
  <2>4. GraphTypeOK'
    BY <2>1, <2>2, <2>3 DEF GraphInv, GraphTypeOK
  <2>5. OutgoingAreKept'
    BY <2>1, <2>2 DEF GraphInv, OutgoingAreKept, get_outgoing_edges
  <2> QED BY <2>2, <2>3, <2>4, <2>5 DEF GraphInv
<1> QED BY <1>2, <1>3

\* The list keeps the edges of each node in the order they were added, and a copy that
\* is not stale is a compression of the list.
THEOREM GraphInvariant == GraphSpec => []GraphInv
<1>1. ASSUME GraphInv, [GraphNext]_csrVars PROVE GraphInv'
  <2>1. ASSUME NEW n \in Node, NEW l \in Label, add_node(n, l) PROVE GraphInv'
    BY <1>1, <2>1 DEF add_node, GraphInv, GraphTypeOK, OutgoingAreKept, get_outgoing_edges
  <2>2. ASSUME NEW e \in Edge, add_edge(e) PROVE GraphInv'
    BY <1>1, <2>2, AddEdgeInv
  <2>3. CASE refresh
    BY <1>1, <2>3, RefreshInv
  <2>4. CASE UNCHANGED csrVars
    BY <1>1, <2>4 DEF csrVars, GraphInv, GraphTypeOK, OutgoingAreKept, get_outgoing_edges
  <2> QED BY <1>1, <2>1, <2>2, <2>3, <2>4 DEF GraphNext
<1> QED BY <1>1, GraphInitInv, PTL DEF GraphSpec

\* Whatever mixture of additions and rebuilds came before, a lookup answers what a scan
\* of the edges in the order they were added would.
THEOREM LookupsStayExact == GraphSpec => []LookupsAreExact
BY GraphInvariant, LookupsAgree, PTL

\* A copy that is not stale may be searched by halving, and its rows partition the edges.
THEOREM CopiesAreSorted == GraphSpec => []CsrIsSorted
BY GraphInvariant, CopyIsSorted, PTL

-----------------------------------------------------------------------------
(* The indexes together *)

\* A step of one of the three is one of its own next-state relation, and stutters for
\* the others.
LEMMA IndexesStepAlone ==
  /\ MCInit => Init /\ GraphInit /\ SearchInit
  /\ [MCNext]_allVars => [Next]_vars /\ [GraphNext]_csrVars /\ [SearchNext]_bfsVars
<1>1. MCInit => Init /\ GraphInit /\ SearchInit
  BY DEF MCInit
<1>2. ASSUME MCNext PROVE [Next]_vars /\ [GraphNext]_csrVars /\ [SearchNext]_bfsVars
  BY <1>2 DEF MCNext, Searching
<1>3. ASSUME UNCHANGED allVars PROVE UNCHANGED vars /\ UNCHANGED csrVars /\ UNCHANGED bfsVars
  BY <1>3 DEF allVars
<1> QED BY <1>1, <1>2, <1>3

\* Both keep their types and the copy of the edges its form, and with them what is
\* proved of each index and of the searches holds of them side by side.
THEOREM IndexesTypeCorrect == MCSpec => []IndexesTypeOK /\ SearchSpec
<1>1. MCSpec => Spec /\ GraphSpec /\ SearchSpec
  BY IndexesStepAlone, PTL DEF MCSpec, Spec, GraphSpec, SearchSpec
<1>2. TypeOK /\ GraphInv => IndexesTypeOK
  BY CopyIsSorted DEF GraphInv, IndexesTypeOK
<1> QED BY <1>1, <1>2, HnswTypeCorrect, GraphInvariant, PTL
=============================================================================
