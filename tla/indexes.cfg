SPECIFICATION MCSpec
CONSTANTS
  Id = {a, b, c}
  Vector <- MCVector
  Query <- MCQuery
  Distance <- MCDistance
  Levels = {0, 1}
  M = 1
  EfConstruction = 2
  Ks = {1}
  Efs = {1, 3}
  NoId = NoId
  NoCall = NoCall
  NoAnswer = NoAnswer
  MaxInserts = 3
  MaxRemoves = 1
  Node = {0, 1, 2}
  MaxNode = 2
  EdgeType = {cites, knows}
  Label = {l}
  NoNode = NoNode
  AnyType = AnyType
  MaxEdges = 3
  Vertex = {1, 2, 3, 4, 5}
  Graphs <- MCGraphs
  Starts = {1}
  Depths = {1, 2}
  NoPath = NoPath
INVARIANTS
  IndexesTypeOK
  FoundAreLive
  LayersAreConnected
  SearchIsExact
  LookupsAreExact
  SearchTypeOK
  SearchesAreExact
PROPERTIES
  CallsEnd
  Terminates
