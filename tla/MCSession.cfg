SPECIFICATION Spec
CONSTANTS
  None = None
  ab = ab
  empty = empty
  long = long
  ab_line = ab_line
  wide = wide
  Texts = {ab, empty, long, ab_line, wide}
  TooLong = {long}
  Size <- MCSize
  Joined <- MCJoined
  Results <- MCResults
  Morphs <- MCMorphs
  RequestTypes <- MCRequestTypes
  Thetas = {75}
  DefaultTheta = 75
  Capacities = {0, 12}
  NBestMax = 3
  Numbers = {1, 3, 4}
  DefaultSize = 20
  ShortRequest = 16
  MaxLong = 3
INVARIANTS
  TypeOK
  AnswerRight
  RequestInForce
  NextReadsLive
  TextIntact
  RegionsDisjoint
  PoolBounded
CONSTRAINT
  LongStringsApart
