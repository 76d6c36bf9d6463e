SPECIFICATION Spec
CONSTANTS
  None = None
  ab = ab
  empty = empty
  long = long
  ab_line = ab_line
  wide = wide
  Texts = {ab, empty, long, ab_line}
  TooLong = {long}
  Size <- MCSize
  Joined <- MCJoined
  Results <- MCResults
  Morphs <- MCMorphs
  RequestTypes <- SmallRequestTypes
  Thetas = {75}
  DefaultTheta = 75
  Capacities = {8}
  NBestMax = 3
  Numbers = {1}
  DefaultSize = 20
  ShortRequest = 16
  MaxLong = 0
INVARIANTS
  NullWhenTooSmall
