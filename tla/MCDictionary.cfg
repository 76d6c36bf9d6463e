SPECIFICATION Spec
CONSTANTS
  MaxByte = 3
  AllocMin = 8
  GrowNum = 3
  GrowDen = 2
  Star = Star
  None = None
  Missing = Missing
  BadFormat = BadFormat
  Oversized = Oversized
  Lines <- MCLines
  Inputs <- MCInputs
  UnkDefault <- MCUnkDefault
  LeftSize = 2
  RightSize = 3
  UnigramRules <- MCUnigramRules
  LeftRules <- MCLeftRules
  RightRules <- MCRightRules
  LeftIds <- MCLeftIds
  RightIds <- MCRightIds
  PosId <- MCPosId
  ModelCost <- MCModelCost
  Recoded <- MCRecoded
  RecodedFeature <- MCRecodedFeature
  NodeFormat <- MCNodeFormat
  IntMax = 127
  CountSize = 4
  ShortMax = 7
  MaxText = 4
INVARIANTS
  TypeOK
  AnswersAreMap
  SearchWithinImage
  ChildrenUnshared
  WritesAllocated
CHECK_DEADLOCK FALSE
