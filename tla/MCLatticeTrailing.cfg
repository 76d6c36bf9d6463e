CONSTANTS
  a = a
  b = b
  sp = sp
  nul = nul
  None = None
  Space <- sp
  Nul <- nul
  Property <- MCProperty
  Dictionaries <- MCDictionaries
  UnkTokens <- MCUnkTokens
  MaxGroupingSize = 1
  MaxLookup = 2
  Inputs <- TrailingInputs
  LSize = 2
  Matrix <- MCMatrix
  CostLimit = 6
  Weight <- MCWeight
SPECIFICATION Spec
INVARIANT MarginalsExact
CHECK_DEADLOCK FALSE
