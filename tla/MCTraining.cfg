SPECIFICATION Spec
CONSTANTS
  Features <- MCFeatures
  Keys <- MCKeys
  FeaturesOf <- MCFeaturesOf
  Corpora <- MCCorpora
  Empty = Empty
  Unended = Unended
  OldModels <- MCOldModels
  Freqs = {1, 3}
  ThreadNums = {1, 2}
  EtaNum = 1
  EtaDen = 10
  Weights = {0, 1}
INVARIANTS
  FeaturesAligned
  ReducedIsSum
PROPERTY
  TrainingEnds
CHECK_DEADLOCK FALSE
