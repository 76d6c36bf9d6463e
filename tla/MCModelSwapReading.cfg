CONSTANTS
  Parsers = {p1}
  Swappers = {s1}
  Viterbis = {v0, v1}
  First = v0
  None = None
SPECIFICATION Spec
INVARIANT ReadsLiveFeatures
