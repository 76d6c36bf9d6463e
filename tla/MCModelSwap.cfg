CONSTANTS
  Parsers = {p1, p2}
  Swappers = {s1}
  Viterbis = {v0, v1, v2}
  First = v0
  None = None
SPECIFICATION FairSpec
INVARIANTS
  TypeOK
  AnalyzeOnCurrent
  SettingsMatchViterbi
  DeletedOnce
  NoLeak
PROPERTY
  SwapReturns
