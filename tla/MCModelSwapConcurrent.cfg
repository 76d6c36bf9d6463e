CONSTANTS
  Parsers = {p1}
  Swappers = {s1, s2}
  Viterbis = {v0, v1, v2}
  First = v0
  None = None
SPECIFICATION Spec
INVARIANT DeletedOnce
