CONSTANTS
  r1 = r1
  c1 = c1
  c2 = c2
  a = a
  b = b
  Nobody = Nobody
  Readers = {r1}
  Callers = {c1, c2}
  Calls <- MCCalls
  Cells = {a, b}
  MaxSpins = 2
  MaxWrites = 3
  InOrder = TRUE
SPECIFICATION MCSpec
INVARIANTS
  NeverUnmapped
PROPERTIES
  UnlappedIsWhole
  NeverBackwards
  CallsReturn
