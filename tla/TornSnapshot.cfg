CONSTANTS
  r1 = r1
  c1 = c1
  c2 = c2
  a = a
  b = b
  Nobody = Nobody
  Readers = {r1}
  Callers = {c1, c2}
  Calls <- MCCalls
  Cells = {a, b}
  MaxSpins = 2
  MaxWrites = 2
  InOrder = TRUE
SPECIFICATION StableSpec
PROPERTIES
  NoTornSnapshot
