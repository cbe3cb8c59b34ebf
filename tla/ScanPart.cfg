SPECIFICATION Spec
CONSTANTS
  a = a
  b = b
  c = c
  Root = Root
  Files = {a, b, c}
  Worlds <- MCWorlds
INVARIANTS
  ScopedIsPartOfFull
