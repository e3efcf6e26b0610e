SPECIFICATION Spec
CONSTANTS
  None = None
  r = r
  q = q
  a = a
  b = b
  c = c
  s1 = s1
  s2 = s2
  Threads = {r, q, a, b, c}
  Scopes = {s1, s2}
  MaxFork = 2
  Programs <- DisableDetached
SYMMETRY ForkedAlike
INVARIANTS NoAssertFails
