SPECIFICATION Spec
CONSTANTS
  Threads = {r, u, t1, t2, t3, t4}
  Roots = {r, u}
  UfuncRoots = {u}
  Scopes = {f, g}
  Contexts = {x1, x2, x3}
  Null = Null
  MaxCalls = 3
  MaxNest = 3
INVARIANTS ContextsRight ArgumentsKept OneCall
SYMMETRY Symmetric
CHECK_DEADLOCK FALSE
