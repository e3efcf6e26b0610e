SPECIFICATION Spec
CONSTANTS
  Signals = {"clk", "q"}
  Functors = {"pos", "any", "ev", "both", "autoneg", "autoor"}
  Kind <- MCKind
  Sig <- MCSig
  Ors <- MCOrs
  Automatic = {"autoneg", "autoor"}
  Threads = {t1, t2}
  Contexts = {c1, c2}
  Static = Static
  Bits = {"0", "1"}
  Ctls <- MCCtls
  MaxOps = 5
INVARIANTS NoMissedEvent CountsExact
PROPERTIES WokenByEvent NoneLost
SYMMETRY Symmetric
CHECK_DEADLOCK FALSE
