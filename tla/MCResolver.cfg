SPECIFICATION Spec
CONSTANTS
  Nets <- MCNets
  Drivers <- MCDrivers
  None = None
INVARIANTS DriversCounted ResolvedRight
