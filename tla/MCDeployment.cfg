CONSTANTS
  Procs = {d, w}
  Daemon = d
  Requests <- MCRequests
  MaxFaults = 2
SPECIFICATION Spec
INVARIANTS
  ServedWhole
  NeverSevered
PROPERTIES
  KeepsContract
  Recovers
