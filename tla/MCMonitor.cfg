SPECIFICATION FairSpec
CONSTANTS
  NR_BP = 3
  NULL = null
  Uses <- MCUses
INVARIANTS
  InUseAgrees
  CodeIntact
  ArmedWhileRunning
  NoMissedChange
PROPERTIES
  RegistrySpec
  GuestUnaware
  TrapStops
  BreakpointReached
