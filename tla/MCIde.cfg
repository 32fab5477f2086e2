SPECIFICATION FairSpec
CONSTANTS
  NSectors = 3
  NR_SEC_CACHE = 2
  Words = 2
  HZ = 2
  NewValues = {new1}
  Uses <- MCUses
INVARIANTS
  DeviceAsserts
  CleanSlotIsOnDisk
PROPERTIES
  StoreSpec
  CallReturns
