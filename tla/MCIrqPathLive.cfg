SPECIFICATION FairSpec
CONSTANTS
  Cpu = cpu
  Free = free
  Destroyed = destroyed
  Timer = {timer}
  Keyboard = {kbd}
  Audio = {}
  GuestInstrs <- MCLive
  GateTypes <- MCKernelGates
  Steps <- MCContinue
  Watchpoints = FALSE
PROPERTIES
  HltWakes
  StopEndsRun
  IdeDelivered
