SPECIFICATION Spec
CONSTANTS
  Cpu = cpu
  Free = free
  Destroyed = destroyed
  Timer = {timer}
  Keyboard = {kbd}
  Audio = {audio}
  GuestInstrs <- InstrKinds
  GateTypes <- MCGates
  Steps <- MCSteps
  Watchpoints = TRUE
INVARIANTS
  TypeOK
  AssertIntrNo
  MutualExclusion
  HighestWins
PROPERTY
  MailboxSpec
