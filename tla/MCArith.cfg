CONSTANTS
  Word = 16
  Halves <- MCHalves
  ByteBits = 2
  WordBits = 4
  F = 4
  E = 3
  SigBits = 14
  ExprWord = 16
  MaxTokens = 9
  MemoryWord <- MCMemoryWord
  Inputs <- MCInputs
INIT Init
NEXT Next
CHECK_DEADLOCK FALSE
INVARIANTS
  SumsRight
  ShiftsRight
  QuotientsRight
  FpuRight
  ExprRight
