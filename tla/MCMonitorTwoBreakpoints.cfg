SPECIFICATION Spec
CONSTANTS
  NR_BP = 3
  NULL = null
  Uses <- TwoBreakpoints
PROPERTY
  RestoresOriginalOpcode
