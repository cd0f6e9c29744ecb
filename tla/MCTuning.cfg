CONSTANTS
  Key <- MCKey
  NitSection <- MCNitSection
  OtherSection <- MCOtherSection
  NoSection = NoSection
  First = 474000000
  LastFreq = 498000000
  Step = 8000000
  Presets <- MCPresets
  Lines <- MCLines
SPECIFICATION Spec
INVARIANTS TypeOK ReadAsWritten SkippedWasTuned WithinRange LineKeepsTuning
CHECK_DEADLOCK FALSE
