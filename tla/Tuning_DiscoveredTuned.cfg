CONSTANTS
  Key <- MCKey
  NitSection <- MCNitSection
  OtherSection <- MCOtherSection
  NoSection = NoSection
  First = 474000000
  LastFreq = 498000000
  Step = 8000000
  Presets <- MCPresets
  Lines <- MCLines
SPECIFICATION Spec
INVARIANT DiscoveredTuned
CHECK_DEADLOCK FALSE
