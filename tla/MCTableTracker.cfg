CONSTANTS
  Id <- MCId
  LastNumber <- MCLastNumber
  FirstVersion <- MCFirstVersion
  StrayLast = {0, 2}
  Jump = {7}
  Behind = {0, 1}
  MaxUpdates = 1
  MaxStrays = 1
  MaxChannels = 2
SPECIFICATION FairSpec
CHECK_DEADLOCK FALSE
INVARIANTS TypeOK StopMeansHarvested
PROPERTIES NoneSkipped NewerAccepted HeardOutStops EveryChannelCompletes
