CONSTANTS
  TS <- MCTS
  NoTS = NoTS
  Freq = {"f1", "f2", "f3"}
  NoFreq = NoFreq
  Service = {"s1", "s2"}
  Channels <- MCChannels
  Network = {1, 2}
  Nit <- MCNit
  Sdt <- MCSdt
  Policies <- MCBoth
  MaxFrames = 2
  NitOn <- MCNitOn
  BatOn <- MCBatOn
  ThisSdtOn <- MCThisSdtOn
  OtherSdtOn <- MCOtherSdtOn
SPECIFICATION FairScanSpec
INVARIANTS TypeOK ScanTypeOK FinalStatusExact NothingLeftUntried TunedWhileHeard NeverStalls
PROPERTIES ResultsFrozen EndsUnlessStuck
