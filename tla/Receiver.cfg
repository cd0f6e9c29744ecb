SPECIFICATION FairSpec
CONSTANTS
  Channel = {c1, c2}
  None = None
  Filter = {f1, f2}
  Fd = {1, 2, 3}
  MaxTunes = 3
  MaxEvents = 2
INVARIANTS TypeOK SourcesHeld LockNotElsewhere DescriptorsOwned AnswerComing
PROPERTIES SignalsAwaited TuneAnswered ImplementsTuner
