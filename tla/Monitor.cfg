CONSTANT MaxLosses = 7
SPECIFICATION MonitorSpec
INVARIANTS TypeOK BitMatchesState OneAttempt AddressComing NeedsMet
  ConnectionNotMissed EntryWhole TableComplete
PROPERTIES ConnectedIfServed AllStarted
  AllReported
