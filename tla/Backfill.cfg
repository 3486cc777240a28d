SPECIFICATION FairSpec
CONSTANTS
  Channels <- MCChannels
  MessageOf <- MCMessageOf
  LastId = 4
  Present = 3
  PageSize = 2
  Windows = {0, 2}
  MaxRuns = 2
  MaxEvents = 2
  MaxFaults = 1
\* Everything stops when the bounds are reached and no import runs.
CHECK_DEADLOCK FALSE
INVARIANTS
  CompletedIsComplete
  CountersAddUp
  StoredAsDiscordSays
PROPERTIES
  ImportsEnd
