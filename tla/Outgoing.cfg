SPECIFICATION FairSpec
CONSTANTS
  Goroutines = {"g1", "g2"}
  Channels = {"c1", "c2"}
  Allowed = {"c1"}
  NoChannel = "none"
  MaxSpeeches = 1
  Tasks <- MCTasks
  RunTick <- MCRunTick
\* The process stops for good when the sender panics.
CHECK_DEADLOCK FALSE
INVARIANTS
  OnlyRacesLose
  DeliveredOnceInOrder
PROPERTIES
  WaitingTextsLeave
