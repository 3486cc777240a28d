SPECIFICATION FairSpec
CONSTANTS
  Goroutines = {"g1", "g2"}
  Words = {"a", "b"}
  Blank = "blank"
  Unknown = "unknown"
  JobsOf <- MCJobsOf
  Asked = {"a", "blank", "unknown"}
  SentEnd = "."
  MinChainDistance = 2
  MaxChainDistance = 2
  RunLimit = 2
  PickLimit = 1
  LearnLimit = 1
  Rows <- MCRows
\* Every job ends, and a panic ends the process.
CHECK_DEADLOCK FALSE
INVARIANTS
  IndexesAgree
  ModelIsTheRows
  SpeaksAsTaught
PROPERTIES
  OnlyRebuildsAndFirstFragmentsFail
  JobsEnd
