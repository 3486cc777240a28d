SPECIFICATION Spec
CONSTANTS
  Goroutines = {g1, g2}
  Listed = {"listed", "both"}
  Given = {"both"}
  MaxCalls = 3
  MaxChanges = 2
\* Throws and commands are bounded, and an abort ends the process.
CHECK_DEADLOCK FALSE
SYMMETRY Symmetric
INVARIANTS
  DrawsOfItsTime
  OnlyRacesLoseCounts
