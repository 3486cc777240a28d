SPECIFICATION Spec
CONSTANTS
  Goroutines = {g1, g2}
  Users = {u1, u2}
  Admins = {u1}
  Nicks = {n1, n2}
  Renamers = {u2}
  Nobody = Nobody
  Limit = 2
  MaxMessages = 3
  MaxCommands = 1
  MaxRenames = 1
\* The messages are bounded, and a goroutine may panic.
CHECK_DEADLOCK FALSE
SYMMETRY Symmetric
INVARIANTS
  BacklogHoldsTheLatest
  CountsAreMessages
  BlocksHitTheNamed
