SPECIFICATION Spec
CONSTANTS
  Handlers = {h1, h2}
  Users = {"u1"}
  Channels = {"c1", "c2"}
  Roles = {"r1"}
  Kinds = {"text", "thread", "new"}
  FirstChannels <- MCFirstChannels
  MaxTurns = 2
  MaxMessages = 1
\* The process stops for good when it panics in its last session.
CHECK_DEADLOCK FALSE
SYMMETRY Symmetric
INVARIANTS
  CacheFollowsDiscord
  AnswersFollowDiscord
