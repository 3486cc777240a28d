SPECIFICATION TextSpec
CONSTANTS
  Texts <- MCTexts
  Variants = {"discord", "slack", "matrix", "xmpp", "twitter", "plain"}
  Messages <- MCMessages
  UserNames <- MCUserNames
  RoleNames <- MCNames
  ChannelNames <- MCNames
  Unknown = Unknown
\* A text is learnt once.
CHECK_DEADLOCK FALSE
INVARIANTS
  RunesAreKept
  NothingIsLost
  MentionsReachTheModel
PROPERTIES
  TextsEnd
