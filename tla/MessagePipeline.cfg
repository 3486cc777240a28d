SPECIFICATION Spec
CONSTANTS
  m1 = m1
  m2 = m2
  m3 = m3
  Messages = {m1, m2, m3}
  Handlers = 2
  Crowd = 2
  Sayings <- MCSayings
  NoMessage = NoMessage
SYMMETRY Symmetry
INVARIANTS
  AnsweredAsAlone
  QuietGroupIsReady
  BadWordsStayIn
\* each of the three messages comes once, or the process is down
CHECK_DEADLOCK FALSE
