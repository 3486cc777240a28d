CONSTANTS
    m1 = m1
    m2 = m2
    alice = alice
    bob = bob
    None = None
    Messages = {m1, m2}
    Users = {alice, bob}
    AuthorOf <- MCAuthorOf
    Texts = {hi, ho}
    BadTexts = {ho}
    LearningMessages = {m1}
    Tasks = {t1, t2, t3}
    EventKinds <- EveryKind
    PartialUpdates = FALSE
    DbMayFail = TRUE
    MaxCrashes = 1
SPECIFICATION FairRawSpec
INVARIANTS
    EventsInTurnAreStored
    ModelFollowsStore
    BlockedAuthorsStayOut
PROPERTIES
    StaleTextsAreForgotten
