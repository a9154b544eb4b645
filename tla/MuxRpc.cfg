CONSTANTS
    desk = desk
    m1 = m1
    Clients = {desk, m1}
    Stdio = desk
    Mobile = {m1}
    MayBreak = {m1}
    Ids = {1, 2}
    Questions = {q1}
    Threads = {}
    Turns = {}
    KeepAlive = TRUE
    ReplayDesktop = TRUE
    BufferLimit = 1
    ClientLimit <- LimitAbove
    NotesBound = 1
SPECIFICATION FairSpec
INVARIANTS ResponsesReachAsker NoRequestForgotten OpenQuestionsShown
PROPERTY RequestAnswered ImplementsSharedAppServer
CHECK_DEADLOCK FALSE
ACTION_CONSTRAINT RequestsBound
