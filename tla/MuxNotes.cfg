CONSTANTS
    desk = desk
    m1 = m1
    Clients = {desk, m1}
    Stdio = desk
    Mobile = {m1}
    MayBreak = {desk, m1}
    Ids = {1}
    Questions = {}
    Threads = {th1}
    Turns = {t1}
    KeepAlive = FALSE
    ReplayDesktop = TRUE
    BufferLimit = 1
    ClientLimit <- LimitAbove
    NotesBound = 2
SPECIFICATION Spec
INVARIANTS NothingMissed EchoesOffDesktop
CHECK_DEADLOCK FALSE
