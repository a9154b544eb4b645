CONSTANTS
    desk = desk
    m1 = m1
    Clients = {m1}
    Stdio = desk
    Mobile = {m1}
    MayBreak = {}
    Ids = {1, 2}
    Questions = {}
    Threads = {th1}
    Turns = {t1, t2}
    KeepAlive = TRUE
    ReplayDesktop = TRUE
    BufferLimit = 2
    ClientLimit <- LimitBelow
    NotesBound = 3
SPECIFICATION Spec
SYMMETRY TurnSymmetry
INVARIANTS TypeOK NothingMissed ActiveTurnFollowsStream EchoOncePerStart
CHECK_DEADLOCK FALSE
