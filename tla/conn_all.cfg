CONSTANTS
    c1 = c1  c2 = c2  c3 = c3  Main = Main  Control = Control  None = None
    Conn <- Conns
    Fd <- Fds
    Loop <- Loops
    Config <- All
SPECIFICATION FairSpec
INVARIANTS TypeOK OwnSocket Survives AllClosed
PROPERTIES Forgotten Welcomed
CHECK_DEADLOCK FALSE
