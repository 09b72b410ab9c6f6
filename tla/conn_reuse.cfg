CONSTANTS
    c1 = c1  c2 = c2  c3 = c3  Main = Main  Control = Control  None = None
    Conn <- Conns
    Fd <- Fds
    Loop <- Loops
    Config <- Lasting
SPECIFICATION Spec
INVARIANTS NeverDies
CHECK_DEADLOCK FALSE
