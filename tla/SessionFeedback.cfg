SPECIFICATION Spec
CONSTANTS
    Peer = {p1}
    Command = {c1, c2}
    Journaled = {c1, c2}
    Local = Local
    NONE = NONE
    SeqSize = 65536
INVARIANT
    DropsOnlyAcked
CHECK_DEADLOCK FALSE
