SPECIFICATION Spec
CONSTANTS
    Peer = {p1, p2}
    Command = {c1, c2, c3}
    Journaled = {c1, c2}
    Local = Local
    NONE = NONE
    SeqSize = 4
SYMMETRY Alike
INVARIANTS
    TypeOK
    Recoverable
    SeqConsecutive
    NotEchoed
    ReachesActive
CHECK_DEADLOCK FALSE
