SPECIFICATION Spec
CONSTANTS
    Peer = {p1, p2}
    Remote = r
    Us = Us
    NONE = NONE
    MaxDoubles = 1
INVARIANTS
    TypeOK
    BothSidesAgree
    UniqueSsrc
    EstablishedBothPorts
    AnswersFromSession
    SyncsRemote
    ByeAtTheEnd
SYMMETRY InterchangeablePeers
CHECK_DEADLOCK FALSE
