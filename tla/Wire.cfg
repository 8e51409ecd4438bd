SPECIFICATION Spec
CONSTANTS
    r1 = r1
    r2 = r2
    p = p
    Program <- MCProgram
    JournalWrite <- MCProgram
    Peer <- MCPeer
    Link <- MCLink
    Ssrc <- MCSsrc
    Stray <- MCStray
    Command <- MCAnyLength
    Body <- MCBody
    PeerSeq = 65535
    MaxEntered = 2
    MaxDoubled = 1
INVARIANTS
    TypeOK
    ReceivedAsSent
    NotBack
    Acknowledged
CHECK_DEADLOCK FALSE
