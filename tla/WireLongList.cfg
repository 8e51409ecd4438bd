SPECIFICATION Spec
CONSTANTS
    r1 = r1
    r2 = r2
    p = p
    Program <- MCProgram
    JournalWrite <- MCProgram
    Peer <- MCPeer
    Link <- MCLink
    Ssrc <- MCSsrc
    Stray <- MCStray
    Command <- MCLong
    Body <- MCBody
    PeerSeq = 65535
    MaxEntered = 2
    MaxDoubled = 1
INVARIANT
    AllReceivedAsSent
CHECK_DEADLOCK FALSE
