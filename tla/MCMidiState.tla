---------------------------- MODULE MCMidiState -----------------------------
(* Instances of MidiState for TLC: streams of a few messages.              *)
EXTENDS MidiState

\* Two notes that differ in their data, a program change, tune request, a whole
\* system exclusive and the four kinds of segment.
Channel  == {<<144, 1, 2>>, <<144, 3, 3>>, <<193, 5>>}
System   == {<<246>>}
SysEx    == {<<240, 1, 247>>, <<240, 2, 240>>, <<247, 3, 240>>, <<247, 4, 247>>,
             <<247, 244>>}
MCWellFormed == Channel \cup System \cup SysEx

\* A real-time message in the MIDI list of an RTP packet.
MCRealTimeInList == {<<144, 1, 2>>, <<248>>}

MCModes    == {"SIMPLE", "RTP"}
MCRtp      == {"RTP"}
MCCapacity == [m \in {"SIMPLE", "RTP"} |-> IF m = "RTP" THEN 9 ELSE 4]
MCMaxSent  == [m \in {"SIMPLE", "RTP"} |-> IF m = "RTP" THEN 3 ELSE 4]
MCRtpCapacity == [m \in {"RTP"} |-> 9]
MCRtpMaxSent  == [m \in {"RTP"} |-> 3]
MCRealTime == {248}
MCNone     == {}
MCDelta    == {<<0>>, <<129, 5>>}
=============================================================================
