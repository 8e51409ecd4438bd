------------------------------- MODULE MCWire -------------------------------
(***************************************************************************)
(* The wire model for TLC: two raveloxmidi programs, the first of which    *)
(* also has a session with another peer.                                   *)
(***************************************************************************)
EXTENDS Wire, TLC

CONSTANTS r1, r2, p

MCProgram == {r1, r2}
MCPeer    == {p}
MCLink    == {{r1, r2}, {r1, p}}

\* The first octet of a SSRC may be 255, as of a session packet.
MCSsrc == <<r1, r2>> :> <<65535, 1>> @@ <<r2, r1>> :> <<2, 2>>
          @@ <<r1, p>> :> <<3, 65535>> @@ <<p, r1>> :> <<259, 4>>

NoteOn        == [status |-> 144, data |-> <<60, 100>>]
ProgramChange == [status |-> 193, data |-> <<5>>]
\* A system exclusive of n octets.
SysEx(n)      == [status |-> 240, data |-> [i \in 1..(n - 2) |-> i] \o <<247>>]

MCCommand  == {NoteOn, ProgramChange, SysEx(15)}
MCLong     == {SysEx(16)}
MCAnyLength == MCCommand \cup MCLong

MCBody == <<128, 5, 128, 128, 0>>

MCStray == Packet(p, r1, RtpPack(RtpFields(7, <<0, 0>>, <<9, 9>>)) \o <<3>> \o ListOf(NoteOn),
                  NoteOn, 7, {p})
=============================================================================
