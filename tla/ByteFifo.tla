------------------------------ MODULE ByteFifo ------------------------------
(***************************************************************************)
(* What the MIDI parser and the socket reader rely on when they use the    *)
(* ring buffer of a midi_state: a first-in first-out store of bytes of     *)
(* fixed capacity whose writes are all-or-nothing.  RingBuffer implements  *)
(* this specification with a byte array and three indices.                 *)
(***************************************************************************)
EXTENDS Integers, Sequences

CONSTANTS Byte,      \* the values a cell can hold
          Size,      \* the capacity in bytes
          MaxWrite   \* bound on the length of a single write or comparison

VARIABLES fifo,      \* the bytes stored, oldest first
          out,       \* the bytes handed to the caller by the last operation
          status,    \* the number returned to the caller by the last operation
          call       \* the last operation and its arguments

fvars == <<fifo, out, status, call>>

Chunk == UNION {[1..n -> Byte] : n \in 1..MaxWrite}

Init ==
    /\ fifo = <<>>
    /\ out = <<>>
    /\ status = 0
    /\ call = <<>>

\* A write stores every byte or, when they do not all fit, none of them.
Write(bs) ==
    /\ out' = <<>>
    /\ \/ /\ Len(fifo) + Len(bs) <= Size
          /\ fifo' = fifo \o bs
          /\ status' = Len(bs)
       \/ /\ Len(fifo) + Len(bs) > Size
          /\ status' = 0
          /\ UNCHANGED fifo

ReadByte ==
    \/ /\ fifo # <<>>
       /\ out' = <<Head(fifo)>>
       /\ fifo' = Tail(fifo)
       /\ status' = 0
    \/ /\ fifo = <<>>
       /\ out' = <<>>
       /\ status' = -1
       /\ UNCHANGED fifo

Drain ==
    /\ out' = fifo
    /\ status' = Len(fifo)
    /\ fifo' = <<>>

\* Forgets the oldest n bytes, or everything when fewer are stored.
Advance(n) ==
    /\ fifo' = IF n < Len(fifo) THEN SubSeq(fifo, n + 1, Len(fifo)) ELSE <<>>
    /\ out' = <<>>
    /\ status' = 0

\* Compare answers 0 exactly when bs is a prefix of what is stored.
Compare(bs) ==
    /\ status' = IF /\ Len(bs) <= Len(fifo)
                    /\ \A i \in 1..Len(bs) : fifo[i] = bs[i]
                 THEN 0 ELSE -1
    /\ out' = <<>>
    /\ UNCHANGED fifo

CharCompare(b, i) ==
    /\ status' = IF i < Len(fifo) /\ fifo[i + 1] = b THEN 1 ELSE 0
    /\ out' = <<>>
    /\ UNCHANGED fifo

Reset ==
    /\ fifo' = <<>>
    /\ out' = <<>>
    /\ status' = 0

Next ==
    \/ \E bs \in Chunk : Write(bs) /\ call' = <<"write", bs>>
    \/ \E bs \in Chunk : Compare(bs) /\ call' = <<"compare", bs>>
    \/ ReadByte /\ call' = <<"read_byte">>
    \/ Drain    /\ call' = <<"drain">>
    \/ \E n \in 1..MaxWrite : Advance(n) /\ call' = <<"advance", n>>
    \/ \E b \in Byte, i \in 0..MaxWrite :
           CharCompare(b, i) /\ call' = <<"char_compare", b, i>>
    \/ Reset    /\ call' = <<"reset">>

Spec == Init /\ [][Next]_fvars
=============================================================================
