----------------------------- MODULE FrameFifo -----------------------------
(***************************************************************************)
(* What the other modules take a FIFO for: frames enter it as units and in   *)
(* the order they are sent, each once, bytes leave it in that order, each once, and     *)
(* what is left may be lost as a whole.  A frame of more than Atomic bytes   *)
(* is promised less: it enters in pieces.                                    *)
(***************************************************************************)
EXTENDS Integers, Sequences

CONSTANTS
    Sends,      \* the frames that may be sent
    Size,       \* the size of each
    Atomic      \* the size up to which a frame is a unit

VARIABLES
    stream,     \* every byte that entered the FIFO, in order
    front       \* how many bytes of the stream have left it

vars == <<stream, front>>

Byte(s, i) == [of |-> s, at |-> i]

\* The bytes from to to of the frame s.
Piece(s, from, to) == [i \in 1..(to - from + 1) |-> Byte(s, from + i - 1)]

Init ==
    /\ stream = <<>>
    /\ front = 0

EnterWhole(s) ==
    /\ Size[s] <= Atomic
    /\ \A p \in DOMAIN stream : stream[p].of # s
    /\ stream' = stream \o Piece(s, 1, Size[s])
    /\ UNCHANGED front

EnterPiece(s) ==
    /\ Size[s] > Atomic
    /\ \E from, to \in 1..Size[s] :
          from <= to /\ stream' = stream \o Piece(s, from, to)
    /\ UNCHANGED front

\* Bytes are taken, or all that is left is lost.
Leave ==
    /\ front' \in (front + 1)..Len(stream)
    /\ UNCHANGED stream

Next == Leave \/ \E s \in Sends : EnterWhole(s) \/ EnterPiece(s)

Spec == Init /\ [][Next]_vars
=============================================================================
