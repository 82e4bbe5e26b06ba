----------------------------- MODULE ByteStream -----------------------------
(***************************************************************************)
(* What a pipe promises: a bounded stream of bytes.  Writers add bytes at  *)
(* one end, readers take them from the other, in order, each byte once.    *)
(* The bytes are numbered in the order in which they are written.          *)
(***************************************************************************)
EXTENDS Naturals, Sequences

CONSTANT Capacity

VARIABLES
    stream,     \* the bytes in the pipe, the oldest first
    sent,       \* how many bytes have been written
    received    \* the bytes that were read, in that order

vars == <<stream, sent, received>>

Init == stream = <<>> /\ sent = 0 /\ received = <<>>

Put ==
    \E n \in 1 .. Capacity - Len(stream) :
        /\ stream' = stream \o [i \in 1 .. n |-> sent + i]
        /\ sent' = sent + n
        /\ UNCHANGED received

Take ==
    \E n \in 1 .. Len(stream) :
        /\ received' = received \o SubSeq(stream, 1, n)
        /\ stream' = SubSeq(stream, n + 1, Len(stream))
        /\ UNCHANGED sent

Next == Put \/ Take

Spec == Init /\ [][Next]_vars

=============================================================================
