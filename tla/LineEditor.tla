----------------------------- MODULE LineEditor -----------------------------
(***************************************************************************)
(* What a terminal promises the process that reads from it: characters are *)
(* edited into lines while they are typed, and arrive in order.  Only the  *)
(* part of the input after the last line end can be edited.                *)
(***************************************************************************)
EXTENDS Naturals, Sequences

CONSTANTS Chars, NL, EOF, NULL

VARIABLES
    typed,      \* what can be read, the oldest character first
    received    \* what was read last

Ends == {NL, EOF}

Init == typed = <<>> /\ received = NULL

\* A character is added as it is.
Add(c) == typed' = Append(typed, c) /\ UNCHANGED received

\* The last character is removed, but never a line end.
Rub ==
    /\ typed # <<>> /\ typed[Len(typed)] \notin Ends
    /\ typed' = SubSeq(typed, 1, Len(typed) - 1)
    /\ UNCHANGED received

\* An end of file is taken away without being received.
Take ==
    /\ typed # <<>>
    /\ typed' = Tail(typed)
    /\ \/ received' = Head(typed)
       \/ Head(typed) = EOF /\ UNCHANGED received

Next == Rub \/ Take \/ \E c \in Chars : Add(c)

Spec == Init /\ [][Next]_<<typed, received>>

=============================================================================
