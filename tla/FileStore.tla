----------------------------- MODULE FileStore ------------------------------
(***************************************************************************)
(* What files promise: each has contents of its own, a sequence of bytes   *)
(* that only writes to it and truncation change, or does not exist.        *)
(***************************************************************************)
EXTENDS Naturals, Sequences

CONSTANTS Files, NULL, MAX_POS

VARIABLE content

Init == content = [f \in Files |-> NULL]

Create(f) == content[f] = NULL /\ content' = [content EXCEPT ![f] = <<>>]

Truncate(f) == content[f] # NULL /\ content' = [content EXCEPT ![f] = <<>>]

\* Bytes of 1 from pos on; what is skipped reads as 0.
Overlay(old, pos, count) ==
    [k \in 1 .. (IF Len(old) > pos + count THEN Len(old) ELSE pos + count) |->
        IF k > pos /\ k <= pos + count THEN 1 ELSE IF k <= Len(old) THEN old[k] ELSE 0]

Write(f) ==
    /\ content[f] # NULL
    /\ \E pos, count \in 0 .. MAX_POS :
          count > 0 /\ content' = [content EXCEPT ![f] = Overlay(@, pos, count)]

\* Files that are not used any more; several when a process exits.
Remove == \E gone \in SUBSET Files : content' = [f \in Files |-> IF f \in gone THEN NULL ELSE content[f]]

Next == Remove \/ \E f \in Files : Create(f) \/ Truncate(f) \/ Write(f)

Spec == Init /\ [][Next]_content

=============================================================================
