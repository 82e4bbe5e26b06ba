------------------------------ MODULE MCMemory ------------------------------
(***************************************************************************)
(* Memory for TLC.  Two states are the same to TLC if they differ only in  *)
(* which pages are used, not in how: the view has the number of free pages *)
(* and for every use of a page what is in it, its count and who shares it. *)
(* What is in a free page is left out: get_free_page clears it.            *)
(***************************************************************************)
EXTENDS Memory

Count(f) == IF f = LOW THEN 0 ELSE mem_map[f]

MCView ==
    <<Cardinality(FreePages),
      [p \in Slots |-> [a \in Pages |->
          IF ~ Present(p, a) THEN NULL
          ELSE LET e == pte[p][a] IN
               <<e.rw, e.dirty, e.page = LOW, Count(e.page), content[e.page],
                 {u \in Slots \X Pages : /\ Present(u[1], u[2])
                                         /\ pte[u[1]][u[2]].page = e.page}>>]],
      [p \in Slots |-> <<Count(task[p]), Count(dir[p][1]), Count(dir[p][2]),
                         Count(held[p]), content[held[p]]>>],
      executable, pc, at>>

\* A bound: init does not store, it only forks.
InitOnlyForks == pc[1] \in {"user", "zombie"}

=============================================================================
