----------------------------- MODULE MCWaitQueue -----------------------------
(***************************************************************************)
(* WaitQueue for TLC.  The tasks of a behaviour sleep on CliQueues only,   *)
(* or a few of them (Mixing) on the queues of a member of Mixes.           *)
(***************************************************************************)
EXTENDS WaitQueue

CONSTANTS Mixing, Mixes

VARIABLE used       \* the queues of this behaviour

mcvars == <<vars, used>>

MCInit ==
    /\ Init
    /\ used \in {CliQueues} \cup Mixes
    /\ used # CliQueues => task \subseteq Mixing

MCNext ==
    /\ Next
    /\ \A t \in Tasks : on'[t] \in used \cup {NULL}
    /\ used # CliQueues => task' \subseteq Mixing
    /\ UNCHANGED used

MCSpec == MCInit /\ [][MCNext]_mcvars /\ Fairness

-----------------------------------------------------------------------------

\* Where all queues are slept on under cli, the pointers on the kernel stacks
\* do not go stale, and each task is woken once: see NoStaleWake and WokenOnce
\* of WaitQueue.
CliNoStaleWake == used = CliQueues => NoStaleWake /\ WokenOnce

\* Where all queues are slept on under cli, one wake_up reaches all: see
\* WakeUpReachesAll of WaitQueue.
CliWakeUpReachesAll ==
    \A q \in CliQueues : \A t \in Tasks :
        (used = CliQueues /\ head[q] = NULL /\ t \in Sleepers(q)) ~> (t \notin Sleepers(q))

=============================================================================
