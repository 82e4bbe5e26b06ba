--------------------------- MODULE WaitQueueProofs ---------------------------
(***************************************************************************)
(* Proofs about the wait queues of kernel/sched.c, for any number of tasks *)
(* and of queues.                                                          *)
(***************************************************************************)
EXTENDS MCWaitQueue, TLAPS

\* Every assignment of the sleeping primitives keeps the types.
THEOREM TypeCorrect == Spec => []TypeOK
<1>1. Init => TypeOK
  BY DEF Init, TypeOK, States, Places
<1>2. TypeOK /\ [Next]_vars => TypeOK'
  <2> SUFFICES ASSUME TypeOK, [Next]_vars PROVE TypeOK'
    OBVIOUS
  <2> USE DEF TypeOK, States, Places, Queues
  <2>1. ASSUME NEW t \in Tasks, Schedule(t) PROVE TypeOK'
    BY <2>1 DEF Schedule
  <2>2. ASSUME NEW t \in Tasks, NEW q \in CliQueues, SleepOn(t, q) PROVE TypeOK'
    BY <2>2 DEF SleepOn
  <2>3. ASSUME NEW t \in Tasks, NEW q \in OpenQueues, SaveHead(t, q) PROVE TypeOK'
    BY <2>3 DEF SaveHead
  <2>4. ASSUME NEW t \in Tasks, LinkSelf(t) PROVE TypeOK'
    BY <2>4 DEF LinkSelf
  <2>5. ASSUME NEW t \in Tasks, GoToSleep(t) PROVE TypeOK'
    BY <2>5 DEF GoToSleep
  <2>6. ASSUME NEW t \in Tasks, SleepOnReturns(t) PROVE TypeOK'
    BY <2>6 DEF SleepOnReturns
  <2>7. ASSUME NEW t \in Tasks, NEW q \in IntrQueues, InterruptibleSleepOn(t, q)
        PROVE TypeOK'
    BY <2>7 DEF InterruptibleSleepOn
  <2>8. ASSUME NEW t \in Tasks, InterruptibleRepeats(t) PROVE TypeOK'
    BY <2>8 DEF InterruptibleRepeats
  <2>9. ASSUME NEW t \in Tasks, InterruptibleReturns(t) PROVE TypeOK'
    BY <2>9 DEF InterruptibleReturns
  <2>10. ASSUME NEW q \in Queues, WakeUp(q) PROVE TypeOK'
    BY <2>10 DEF WakeUp
  <2>11. ASSUME NEW t \in Tasks, Pause(t) \/ PauseReturns(t) PROVE TypeOK'
    BY <2>11 DEF Pause, PauseReturns
  <2>12. ASSUME NEW t \in Tasks, Exit(t) PROVE TypeOK'
    BY <2>12 DEF Exit
  <2>13. ASSUME NEW t \in Tasks, Fork(t) PROVE TypeOK'
    BY <2>13 DEF Fork
  <2>14. CASE UNCHANGED vars
    BY <2>14 DEF vars
  <2> QED
    BY <2>1, <2>2, <2>3, <2>4, <2>5, <2>6, <2>7, <2>8, <2>9, <2>10, <2>11,
       <2>12, <2>13, <2>14 DEF Next, Step
<1> QED
  BY <1>1, <1>2, PTL DEF Spec

-----------------------------------------------------------------------------

\* A task is on the kind of queue its place in the code says, and a free
\* slot of task[] is in no sleep call.
Placed ==
    \A t \in Tasks :
        /\ at[t] \in {"save", "link"} => on[t] \in OpenQueues
        /\ at[t] = "slept" => on[t] \in CliQueues \cup OpenQueues
        /\ at[t] = "islept" => on[t] \in IntrQueues
        /\ t \notin task => at[t] = "user"

LEMMA PlacedInductive ==
    ASSUME TypeOK, Placed, [Next]_vars PROVE Placed'
<1> USE NullIsNeither DEF TypeOK, Placed, States, Places, Queues
<1>1. ASSUME NEW t \in Tasks, Schedule(t) PROVE Placed'
  BY <1>1 DEF Schedule
<1>2. ASSUME NEW t \in Tasks, NEW q \in CliQueues, SleepOn(t, q) PROVE Placed'
  BY <1>2 DEF SleepOn
<1>3. ASSUME NEW t \in Tasks, NEW q \in OpenQueues, SaveHead(t, q) PROVE Placed'
  BY <1>3 DEF SaveHead
<1>4. ASSUME NEW t \in Tasks, LinkSelf(t) PROVE Placed'
  BY <1>4 DEF LinkSelf
<1>5. ASSUME NEW t \in Tasks, GoToSleep(t) PROVE Placed'
  BY <1>5 DEF GoToSleep
<1>6. ASSUME NEW t \in Tasks, SleepOnReturns(t) PROVE Placed'
  BY <1>6 DEF SleepOnReturns
<1>7. ASSUME NEW t \in Tasks, NEW q \in IntrQueues, InterruptibleSleepOn(t, q)
      PROVE Placed'
  BY <1>7 DEF InterruptibleSleepOn
<1>8. ASSUME NEW t \in Tasks, InterruptibleRepeats(t) PROVE Placed'
  BY <1>8 DEF InterruptibleRepeats
<1>9. ASSUME NEW t \in Tasks, InterruptibleReturns(t) PROVE Placed'
  BY <1>9 DEF InterruptibleReturns
<1>10. ASSUME NEW q \in Queues, WakeUp(q) PROVE Placed'
  BY <1>10 DEF WakeUp
<1>11. ASSUME NEW t \in Tasks, Pause(t) \/ PauseReturns(t) PROVE Placed'
  BY <1>11 DEF Pause, PauseReturns
<1>12. ASSUME NEW t \in Tasks, Exit(t) PROVE Placed'
  BY <1>12 DEF Exit
<1>13. ASSUME NEW t \in Tasks, Fork(t) PROVE Placed'
  BY <1>13 DEF Fork
<1>14. CASE UNCHANGED vars
  BY <1>14 DEF vars
<1> QED
  BY <1>1, <1>2, <1>3, <1>4, <1>5, <1>6, <1>7, <1>8, <1>9, <1>10, <1>11,
     <1>12, <1>13, <1>14 DEF Next, Step

-----------------------------------------------------------------------------

\* A step that takes no task into sleep_on(&q), lets nobody start to sleep
\* there, and takes a task off the queue or out of the call only together
\* with making it, or the task it would wake, runnable, cuts nobody off.
LEMMA ShrinkKeepsLinked ==
    ASSUME NEW q \in CliQueues, TypeOK,
           Linked(q, Sleepers(q), InSleepOn(q)),
           Sleepers(q)' \subseteq Sleepers(q),
           head'[q] = head[q] \/ head[q] \notin Sleepers(q)',
           \A u \in InSleepOn(q) :
              \/ u \in InSleepOn(q)' /\ tmp'[u] = tmp[u]
              \/ tmp[u] \notin Sleepers(q)'
    PROVE  Linked(q, Sleepers(q), InSleepOn(q))'
<1> SUFFICES ASSUME NEW S \in SUBSET Sleepers(q)', S # {}
             PROVE  \E t \in S : \/ head'[q] = t
                                 \/ \E u \in InSleepOn(q)' \ S : tmp'[u] = t
  BY DEF Linked
<1>1. S \in SUBSET Sleepers(q)
  OBVIOUS
<1>2. PICK t \in S : \/ head[q] = t
                     \/ \E u \in InSleepOn(q) \ S : tmp[u] = t
  BY <1>1 DEF Linked
<1>3. CASE head[q] = t
  BY <1>2, <1>3
<1>4. ASSUME NEW u \in InSleepOn(q) \ S, tmp[u] = t
      PROVE  u \in InSleepOn(q)' \ S /\ tmp'[u] = t
  BY <1>2, <1>4
<1> QED
  BY <1>2, <1>3, <1>4

\* Going to sleep on q under cli pushes the task in front of the old head.
LEMMA PushKeepsLinked ==
    ASSUME NEW q \in CliQueues, NEW t \in Tasks, TypeOK, Placed, SleepOn(t, q),
           Linked(q, Sleepers(q), InSleepOn(q))
    PROVE  Linked(q, Sleepers(q), InSleepOn(q))'
<1> USE DEF TypeOK, Queues
<1> SUFFICES ASSUME NEW S \in SUBSET Sleepers(q)', S # {}
             PROVE  \E x \in S : \/ head'[q] = x
                                 \/ \E u \in InSleepOn(q)' \ S : tmp'[u] = x
  BY DEF Linked
<1>1. t \in task /\ t \notin InSleepOn(q) /\ head'[q] = t /\ tmp'[t] = head[q]
  BY NullIsNeither DEF SleepOn, InSleepOn
<1>2. InSleepOn(q)' = InSleepOn(q) \cup {t}
  BY <1>1 DEF SleepOn, InSleepOn
<1>3. Sleepers(q)' = Sleepers(q) \cup {t}
  BY <1>1, <1>2 DEF SleepOn, Sleepers, InSleepOn, States
<1>4. CASE t \in S
  BY <1>1, <1>4
<1>5. CASE t \notin S
  <2>1. PICK x \in S : \/ head[q] = x
                       \/ \E u \in InSleepOn(q) \ S : tmp[u] = x
    BY <1>3, <1>5 DEF Linked
  <2>2. CASE head[q] = x
    BY <2>2, <1>1, <1>2, <1>5
  <2>3. ASSUME NEW u \in InSleepOn(q) \ S, tmp[u] = x
        PROVE  u \in InSleepOn(q)' \ S /\ tmp'[u] = x
    BY <2>3, <1>1, <1>2 DEF SleepOn, InSleepOn
  <2> QED
    BY <2>1, <2>2, <2>3
<1> QED
  BY <1>4, <1>5

\* What any step other than going to sleep on q does to queue q.
LEMMA OtherStepsShrink ==
    ASSUME TypeOK, Placed, [Next]_vars, NEW q \in CliQueues,
           \A t \in Tasks : ~ SleepOn(t, q)
    PROVE  /\ Sleepers(q)' \subseteq Sleepers(q)
           /\ head'[q] = head[q] \/ head[q] \notin Sleepers(q)'
           /\ \A u \in InSleepOn(q) :
                 \/ u \in InSleepOn(q)' /\ tmp'[u] = tmp[u]
                 \/ tmp[u] \notin Sleepers(q)'
<1> DEFINE G == /\ Sleepers(q)' \subseteq Sleepers(q)
                /\ head'[q] = head[q] \/ head[q] \notin Sleepers(q)'
                /\ \A u \in InSleepOn(q) :
                      \/ u \in InSleepOn(q)' /\ tmp'[u] = tmp[u]
                      \/ tmp[u] \notin Sleepers(q)'
<1> USE QueueKindsDisjoint, NullIsNeither
    DEF TypeOK, Placed, States, Places, Queues, Sleepers, InSleepOn
<1>1. ASSUME NEW t \in Tasks, Schedule(t) PROVE G
  BY <1>1 DEF Schedule
<1>2. ASSUME NEW t \in Tasks, NEW r \in CliQueues, SleepOn(t, r) PROVE G
  <2>1. r # q
    BY <1>2
  <2> QED
    BY <1>2, <2>1 DEF SleepOn
<1>3. ASSUME NEW t \in Tasks, NEW r \in OpenQueues, SaveHead(t, r) PROVE G
  BY <1>3 DEF SaveHead
<1>4. ASSUME NEW t \in Tasks, LinkSelf(t) PROVE G
  BY <1>4 DEF LinkSelf
<1>5. ASSUME NEW t \in Tasks, GoToSleep(t) PROVE G
  BY <1>5 DEF GoToSleep
<1>6. ASSUME NEW t \in Tasks, SleepOnReturns(t) PROVE G
  BY <1>6 DEF SleepOnReturns
<1>7. ASSUME NEW t \in Tasks, NEW r \in IntrQueues, InterruptibleSleepOn(t, r)
      PROVE G
  BY <1>7 DEF InterruptibleSleepOn
<1>8. ASSUME NEW t \in Tasks, InterruptibleRepeats(t) PROVE G
  BY <1>8 DEF InterruptibleRepeats
<1>9. ASSUME NEW t \in Tasks, InterruptibleReturns(t) PROVE G
  BY <1>9 DEF InterruptibleReturns
<1>10. ASSUME NEW r \in Queues, WakeUp(r) PROVE G
  BY <1>10 DEF WakeUp
<1>11. ASSUME NEW t \in Tasks, Pause(t) \/ PauseReturns(t) PROVE G
  BY <1>11 DEF Pause, PauseReturns
<1>12. ASSUME NEW t \in Tasks, Exit(t) PROVE G
  BY <1>12 DEF Exit
<1>13. ASSUME NEW t \in Tasks, Fork(t) PROVE G
  BY <1>13 DEF Fork
<1>14. ASSUME UNCHANGED vars PROVE G
  BY <1>14 DEF vars
<1> HIDE DEF G, TypeOK, Placed, States, Places, Sleepers, InSleepOn, Queues
<1>15. ASSUME NEW t \in Tasks, Step(t) PROVE G
  BY <1>1, <1>2, <1>3, <1>4, <1>5, <1>6, <1>7, <1>8, <1>9, <1>11,
     <1>12, <1>13, <1>15 DEF Step
<1>16. ASSUME Next PROVE G
  BY <1>10, <1>15, <1>16 DEF Next
<1>17. G
  BY <1>14, <1>16
<1> QED
  BY <1>17 DEF G

\* No sleeper of a queue slept on under cli is ever lost, whatever happens on
\* the interruptible queues and on those slept on with interrupts enabled.
THEOREM SleepersStayLinked == Spec => []NoLostSleeper
<1>1. Init => Placed /\ NoLostSleeper
  BY NullIsNeither DEF Init, Placed, NoLostSleeper, Linked, Sleepers, InSleepOn
<1>2. TypeOK /\ Placed /\ NoLostSleeper /\ [Next]_vars
      => Placed' /\ NoLostSleeper'
  <2> SUFFICES ASSUME TypeOK, Placed, NoLostSleeper, [Next]_vars
               PROVE  Placed' /\ NoLostSleeper'
    OBVIOUS
  <2>1. Placed'
    BY PlacedInductive
  <2>2. ASSUME NEW q \in CliQueues
        PROVE  Linked(q, Sleepers(q), InSleepOn(q))'
    <3>1. Linked(q, Sleepers(q), InSleepOn(q))
      BY DEF NoLostSleeper
    <3>2. CASE \E t \in Tasks : SleepOn(t, q)
      BY <3>1, <3>2, PushKeepsLinked
    <3>3. CASE \A t \in Tasks : ~ SleepOn(t, q)
      BY <3>1, <3>3, OtherStepsShrink, ShrinkKeepsLinked
    <3> QED
      BY <3>2, <3>3
  <2> QED
    BY <2>1, <2>2 DEF NoLostSleeper
<1> QED
  BY <1>1, <1>2, TypeCorrect, PTL DEF Spec

-----------------------------------------------------------------------------

\* The task that has the CPU is runnable.
CurrentRuns == current # NULL => state[current] = "RUNNING"

\* The pointers of the queues slept on under cli are exact: this is the
\* inductive invariant behind NoStaleWake and WokenOnce.
Exact == NoStaleWake /\ WokenOnce

LEMMA CurrentRunsInductive ==
    ASSUME TypeOK, CurrentRuns, [Next]_vars PROVE CurrentRuns'
<1> USE NullIsNeither DEF TypeOK, CurrentRuns, States, Places, Queues
<1>1. ASSUME NEW t \in Tasks, Schedule(t) PROVE CurrentRuns'
  BY <1>1 DEF Schedule
<1>2. ASSUME NEW t \in Tasks, NEW q \in CliQueues, SleepOn(t, q) PROVE CurrentRuns'
  BY <1>2 DEF SleepOn
<1>3. ASSUME NEW t \in Tasks, NEW q \in OpenQueues, SaveHead(t, q) PROVE CurrentRuns'
  BY <1>3 DEF SaveHead
<1>4. ASSUME NEW t \in Tasks, LinkSelf(t) \/ GoToSleep(t) PROVE CurrentRuns'
  BY <1>4 DEF LinkSelf, GoToSleep
<1>5. ASSUME NEW t \in Tasks, SleepOnReturns(t) PROVE CurrentRuns'
  BY <1>5 DEF SleepOnReturns
<1>6. ASSUME NEW t \in Tasks, NEW q \in IntrQueues, InterruptibleSleepOn(t, q)
      PROVE CurrentRuns'
  BY <1>6 DEF InterruptibleSleepOn
<1>7. ASSUME NEW t \in Tasks, InterruptibleRepeats(t) PROVE CurrentRuns'
  BY <1>7 DEF InterruptibleRepeats
<1>8. ASSUME NEW t \in Tasks, InterruptibleReturns(t) PROVE CurrentRuns'
  BY <1>8 DEF InterruptibleReturns
<1>9. ASSUME NEW q \in Queues, WakeUp(q) PROVE CurrentRuns'
  BY <1>9 DEF WakeUp
<1>10. ASSUME NEW t \in Tasks, Pause(t) \/ PauseReturns(t) PROVE CurrentRuns'
  BY <1>10 DEF Pause, PauseReturns
<1>11. ASSUME NEW t \in Tasks, Exit(t) \/ Fork(t) PROVE CurrentRuns'
  BY <1>11 DEF Exit, Fork
<1>12. ASSUME UNCHANGED vars PROVE CurrentRuns'
  BY <1>12 DEF vars
<1> QED
  BY <1>1, <1>2, <1>3, <1>4, <1>5, <1>6, <1>7, <1>8, <1>9, <1>10, <1>11,
     <1>12 DEF Next, Step

\* Nobody sleeps on a queue that is not slept on under cli.
CliOnly ==
    /\ \A t \in Tasks : on[t] \in CliQueues \cup {NULL}
    /\ \A q \in Queues \ CliQueues : head[q] = NULL

\* Where nobody sleeps on another queue, none of its steps is taken.
LEMMA CliSteps ==
    ASSUME TypeOK, Placed, CliOnly, Next, \A t \in Tasks : on'[t] \in CliQueues \cup {NULL}
    PROVE  \/ \E t \in Tasks : \/ Schedule(t)
                               \/ \E q \in CliQueues : SleepOn(t, q)
                               \/ SleepOnReturns(t)
                               \/ Pause(t) \/ PauseReturns(t)
                               \/ Exit(t)
                               \/ Fork(t)
           \/ \E q \in CliQueues : WakeUp(q)
<1>1. ASSUME NEW t \in Tasks
      PROVE  /\ ~ LinkSelf(t) /\ ~ GoToSleep(t)
             /\ ~ InterruptibleRepeats(t) /\ ~ InterruptibleReturns(t)
  <2>1. on[t] \notin OpenQueues \cup IntrQueues
    BY <1>1, QueueKindsDisjoint, NullIsNeither DEF CliOnly, Queues
  <2> QED
    BY <2>1 DEF Placed, LinkSelf, GoToSleep, InterruptibleRepeats, InterruptibleReturns
<1>2. ASSUME NEW t \in Tasks, NEW q \in OpenQueues PROVE ~ SaveHead(t, q)
  <2>1. SaveHead(t, q) => on'[t] = q
    BY <1>2 DEF SaveHead, TypeOK
  <2> QED
    BY <1>2, <2>1, QueueKindsDisjoint, NullIsNeither DEF Queues
<1>3. ASSUME NEW t \in Tasks, NEW q \in IntrQueues PROVE ~ InterruptibleSleepOn(t, q)
  <2>1. InterruptibleSleepOn(t, q) => on'[t] = q
    BY <1>3 DEF InterruptibleSleepOn, TypeOK
  <2> QED
    BY <1>3, <2>1, QueueKindsDisjoint, NullIsNeither DEF Queues
<1>4. ASSUME NEW q \in Queues, WakeUp(q) PROVE q \in CliQueues
  BY <1>4 DEF CliOnly, WakeUp
<1> QED
  BY <1>1, <1>2, <1>3, <1>4 DEF Next, Step

\* The steps that are left keep the other queues empty.
LEMMA CliOnlyInductive ==
    ASSUME TypeOK, Placed, CliOnly, [Next]_vars,
           \A t \in Tasks : on'[t] \in CliQueues \cup {NULL}
    PROVE  CliOnly'
<1> USE DEF TypeOK, CliOnly, Queues
<1>1. ASSUME NEW t \in Tasks,
             Schedule(t) \/ Pause(t) \/ PauseReturns(t) \/ Exit(t) \/ Fork(t)
      PROVE  CliOnly'
  BY <1>1 DEF Schedule, Pause, PauseReturns, Exit, Fork
<1>2. ASSUME NEW t \in Tasks, NEW q \in CliQueues, SleepOn(t, q) PROVE CliOnly'
  BY <1>2 DEF SleepOn
<1>3. ASSUME NEW t \in Tasks, SleepOnReturns(t) PROVE CliOnly'
  BY <1>3 DEF SleepOnReturns
<1>4. ASSUME NEW q \in CliQueues, WakeUp(q) PROVE CliOnly'
  BY <1>4 DEF WakeUp
<1>5. CASE UNCHANGED vars
  BY <1>5 DEF vars
<1> HIDE DEF TypeOK, CliOnly, Queues
<1> QED
  BY <1>1, <1>2, <1>3, <1>4, <1>5, CliSteps

LEMMA ExactInductive ==
    ASSUME TypeOK, Placed, CurrentRuns, CliOnly, Exact, [Next]_vars,
           \A t \in Tasks : on'[t] \in CliQueues \cup {NULL}
    PROVE  Exact'
<1> USE NullIsNeither
    DEF TypeOK, Placed, CurrentRuns, Exact, NoStaleWake, WokenOnce, Sleepers,
        InSleepOn, States, Places, Queues
<1>1. ASSUME NEW t \in Tasks, Schedule(t) PROVE Exact'
  BY <1>1 DEF Schedule
<1>2. ASSUME NEW t \in Tasks, NEW q \in CliQueues, SleepOn(t, q) PROVE Exact'
  BY <1>2 DEF SleepOn
<1>3. ASSUME NEW t \in Tasks, SleepOnReturns(t) PROVE Exact'
  <2>1. /\ t \in task /\ state[t] = "RUNNING"
        /\ head' = head
        /\ \A u \in Tasks \ {t} : tmp'[u] = tmp[u] /\ at'[u] = at[u] /\ on'[u] = on[u]
        /\ \A u \in Tasks : u # tmp[t] => state'[u] = state[u]
    BY <1>3 DEF SleepOnReturns
  <2>2. ASSUME NEW q \in CliQueues
        PROVE  /\ InSleepOn(q)' = InSleepOn(q) \ {t}
               /\ Sleepers(q)' = Sleepers(q) \ {tmp[t]}
    BY <1>3, <2>1 DEF SleepOnReturns
  <2>3. on[t] \in CliQueues /\ t \in InSleepOn(on[t])
    BY <1>3, <2>1 DEF SleepOnReturns, CliOnly
  <2>4. NoStaleWake'
    BY <2>1, <2>2, <2>3
  <2>5. WokenOnce'
    BY <2>1, <2>2
  <2> QED
    BY <2>4, <2>5
<1>4. ASSUME NEW q \in CliQueues, WakeUp(q) PROVE Exact'
  BY <1>4 DEF WakeUp
<1>5. ASSUME NEW t \in Tasks, Pause(t) \/ PauseReturns(t) PROVE Exact'
  BY <1>5 DEF Pause, PauseReturns
<1>6. ASSUME NEW t \in Tasks, Exit(t) PROVE Exact'
  BY <1>6 DEF Exit
<1>7. ASSUME NEW t \in Tasks, Fork(t) PROVE Exact'
  BY <1>7 DEF Fork
<1>8. ASSUME UNCHANGED vars PROVE Exact'
  BY <1>8 DEF vars
<1> HIDE DEF TypeOK, Placed, CurrentRuns, Exact, NoStaleWake, WokenOnce,
             Sleepers, InSleepOn, States, Places, Queues
<1> QED
  BY <1>1, <1>2, <1>3, <1>4, <1>5, <1>6, <1>7, <1>8, CliSteps

\* Where only cli-protected queues are used, wake_up and the chain of tmps
\* never write the state of a task that has left the queue or exited, and
\* never wake a task twice.
THEOREM CliQueuesExact ==
    ASSUME OpenQueues = {}, IntrQueues = {}
    PROVE  Spec => [](NoStaleWake /\ WokenOnce)
<1>1. Init => Placed /\ CurrentRuns /\ Exact
  BY NullIsNeither DEF Init, Placed, CurrentRuns, Exact, NoStaleWake, WokenOnce,
                       Sleepers, InSleepOn, Queues
<1>2. TypeOK => CliOnly
  BY DEF TypeOK, CliOnly, Queues
<1>3. TypeOK' => \A t \in Tasks : on'[t] \in CliQueues \cup {NULL}
  BY DEF TypeOK, Queues
<1>4. TypeOK /\ TypeOK' /\ Placed /\ CurrentRuns /\ Exact /\ [Next]_vars
      => Placed' /\ CurrentRuns' /\ Exact'
  BY <1>2, <1>3, PlacedInductive, CurrentRunsInductive, ExactInductive
<1>5. Exact => NoStaleWake /\ WokenOnce
  BY DEF Exact
<1> QED
  BY <1>1, <1>4, <1>5, TypeCorrect, PTL DEF Spec

\* The same where the other kinds of queue exist: as long as nobody sleeps on
\* one of them, the pointers of the queues slept on under cli are exact.
THEOREM CliUsersExact == MCSpec => []CliNoStaleWake
<1> DEFINE Inv == /\ TypeOK /\ Placed /\ CurrentRuns
                  /\ used = CliQueues => CliOnly /\ Exact
<1>1. MCInit => Inv
  <2>1. Init => TypeOK
    BY DEF Init, TypeOK, States, Places
  <2>2. Init => Placed /\ CurrentRuns /\ Exact /\ CliOnly
    BY NullIsNeither DEF Init, Placed, CurrentRuns, Exact, NoStaleWake, WokenOnce,
                         Sleepers, InSleepOn, Queues, CliOnly
  <2> QED
    BY <2>1, <2>2 DEF MCInit
<1>2. Inv /\ TypeOK' /\ [MCNext]_mcvars => Inv'
  <2> SUFFICES ASSUME Inv, TypeOK', [MCNext]_mcvars PROVE Inv'
    OBVIOUS
  <2>1. [Next]_vars /\ used' = used
    BY DEF MCNext, mcvars
  <2>2. Placed' /\ CurrentRuns'
    BY <2>1, PlacedInductive, CurrentRunsInductive
  <2>3. ASSUME used = CliQueues PROVE CliOnly' /\ Exact'
    <3>1. \A t \in Tasks : on'[t] \in CliQueues \cup {NULL}
      BY <2>3 DEF MCNext, mcvars, vars, CliOnly
    <3> QED
      BY <2>1, <2>3, <3>1, CliOnlyInductive, ExactInductive
  <2> QED
    BY <2>1, <2>2, <2>3
<1>3. Inv => CliNoStaleWake
  BY DEF CliNoStaleWake, Exact
<1>4. MCSpec => Spec
  <2>1. MCInit => Init
    BY DEF MCInit
  <2>2. [MCNext]_mcvars => [Next]_vars
    BY DEF MCNext, mcvars
  <2> QED
    BY <2>1, <2>2, PTL DEF MCSpec, Spec
<1> QED
  BY <1>1, <1>2, <1>3, <1>4, TypeCorrect, PTL DEF MCSpec

=============================================================================
