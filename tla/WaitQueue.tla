------------------------------ MODULE WaitQueue ------------------------------
(***************************************************************************)
(* The sleeping primitives of kernel/sched.c: sleep_on,                    *)
(* interruptible_sleep_on, wake_up and sys_pause.                          *)
(*                                                                         *)
(* A wait queue is one pointer p to the task that slept last.  The rest of *)
(* the queue lives in the local variable tmp on the kernel stack of every  *)
(* sleeper, which names the task that slept just before it.  wake_up       *)
(* makes only the head runnable; the head, when it is scheduled again,     *)
(* makes its tmp runnable, and so on down the stack.                       *)
(*                                                                         *)
(* One CPU, no preemption in the kernel: a task that is in the kernel      *)
(* keeps the CPU until it calls schedule().  Interrupt handlers call       *)
(* wake_up between any two instructions that run with interrupts enabled.  *)
(* Queues differ in how they are slept on:                                 *)
(*   CliQueues   sleep_on under cli(), or never woken from an interrupt    *)
(*               (b_wait, i_wait, s_wait, buffer_wait, wait_motor);        *)
(*   OpenQueues  sleep_on with interrupts enabled, and woken by an         *)
(*               interrupt (wait_for_request in make_request);             *)
(*   IntrQueues  interruptible_sleep_on under cli() (tty proc_list).       *)
(***************************************************************************)
CONSTANTS
    Tasks,       \* the entries of task[] other than task 0
    CliQueues,
    OpenQueues,
    IntrQueues,
    NULL         \* the C null pointer, and task 0 as the holder of the CPU

Queues == CliQueues \cup OpenQueues \cup IntrQueues

ASSUME QueueKindsDisjoint ==
    /\ CliQueues \cap OpenQueues = {}
    /\ CliQueues \cap IntrQueues = {}
    /\ OpenQueues \cap IntrQueues = {}

ASSUME NullIsNeither == NULL \notin Tasks /\ NULL \notin Queues

VARIABLES
    task,      \* the tasks that exist (their task_struct is allocated)
    current,   \* the task that has the CPU, NULL when it is task 0
    state,     \* task_struct.state
    at,        \* where a task is in the code
    on,        \* the argument p of the sleep call a task is in
    tmp,       \* the local tmp of that call
    head       \* *p for every queue p

vars == <<task, current, state, at, on, tmp, head>>

States == {"RUNNING", "INTERRUPTIBLE", "UNINTERRUPTIBLE"}

(***************************************************************************)
(* "user": outside the sleeping primitives.  "save" and "link": inside     *)
(* sleep_on with interrupts enabled, after tmp = *p and after *p =         *)
(* current.  "slept", "islept", "paused": after the schedule() call of     *)
(* sleep_on, interruptible_sleep_on and sys_pause.                         *)
(***************************************************************************)
Places == {"user", "save", "link", "slept", "islept", "paused"}

TypeOK ==
    /\ task \subseteq Tasks
    /\ current \in task \cup {NULL}
    /\ state \in [Tasks -> States]
    /\ at \in [Tasks -> Places]
    /\ on \in [Tasks -> Queues \cup {NULL}]
    /\ tmp \in [Tasks -> Tasks \cup {NULL}]
    /\ head \in [Queues -> Tasks \cup {NULL}]

\* Task 0 has forked init, which forks the others.
Init ==
    /\ \E init \in Tasks : task = {init}
    /\ current = NULL
    /\ state = [t \in Tasks |-> "RUNNING"]
    /\ at = [t \in Tasks |-> "user"]
    /\ on = [t \in Tasks |-> NULL]
    /\ tmp = [t \in Tasks |-> NULL]
    /\ head = [q \in Queues |-> NULL]

-----------------------------------------------------------------------------

\* Slips a programmer could make in this code: the properties below must
\* fail when one of these stands in for the operation it is a variant of.

\* sleep_on forgets to wake the task that slept before it.
SleepOnReturnsForgets(t) ==
    /\ current = t
    /\ at[t] = "slept"
    /\ tmp' = [tmp EXCEPT ![t] = NULL]
    /\ on' = [on EXCEPT ![t] = NULL]
    /\ at' = [at EXCEPT ![t] = "user"]
    /\ UNCHANGED <<task, current, state, head>>

\* wake_up without *p = NULL.
WakeUpKeepsHead(q) ==
    /\ head[q] # NULL
    /\ state' = [state EXCEPT ![head[q]] = "RUNNING"]
    /\ UNCHANGED <<task, current, at, on, tmp, head>>

-----------------------------------------------------------------------------

(***************************************************************************)
(* schedule(): interruptible tasks with an unblocked signal become         *)
(* runnable, then the CPU goes to a runnable task.  A task calls it when   *)
(* it sleeps (current is then NULL here) or on a clock tick in user mode.  *)
(* Which tasks have a signal, and the choice by counter, are left open.    *)
(***************************************************************************)
Schedule(t) ==
    /\ current # NULL => at[current] = "user"
    /\ t \in task
    /\ \E signalled \in SUBSET {u \in task : state[u] = "INTERRUPTIBLE"} :
          state' = [u \in Tasks |-> IF u \in signalled THEN "RUNNING" ELSE state[u]]
    /\ state'[t] = "RUNNING"
    /\ current' = t
    /\ UNCHANGED <<task, at, on, tmp, head>>

\* sleep_on up to and including schedule(), with no interrupt in between.
SleepOn(t, q) ==
    /\ current = t
    /\ at[t] = "user"
    /\ tmp' = [tmp EXCEPT ![t] = head[q]]
    /\ head' = [head EXCEPT ![q] = t]
    /\ state' = [state EXCEPT ![t] = "UNINTERRUPTIBLE"]
    /\ on' = [on EXCEPT ![t] = q]
    /\ at' = [at EXCEPT ![t] = "slept"]
    /\ current' = NULL
    /\ UNCHANGED task

\* The same three assignments with interrupts enabled: tmp = *p ...
SaveHead(t, q) ==
    /\ current = t
    /\ at[t] = "user"
    /\ tmp' = [tmp EXCEPT ![t] = head[q]]
    /\ on' = [on EXCEPT ![t] = q]
    /\ at' = [at EXCEPT ![t] = "save"]
    /\ UNCHANGED <<task, current, state, head>>

\* ... *p = current ...
LinkSelf(t) ==
    /\ current = t
    /\ at[t] = "save"
    /\ head' = [head EXCEPT ![on[t]] = t]
    /\ at' = [at EXCEPT ![t] = "link"]
    /\ UNCHANGED <<task, current, state, on, tmp>>

\* ... current->state = TASK_UNINTERRUPTIBLE; schedule().
GoToSleep(t) ==
    /\ current = t
    /\ at[t] = "link"
    /\ state' = [state EXCEPT ![t] = "UNINTERRUPTIBLE"]
    /\ at' = [at EXCEPT ![t] = "slept"]
    /\ current' = NULL
    /\ UNCHANGED <<task, on, tmp, head>>

\* The rest of sleep_on: if (tmp) tmp->state = 0.
SleepOnReturns(t) ==
    /\ current = t
    /\ at[t] = "slept"
    /\ state' = IF tmp[t] = NULL THEN state
                                 ELSE [state EXCEPT ![tmp[t]] = "RUNNING"]
    /\ tmp' = [tmp EXCEPT ![t] = NULL]
    /\ on' = [on EXCEPT ![t] = NULL]
    /\ at' = [at EXCEPT ![t] = "user"]
    /\ UNCHANGED <<task, current, head>>

InterruptibleSleepOn(t, q) ==
    /\ current = t
    /\ at[t] = "user"
    /\ tmp' = [tmp EXCEPT ![t] = head[q]]
    /\ head' = [head EXCEPT ![q] = t]
    /\ state' = [state EXCEPT ![t] = "INTERRUPTIBLE"]
    /\ on' = [on EXCEPT ![t] = q]
    /\ at' = [at EXCEPT ![t] = "islept"]
    /\ current' = NULL
    /\ UNCHANGED task

\* Somebody slept on the queue later: wake it up and sleep again (goto repeat).
InterruptibleRepeats(t) ==
    LET h == head[on[t]] IN
    /\ current = t
    /\ at[t] = "islept"
    /\ h \notin {NULL, t}
    /\ state' = [state EXCEPT ![h] = "RUNNING", ![t] = "INTERRUPTIBLE"]
    /\ current' = NULL
    /\ UNCHANGED <<task, at, on, tmp, head>>

\* Otherwise *p = NULL, and tmp is made runnable.
InterruptibleReturns(t) ==
    /\ current = t
    /\ at[t] = "islept"
    /\ head[on[t]] \in {NULL, t}
    /\ head' = [head EXCEPT ![on[t]] = NULL]
    /\ state' = IF tmp[t] = NULL THEN state
                                 ELSE [state EXCEPT ![tmp[t]] = "RUNNING"]
    /\ tmp' = [tmp EXCEPT ![t] = NULL]
    /\ on' = [on EXCEPT ![t] = NULL]
    /\ at' = [at EXCEPT ![t] = "user"]
    /\ UNCHANGED <<task, current>>

\* wake_up, called by the running task or by an interrupt handler.
WakeUp(q) ==
    /\ head[q] # NULL
    /\ state' = [state EXCEPT ![head[q]] = "RUNNING"]
    /\ head' = [head EXCEPT ![q] = NULL]
    /\ UNCHANGED <<task, current, at, on, tmp>>

\* sys_pause (and the wait of sys_waitpid): sleep for a signal, on no queue.
Pause(t) ==
    /\ current = t
    /\ at[t] = "user"
    /\ state' = [state EXCEPT ![t] = "INTERRUPTIBLE"]
    /\ at' = [at EXCEPT ![t] = "paused"]
    /\ current' = NULL
    /\ UNCHANGED <<task, on, tmp, head>>

PauseReturns(t) ==
    /\ current = t
    /\ at[t] = "paused"
    /\ at' = [at EXCEPT ![t] = "user"]
    /\ UNCHANGED <<task, current, state, on, tmp, head>>

\* do_exit and the release() of the task's page by its father.  The last task
\* is init, which never exits.
Exit(t) ==
    /\ current = t
    /\ at[t] = "user"
    /\ task # {t}
    /\ task' = task \ {t}
    /\ current' = NULL
    /\ UNCHANGED <<state, at, on, tmp, head>>

\* copy_process: a new task takes a free slot and a fresh page.
Fork(t) ==
    /\ current # NULL /\ at[current] = "user"
    /\ t \in Tasks \ task
    /\ task' = task \cup {t}
    /\ state' = [state EXCEPT ![t] = "RUNNING"]
    /\ UNCHANGED <<current, at, on, tmp, head>>

-----------------------------------------------------------------------------

Step(t) ==
    \/ Schedule(t)
    \/ \E q \in CliQueues : SleepOn(t, q)
    \/ \E q \in OpenQueues : SaveHead(t, q)
    \/ LinkSelf(t)
    \/ GoToSleep(t)
    \/ SleepOnReturns(t)
    \/ \E q \in IntrQueues : InterruptibleSleepOn(t, q)
    \/ InterruptibleRepeats(t)
    \/ InterruptibleReturns(t)
    \/ Pause(t)
    \/ PauseReturns(t)
    \/ Exit(t)
    \/ Fork(t)

Next ==
    \/ \E t \in Tasks : Step(t)
    \/ \E q \in Queues : WakeUp(q)

Spec == Init /\ [][Next]_vars

(***************************************************************************)
(* The counter of schedule() hands the CPU to every runnable task in turn, *)
(* and code in the kernel runs on until it sleeps.                         *)
(***************************************************************************)
Fairness ==
    \A t \in Tasks :
        /\ SF_vars(Schedule(t))
        /\ WF_vars(LinkSelf(t) \/ GoToSleep(t))
        /\ WF_vars(SleepOnReturns(t))
        /\ WF_vars(InterruptibleRepeats(t) \/ InterruptibleReturns(t))
        /\ WF_vars(PauseReturns(t))

FairSpec == Spec /\ Fairness

-----------------------------------------------------------------------------

\* The tasks that are inside sleep_on(&q), asleep or already made runnable.
InSleepOn(q) == {t \in task : at[t] = "slept" /\ on[t] = q}

\* Those of them that wait for somebody to make them runnable.
Sleepers(q) == {t \in InSleepOn(q) : state[t] = "UNINTERRUPTIBLE"}

(***************************************************************************)
(* No set of sleepers is cut off: one of its members is the head of the    *)
(* queue, or will be made runnable by a task outside the set.  (A plain    *)
(* "every sleeper is somebody's tmp" would allow a ring of sleepers that   *)
(* wait for each other.)                                                   *)
(***************************************************************************)
Linked(q, asleep, inside) ==
    \A S \in SUBSET asleep :
        S # {} => \E t \in S : \/ head[q] = t
                               \/ \E u \in inside \ S : tmp[u] = t

\* sleep_on under cli: no sleeper is ever lost from its queue, however often
\* tasks on other queues write a stale tmp->state and wake it by mistake.
NoLostSleeper == \A q \in CliQueues : Linked(q, Sleepers(q), InSleepOn(q))

(***************************************************************************)
(* The writes of tmp->state and of the head's state always reach a         *)
(* live task that still sleeps on that very queue: the pointer on the      *)
(* kernel stack has not gone stale.                                        *)
(***************************************************************************)
NoStaleWake ==
    /\ \A q \in CliQueues : head[q] # NULL => head[q] \in Sleepers(q)
    /\ \A q \in CliQueues : \A u \in InSleepOn(q) :
          tmp[u] # NULL => tmp[u] \in Sleepers(q)

\* Each sleeper is woken once: head and the tmps of one queue are distinct.
WokenOnce ==
    \A q \in CliQueues : \A u \in InSleepOn(q) :
        tmp[u] # NULL =>
            /\ head[q] # tmp[u]
            /\ \A v \in InSleepOn(q) \ {u} : tmp[v] # tmp[u]

\* One wake_up is enough for all: once *p is NULL every task still asleep on
\* p is made runnable, by the chain of returning sleep_on calls.
WakeUpReachesAll ==
    \A q \in CliQueues : \A t \in Tasks :
        (head[q] = NULL /\ t \in Sleepers(q)) ~> (t \notin Sleepers(q))

\* sleep_on called with interrupts enabled, as make_request does: the comment
\* in sched.c offers it as the synchronisation of a process with interrupts.
OpenNoLostSleeper == \A q \in OpenQueues : Linked(q, Sleepers(q), InSleepOn(q))

\* interruptible_sleep_on: a task that steps back behind a later sleeper will
\* be made runnable by it, as the comment in sched.c says.
IntrNoLostSleeper ==
    \A q \in IntrQueues :
        LET inside == {t \in task : at[t] = "islept" /\ on[t] = q}
        IN  Linked(q, {t \in inside : state[t] = "INTERRUPTIBLE"}, inside)

=============================================================================
