------------------------------ MODULE Processes ------------------------------
(***************************************************************************)
(* The life of processes: kernel/fork.c, exit.c, signal.c, and the calls   *)
(* of sched.c and sys.c on pause, alarm, groups, sessions and user ids.    *)
(*                                                                         *)
(* The kernel is not preempted: an action is a system call up to the next  *)
(* schedule(), which it contains.  Time is left out: an alarm that is set  *)
(* may have expired at any schedule().  Which runnable task is chosen is   *)
(* left open here; module Timers has the counters.                         *)
(***************************************************************************)
EXTENDS Integers, FiniteSets, FiniteSetsExt

CONSTANTS
    NR_TASKS,
    PID_MAX,     \* after this process number the next is 1 (2^31 - 1 in the code)
    Sigs,        \* the signals, without SIGCHLD, that programs send
    SIGCHLD, SIGALRM, SIGKILL, SIGHUP,
    NULL,
    MaxForks,    \* bound: processes made
    MaxCalls,    \* bound: calls that set something
    MaxKills     \* bound: on top of it, calls of sys_kill

ASSUME TasksExist == NR_TASKS \in Nat /\ NR_TASKS >= 2
ASSUME NumbersSuffice == PID_MAX \in Nat /\ PID_MAX >= NR_TASKS

VARIABLES task, current, last_pid, forks, calls
vars == <<task, current, last_pid, forks, calls>>

Slots == 0 .. NR_TASKS - 1
Signals == Sigs \cup {SIGCHLD, SIGALRM, SIGKILL, SIGHUP}
Used == {i \in Slots : task[i] # NULL}
Users == Used \ {0}
PidOf(i) == task[i].pid

\* The only task without a father; its slot is free when it has been killed.
IsInit(i) == i = 1 /\ task[i].father = 0

\* The part of task_struct that matters here.  place is where the task is: in
\* its program, asleep in do_exit, waitpid or pause; handler: the default, to
\* ignore, a function for one time, or for ever (with the signal masked).
Tasks == [pid : 0 .. PID_MAX, father : -1 .. PID_MAX, pgrp : 0 .. PID_MAX, session : 0 .. PID_MAX,
          leader : BOOLEAN, root : BOOLEAN,
          state : {"running", "interruptible", "uninterruptible", "zombie"},
          signal : SUBSET Signals, blocked : SUBSET Signals,
          handler : [Signals -> {"default", "ignore", "once", "stay"}],
          alarm : BOOLEAN,
          place : {"user", "closing", "wait", "pause"},
          pid_arg : -PID_MAX .. PID_MAX]

ASSUME FreeIsNoTask == NULL \notin Tasks

TypeOK ==
    /\ task \in [Slots -> Tasks \cup {NULL}]
    /\ current \in Slots /\ task[current] # NULL
    /\ last_pid \in 0 .. PID_MAX

Task0 == [pid |-> 0, father |-> -1, pgrp |-> 0, session |-> 0, leader |-> FALSE, root |-> TRUE,
          state |-> "running", signal |-> {}, blocked |-> {},
          handler |-> [s \in Signals |-> "default"], alarm |-> FALSE, place |-> "user", pid_arg |-> 0]

\* Tasks 0 and 1 (init), as main() leaves them; init runs.  So many
\* processes were there before that the numbers will soon start again.
Init ==
    /\ task = [i \in Slots |-> CASE i = 0 -> Task0
                                 [] i = 1 -> [Task0 EXCEPT !.pid = 1, !.father = 0]
                                 [] OTHER -> NULL]
    /\ current = 1 /\ last_pid = PID_MAX - 1 /\ forks = 0 /\ calls = 0

-----------------------------------------------------------------------------
(* schedule().                                                             *)

\* Has the sleeper a signal that it does not block?  SIGKILL cannot be blocked.
Wakes(t) == t.state = "interruptible" /\ t.signal \ (t.blocked \ {SIGKILL}) # {}

\* The table after the first loop of schedule(), if the alarms of late expired.
Alarmed(tasks, late) ==
    [i \in Slots |->
       IF i = 0 \/ tasks[i] = NULL THEN tasks[i]
       ELSE LET t == IF i \in late
                     THEN [tasks[i] EXCEPT !.signal = @ \cup {SIGALRM}, !.alarm = FALSE]
                     ELSE tasks[i]
            IN  IF Wakes(t) THEN [t EXCEPT !.state = "running"] ELSE t]

Runnable(tasks) == {i \in Slots \ {0} : IF tasks[i] = NULL THEN FALSE ELSE tasks[i].state = "running"}

\* A step that makes the table tasks and ends in schedule().
Schedule(tasks) ==
    \E late \in SUBSET {i \in Slots \ {0} : IF tasks[i] = NULL THEN FALSE ELSE tasks[i].alarm} :
        /\ task' = Alarmed(tasks, late)
        /\ current' \in IF Runnable(task') = {} THEN {0} ELSE Runnable(task')

\* The running task is in its program.
InUser(i) == current = i /\ i # 0 /\ task[i].place = "user" /\ task[i].state = "running"

\* do_timer when the time of a task is over, and the pause of task 0.
Preempt ==
    /\ current = 0 \/ InUser(current)
    /\ UNCHANGED <<last_pid, forks, calls>>
    /\ Schedule(task)

-----------------------------------------------------------------------------
(* fork.c.                                                                 *)

Pids == {PidOf(i) : i \in Used}

\* The loop of find_empty_process: the next number that no task has.
NextPid ==
    LET from == IF last_pid = PID_MAX THEN 1 ELSE last_pid + 1
        after == {n \in from .. PID_MAX : n \notin Pids}
    IN  Min(IF after # {} THEN after ELSE (1 .. PID_MAX) \ Pids)

\* sys_fork; without a free slot or without memory only last_pid changes.
Fork(i) ==
    LET free == Slots \ (Used \cup {0}) IN
    /\ InUser(i) /\ forks < MaxForks
    /\ last_pid' = NextPid
    /\ forks' = forks + 1
    /\ \/ /\ free # {}
          /\ task' = [task EXCEPT ![Min(free)] =
                        [task[i] EXCEPT !.pid = NextPid, !.father = PidOf(i), !.signal = {},
                                        !.alarm = FALSE, !.leader = FALSE]]
       \/ UNCHANGED task
    /\ UNCHANGED <<current, calls>>

-----------------------------------------------------------------------------
(* exit.c.                                                                 *)

Sent(tasks, i, sig) == [tasks EXCEPT ![i].signal = @ \cup {sig}]

\* Slip: only children that are dead already are given to init.
OrphanedDead(tasks, i) ==
    LET mine == {j \in Slots : tasks[j] # NULL /\ tasks[j].father = tasks[i].pid /\ tasks[j].state = "zombie"}
    IN  [j \in Slots |-> IF j \in mine THEN [tasks[j] EXCEPT !.father = 1]
                         ELSE IF j = 1 /\ tasks[1] # NULL /\ mine # {} THEN Sent(tasks, 1, SIGCHLD)[1]
                         ELSE tasks[j]]

\* do_exit gives the children of i to init, and tells init of the dead ones.
Orphaned(tasks, i) ==
    LET mine == {j \in Slots : IF tasks[j] = NULL THEN FALSE ELSE tasks[j].father = tasks[i].pid}
        dead == {j \in mine : tasks[j].state = "zombie"}
        tell == IF dead # {} /\ tasks[1] # NULL THEN Sent(tasks, 1, SIGCHLD) ELSE tasks
    IN  [j \in Slots |-> IF j \in mine THEN [tell[j] EXCEPT !.father = 1] ELSE tell[j]]

\* Closing files and putting inodes may sleep, or not.
Exiting(tasks, i) ==
    LET t == [Orphaned(tasks, i) EXCEPT ![i].place = "closing"] IN
    \/ task' = t /\ UNCHANGED current
    \/ Schedule([t EXCEPT ![i].state = "uninterruptible"])

Exit(i) ==
    /\ InUser(i) /\ ~ IsInit(i)
    /\ UNCHANGED <<last_pid, forks, calls>>
    /\ Exiting(task, i)

\* The buffer or the inode that i waited for in do_exit is free.
Woken(i) ==
    /\ task[i] # NULL
    /\ task[i].state = "uninterruptible"
    /\ task' = [task EXCEPT ![i].state = "running"]
    /\ UNCHANGED <<current, last_pid, forks, calls>>

kill_session(tasks, i) ==
    [j \in Slots |-> IF j = 0 \/ tasks[j] = NULL THEN tasks[j]
                     ELSE IF tasks[i].leader /\ tasks[j].session = tasks[i].session
                     THEN Sent(tasks, j, SIGHUP)[j] ELSE tasks[j]]

\* tell_father: without a father the task releases itself.
Told(tasks, i) ==
    LET fathers == {j \in Slots : IF tasks[j] = NULL THEN FALSE
                                  ELSE tasks[i].father # 0 /\ tasks[j].pid = tasks[i].father}
    IN  IF fathers = {} THEN [tasks EXCEPT ![i] = NULL] ELSE Sent(tasks, Min(fathers), SIGCHLD)

\* The rest of do_exit; it does not return.
Die(i) ==
    /\ current = i /\ task[i].place = "closing" /\ task[i].state = "running"
    /\ UNCHANGED <<last_pid, forks, calls>>
    /\ Schedule(Told([kill_session(task, i) EXCEPT ![i].state = "zombie"], i))

Matches(i, j, pid) ==
    CASE pid > 0 -> PidOf(j) = pid
      [] pid = 0 -> task[j].pgrp = task[i].pgrp
      [] pid < -1 -> task[j].pgrp = -pid
      [] OTHER -> TRUE

\* One pass of waitpid: reap the last dead child that matches; sleep if there
\* are only live ones (unless WNOHANG); or return with ECHILD.
WaitScan(i, pid, nohang) ==
    LET mine == {j \in Users \ {i} : task[j].father = PidOf(i) /\ Matches(i, j, pid)}
        dead == {j \in mine : task[j].state = "zombie"}
    IN  IF dead # {} THEN Schedule([task EXCEPT ![Max(dead)] = NULL, ![i].place = "user", ![i].pid_arg = 0])
        ELSE IF mine # {} /\ ~ nohang
        THEN Schedule([task EXCEPT ![i].place = "wait", ![i].pid_arg = pid, ![i].state = "interruptible"])
        ELSE task' = [task EXCEPT ![i].place = "user", ![i].pid_arg = 0] /\ UNCHANGED current

WaitPid(i, pid, nohang) ==
    /\ InUser(i)
    /\ UNCHANGED <<last_pid, forks, calls>>
    /\ WaitScan(i, pid, nohang)

\* Awake again: SIGCHLD is cleared, and any other signal ends the call.
WaitResumes(i) ==
    LET t == [task EXCEPT ![i].signal = @ \ {SIGCHLD}]
        mine == {j \in Users \ {i} : task[j].father = PidOf(i) /\ Matches(i, j, task[i].pid_arg)}
        dead == {j \in mine : task[j].state = "zombie"}
        back == [t EXCEPT ![i].place = "user", ![i].pid_arg = 0]
    IN
    /\ current = i /\ task[i].place = "wait" /\ task[i].state = "running"
    /\ UNCHANGED <<last_pid, forks, calls>>
    /\ IF t[i].signal # {} \/ mine = {} THEN task' = back /\ UNCHANGED current
       ELSE IF dead # {} THEN Schedule([back EXCEPT ![Max(dead)] = NULL])
       ELSE Schedule([t EXCEPT ![i].state = "interruptible"])

\* sys_kill.  With pid -1, and by its number, root reaches init as any other.
Kill(i, pid, sig) ==
    LET all == Users
        to == CASE pid = 0 -> {j \in all : task[j].pgrp = PidOf(i)}
                [] pid > 0 -> {j \in all : PidOf(j) = pid}
                [] pid = -1 -> all
                [] OTHER -> {j \in all : task[j].pgrp = -pid}
        allowed == IF pid = 0 THEN to ELSE {j \in to : task[i].root \/ task[i].root = task[j].root}
    IN
    /\ InUser(i) /\ ~ IsInit(i) /\ calls < MaxCalls + MaxKills
    /\ task' = [j \in Slots |-> IF j \in allowed THEN Sent(task, j, sig)[j] ELSE task[j]]
    /\ task' # task
    /\ calls' = calls + 1
    /\ UNCHANGED <<current, last_pid, forks>>

-----------------------------------------------------------------------------
(* signal.c, and the calls of sched.c and sys.c.                           *)

\* The order in which a return from the kernel looks for signals.
Number(sig) == CASE sig = SIGHUP -> 1 [] sig = SIGKILL -> 9 [] sig = SIGALRM -> 14 [] sig = SIGCHLD -> 17
                 [] OTHER -> 15

\* do_signal for the first signal that is not blocked, on a return to user mode.
Deliver(i) ==
    LET pending == task[i].signal \ task[i].blocked
        sig == CHOOSE s \in pending : \A r \in pending : Number(s) <= Number(r)
        h == task[i].handler[sig]
        t == [task EXCEPT ![i].signal = @ \ {sig}]
    IN
    /\ InUser(i) /\ pending # {}
    /\ UNCHANGED <<last_pid, forks, calls>>
    /\ CASE h = "ignore" \/ (h = "default" /\ sig = SIGCHLD) -> task' = t /\ UNCHANGED current
         [] h = "default" /\ sig # SIGCHLD -> Exiting(t, i)
         [] h = "once" -> task' = [t EXCEPT ![i].handler[sig] = "default"] /\ UNCHANGED current
         [] h = "stay" -> task' = [t EXCEPT ![i].blocked = @ \cup {sig}] /\ UNCHANGED current

Pause(i) ==
    /\ InUser(i) /\ ~ IsInit(i)
    /\ UNCHANGED <<last_pid, forks, calls>>
    /\ Schedule([task EXCEPT ![i].place = "pause", ![i].state = "interruptible"])

PauseReturns(i) ==
    /\ current = i /\ task[i].place = "pause" /\ task[i].state = "running"
    /\ task' = [task EXCEPT ![i].place = "user"]
    /\ UNCHANGED <<current, last_pid, forks, calls>>

\* A call of i that changes only task structures (one that changes nothing is
\* not counted as a step); init only forks and waits.
Call(i, tasks) ==
    /\ InUser(i) /\ ~ IsInit(i) /\ calls < MaxCalls
    /\ tasks # task
    /\ task' = tasks
    /\ calls' = calls + 1
    /\ UNCHANGED <<current, last_pid, forks>>

sys_alarm(i) == \E seconds \in 0 .. 1 : Call(i, [task EXCEPT ![i].alarm = seconds > 0])

\* Slip: all signals can be blocked.
sys_ssetmask_all(i) == Call(i, [task EXCEPT ![i].blocked = Signals])

\* The call masks as much as it can.
sys_ssetmask(i) == Call(i, [task EXCEPT ![i].blocked = Signals \ {SIGKILL}])

\* sys_signal (one shot) and sys_sigaction.
sys_signal(i) ==
    \E sig \in Sigs \cup {SIGCHLD}, h \in {"ignore", "once", "stay"} :
        Call(i, [task EXCEPT ![i].handler[sig] = h])

\* Only for a task of the same session that leads none.
sys_setpgid(i) ==
    \E j \in Users :
        /\ ~ task[j].leader /\ task[j].session = task[i].session
        /\ Call(i, [task EXCEPT ![j].pgrp = PidOf(i)])

sys_setsid(i) ==
    /\ ~ task[i].leader \/ task[i].root
    /\ Call(i, [task EXCEPT ![i].leader = TRUE, ![i].session = PidOf(i), ![i].pgrp = PidOf(i)])

\* sys_setreuid by root: it becomes a user, and cannot go back.
sys_setreuid(i) == task[i].root /\ Call(i, [task EXCEPT ![i].root = FALSE])

-----------------------------------------------------------------------------
Step(i) ==
    \/ Fork(i) \/ Exit(i) \/ Die(i)
    \/ \E pid \in {-1, last_pid} : WaitPid(i, pid, FALSE)
    \/ WaitPid(i, 0, TRUE)
    \/ WaitResumes(i)
    \/ \E pid \in {-1, 0, last_pid}, sig \in Sigs \cup {SIGKILL} : Kill(i, pid, sig)
    \/ Deliver(i)
    \/ Pause(i) \/ PauseReturns(i)
    \/ sys_alarm(i) \/ sys_ssetmask(i) \/ sys_signal(i)
    \/ sys_setpgid(i) \/ sys_setsid(i) \/ sys_setreuid(i)

Next == Preempt \/ \E i \in Users : Step(i) \/ Woken(i)

Spec == Init /\ [][Next]_vars

Goes(i) == Die(i) \/ WaitResumes(i) \/ PauseReturns(i)

\* What a task does in the kernel ends, sleeps of do_exit end, a return to user
\* mode delivers a signal, and the scheduler lets no runnable task starve (module
\* Scheduler).
Fairness ==
    /\ WF_vars(\E i \in Users : Goes(i))
    /\ WF_vars(\E i \in Users : Woken(i))
    /\ SF_vars(\E i \in Users : Deliver(i))
    /\ \A i \in Slots \ {0} : SF_vars(current' = i /\ Preempt)

FairSpec == Spec /\ Fairness

-----------------------------------------------------------------------------
(* Properties.                                                             *)

\* Every task but 0 and init has a father that can still wait for it, in spite
\* of sleeps in the middle of do_exit; only when init has been killed, which
\* sys_kill allows, are its children left to a process number that may be
\* nobody's.  And no two tasks have one number.
InitLives == task[1] # NULL /\ IsInit(1) /\ task[1].place # "closing"

FathersCanWait ==
    /\ TypeOK
    /\ \A i \in Users :
          \/ IsInit(i)
          \/ \E j \in Users : PidOf(j) = task[i].father /\ task[j].place # "closing"
          \/ task[i].father = 1 /\ ~ InitLives
    /\ \A i, j \in Used : PidOf(i) = PidOf(j) => i = j

\* A task that waits for a child, or for any, and the child is dead
ChildIsDead(i) ==
    /\ task[i].place = "wait" /\ SIGCHLD \notin task[i].blocked
    /\ \E j \in Users \ {i} : /\ task[j].father = PidOf(i) /\ task[j].state = "zombie"
                              /\ task[i].pid_arg \in {-1, PidOf(j)}

\* Tasks that have not yet noticed a death: that of a child, or their own.
Unnoticed == {i \in Users : task[i].state # "zombie" /\ (ChildIsDead(i) \/ SIGKILL \in task[i].signal)}

\* A wait ends when the child is dead, unless SIGCHLD is blocked: then nobody
\* wakes the father.  (A child that is waited for by its group can be moved to
\* another group even when it is dead.)  And nothing saves a task from SIGKILL,
\* init included: not its mask, its handlers or the call it sleeps in.  As the
\* deaths are bounded here, all are noticed iff again and again none is left.
DeathIsNoticed == []<>(Unnoticed = {})

=============================================================================
