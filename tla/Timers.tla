------------------------------- MODULE Timers -------------------------------
(***************************************************************************)
(* The clock, kernel/sched.c: do_timer and what hangs on it, the choice of *)
(* schedule, alarms, the timers of add_timer and the motors of the floppy  *)
(* drives.  sleep_on and wake_up are in WaitQueue.                         *)
(*                                                                         *)
(* Task 0 is the idle task, which calls schedule all the time.  C longs    *)
(* have Width bits here.                                                   *)
(***************************************************************************)
EXTENDS Integers, Sequences, FiniteSets, FiniteSetsExt, SequencesExt

CONSTANTS
    Tasks,          \* the tasks besides task 0, numbers above 0
    Priority,       \* the priority a task starts with
    Width,
    Increments,     \* arguments of sys_nice
    HZ,             \* ticks of a second
    SPINUP,         \* HZ/2: ticks until a motor has its speed
    KEEP, LINGER,   \* 10000 and 3*HZ: ticks a motor runs on
    Drives,
    TIME_REQUESTS,
    MaxJiffies      \* bound: ticks of a behaviour

VARIABLE sc

\* The function of a timer is the drive floppy_on_interrupt is for, or another.
Other == -1

Running == "TASK_RUNNING"
Interruptible == "TASK_INTERRUPTIBLE"

\* A sum of C longs.
Long(n) ==
    LET span == 2 ^ Width IN ((n + span \div 2) % span) - span \div 2

\* Tasks on one side, timers and motors on the other share only the clock: a
\* behaviour exercises one of the two.
Init == \E part \in {"tasks", "timers"} :
    sc = [part |-> part, jiffies |-> 0, current |-> 0,
          task |-> [t \in Tasks |-> [state |-> Running, counter |-> Priority,
                                     priority |-> Priority, alarm |-> 0, sigalrm |-> FALSE]],
          timers |-> <<>>,      \* [jiffies, fn, due]; due is when fn should run
          on |-> {},            \* motor bits of current_DOR
          mon |-> [n \in Drives |-> 0],
          moff |-> [n \in Drives |-> 0],
          spun |-> [n \in Drives |-> 0],    \* ticks since the motor was started
          until |-> [n \in Drives |-> 0]]   \* when it may stop, as its last user said

-----------------------------------------------------------------------------
(* schedule                                                                *)

\* An alarm that has passed becomes SIGALRM, and a signal wakes a task that
\* sleeps interruptibly.
Checked(x, now) ==
    LET rings == x.alarm # 0 /\ x.alarm < now
        signalled == x.sigalrm \/ rings
    IN  [x EXCEPT !.sigalrm = signalled,
                  !.alarm = IF rings THEN 0 ELSE @,
                  !.state = IF signalled /\ @ = Interruptible THEN Running ELSE @]

Runnable(task) == {t \in Tasks : task[t].state = Running}

\* Slip: a task without time left is no candidate, as an idle one.
Chosen_unless_spent(task) ==
    LET able == {t \in Runnable(task) : task[t].counter > 0}
        best == {t \in able : \A u \in able : task[u].counter <= task[t].counter}
    IN  IF able = {} THEN 0 ELSE Max(best)

\* The task the inner loop finds: the largest counter above -1, from behind.
Chosen(task) ==
    LET able == {t \in Runnable(task) : task[t].counter > -1}
        best == {t \in able : \A u \in able : task[u].counter <= task[t].counter}
    IN  IF able = {} THEN 0 ELSE Max(best)

Replenished(task) ==
    [t \in Tasks |-> [task[t] EXCEPT !.counter = Long((@ \div 2) + task[t].priority)]]

Recharge(task) ==
    LET n == Chosen(task)
    IN  IF n # 0 /\ task[n].counter = 0 THEN Replenished(task) ELSE task

\* schedule: when every task that can run has used its time, all get more.
Schedule(s) ==
    LET checked == [t \in Tasks |-> Checked(s.task[t], s.jiffies)]
        With(task) == [s EXCEPT !.task = task, !.current = Chosen(task)]
    IN  With(Recharge(checked))

-----------------------------------------------------------------------------
(* Timers and motors.                                                      *)

\* The list after add_timer: the new one passes those with a smaller count
\* and is reduced by them; the one behind it is not reduced.
Inserted(list, n, fn, due) ==
    LET New(j) == [jiffies |-> j, fn |-> fn, due |-> due]
        left[i \in 0 .. Len(list)] == IF i = 0 THEN n ELSE left[i - 1] - list[i].jiffies
        passed == {i \in 0 .. Len(list) : \A j \in 1 .. i : list[j].jiffies < left[j - 1]}
    IN  InsertAt(list, Max(passed) + 1, New(left[Max(passed)]))

\* The motor of a drive is told to stop so many ticks from now.
StopIn(s, n, ticks) == [s EXCEPT !.moff[n] = ticks, !.until[n] = s.jiffies + ticks]

\* ticks_to_floppy_on, without the selection of a drive.
MotorOn(s, n) ==
    LET kept == StopIn(s, n, KEEP)
    IN  IF n \in s.on THEN kept
        ELSE [kept EXCEPT !.on = @ \cup {n}, !.mon[n] = SPINUP, !.spun[n] = 0]

\* do_floppy_timer for one motor of current_DOR.
MotorTick(s, n) ==
    CASE s.mon[n] > 0 -> [s EXCEPT !.mon[n] = @ - 1]
      [] s.mon[n] = 0 /\ s.moff[n] = 0 -> [s EXCEPT !.on = @ \ {n}]
      [] OTHER -> [s EXCEPT !.moff[n] = @ - 1]

\* Slip: every timer is counted down, not only the first.
Fired_all(list) ==
    LET all == [i \in DOMAIN list |-> [list[i] EXCEPT !.jiffies = @ - 1]]
        due == {i \in 0 .. Len(list) : \A j \in 1 .. i : all[j].jiffies <= 0}
    IN  SubSeq(all, Max(due) + 1, Len(all))

\* The timers do_timer takes off the list: those whose count is 0 now.
Fired(list) ==
    LET head == [list EXCEPT ![1].jiffies = @ - 1]
        due == {i \in 0 .. Len(list) : \A j \in 1 .. i : head[j].jiffies <= 0}
    IN  IF list = <<>> THEN list ELSE SubSeq(head, Max(due) + 1, Len(head))

-----------------------------------------------------------------------------

\* do_timer(cpl): the timers, the motors, and the time of the current task,
\* which only loses the CPU in user mode.
Tick(user) ==
    /\ sc.jiffies < MaxJiffies
    /\ LET clock == [sc EXCEPT !.jiffies = @ + 1, !.timers = Fired(@),
                               !.spun = [n \in Drives |-> Min({@[n] + 1, SPINUP})]]
           motors == FoldSet(LAMBDA n, s : MotorTick(s, n), clock, sc.on)
           c == sc.current
           spent == IF c = 0 THEN motors
                    ELSE [motors EXCEPT !.task[c].counter = IF @ - 1 > 0 THEN @ - 1 ELSE 0]
       IN  sc' = IF c = 0 \/ (user /\ spent.task[c].counter = 0) THEN Schedule(spent)
                 ELSE spent

\* do_fd_request: a timer runs floppy_on_interrupt when the motor has its
\* speed; without ticks to wait it runs at once.  The driver has one request
\* at a time.
StartDrive(n) ==
    /\ \A i \in 1 .. Len(sc.timers) : sc.timers[i].fn = Other
    /\ Len(sc.timers) < TIME_REQUESTS
    /\ LET s == MotorOn(sc, n)
       IN  sc' = IF s.mon[n] = 0 THEN s
                 ELSE [s EXCEPT !.timers = Inserted(@, s.mon[n], n, s.jiffies + s.mon[n])]

\* add_timer(n, fn) of any other function.
add_timer(n) ==
    /\ Len(sc.timers) < TIME_REQUESTS
    /\ sc' = [sc EXCEPT !.timers = Inserted(@, n, Other, sc.jiffies + n)]

floppy_off(n) ==
    /\ n \in sc.on
    /\ sc' = StopIn(sc, n, LINGER)

sys_alarm(seconds) ==
    /\ sc.current # 0
    /\ sc' = [sc EXCEPT !.task[sc.current].alarm =
                           IF seconds > 0 THEN sc.jiffies + HZ * seconds ELSE 0]

sys_nice(increment) ==
    /\ sc.current # 0
    /\ LET p == Long(sc.task[sc.current].priority - increment)
       IN  p > 0 /\ sc' = [sc EXCEPT !.task[sc.current].priority = p]

\* The current task sleeps: sys_pause, or a sleep_on that a wake_up ends.
Sleep(state) ==
    /\ sc.current # 0
    /\ sc' = Schedule([sc EXCEPT !.task[sc.current].state = state])

\* wake_up, by an interrupt.
WakeUp(t) ==
    /\ sc.task[t].state # Running
    /\ sc' = [sc EXCEPT !.task[t].state = Running]

\* The idle task calls schedule, and a signalled task takes its SIGALRM.
Idle ==
    /\ sc.current = 0 /\ Runnable(sc.task) # {}
    /\ sc' = Schedule(sc)

TakeSignal ==
    /\ sc.current # 0 /\ sc.task[sc.current].sigalrm
    /\ sc' = [sc EXCEPT !.task[sc.current].sigalrm = FALSE]

Next ==
    \/ \E user \in BOOLEAN : Tick(user)
    \/ /\ sc.part = "timers"
       /\ \/ \E n \in Drives : StartDrive(n) \/ floppy_off(n)
          \/ \E n \in 1 .. 3 : add_timer(n)
    \/ /\ sc.part = "tasks"
       /\ \/ \E seconds \in {0, 1} : sys_alarm(seconds)
          \/ \E i \in Increments : sys_nice(i)
          \/ \E state \in {Interruptible, "TASK_UNINTERRUPTIBLE"} : Sleep(state)
          \/ \E t \in Tasks : WakeUp(t)
          \/ Idle \/ TakeSignal

Spec == Init /\ [][Next]_sc

-----------------------------------------------------------------------------

(***************************************************************************)
(* A timer never runs before its time, whatever is added before or behind  *)
(* it, and by the time a drive's timer is due its motor, which another     *)
(* user of the drive may have told to stop, still runs and has its speed.  *)
(* (Timers may run late: add_timer does not reduce the one that follows.)  *)
(* A motor does not stop before the time that its last user gave it, ten   *)
(* thousand ticks when a request begins, three seconds after floppy_off,   *)
(* however often it was told to stop or to run before.                     *)
(***************************************************************************)
NeverEarly ==
    LET sum[i \in 0 .. Len(sc.timers)] ==
            IF i = 0 THEN 0 ELSE sum[i - 1] + sc.timers[i].jiffies
    IN  /\ \A i \in 1 .. Len(sc.timers) :
              LET t == sc.timers[i]
              IN  /\ sum[i] >= t.due - sc.jiffies
                  /\ t.fn \in Drives /\ sc.jiffies < t.due =>
                        t.fn \in sc.on /\ sc.spun[t.fn] + (t.due - sc.jiffies) >= SPINUP
        /\ \A n \in Drives : sc.jiffies < sc.until[n] => n \in sc.on

\* The CPU goes to the idle task only when no task can run: a task that has
\* used its time gets more, and its counter never becomes negative.
IdleOnlyWhenIdle ==
    [][sc.current # 0 /\ sc'.current = 0 => Runnable(sc'.task) = {}]_sc

=============================================================================
