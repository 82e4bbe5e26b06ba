--------------------------- MODULE ProcessesProofs ---------------------------
(***************************************************************************)
(* Whatever tasks do, in any number of slots: every task has a father that *)
(* can wait for it, and a number of its own.                               *)
(*                                                                         *)
(* The table of tasks is good (Table) when task 0 is as main() left it,    *)
(* dead tasks are nobody's fathers, and only init, as long as it is in the *)
(* table, has no father.  Most steps only change one task and keep its kin *)
(* (OneChanges).                                                           *)
(***************************************************************************)
EXTENDS Processes, DataLemmas

Sound(r) == r.state = "zombie" => r.place = "closing"

\* r as another step of its task leaves it.
Kin(r, s) ==
    /\ s.pid = r.pid /\ s.father = r.father
    /\ s.place = "closing" => r.place = "closing"

\* Task j is the father of i and has not begun to exit.
Father(t, i, j) == t[j] # NULL /\ t[j].pid = t[i].father /\ t[j].place # "closing"

\* Init has no father; a task whose father has begun to exit is given to init,
\* or to whoever has its number.
Fathered(t, i) ==
    /\ t[i].father = 0 => i = 1 /\ t[i].pid = 1
    /\ t[i].father \in {0, 1} \/ \E j \in Slots \ {0} : Father(t, i, j)

Table(t) ==
    /\ t \in [Slots -> Tasks \cup {NULL}]
    /\ t[0] # NULL /\ t[0].pid = 0
    /\ \A i \in Slots : t[i] # NULL => Sound(t[i])
    /\ \A i, j \in Slots : t[i] # NULL /\ t[j] # NULL /\ t[i].pid = t[j].pid => i = j
    /\ \A i \in Slots \ {0} : t[i] # NULL => Fathered(t, i)

ProcInv ==
    /\ Table(task)
    /\ current \in Slots /\ task[current] # NULL
    /\ last_pid \in 0 .. PID_MAX

LEMMA FirstSlots == 0 \in Slots /\ 1 \in Slots
  BY TasksExist DEF Slots

\* A task that is not dead changes its state.
LEMMA StateChanges ==
    ASSUME NEW r \in Tasks, Sound(r), NEW st \in {"running", "interruptible", "uninterruptible"}
    PROVE  /\ [r EXCEPT !.state = st] \in Tasks
           /\ Sound([r EXCEPT !.state = st]) /\ Kin(r, [r EXCEPT !.state = st])
  BY DEF Tasks, Sound, Kin

LEMMA SameKin ==
    ASSUME NEW t, Table(t), NEW u \in [Slots -> Tasks \cup {NULL}],
           \A i \in Slots : u[i] = NULL <=> t[i] = NULL,
           \A i \in Slots : t[i] # NULL => Sound(u[i]) /\ Kin(t[i], u[i])
    PROVE  Table(u)
<1>1. u[0] # NULL /\ u[0].pid = 0
  BY FirstSlots DEF Table, Kin
<1>2. \A i, j \in Slots : u[i] # NULL /\ u[j] # NULL /\ u[i].pid = u[j].pid => i = j
  BY DEF Table, Kin
<1>3. ASSUME NEW i \in Slots \ {0}, u[i] # NULL PROVE Fathered(u, i)
  <2>1. Fathered(t, i)
    BY <1>3 DEF Table
  <2>2. ASSUME NEW j \in Slots \ {0}, Father(t, i, j) PROVE Father(u, i, j)
    BY <1>3, <2>2 DEF Father, Kin
  <2> QED
    BY <1>3, <2>1, <2>2 DEF Fathered, Kin
<1> QED
  BY <1>1, <1>2, <1>3 DEF Table

LEMMA OneChanges ==
    ASSUME NEW t, Table(t), NEW i \in Slots, t[i] # NULL, NEW r \in Tasks,
           Sound(r), Kin(t[i], r)
    PROVE  Table([t EXCEPT ![i] = r])
<1> DEFINE u == [t EXCEPT ![i] = r]
<1>1. u \in [Slots -> Tasks \cup {NULL}] /\ \A j \in Slots : u[j] = IF j = i THEN r ELSE t[j]
  BY DEF Table
<1>2. r # NULL
  BY FreeIsNoTask
<1>3. \A j \in Slots : u[j] = NULL <=> t[j] = NULL
  BY <1>1, <1>2
<1>4. \A j \in Slots : t[j] # NULL => Sound(u[j]) /\ Kin(t[j], u[j])
  BY <1>1 DEF Table, Kin
<1> HIDE DEF u
<1> QED
  BY <1>1, <1>3, <1>4, SameKin DEF u

LEMMA SentKeeps ==
    ASSUME NEW t, Table(t), NEW i \in Slots, t[i] # NULL, NEW sig \in Signals
    PROVE  Table(Sent(t, i, sig))
<1> DEFINE r == [t[i] EXCEPT !.signal = @ \cup {sig}]
<1>1. t[i] \in Tasks
  BY DEF Table
<1>2. r \in Tasks
  BY <1>1 DEF Tasks
<1>3. Sound(r) /\ Kin(t[i], r)
  BY <1>1 DEF Table, Sound, Kin, Tasks
<1>4. Sent(t, i, sig) = [t EXCEPT ![i] = r]
  BY DEF Sent, Table
<1>5. Table([t EXCEPT ![i] = r])
  <2> HIDE DEF r
  <2> QED
    BY <1>2, <1>3, OneChanges
<1> QED
  BY <1>4, <1>5

LEMMA AlarmedKeeps ==
    ASSUME NEW t, Table(t),
           NEW late \in SUBSET {i \in Slots \ {0} : IF t[i] = NULL THEN FALSE ELSE t[i].alarm}
    PROVE  Table(Alarmed(t, late))
<1> DEFINE u == Alarmed(t, late)
           rung(i) == IF i \in late
                      THEN [t[i] EXCEPT !.signal = @ \cup {SIGALRM}, !.alarm = FALSE]
                      ELSE t[i]
           r(i) == IF Wakes(rung(i)) THEN [rung(i) EXCEPT !.state = "running"] ELSE rung(i)
<1>1. \A i \in Slots : u[i] = IF i = 0 \/ t[i] = NULL THEN t[i] ELSE r(i)
  BY DEF Alarmed
<1>2. ASSUME NEW i \in Slots, t[i] # NULL
      PROVE  r(i) \in Tasks /\ Sound(r(i)) /\ Kin(t[i], r(i))
  <2>1. t[i] \in Tasks /\ Sound(t[i])
    BY <1>2 DEF Table
  <2>2. rung(i) \in Tasks /\ Sound(rung(i)) /\ Kin(t[i], rung(i))
    BY <2>1 DEF Tasks, Sound, Kin, Signals
  <2> DEFINE s == rung(i)
  <2>3. s \in Tasks /\ Sound(s) /\ Kin(t[i], s)
    BY <2>1, <2>2
  <2> HIDE DEF s
  <2>4. /\ [s EXCEPT !.state = "running"] \in Tasks
        /\ Sound([s EXCEPT !.state = "running"])
        /\ Kin(t[i], [s EXCEPT !.state = "running"])
    BY <2>3, StateChanges DEF Kin
  <2> QED
    BY <2>3, <2>4 DEF s
<1> HIDE DEF r
<1>3. u \in [Slots -> Tasks \cup {NULL}]
  <2>1. \A i \in Slots : u[i] \in Tasks \cup {NULL}
    BY <1>1, <1>2 DEF Table
  <2>2. u = [i \in Slots |-> u[i]]
    BY DEF Alarmed
  <2> HIDE DEF u
  <2> QED
    BY <2>1, <2>2
<1>4. \A i \in Slots : u[i] = NULL <=> t[i] = NULL
  BY <1>1, <1>2, FreeIsNoTask
<1>5. \A i \in Slots : t[i] # NULL => Sound(u[i]) /\ Kin(t[i], u[i])
  BY <1>1, <1>2, FirstSlots DEF Table, Kin
<1> HIDE DEF u
<1> QED
  BY <1>3, <1>4, <1>5, SameKin DEF u

LEMMA ScheduleKeeps ==
    ASSUME NEW t, Table(t), Schedule(t)
    PROVE  Table(task') /\ current' \in Slots /\ task'[current'] # NULL
<1>1. Table(task')
  BY AlarmedKeeps DEF Schedule
<1>2. current' \in Slots /\ task'[current'] # NULL
  BY <1>1, FirstSlots DEF Schedule, Runnable, Table
<1> QED
  BY <1>1, <1>2

\* The children of a task that exits get the father 1; it is nobody's then.
LEMMA OrphanedKeeps ==
    ASSUME NEW t, Table(t), NEW i \in Slots \ {0}, t[i] # NULL
    PROVE  /\ Table([Orphaned(t, i) EXCEPT ![i].place = "closing"])
           /\ Table([[Orphaned(t, i) EXCEPT ![i].place = "closing"]
                       EXCEPT ![i].state = "uninterruptible"])
           /\ [Orphaned(t, i) EXCEPT ![i].place = "closing"][i] # NULL
<1> DEFINE mine == {j \in Slots : IF t[j] = NULL THEN FALSE ELSE t[j].father = t[i].pid}
           dead == {j \in mine : t[j].state = "zombie"}
           s == IF dead # {} /\ t[1] # NULL THEN Sent(t, 1, SIGCHLD) ELSE t
           o == [j \in Slots |-> IF j \in mine THEN [s[j] EXCEPT !.father = 1] ELSE s[j]]
           u == [o EXCEPT ![i].place = "closing"]
<1>1. Table(s) /\ \A j \in Slots :
                       /\ s[j] = NULL <=> t[j] = NULL
                       /\ t[j] # NULL => s[j].pid = t[j].pid /\ s[j].father = t[j].father
                                          /\ s[j].place = t[j].place
  <2>1. CASE s = t
    BY <2>1
  <2>2. CASE s = Sent(t, 1, SIGCHLD) /\ t[1] # NULL
    <3>1. Table(Sent(t, 1, SIGCHLD))
      BY <2>2, FirstSlots, SentKeeps DEF Signals
    <3>2. t[1] \in Tasks
      BY <2>2, FirstSlots DEF Table
    <3>3. \A j \in Slots : Sent(t, 1, SIGCHLD)[j] = IF j = 1 THEN [t[1] EXCEPT !.signal = @ \cup {SIGCHLD}] ELSE t[j]
      BY FirstSlots DEF Sent, Table
    <3>4. [t[1] EXCEPT !.signal = @ \cup {SIGCHLD}] \in Tasks
      BY <3>2 DEF Tasks, Signals
    <3> QED
      BY <2>2, <3>1, <3>2, <3>3, <3>4, FreeIsNoTask DEF Tasks
  <2> QED
    BY <2>1, <2>2
<1>2. Orphaned(t, i) = o
  BY DEF Orphaned
<1> HIDE DEF s
<1>3. \A j \in mine : s[j] \in Tasks /\ t[j] # NULL
  BY <1>1 DEF Table
<1>4. \A j \in mine : [s[j] EXCEPT !.father = 1] \in Tasks
  BY <1>3, NumbersSuffice, TasksExist DEF Tasks
<1>5. o \in [Slots -> Tasks \cup {NULL}] /\ o[i] \in Tasks
  BY <1>1, <1>4, FreeIsNoTask DEF Table
<1> DEFINE q == [o[i] EXCEPT !.place = "closing"]
<1>6. q \in Tasks /\ u = [o EXCEPT ![i] = q]
  BY <1>5 DEF Tasks
<1>7. u \in [Slots -> Tasks \cup {NULL}]
  BY <1>5, <1>6
<1>8. ASSUME NEW j \in Slots
      PROVE  u[j] = IF j = i THEN q ELSE o[j]
  BY <1>5, <1>6
<1>9. ASSUME NEW j \in Slots
      PROVE  /\ u[j] = NULL <=> t[j] = NULL
             /\ t[j] # NULL => /\ Sound(u[j]) /\ u[j].pid = t[j].pid
                               /\ u[j].father = IF j \in mine THEN 1 ELSE t[j].father
                               /\ u[j].place = IF j = i THEN "closing" ELSE t[j].place
  <2>1. CASE t[j] = NULL
    BY <1>1, <1>8, <2>1
  <2>2. CASE t[j] # NULL
    <3>1. s[j] \in Tasks /\ Sound(s[j])
      BY <1>1, <2>2 DEF Table
    <3>2. /\ o[j] \in Tasks /\ Sound(o[j])
          /\ o[j].pid = s[j].pid /\ o[j].place = s[j].place
          /\ o[j].father = IF j \in mine THEN 1 ELSE s[j].father
      <4>1. o[j] = IF j \in mine THEN [s[j] EXCEPT !.father = 1] ELSE s[j]
        OBVIOUS
      <4> QED
        BY <3>1, <4>1, <1>4 DEF Tasks, Sound
    <3>3. j = i => /\ Sound(q) /\ q.pid = o[j].pid /\ q.father = o[j].father
                   /\ q.place = "closing"
      BY <3>2 DEF Tasks, Sound
    <3> HIDE DEF o, q, u, mine
    <3> QED
      BY <1>1, <1>6, <1>8, <2>2, <3>2, <3>3, FreeIsNoTask
  <2> QED
    BY <2>1, <2>2
<1>10. ASSUME NEW j \in Slots \ {0}, u[j] # NULL PROVE Fathered(u, j)
  <2>1. t[j] # NULL /\ Fathered(t, j) /\ u[j].pid = t[j].pid
    BY <1>9, <1>10 DEF Table
  <2>2. CASE j \in mine
    <3> HIDE DEF u, mine
    <3> QED
      BY <1>9, <2>1, <2>2 DEF Fathered
  <2>3. CASE j \notin mine
    <3>1. u[j].father = t[j].father
      <4> HIDE DEF u, mine
      <4> QED
        BY <1>9, <2>1, <2>3
    <3>2. t[j].father # t[i].pid
      BY <2>1, <2>3
    <3>3. ASSUME NEW k \in Slots \ {0}, Father(t, j, k) PROVE Father(u, j, k)
      <4> HIDE DEF u, mine
      <4> QED
        BY <1>9, <3>1, <3>2, <3>3 DEF Father
    <3> HIDE DEF u, mine
    <3> QED
      BY <2>1, <3>1, <3>3 DEF Fathered
  <2> QED
    BY <2>2, <2>3
<1> HIDE DEF u, mine, q, o
<1>11. Table(u)
  BY <1>7, <1>9, <1>10, FirstSlots DEF Table
<1>12. u[i] \in Tasks
  BY <1>7, <1>9
<1> DEFINE w == [u[i] EXCEPT !.state = "uninterruptible"]
<1>13. w \in Tasks /\ Sound(w) /\ Kin(u[i], w)
  BY <1>9, <1>12, StateChanges
<1>14. [u EXCEPT ![i].state = "uninterruptible"] = [u EXCEPT ![i] = w]
  BY <1>7
<1>15. Table([u EXCEPT ![i] = w])
  <2> HIDE DEF w
  <2> QED
    BY <1>9, <1>11, <1>13, OneChanges
<1> QED
  BY <1>2, <1>11, <1>12, <1>14, <1>15, FreeIsNoTask DEF u

\* There are more numbers than tasks.
LEMMA NumberIsFree == ASSUME ProcInv PROVE (1 .. PID_MAX) \ Pids # {}
<1> SUFFICES ASSUME 1 .. PID_MAX \subseteq Pids PROVE FALSE
  OBVIOUS
<1> DEFINE S == 1 .. PID_MAX
           T == 1 .. NR_TASKS - 1
           f == [n \in S |-> CHOOSE i \in T : task[i] # NULL /\ task[i].pid = n]
<1>1. IsFiniteSet(S) /\ Cardinality(S) = PID_MAX
  BY FS_Interval, NumbersSuffice, TasksExist
<1>2. IsFiniteSet(T) /\ Cardinality(T) = NR_TASKS - 1
  BY FS_Interval, TasksExist
<1>3. ASSUME NEW n \in S
      PROVE  f[n] \in T /\ task[f[n]] # NULL /\ task[f[n]].pid = n
  <2>1. PICK i \in Slots : task[i] # NULL /\ task[i].pid = n
    BY <1>3 DEF Pids, PidOf, Used
  <2>2. i # 0
    BY <2>1, TasksExist DEF ProcInv, Table
  <2>3. i \in T
    BY <2>2, TasksExist DEF Slots
  <2> QED
    BY <2>1, <2>3
<1>4. f \in [S -> T]
  BY <1>3
<1> HIDE DEF f
<1>5. PICK x \in S, y \in S : x # y /\ f[x] = f[y]
  <2>1. Cardinality(T) < Cardinality(S)
    BY <1>1, <1>2, NumbersSuffice, TasksExist
  <2> HIDE DEF S, T
  <2> QED
    BY <1>1, <1>2, <1>4, <2>1, FS_PigeonHole
<1> QED
  BY <1>3, <1>5

LEMMA NextPidIsFree == ASSUME ProcInv PROVE NextPid \in 1 .. PID_MAX /\ NextPid \notin Pids
<1> DEFINE from == IF last_pid = PID_MAX THEN 1 ELSE last_pid + 1
           after == {n \in from .. PID_MAX : n \notin Pids}
           S == IF after # {} THEN after ELSE (1 .. PID_MAX) \ Pids
<1>1. from \in 1 .. PID_MAX
  BY NumbersSuffice, TasksExist DEF ProcInv
<1>2. after \in SUBSET ((1 .. PID_MAX) \ Pids)
  BY <1>1, NumbersSuffice, TasksExist
<1>3. S \in SUBSET ((1 .. PID_MAX) \ Pids) /\ S # {}
  BY <1>2, NumberIsFree
<1>4. S \in SUBSET Nat
  BY <1>3, NumbersSuffice, TasksExist
<1>5. NextPid = Min(S)
  BY DEF NextPid
<1> HIDE DEF S
<1> QED
  BY <1>3, <1>4, <1>5, MinIsLeast

LEMMA ForkKeeps == ASSUME ProcInv, NEW i \in Users, Fork(i) PROVE ProcInv'
<1> DEFINE free == Slots \ (Used \cup {0})
<1>1. NextPid \in 1 .. PID_MAX /\ NextPid \notin Pids /\ last_pid' = NextPid /\ current' = current
  BY NextPidIsFree DEF Fork
<1>2. last_pid' \in 0 .. PID_MAX
  BY <1>1, NumbersSuffice, TasksExist
<1>3. CASE task' = task
  BY <1>1, <1>2, <1>3 DEF ProcInv
<1>4. CASE /\ free # {}
           /\ task' = [task EXCEPT ![Min(free)] =
                        [task[i] EXCEPT !.pid = NextPid, !.father = PidOf(i), !.signal = {},
                                        !.alarm = FALSE, !.leader = FALSE]]
  <2> DEFINE new == [task[i] EXCEPT !.pid = NextPid, !.father = PidOf(i), !.signal = {},
                                    !.alarm = FALSE, !.leader = FALSE]
  <2>1. free \in SUBSET Nat
    BY TasksExist DEF Slots
  <2>2. PICK n \in free : n = Min(free)
    BY <1>4, <2>1, MinIsLeast
  <2>3. n \in Slots /\ task[n] = NULL /\ n # 0
    BY <2>2 DEF Used
  <2>4. i \in Slots /\ task[i] \in Tasks /\ i # 0 /\ task[i].place = "user" /\ task[i].state = "running"
    BY FreeIsNoTask DEF Users, Used, ProcInv, Table, Fork, InUser
  <2>5. /\ new \in Tasks /\ new.pid = NextPid /\ new.father = task[i].pid /\ ~ new.leader
        /\ new.place = "user" /\ new.state = "running"
    <3>1. NextPid \in 0 .. PID_MAX /\ PidOf(i) \in -1 .. PID_MAX /\ PidOf(i) = task[i].pid
      BY <1>1, <2>4, NumbersSuffice, TasksExist DEF Tasks, PidOf
    <3> DEFINE r == task[i]
               a == NextPid
               b == PidOf(i)
    <3>2. r \in Tasks /\ r.place = "user" /\ r.state = "running" /\ a \in 0 .. PID_MAX /\ b \in -1 .. PID_MAX
      BY <2>4, <3>1
    <3>3. new = [r EXCEPT !.pid = a, !.father = b, !.signal = {}, !.alarm = FALSE, !.leader = FALSE]
      OBVIOUS
    <3> HIDE DEF r, a, b, new
    <3>4. new \in Tasks
      BY <3>2, <3>3 DEF Tasks
    <3>5. new.pid = a /\ new.father = b /\ ~ new.leader /\ new.place = "user" /\ new.state = "running"
      BY <3>2, <3>3 DEF Tasks
    <3> QED
      BY <3>1, <3>4, <3>5 DEF a, b
  <2>6. task' = [task EXCEPT ![n] = new]
    BY <1>4, <2>2
  <2> HIDE DEF new, free
  <2>7. task' \in [Slots -> Tasks \cup {NULL}] /\ new # NULL
    BY <2>5, <2>6, FreeIsNoTask DEF ProcInv, Table
  <2>8. \A j \in Slots : task'[j] = IF j = n THEN new ELSE task[j]
    BY <2>6 DEF ProcInv, Table
  <2>9. \A j \in Slots : task[j] # NULL => task[j].pid \in Pids
    BY DEF Pids, PidOf, Used
  <2>10. \A j, k \in Slots : task'[j] # NULL /\ task'[k] # NULL /\ task'[j].pid = task'[k].pid => j = k
    BY <1>1, <2>5, <2>8, <2>9 DEF ProcInv, Table
  <2>11. ASSUME NEW j \in Slots \ {0}, task'[j] # NULL PROVE Fathered(task', j)
    <3>1. CASE j = n
      <4>1. Father(task', j, i) /\ i \in Slots \ {0}
        BY <2>3, <2>4, <2>5, <2>8, <3>1, FreeIsNoTask DEF Father
      <4>2. task[i].pid # 0
        BY <2>4, FirstSlots, FreeIsNoTask DEF ProcInv, Table
      <4> QED
        BY <2>5, <2>8, <3>1, <4>1, <4>2 DEF Fathered
    <3>2. CASE j # n
      <4>1. task'[j] = task[j] /\ Fathered(task, j)
        BY <2>8, <2>11, <3>2 DEF ProcInv, Table
      <4>2. ASSUME NEW k \in Slots \ {0}, Father(task, j, k) PROVE Father(task', j, k)
        BY <2>3, <2>8, <3>2, <4>2 DEF Father
      <4> QED
        BY <4>1, <4>2 DEF Fathered
    <3> QED
      BY <3>1, <3>2
  <2>12. \A j \in Slots : task'[j] # NULL => Sound(task'[j])
    BY <2>5, <2>8 DEF Sound, ProcInv, Table
  <2>13. task'[0] = task[0] /\ task'[current] # NULL
    BY <2>3, <2>7, <2>8, FirstSlots DEF ProcInv
  <2>14. Table(task')
    BY <2>7, <2>10, <2>11, <2>12, <2>13 DEF ProcInv, Table
  <2> QED
    BY <1>1, <1>2, <2>13, <2>14 DEF ProcInv
<1> QED
  BY <1>3, <1>4 DEF Fork

LEMMA UserIsTask ==
    ASSUME ProcInv, NEW i \in Users
    PROVE  i \in Slots /\ i # 0 /\ task[i] # NULL /\ task[i] \in Tasks /\ Sound(task[i])
  BY DEF ProcInv, Table, Users, Used

\* A dead task is nobody's father.
LEMMA ReapKeeps ==
    ASSUME NEW t, Table(t), NEW d \in Slots \ {0}, t[d] # NULL, t[d].state = "zombie"
    PROVE  Table([t EXCEPT ![d] = NULL])
<1> DEFINE u == [t EXCEPT ![d] = NULL]
<1>1. u \in [Slots -> Tasks \cup {NULL}] /\ \A j \in Slots : u[j] = IF j = d THEN NULL ELSE t[j]
  BY DEF Table
<1>2. t[d].place = "closing"
  BY DEF Table, Sound
<1> HIDE DEF u
<1>3. ASSUME NEW i \in Slots \ {0}, u[i] # NULL PROVE Fathered(u, i)
  <2>1. u[i] = t[i] /\ Fathered(t, i)
    BY <1>1, <1>3 DEF Table
  <2>2. ASSUME NEW j \in Slots \ {0}, Father(t, i, j) PROVE Father(u, i, j)
    BY <1>1, <1>2, <1>3, <2>2 DEF Father
  <2> QED
    BY <2>1, <2>2 DEF Fathered
<1>4. /\ u[0] = t[0]
      /\ \A i \in Slots : u[i] # NULL => Sound(u[i])
      /\ \A i, j \in Slots : u[i] # NULL /\ u[j] # NULL /\ u[i].pid = u[j].pid => i = j
  BY <1>1, <1>2, FirstSlots DEF Table
<1>5. Table(u)
  BY <1>1, <1>3, <1>4 DEF Table
<1> QED
  BY <1>5 DEF u

\* A signal for all of a set of tasks.
LEMMA AllSent ==
    ASSUME NEW t, Table(t), NEW all \in SUBSET Slots, \A j \in all : t[j] # NULL,
           NEW sig \in Signals,
           NEW u, u = [j \in Slots |-> IF j \in all THEN Sent(t, j, sig)[j] ELSE t[j]]
    PROVE  Table(u) /\ \A j \in Slots : t[j] # NULL => u[j] # NULL /\ u[j].place = t[j].place
<1> DEFINE r(j) == [t[j] EXCEPT !.signal = @ \cup {sig}]
<1>1. ASSUME NEW j \in all
      PROVE  /\ u[j] = r(j) /\ u[j] \in Tasks /\ Sound(u[j]) /\ Kin(t[j], u[j])
             /\ u[j].place = t[j].place
  <2>1. t[j] \in Tasks /\ Sound(t[j])
    BY <1>1 DEF Table
  <2>2. u[j] = r(j)
    BY <1>1 DEF Sent, Table
  <2>3. r(j) \in Tasks /\ Sound(r(j)) /\ Kin(t[j], r(j)) /\ r(j).place = t[j].place
    BY <2>1 DEF Tasks, Sound, Kin
  <2> QED
    BY <2>2, <2>3
<1>2. \A j \in Slots \ all : u[j] = t[j]
  OBVIOUS
<1>3. u \in [Slots -> Tasks \cup {NULL}]
  <2>1. \A j \in Slots : u[j] \in Tasks \cup {NULL}
    BY <1>1, <1>2 DEF Table
  <2>2. u = [j \in Slots |-> u[j]]
    OBVIOUS
  <2> QED
    BY <2>1, <2>2
<1>4. /\ \A j \in Slots : u[j] = NULL <=> t[j] = NULL
      /\ \A j \in Slots : t[j] # NULL => Sound(u[j]) /\ Kin(t[j], u[j]) /\ u[j].place = t[j].place
  BY <1>1, <1>2, FreeIsNoTask DEF Table, Kin
<1> QED
  BY <1>3, <1>4, SameKin

\* The places of a task that runs.
LEMMA PlaceChanges ==
    ASSUME NEW r \in Tasks, r.state = "running", Sound(r),
           NEW place \in {"user", "wait", "pause"}, NEW arg \in -PID_MAX .. PID_MAX
    PROVE  /\ [r EXCEPT !.place = place, !.pid_arg = arg] \in Tasks
           /\ Sound([r EXCEPT !.place = place, !.pid_arg = arg])
           /\ Kin(r, [r EXCEPT !.place = place, !.pid_arg = arg])
           /\ [r EXCEPT !.place = place, !.pid_arg = arg].state = "running"
  BY DEF Tasks, Sound, Kin

LEMMA SignalRemoved ==
    ASSUME NEW r \in Tasks, Sound(r), NEW sig
    PROVE  /\ [r EXCEPT !.signal = @ \ {sig}] \in Tasks
           /\ Sound([r EXCEPT !.signal = @ \ {sig}])
           /\ Kin(r, [r EXCEPT !.signal = @ \ {sig}])
           /\ [r EXCEPT !.signal = @ \ {sig}].state = r.state
           /\ [r EXCEPT !.signal = @ \ {sig}].place = r.place
  BY DEF Tasks, Sound, Kin

\* A step that ends in schedule() with a good table.
LEMMA Scheduled ==
    ASSUME ProcInv, NEW t, Table(t), Schedule(t), last_pid' = last_pid
    PROVE  ProcInv'
  BY ScheduleKeeps DEF ProcInv

\* One that goes on with the same task.
LEMMA Continued ==
    ASSUME ProcInv, NEW t, Table(t), task' = t, t[current] # NULL, UNCHANGED <<current, last_pid>>
    PROVE  ProcInv'
  BY DEF ProcInv

LEMMA ExitingKeeps ==
    ASSUME ProcInv, NEW t, Table(t), NEW i \in Slots \ {0}, t[i] # NULL, current = i,
           Exiting(t, i), last_pid' = last_pid
    PROVE  ProcInv'
<1> DEFINE c == [Orphaned(t, i) EXCEPT ![i].place = "closing"]
<1>1. Table(c) /\ Table([c EXCEPT ![i].state = "uninterruptible"]) /\ c[i] # NULL
  BY OrphanedKeeps
<1> QED
  BY <1>1, Scheduled, Continued DEF Exiting

LEMMA DieKeeps == ASSUME ProcInv, NEW i \in Users, Die(i) PROVE ProcInv'
<1>1. /\ i \in Slots /\ i # 0 /\ task[i] # NULL /\ task[i] \in Tasks /\ Sound(task[i])
      /\ task[i].place = "closing"
  BY UserIsTask DEF Die
<1> DEFINE all == {j \in Slots \ {0} : task[j] # NULL /\ task[i].leader
                                         /\ task[j].session = task[i].session}
           u == kill_session(task, i)
<1>2. u = [j \in Slots |-> IF j \in all THEN Sent(task, j, SIGHUP)[j] ELSE task[j]]
  <2>2. \A j \in Slots : j \in all <=> j # 0 /\ task[j] # NULL /\ task[i].leader
                                         /\ task[j].session = task[i].session
    OBVIOUS
  <2> HIDE DEF all
  <2> DEFINE v == [j \in Slots |-> IF j \in all THEN Sent(task, j, SIGHUP)[j] ELSE task[j]]
             k(j) == IF j = 0 \/ task[j] = NULL THEN task[j]
                     ELSE IF task[i].leader /\ task[j].session = task[i].session
                     THEN Sent(task, j, SIGHUP)[j] ELSE task[j]
  <2>3. ASSUME NEW j \in Slots PROVE k(j) = IF j \in all THEN Sent(task, j, SIGHUP)[j] ELSE task[j]
    BY <2>2
  <2>4. u = [j \in Slots |-> u[j]] /\ \A j \in Slots : u[j] = k(j)
    BY DEF kill_session
  <2>5. v = [j \in Slots |-> v[j]] /\ \A j \in Slots : v[j] = u[j]
    <3> HIDE DEF u, k
    <3> QED
      BY <2>3, <2>4
  <2> HIDE DEF u, v
  <2>6. u = v
    BY <2>4, <2>5
  <2> QED
    BY <2>6 DEF v
<1>3. Table(u) /\ u[i] # NULL /\ u[i].place = "closing"
  <2>1. all \in SUBSET Slots /\ (\A j \in all : task[j] # NULL) /\ SIGHUP \in Signals
    BY DEF Signals
  <2> HIDE DEF u, all
  <2>2. Table(task)
    BY DEF ProcInv
  <2>3. Table(u) /\ \A j \in Slots : task[j] # NULL => u[j] # NULL /\ u[j].place = task[j].place
    BY <1>2, <2>1, <2>2, AllSent
  <2> QED
    BY <1>1, <2>3
<1> HIDE DEF u
<1> DEFINE z == [u EXCEPT ![i].state = "zombie"]
           r == [u[i] EXCEPT !.state = "zombie"]
<1>4. u[i] \in Tasks
  BY <1>1, <1>3 DEF Table
<1>5. r \in Tasks /\ Sound(r) /\ Kin(u[i], r) /\ r.state = "zombie"
  <2> DEFINE s == u[i]
  <2>1. s \in Tasks /\ Sound(s) /\ s.place = "closing"
    BY <1>1, <1>3, <1>4 DEF Table
  <2> HIDE DEF s
  <2>2. /\ [s EXCEPT !.state = "zombie"] \in Tasks /\ Sound([s EXCEPT !.state = "zombie"])
        /\ Kin(s, [s EXCEPT !.state = "zombie"]) /\ [s EXCEPT !.state = "zombie"].state = "zombie"
    BY <2>1 DEF Tasks, Sound, Kin
  <2> QED
    BY <2>2 DEF s
<1>6. z = [u EXCEPT ![i] = r] /\ z[i] = r
  BY <1>1, <1>3 DEF Table
<1>7. Table(z) /\ z[i] # NULL /\ z[i].state = "zombie"
  <2>1. Table([u EXCEPT ![i] = r])
    <3> HIDE DEF r
    <3> QED
      BY <1>1, <1>3, <1>5, OneChanges
  <2> QED
    BY <1>5, <1>6, <2>1, FreeIsNoTask
<1> HIDE DEF z
<1>8. Table(Told(z, i))
  <2> DEFINE fathers == {j \in Slots : IF z[j] = NULL THEN FALSE
                                       ELSE z[i].father # 0 /\ z[j].pid = z[i].father}
  <2>1. CASE fathers = {}
    BY <1>1, <1>7, <2>1, ReapKeeps DEF Told
  <2>2. CASE fathers # {}
    <3>1. fathers \in SUBSET Nat
      BY TasksExist DEF Slots
    <3>2. Min(fathers) \in fathers
      BY <2>2, <3>1, MinIsLeast
    <3>3. Told(z, i) = Sent(z, Min(fathers), SIGCHLD)
      BY <2>2 DEF Told
    <3>4. PICK f \in fathers : f = Min(fathers)
      BY <3>2
    <3>5. Table(Sent(z, f, SIGCHLD))
      BY <1>7, <3>4, SentKeeps DEF Signals
    <3> QED
      BY <3>3, <3>4, <3>5
  <2> QED
    BY <2>1, <2>2
<1>9. Schedule(Told(z, i)) /\ last_pid' = last_pid
  BY DEF Die, z, u
<1> QED
  BY <1>8, <1>9, Scheduled

\* A step that changes only what task i is about.
LEMMA OneScheduled ==
    ASSUME ProcInv, NEW i \in Slots, task[i] # NULL, NEW r \in Tasks, Sound(r), Kin(task[i], r),
           last_pid' = last_pid,
           \/ Schedule([task EXCEPT ![i] = r])
           \/ task' = [task EXCEPT ![i] = r] /\ current' = current
    PROVE  ProcInv'
<1> DEFINE t == [task EXCEPT ![i] = r]
<1>1. Table(t)
  BY OneChanges DEF ProcInv
<1>2. t[current] # NULL
  BY FreeIsNoTask DEF ProcInv, Table
<1> HIDE DEF t
<1> QED
  BY <1>1, <1>2, Scheduled, Continued DEF t

LEMMA WaitScanKeeps ==
    ASSUME ProcInv, NEW i \in Users, current = i, task[i].state = "running",
           NEW pid \in -PID_MAX .. PID_MAX, NEW nohang \in BOOLEAN,
           WaitScan(i, pid, nohang), last_pid' = last_pid
    PROVE  ProcInv'
<1> DEFINE mine == {j \in Users \ {i} : task[j].father = PidOf(i) /\ Matches(i, j, pid)}
           dead == {j \in mine : task[j].state = "zombie"}
           r(place, arg) == [task[i] EXCEPT !.place = place, !.pid_arg = arg]
<1>1. i \in Slots /\ i # 0 /\ task[i] # NULL /\ task[i] \in Tasks /\ Sound(task[i])
  BY UserIsTask
<1>2. 0 \in -PID_MAX .. PID_MAX
  BY NumbersSuffice, TasksExist
<1>3. r("user", 0) \in Tasks /\ Sound(r("user", 0)) /\ Kin(task[i], r("user", 0))
  BY <1>1, <1>2, PlaceChanges
<1>4. CASE dead # {} /\ Schedule([task EXCEPT ![Max(dead)] = NULL, ![i].place = "user", ![i].pid_arg = 0])
  <2>1. dead \in SUBSET (0 .. NR_TASKS - 1) /\ NR_TASKS - 1 \in Nat
    BY TasksExist DEF Users, Used, Slots
  <2>2. Max(dead) \in dead
    <3> HIDE DEF dead
    <3> QED
      BY <1>4, <2>1, MaxIsGreatest
  <2>3. PICK d \in dead : d = Max(dead)
    BY <2>2
  <2>4. d \in Slots \ {0} /\ d # i /\ task[d] # NULL /\ task[d].state = "zombie"
    BY UserIsTask
  <2> DEFINE t == [task EXCEPT ![i] = r("user", 0)]
  <2>5. [task EXCEPT ![d] = NULL, ![i].place = "user", ![i].pid_arg = 0] = [t EXCEPT ![d] = NULL]
    BY <1>1, <2>4 DEF ProcInv, Table
  <2>6. Table(t) /\ t[d] = task[d]
    <3> HIDE DEF r
    <3>1. Table(t)
      BY <1>1, <1>3, OneChanges DEF ProcInv
    <3>2. t[d] = task[d]
      BY <2>4 DEF ProcInv, Table
    <3> QED
      BY <3>1, <3>2
  <2> HIDE DEF t
  <2>7. Table([t EXCEPT ![d] = NULL])
    BY <2>4, <2>6, ReapKeeps
  <2> QED
    BY <1>4, <2>3, <2>5, <2>7, Scheduled
<1>5. CASE Schedule([task EXCEPT ![i].place = "wait", ![i].pid_arg = pid, ![i].state = "interruptible"])
  <2> DEFINE s == r("wait", pid)
             w == [s EXCEPT !.state = "interruptible"]
  <2>1. /\ s \in Tasks /\ Sound(s) /\ Kin(task[i], s)
    BY <1>1, PlaceChanges
  <2>2. [task EXCEPT ![i].place = "wait", ![i].pid_arg = pid, ![i].state = "interruptible"]
           = [task EXCEPT ![i] = w]
    BY <1>1 DEF ProcInv, Table
  <2>3. w \in Tasks /\ Sound(w) /\ Kin(task[i], w)
    <3> HIDE DEF s
    <3> QED
      BY <2>1, StateChanges DEF Kin
  <2> HIDE DEF w
  <2> QED
    BY <1>1, <1>5, <2>2, <2>3, OneScheduled
<1>6. CASE task' = [task EXCEPT ![i].place = "user", ![i].pid_arg = 0] /\ UNCHANGED current
  <2>1. task' = [task EXCEPT ![i] = r("user", 0)]
    BY <1>1, <1>6 DEF ProcInv, Table
  <2> HIDE DEF r
  <2> QED
    BY <1>1, <1>3, <1>6, <2>1, OneScheduled
<1> QED
  BY <1>4, <1>5, <1>6 DEF WaitScan

LEMMA WaitResumesKeeps == ASSUME ProcInv, NEW i \in Users, WaitResumes(i) PROVE ProcInv'
<1> DEFINE s == [task[i] EXCEPT !.signal = @ \ {SIGCHLD}]
           u == [s EXCEPT !.place = "user", !.pid_arg = 0]
           t == [task EXCEPT ![i].signal = @ \ {SIGCHLD}]
           back == [t EXCEPT ![i].place = "user", ![i].pid_arg = 0]
           mine == {j \in Users \ {i} : task[j].father = PidOf(i) /\ Matches(i, j, task[i].pid_arg)}
           dead == {j \in mine : task[j].state = "zombie"}
<1>1. i \in Slots /\ i # 0 /\ task[i] # NULL /\ task[i] \in Tasks /\ Sound(task[i])
  BY UserIsTask
<1>2. current = i /\ task[i].state = "running" /\ last_pid' = last_pid
  BY DEF WaitResumes
<1>3. /\ s \in Tasks /\ Sound(s) /\ Kin(task[i], s) /\ s.state = "running"
  BY <1>1, <1>2, SignalRemoved
<1>4. t = [task EXCEPT ![i] = s]
  BY <1>1 DEF ProcInv, Table
<1>5. back = [task EXCEPT ![i] = u]
  BY <1>1, <1>4 DEF ProcInv, Table
<1>6. u \in Tasks /\ Sound(u) /\ Kin(task[i], u)
  <2>1. 0 \in -PID_MAX .. PID_MAX
    BY NumbersSuffice, TasksExist
  <2> HIDE DEF s
  <2> QED
    BY <1>3, <2>1, PlaceChanges DEF Kin
<1>7. CASE task' = back /\ UNCHANGED current
  <2> HIDE DEF u, back
  <2> QED
    BY <1>1, <1>2, <1>5, <1>6, <1>7, OneScheduled
<1>8. CASE dead # {} /\ Schedule([back EXCEPT ![Max(dead)] = NULL])
  <2>1. dead \in SUBSET (0 .. NR_TASKS - 1) /\ NR_TASKS - 1 \in Nat
    BY TasksExist DEF Users, Used, Slots
  <2>2. Max(dead) \in dead
    <3> HIDE DEF dead
    <3> QED
      BY <1>8, <2>1, MaxIsGreatest
  <2>3. PICK d \in dead : d = Max(dead)
    BY <2>2
  <2>4. d \in Slots \ {0} /\ d # i /\ task[d] # NULL /\ task[d].state = "zombie"
    BY UserIsTask
  <2>5. Table(back) /\ back[d] = task[d]
    <3> HIDE DEF u, back
    <3>1. Table(back)
      BY <1>1, <1>5, <1>6, OneChanges DEF ProcInv
    <3>2. back[d] = task[d]
      BY <1>5, <2>4 DEF ProcInv, Table
    <3> QED
      BY <3>1, <3>2
  <2> HIDE DEF back
  <2>6. Table([back EXCEPT ![d] = NULL])
    BY <2>4, <2>5, ReapKeeps
  <2> QED
    BY <1>2, <1>8, <2>3, <2>6, Scheduled
<1>9. CASE Schedule([t EXCEPT ![i].state = "interruptible"])
  <2> DEFINE w == [s EXCEPT !.state = "interruptible"]
  <2>1. [t EXCEPT ![i].state = "interruptible"] = [task EXCEPT ![i] = w]
    BY <1>1, <1>4 DEF ProcInv, Table
  <2>2. w \in Tasks /\ Sound(w) /\ Kin(task[i], w)
    <3> HIDE DEF s
    <3> QED
      BY <1>3, StateChanges DEF Kin
  <2> HIDE DEF w, t
  <2> QED
    BY <1>1, <1>2, <1>9, <2>1, <2>2, OneScheduled
<1> QED
  BY <1>7, <1>8, <1>9 DEF WaitResumes

LEMMA KillKeeps ==
    ASSUME ProcInv, NEW i \in Users, NEW pid, NEW sig \in Signals, Kill(i, pid, sig)
    PROVE  ProcInv'
<1> DEFINE to == CASE pid = 0 -> {j \in Users : task[j].pgrp = PidOf(i)}
                   [] pid > 0 -> {j \in Users : PidOf(j) = pid}
                   [] pid = -1 -> Users
                   [] OTHER -> {j \in Users : task[j].pgrp = -pid}
           allowed == IF pid = 0 THEN to
                      ELSE {j \in to : task[i].root \/ task[i].root = task[j].root}
           u == [j \in Slots |-> IF j \in allowed THEN Sent(task, j, sig)[j] ELSE task[j]]
<1>1. UNCHANGED <<current, last_pid>> /\ task' = u
  BY DEF Kill
<1>2. allowed \in SUBSET Users
  OBVIOUS
<1> HIDE DEF allowed
<1>3. allowed \in SUBSET Slots /\ \A j \in allowed : task[j] # NULL
  BY <1>1, <1>2 DEF Users, Used
<1>4. Table(task)
  BY DEF ProcInv
<1>5. u = [j \in Slots |-> IF j \in allowed THEN Sent(task, j, sig)[j] ELSE task[j]]
  OBVIOUS
<1> HIDE DEF u
<1>6. Table(u) /\ \A j \in Slots : task[j] # NULL => u[j] # NULL /\ u[j].place = task[j].place
  BY <1>3, <1>4, <1>5, AllSent
<1> QED
  BY <1>1, <1>6 DEF ProcInv

\* A return to user mode finds a signal if there is one.
LEMMA SomeSignalIsFirst ==
    ASSUME NEW pending, pending # {}
    PROVE  \E sig \in pending : \A r \in pending : Number(sig) <= Number(r)
<1> DEFINE numbers == {Number(s) : s \in pending}
<1>1. \A s : Number(s) \in Nat
  BY DEF Number
<1>2. numbers \in SUBSET Nat /\ numbers # {}
  BY <1>1
<1>3. PICK n \in numbers : \A m \in numbers : n <= m
  <2> HIDE DEF numbers
  <2> QED
    BY <1>2, LeastExists
<1>4. PICK s \in pending : n = Number(s)
  BY <1>3
<1> QED
  BY <1>3, <1>4

LEMMA DeliverKeeps == ASSUME ProcInv, NEW i \in Users, Deliver(i) PROVE ProcInv'
<1> DEFINE pending == task[i].signal \ task[i].blocked
           sig == CHOOSE s \in pending : \A r \in pending : Number(s) <= Number(r)
           h == task[i].handler[sig]
           s == [task[i] EXCEPT !.signal = @ \ {sig}]
           t == [task EXCEPT ![i].signal = @ \ {sig}]
<1>1. i \in Slots /\ i # 0 /\ task[i] # NULL /\ task[i] \in Tasks /\ Sound(task[i])
  BY UserIsTask
<1>2. current = i /\ last_pid' = last_pid /\ pending # {} /\ task[i].state = "running"
  BY DEF Deliver, InUser
<1>3. sig \in pending
  <2> HIDE DEF pending
  <2> QED
    BY <1>2, SomeSignalIsFirst
<1>4. sig \in Signals /\ h \in {"default", "ignore", "once", "stay"}
  <2> HIDE DEF sig
  <2>1. sig \in Signals
    BY <1>1, <1>3 DEF Tasks
  <2> QED
    BY <1>1, <2>1 DEF Tasks
<1> HIDE DEF sig
<1>6. /\ s \in Tasks /\ Sound(s) /\ Kin(task[i], s)
      /\ s.state = "running" /\ t = [task EXCEPT ![i] = s]
  <2>1. t = [task EXCEPT ![i] = s]
    BY <1>1 DEF ProcInv, Table
  <2> QED
    BY <1>1, <1>2, <2>1, SignalRemoved
<1>7. CASE task' = t /\ UNCHANGED current
  <2> HIDE DEF s, t
  <2> QED
    BY <1>1, <1>2, <1>6, <1>7, OneScheduled
<1>8. CASE h = "default" /\ sig # SIGCHLD /\ Exiting(t, i)
  <2>2. Table(t) /\ t[i] # NULL
    <3>1. t[i] = s
      BY <1>1, <1>6 DEF ProcInv, Table
    <3> HIDE DEF s, t
    <3>2. Table(t)
      BY <1>1, <1>6, OneChanges DEF ProcInv
    <3> QED
      BY <1>6, <3>1, <3>2, FreeIsNoTask
  <2> HIDE DEF t
  <2> QED
    BY <1>1, <1>2, <1>8, <2>2, ExitingKeeps
<1>9. CASE h = "once" /\ task' = [t EXCEPT ![i].handler[sig] = "default"] /\ UNCHANGED current
  <2> DEFINE w == [s EXCEPT !.handler[sig] = "default"]
  <2>1. task' = [task EXCEPT ![i] = w]
    BY <1>1, <1>9 DEF ProcInv, Table
  <2>2. w \in Tasks /\ Sound(w) /\ Kin(task[i], w)
    <3> HIDE DEF s
    <3> QED
      BY <1>4, <1>6 DEF Tasks, Sound, Kin
  <2> HIDE DEF w
  <2> QED
    BY <1>1, <1>2, <1>9, <2>1, <2>2, OneScheduled
<1>10. CASE h = "stay" /\ task' = [t EXCEPT ![i].blocked = @ \cup {sig}] /\ UNCHANGED current
  <2> DEFINE w == [s EXCEPT !.blocked = @ \cup {sig}]
  <2>1. task' = [task EXCEPT ![i] = w]
    BY <1>1, <1>10 DEF ProcInv, Table
  <2>2. w \in Tasks /\ Sound(w) /\ Kin(task[i], w)
    <3> HIDE DEF s
    <3> QED
      BY <1>4, <1>6 DEF Tasks, Sound, Kin
  <2> HIDE DEF w
  <2> QED
    BY <1>1, <1>2, <1>10, <2>1, <2>2, OneScheduled
<1>11. CASE h = "ignore" \/ (h = "default" /\ sig = SIGCHLD)
  <2>1. task' = t /\ UNCHANGED current
    BY <1>11 DEF Deliver, sig
  <2> QED
    BY <1>7, <2>1
<1> QED
  BY <1>4, <1>8, <1>9, <1>10, <1>11 DEF Deliver, sig

\* A call that changes one task, or none of what matters here.
LEMMA CallKeeps ==
    ASSUME ProcInv, NEW i \in Users,
           NEW j \in Users, NEW r \in Tasks, Sound(r), Kin(task[j], r),
           Call(i, [task EXCEPT ![j] = r])
    PROVE  ProcInv'
<1>1. j \in Slots /\ task[j] # NULL
  BY UserIsTask
<1>2. task' = [task EXCEPT ![j] = r] /\ UNCHANGED <<current, last_pid>>
  BY DEF Call
<1> QED
  BY <1>1, <1>2, OneScheduled

LEMMA CallsKeep ==
    ASSUME ProcInv, NEW i \in Users,
           \/ sys_alarm(i) \/ sys_ssetmask(i) \/ sys_signal(i)
           \/ sys_setpgid(i) \/ sys_setsid(i) \/ sys_setreuid(i)
    PROVE  ProcInv'
<1> DEFINE t == task[i]
<1>1. /\ i \in Slots /\ t \in Tasks /\ Sound(t) /\ task \in [Slots -> Tasks \cup {NULL}]
      /\ PidOf(i) = t.pid
  BY UserIsTask DEF ProcInv, Table, PidOf
<1>3. ASSUME NEW r \in Tasks, Sound(r), Kin(t, r), Call(i, [task EXCEPT ![i] = r])
      PROVE  ProcInv'
  BY <1>1, <1>3, CallKeeps
<1>4. CASE sys_alarm(i)
  <2>1. PICK seconds \in 0 .. 1 : Call(i, [task EXCEPT ![i].alarm = seconds > 0])
    BY <1>4 DEF sys_alarm
  <2> DEFINE b == seconds > 0
             r == [t EXCEPT !.alarm = b]
  <2>2. b \in BOOLEAN
    OBVIOUS
  <2>3. [task EXCEPT ![i].alarm = b] = [task EXCEPT ![i] = r]
    BY <1>1
  <2> HIDE DEF t, b
  <2>4. r \in Tasks /\ Sound(r) /\ Kin(t, r)
    BY <1>1, <2>2 DEF Tasks, Sound, Kin
  <2> QED
    BY <1>3, <2>1, <2>3, <2>4 DEF b
<1>5. CASE sys_ssetmask(i)
  <2> DEFINE r == [t EXCEPT !.blocked = Signals \ {SIGKILL}]
  <2>1. [task EXCEPT ![i].blocked = Signals \ {SIGKILL}] = [task EXCEPT ![i] = r]
    BY <1>1
  <2> HIDE DEF t
  <2>2. r \in Tasks /\ Sound(r) /\ Kin(t, r)
    BY <1>1 DEF Tasks, Sound, Kin
  <2> QED
    BY <1>3, <1>5, <2>1, <2>2 DEF sys_ssetmask
<1>6. CASE sys_signal(i)
  <2>1. PICK sig \in Sigs \cup {SIGCHLD}, h \in {"ignore", "once", "stay"} :
          Call(i, [task EXCEPT ![i].handler[sig] = h])
    BY <1>6 DEF sys_signal
  <2> DEFINE r == [t EXCEPT !.handler[sig] = h]
  <2>2. [task EXCEPT ![i].handler[sig] = h] = [task EXCEPT ![i] = r]
    BY <1>1
  <2> HIDE DEF t
  <2>3. r \in Tasks /\ Sound(r) /\ Kin(t, r)
    BY <1>1 DEF Tasks, Sound, Kin, Signals
  <2> QED
    BY <1>3, <2>1, <2>2, <2>3
<1>7. CASE sys_setpgid(i)
  <2>1. PICK j \in Users : Call(i, [task EXCEPT ![j].pgrp = PidOf(i)])
    BY <1>7 DEF sys_setpgid
  <2> DEFINE s == task[j]
             n == PidOf(i)
             r == [s EXCEPT !.pgrp = n]
  <2>2. j \in Slots /\ s \in Tasks /\ Sound(s) /\ n \in 0 .. PID_MAX
    BY <1>1, UserIsTask DEF Tasks
  <2>3. [task EXCEPT ![j].pgrp = n] = [task EXCEPT ![j] = r]
    BY <1>1, <2>2
  <2> HIDE DEF s, n
  <2>4. r \in Tasks /\ Sound(r) /\ Kin(s, r)
    BY <2>2 DEF Tasks, Sound, Kin
  <2> HIDE DEF r
  <2>5. task' = [task EXCEPT ![j] = r] /\ UNCHANGED <<current, last_pid>>
    BY <2>1, <2>3 DEF Call, n
  <2>6. task[j] # NULL /\ Kin(task[j], r)
    BY <2>4, UserIsTask DEF s
  <2> QED
    BY <2>2, <2>4, <2>5, <2>6, OneScheduled
<1>8. CASE sys_setsid(i)
  <2> DEFINE n == PidOf(i)
             r == [t EXCEPT !.leader = TRUE, !.session = n, !.pgrp = n]
  <2>1. n \in 0 .. PID_MAX /\ n = t.pid
    BY <1>1 DEF Tasks
  <2>2. [task EXCEPT ![i].leader = TRUE, ![i].session = n, ![i].pgrp = n] = [task EXCEPT ![i] = r]
    BY <1>1
  <2> HIDE DEF t, n
  <2>3. r \in Tasks /\ Sound(r) /\ Kin(t, r)
    BY <1>1, <2>1 DEF Tasks, Sound, Kin
  <2> HIDE DEF r
  <2>4. Call(i, [task EXCEPT ![i] = r])
    BY <1>8, <2>2 DEF sys_setsid, n
  <2> QED
    BY <1>3, <2>3, <2>4
<1>9. CASE sys_setreuid(i)
  <2> DEFINE r == [t EXCEPT !.root = FALSE]
  <2>1. [task EXCEPT ![i].root = FALSE] = [task EXCEPT ![i] = r]
    BY <1>1
  <2> HIDE DEF t
  <2>2. r \in Tasks /\ Sound(r) /\ Kin(t, r)
    BY <1>1 DEF Tasks, Sound, Kin
  <2> QED
    BY <1>3, <1>9, <2>1, <2>2 DEF sys_setreuid
<1> QED
  BY <1>4, <1>5, <1>6, <1>7, <1>8, <1>9

LEMMA PauseKeeps == ASSUME ProcInv, NEW i \in Users, Pause(i) \/ PauseReturns(i) PROVE ProcInv'
<1> DEFINE t == task[i]
<1>1. /\ i \in Slots /\ i # 0 /\ t # NULL /\ t \in Tasks /\ Sound(t)
      /\ task \in [Slots -> Tasks \cup {NULL}] /\ t.state = "running" /\ last_pid' = last_pid
  BY UserIsTask DEF ProcInv, Table, Pause, PauseReturns, InUser
<1>2. CASE Pause(i)
  <2> DEFINE r == [t EXCEPT !.place = "pause", !.state = "interruptible"]
  <2>1. [task EXCEPT ![i].place = "pause", ![i].state = "interruptible"] = [task EXCEPT ![i] = r]
    BY <1>1
  <2> HIDE DEF t
  <2>2. r \in Tasks /\ Sound(r) /\ Kin(t, r)
    BY <1>1 DEF Tasks, Sound, Kin
  <2> HIDE DEF r
  <2>3. Schedule([task EXCEPT ![i] = r])
    BY <1>2, <2>1 DEF Pause
  <2> QED
    BY <1>1, <2>2, <2>3, OneScheduled DEF t
<1>3. CASE PauseReturns(i)
  <2> DEFINE r == [t EXCEPT !.place = "user"]
  <2>1. task' = [task EXCEPT ![i] = r] /\ current' = current
    BY <1>1, <1>3 DEF PauseReturns
  <2> HIDE DEF t
  <2>2. r \in Tasks /\ Sound(r) /\ Kin(t, r)
    BY <1>1 DEF Tasks, Sound, Kin
  <2> HIDE DEF r
  <2> QED
    BY <1>1, <2>1, <2>2, OneScheduled DEF t
<1> QED
  BY <1>2, <1>3

LEMMA WokenKeeps == ASSUME ProcInv, NEW i \in Users, Woken(i) PROVE ProcInv'
<1> DEFINE r == [task[i] EXCEPT !.state = "running"]
<1>1. i \in Slots /\ task[i] # NULL /\ task[i] \in Tasks /\ Sound(task[i])
  BY UserIsTask
<1>2. task' = [task EXCEPT ![i] = r] /\ UNCHANGED <<current, last_pid>>
  BY <1>1 DEF Woken, ProcInv, Table
<1>3. r \in Tasks /\ Sound(r) /\ Kin(task[i], r)
  BY <1>1, StateChanges
<1> HIDE DEF r
<1> QED
  BY <1>1, <1>2, <1>3, OneScheduled

LEMMA ProcInductive == ProcInv /\ [Next]_vars => ProcInv'
<1> SUFFICES ASSUME ProcInv, [Next]_vars PROVE ProcInv'
  OBVIOUS
<1>1. CASE Preempt
  BY <1>1, Scheduled DEF Preempt, ProcInv
<1>2. ASSUME NEW i \in Users, Step(i) PROVE ProcInv'
  <2>1. CASE Fork(i) \/ Die(i) \/ WaitResumes(i) \/ Deliver(i) \/ Pause(i) \/ PauseReturns(i)
    BY <2>1, ForkKeeps, DieKeeps, WaitResumesKeeps, DeliverKeeps, PauseKeeps
  <2>2. CASE Exit(i)
    <3>1. /\ current = i /\ i \in Slots \ {0} /\ task[i] # NULL
          /\ Exiting(task, i) /\ last_pid' = last_pid /\ Table(task)
      BY <2>2, UserIsTask DEF Exit, InUser, ProcInv
    <3> QED
      BY <3>1, ExitingKeeps
  <2>3. ASSUME NEW pid \in {-1, 0, last_pid}, NEW nohang \in BOOLEAN, WaitPid(i, pid, nohang)
        PROVE  ProcInv'
    <3>1. pid \in -PID_MAX .. PID_MAX
      BY NumbersSuffice, TasksExist DEF ProcInv
    <3>2. current = i /\ task[i].state = "running" /\ WaitScan(i, pid, nohang) /\ last_pid' = last_pid
      BY <2>3 DEF WaitPid, InUser
    <3> QED
      BY <3>1, <3>2, WaitScanKeeps
  <2>4. ASSUME NEW pid, NEW sig \in Sigs \cup {SIGKILL}, Kill(i, pid, sig) PROVE ProcInv'
    BY <2>4, KillKeeps DEF Signals
  <2>5. CASE \/ sys_alarm(i) \/ sys_ssetmask(i) \/ sys_signal(i)
             \/ sys_setpgid(i) \/ sys_setsid(i) \/ sys_setreuid(i)
    BY <2>5, CallsKeep
  <2> QED
    BY <1>2, <2>1, <2>2, <2>3, <2>4, <2>5 DEF Step
<1>3. CASE UNCHANGED vars
  BY <1>3 DEF vars, ProcInv
<1> QED
  BY <1>1, <1>2, <1>3, WokenKeeps DEF Next

LEMMA ProcInit == Init => ProcInv
<1> SUFFICES ASSUME Init PROVE ProcInv
  OBVIOUS
<1> DEFINE r == [Task0 EXCEPT !.pid = 1, !.father = 0]
<1>1. Task0 \in Tasks /\ r \in Tasks
  <2>1. /\ 0 \in 0 .. PID_MAX /\ 1 \in 0 .. PID_MAX /\ 0 \in -1 .. PID_MAX /\ -1 \in -1 .. PID_MAX
        /\ 0 \in -PID_MAX .. PID_MAX
    BY NumbersSuffice, TasksExist
  <2>2. Task0 \in Tasks
    BY <2>1 DEF Task0, Tasks
  <2>3. r \in Tasks
    BY <2>1, <2>2 DEF Tasks
  <2> QED
    BY <2>2, <2>3
<1>2. \A i \in Slots : task[i] = IF i = 0 THEN Task0 ELSE IF i = 1 THEN r ELSE NULL
  BY DEF Init
<1>3. task = [i \in Slots |-> task[i]]
  BY DEF Init
<1>4. Sound(r) /\ Sound(Task0) /\ Task0.pid = 0 /\ r.pid = 1 /\ r.father = 0
  BY DEF Sound, Task0
<1> HIDE DEF r
<1>5. Table(task)
  <2>1. task \in [Slots -> Tasks \cup {NULL}]
    BY <1>1, <1>2, <1>3
  <2>2. task[0] = Task0 /\ task[1] = r /\ \A i \in Slots \ {0, 1} : task[i] = NULL
    BY <1>2, FirstSlots
  <2>3. Fathered(task, 1)
    BY <1>4, <2>2 DEF Fathered
  <2> QED
    BY <1>1, <1>4, <2>1, <2>2, <2>3, FreeIsNoTask DEF Table
<1>6. current = 1 /\ task[1] # NULL /\ last_pid \in 0 .. PID_MAX
  BY <1>1, <1>2, FirstSlots, FreeIsNoTask, NumbersSuffice, TasksExist DEF Init
<1> QED
  BY <1>5, <1>6, FirstSlots DEF ProcInv

\* However tasks fork, are killed, exit in two steps, are reaped and get numbers
\* again: every task but 0 and init has a living father that can wait for it,
\* unless init was killed and the task was given to it; and no two tasks have
\* one number.
THEOREM FathersAlwaysWait == Spec => []FathersCanWait
<1>1. ProcInv => FathersCanWait
  <2> SUFFICES ASSUME ProcInv PROVE FathersCanWait
    OBVIOUS
  <2>1. TypeOK
    BY DEF ProcInv, Table, TypeOK
  <2>2. ASSUME NEW i \in Users
        PROVE  \/ IsInit(i)
               \/ \E j \in Users : PidOf(j) = task[i].father /\ task[j].place # "closing"
               \/ task[i].father = 1 /\ ~ InitLives
    <3>1. i \in Slots \ {0} /\ task[i] # NULL /\ Fathered(task, i)
      BY DEF ProcInv, Table, Users, Used
    <3>2. CASE task[i].father = 0
      BY <3>1, <3>2 DEF Fathered, IsInit
    <3>3. CASE task[i].father = 1 /\ InitLives
      <4>1. 1 \in Users /\ task[1].pid = 1
        BY <3>3, FirstSlots DEF InitLives, IsInit, Users, Used, ProcInv, Table, Fathered
      <4> QED
        BY <3>3, <4>1 DEF PidOf, InitLives
    <3>4. ASSUME NEW j \in Slots \ {0}, Father(task, i, j)
          PROVE  j \in Users /\ PidOf(j) = task[i].father /\ task[j].place # "closing"
      BY <3>4 DEF Father, Users, Used, PidOf
    <3> QED
      BY <3>1, <3>2, <3>3, <3>4 DEF Fathered
  <2>3. \A i, j \in Used : PidOf(i) = PidOf(j) => i = j
    BY DEF ProcInv, Table, Used, PidOf
  <2> QED
    BY <2>1, <2>2, <2>3 DEF FathersCanWait
<1> QED
  BY <1>1, ProcInit, ProcInductive, PTL DEF Spec

\* The task table and last_pid keep their types, and the current task is one that
\* exists: release never frees the slot of the task that runs.
THEOREM TypeCorrect == Spec => []TypeOK
<1>1. ProcInv => TypeOK
  BY DEF ProcInv, Table, TypeOK
<1> QED
  BY <1>1, ProcInit, ProcInductive, PTL DEF Spec

==============================================================================
