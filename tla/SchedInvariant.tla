-------------------------- MODULE SchedInvariant ---------------------------
(***************************************************************************)
(* The inductive invariant of the scheduler, for any number of CPUs, tasks *)
(* and tests.  It says, for every location of a CPU, what state and what   *)
(* queue the task it works on is in, and that a task is worked on by one CPU: *)
(* its creator until it is SCHEDULED, then task->cpu.                      *)
(*                                                                         *)
(* Proved here: facts about the constants and the lists, and that the steps *)
(* which touch nothing but a lock or a run state keep the invariant.       *)
(***************************************************************************)
EXTENDS Sched, TLAPS

\* schedule_task before it makes the task SCHEDULED.
Scheduling == {"sched_lock", "sched_add", "sched_state"}
\* The locations in which a task's function is on the CPU's stack, if the
\* cursor is at a task.
Executing == ScheduleLocations \cup {"exec"}
\* The locations in which the cursor of run_tasks is dead, at the list head.
NoCursor ==
  MainLocations \cup {"wait_unblocked", "unfinish", "first", "is_empty", "block", "finish"}

\* The task schedule_task works on.
NewTaskInv ==
  /\ \A c \in CPUs : pc[c] \in ScheduleLocations => newTask[c] \in Tasks /\ newCpu[c] \in CPUs
  /\ \A c \in CPUs : pc[c] \in ScheduleLocations =>
       IF task[c] = ListHead THEN c = Bsp ELSE newCpu[c] = c
  /\ \A c \in CPUs : pc[c] \in Scheduling =>
       state[newTask[c]] = "READY" /\ born[newTask[c]] = round
  /\ \A c \in CPUs : pc[c] \in {"sched_lock", "sched_add"} =>
       \A d \in CPUs : ~Linked(newTask[c], d)
  /\ \A c \in CPUs : pc[c] = "sched_state" => Linked(newTask[c], newCpu[c])
  /\ \A c, d \in CPUs : pc[c] \in Scheduling /\ pc[d] \in Scheduling /\ c # d
       => newTask[c] # newTask[d]

\* What a task's state says about its queue and its CPU.
StateInv ==
  /\ \A t \in Tasks : state[t] \in {"NONE", "READY"} => taskCpu[t] = NoCpu
  /\ \A t \in Tasks, c \in CPUs : Linked(t, c) =>
       /\ state[t] \notin {"NONE", "FREED"}
       /\ state[t] # "READY" => taskCpu[t] = c
  /\ \A t \in Tasks : state[t] \in {"SCHEDULED", "RUNNING"} =>
       taskCpu[t] \in CPUs /\ Linked(t, taskCpu[t])
  /\ \A t \in Tasks : state[t] = "RUNNING" =>
       task[taskCpu[t]] = t /\ pc[taskCpu[t]] \in Executing

\* The cursor of run_tasks and the task under it.
CursorOK(c) ==
  /\ pc[c] \in NoCursor => task[c] = ListHead
  /\ pc[c] \in DestroyLocations \cup {"visit", "exec", "next", "bug"}
       => task[c] # ListHead
  /\ task[c] # ListHead =>
       Linked(task[c], c) \/ taskCpu[task[c]] = c
  /\ pc[c] \in {"visit", "bug"} => Linked(task[c], c)
  /\ pc[c] \in Executing /\ task[c] # ListHead =>
       state[task[c]] = "RUNNING" /\ taskCpu[task[c]] = c
  /\ pc[c] \in DestroyLocations =>
       /\ state[task[c]] = "DONE"
       /\ taskCpu[task[c]] = c
       /\ repeat[task[c]] = TASK_REPEAT_ONCE
  /\ pc[c] \in {"destroy_lock", "destroy_unlink"} => Linked(task[c], c)
  /\ pc[c] \in {"destroy_unlock", "kfree"} => ~Linked(task[c], c)
  /\ safe[c] # ListHead => Linked(safe[c], c) /\ safe[c] # task[c]

CursorInv == \A c \in CPUs : CursorOK(c)

\* How often a task has run and how often it still is to run.
RepeatOK(t) ==
  /\ state[t] # "NONE" => asked[t] \in Repeats
  /\ state[t] = "NONE" => asked[t] = TASK_REPEAT_ONCE
  /\ asked[t] = TASK_REPEAT_LOOP => repeat[t] = TASK_REPEAT_LOOP /\ state[t] # "FREED"
  /\ asked[t] # TASK_REPEAT_LOOP =>
       /\ repeat[t] \in 1 .. asked[t]
       /\ state[t] \in {"NONE", "READY", "SCHEDULED"} => runs[t] = asked[t] - repeat[t]
       /\ state[t] \in {"RUNNING", "DONE", "FREED"} => runs[t] = asked[t] - repeat[t] + 1
  /\ state[t] = "FREED" => repeat[t] = TASK_REPEAT_ONCE

RepeatInv == \A t \in Tasks : RepeatOK(t)

\* What wait_for_all_cpus has seen: the queues it is through with are empty.
BarrierInv ==
  /\ \A c \in CPUs : pc[c] \in {"main", "unblock", "wait_finished", "wait_empty", "echo"}
       => c = Bsp
  /\ pc[Bsp] \notin {"wait_unblocked", "block"}
  /\ pc[Bsp] \in {"finish", "wait_finished", "wait_empty"} => queue[Bsp] = <<>>
  /\ pc[Bsp] \in {"wait_finished", "wait_empty"} =>
       \A i \in 1 .. idx - 1 : queue[CpuList[i]] = <<>>
  /\ pc[Bsp] \notin {"wait_finished", "wait_empty", "unblock"} => idx = 1

\* The rounds in which tasks were created: what execute_tasks promised.
RoundInv ==
  /\ pc[Bsp] # "echo" => round <= NrTests + 1
  /\ \A t \in Tasks : born[t] <= round
  /\ \A t \in Tasks : taskCpu[t] # NoCpu /\ born[t] < round =>
       \A c \in CPUs : ~Linked(t, c)

IInv ==
  /\ TypeOK
  /\ LinkedOnce
  /\ NewTaskInv
  /\ StateInv
  /\ CursorInv
  /\ RepeatInv
  /\ BarrierInv
  /\ RoundInv

USE DEF taskVars, queueVars, runStateVars, cursorVars, newVars, bspVars

----------------------------------------------------------------------------
\* Facts about the constants and about the operations on lists.

\* The list of CPUs holds CPUs, and the Bsp is one of them.
LEMMA CpuListType == Bsp \in CPUs /\ \A i \in 1 .. Len(CpuList) : CpuList[i] \in CPUs
  BY SchedAssumption

\* The cap on the run counter is a number above every repeat count.
LEMMA MaxRunsType == MaxRuns \in Nat /\ \A n \in Repeats : n < MaxRuns
<1>1. PICK n \in Repeats : \A m \in Repeats : m <= n
  BY SchedAssumption
<1> DEFINE k == CHOOSE k \in Repeats : \A m \in Repeats : m <= k
<1>2. k \in Repeats /\ \A m \in Repeats : m <= k
  BY <1>1
<1>3. MaxRuns = 1 + k
  BY DEF MaxRuns
<1> HIDE DEF k
<1>4. QED
  BY <1>2, <1>3, SchedAssumption

\* A task is in the task_queue of one CPU at most.
LEMMA OneList ==
  ASSUME LinkedOnce, NEW t, NEW c \in CPUs, NEW d \in CPUs, Linked(t, c), Linked(t, d)
  PROVE  c = d
<1>1. PICK i \in DOMAIN queue[c] : queue[c][i] = t
  BY Zenon DEF Linked, Entries
<1>2. PICK j \in DOMAIN queue[d] : queue[d][j] = t
  BY Zenon DEF Linked, Entries
<1>3. QED
  BY Zenon, <1>1, <1>2 DEF LinkedOnce

\* list_add_tail links the new task and leaves the others linked.
LEMMA LinkedAppend ==
  ASSUME NEW q \in Seq(Tasks), NEW t \in Tasks
  PROVE  Entries(Append(q, t)) = Entries(q) \cup {t}
<1>1. Append(q, t) \in Seq(Tasks) /\ Len(Append(q, t)) = Len(q) + 1
  OBVIOUS
<1>2. \A i \in 1 .. Len(q) : Append(q, t)[i] = q[i]
  OBVIOUS
<1>3. Append(q, t)[Len(q) + 1] = t
  OBVIOUS
<1>4. \A x : x \in Entries(Append(q, t)) <=> x \in Entries(q) \cup {t}
  BY <1>1, <1>2, <1>3 DEF Entries
<1>5. QED
  BY <1>4

\* What is at each position after an entry is removed.
LEMMA ListUnlinkIs ==
  ASSUME NEW q \in Seq(Tasks), NEW i \in DOMAIN q
  PROVE  /\ ListUnlink(q, i) \in Seq(Tasks)
         /\ Len(ListUnlink(q, i)) = Len(q) - 1
         /\ \A j \in 1 .. Len(q) - 1 :
              ListUnlink(q, i)[j] = IF j < i THEN q[j] ELSE q[j + 1]
<1>1. Len(q) - 1 \in Nat
  OBVIOUS
<1>2. ListUnlink(q, i) \in [1 .. Len(q) - 1 -> Tasks]
  BY DEF ListUnlink
<1>3. QED
  BY <1>1, <1>2 DEF ListUnlink

\* When no entry occurs twice, removing one leaves exactly the others.
LEMMA LinkedRemove ==
  ASSUME NEW q \in Seq(Tasks), NEW i \in DOMAIN q,
         \A j, k \in DOMAIN q : q[j] = q[k] => j = k
  PROVE  Entries(ListUnlink(q, i)) = Entries(q) \ {q[i]}
<1> DEFINE r == ListUnlink(q, i)
<1>1. /\ r \in Seq(Tasks)
      /\ Len(r) = Len(q) - 1
      /\ \A j \in 1 .. Len(q) - 1 : r[j] = IF j < i THEN q[j] ELSE q[j + 1]
  BY ListUnlinkIs
<1> HIDE DEF r
<1>2. i \in 1 .. Len(q) /\ DOMAIN q = 1 .. Len(q) /\ DOMAIN r = 1 .. Len(q) - 1
  BY <1>1
<1>3. ASSUME NEW j \in DOMAIN r
      PROVE  r[j] \in Entries(q) \ {q[i]}
  <2>1. CASE j < i
    BY <1>1, <1>2, <2>1 DEF Entries
  <2>2. CASE ~(j < i)
    BY <1>1, <1>2, <2>2 DEF Entries
  <2>3. QED
    BY <2>1, <2>2
<1>4. ASSUME NEW j \in DOMAIN q, j # i
      PROVE  q[j] \in Entries(r)
  <2>1. CASE j < i
    <3>1. j \in DOMAIN r /\ r[j] = q[j]
      BY <1>1, <1>2, <2>1
    <3>2. QED
      BY <3>1 DEF Entries
  <2>2. CASE j > i
    <3>1. j - 1 \in DOMAIN r /\ r[j - 1] = q[j]
      BY <1>1, <1>2, <2>2
    <3>2. QED
      BY <3>1 DEF Entries
  <2>3. QED
    BY <1>2, <1>4, <2>1, <2>2
<1>5. Entries(r) \subseteq Entries(q) \ {q[i]}
  BY <1>3 DEF Entries
<1>6. Entries(q) \ {q[i]} \subseteq Entries(r)
  BY <1>4 DEF Entries
<1>7. QED
  BY <1>5, <1>6 DEF r

----------------------------------------------------------------------------
\* The steps that take or release a lock, or wait for or set a run state.

\* schedule_task takes the lock of the target CPU: no queue changes.
LEMMA ScheduleLockKeeps ==
  ASSUME IInv, NEW c \in CPUs, ScheduleLock(c)
  PROVE  IInv'
<1>1. \A t, d : Linked(t, d)' <=> Linked(t, d)
  BY DEF ScheduleLock, Linked
<1>2. queue' = queue
  BY DEF ScheduleLock
<1>11. TypeOK'
  BY Zenon DEF IInv, ScheduleLock, Goto, TypeOK, Locations, ScheduleLocations,
      DestroyLocations, RunLocations, MainLocations, TaskStates
<1>12. LinkedOnce'
  BY <1>2 DEF IInv, LinkedOnce
<1>13. NewTaskInv'
  BY <1>1 DEF IInv, ScheduleLock, Goto, TypeOK, NewTaskInv, ScheduleLocations,
      Scheduling
<1>14. StateInv'
  BY <1>1 DEF IInv, ScheduleLock, Goto, TypeOK, StateInv, CursorInv, CursorOK,
      Executing, ScheduleLocations, DestroyLocations
<1>15. CursorInv'
  BY <1>1 DEF IInv, ScheduleLock, Goto, TypeOK, CursorInv, CursorOK, StateInv,
      ScheduleLocations, DestroyLocations, MainLocations, Executing, NoCursor
<1>16. RepeatInv'
  BY DEF IInv, ScheduleLock, Goto, TypeOK, RepeatInv, RepeatOK
<1>17. BarrierInv'
  BY DEF IInv, ScheduleLock, Goto, TypeOK, BarrierInv, NewTaskInv,
      ScheduleLocations
<1>18. RoundInv'
  BY <1>1 DEF IInv, ScheduleLock, Goto, TypeOK, RoundInv
<1>19. QED
  BY <1>11, <1>12, <1>13, <1>14, <1>15, <1>16, <1>17, <1>18 DEF IInv

\* schedule_task returns to the test on the Bsp or to the task that called it.
LEMMA ScheduleUnlockKeeps ==
  ASSUME IInv, NEW c \in CPUs, ScheduleUnlock(c)
  PROVE  IInv'
<1>1. \A t, d : Linked(t, d)' <=> Linked(t, d)
  BY DEF ScheduleUnlock, Linked
<1>2. queue' = queue
  BY DEF ScheduleUnlock
<1>11. TypeOK'
  BY Zenon DEF IInv, ScheduleUnlock, Goto, TypeOK, Locations, ScheduleLocations,
      DestroyLocations, RunLocations, MainLocations, TaskStates
<1>12. LinkedOnce'
  BY <1>2 DEF IInv, LinkedOnce
<1>13. NewTaskInv'
  BY <1>1 DEF IInv, ScheduleUnlock, Goto, TypeOK, NewTaskInv,
      ScheduleLocations, Scheduling
<1>14. StateInv'
  BY <1>1, SchedAssumption DEF IInv, ScheduleUnlock, Goto, TypeOK, StateInv,
      CursorInv, CursorOK, Executing, ScheduleLocations, DestroyLocations
<1>15. CursorInv'
  BY <1>1 DEF IInv, ScheduleUnlock, Goto, TypeOK, CursorInv, CursorOK,
      StateInv, ScheduleLocations, DestroyLocations, MainLocations, Executing,
      NoCursor
<1>16. RepeatInv'
  BY DEF IInv, ScheduleUnlock, Goto, TypeOK, RepeatInv, RepeatOK
<1>17. BarrierInv'
  BY DEF IInv, ScheduleUnlock, Goto, TypeOK, BarrierInv, NewTaskInv,
      ScheduleLocations
<1>18. RoundInv'
  BY <1>1 DEF IInv, ScheduleUnlock, Goto, TypeOK, RoundInv
<1>19. QED
  BY <1>11, <1>12, <1>13, <1>14, <1>15, <1>16, <1>17, <1>18 DEF IInv

\* A CPU leaves wait_cpu_unblocked with no cursor.
LEMMA WaitCpuUnblockedKeeps ==
  ASSUME IInv, NEW c \in CPUs, WaitCpuUnblocked(c)
  PROVE  IInv'
<1>1. \A t, d : Linked(t, d)' <=> Linked(t, d)
  BY DEF WaitCpuUnblocked, Linked
<1>2. queue' = queue
  BY DEF WaitCpuUnblocked
<1>11. TypeOK'
  BY DEF IInv, WaitCpuUnblocked, Goto, TypeOK, Locations, ScheduleLocations,
      DestroyLocations, RunLocations, MainLocations, TaskStates
<1>12. LinkedOnce'
  BY <1>2 DEF IInv, LinkedOnce
<1>13. NewTaskInv'
  BY <1>1 DEF IInv, WaitCpuUnblocked, Goto, TypeOK, NewTaskInv,
      ScheduleLocations, Scheduling
<1>14. StateInv'
  BY <1>1 DEF IInv, WaitCpuUnblocked, Goto, TypeOK, StateInv, CursorInv,
      CursorOK, Executing, ScheduleLocations, DestroyLocations
<1>15. CursorInv'
  BY <1>1 DEF IInv, WaitCpuUnblocked, Goto, TypeOK, CursorInv, CursorOK,
      StateInv, ScheduleLocations, DestroyLocations, MainLocations, Executing,
      NoCursor
<1>16. RepeatInv'
  BY DEF IInv, WaitCpuUnblocked, Goto, TypeOK, RepeatInv, RepeatOK
<1>17. BarrierInv'
  BY DEF IInv, WaitCpuUnblocked, Goto, TypeOK, BarrierInv, NewTaskInv,
      ScheduleLocations
<1>18. RoundInv'
  BY <1>1 DEF IInv, WaitCpuUnblocked, Goto, TypeOK, RoundInv
<1>19. QED
  BY <1>11, <1>12, <1>13, <1>14, <1>15, <1>16, <1>17, <1>18 DEF IInv

\* run_tasks clears CPU_FINISHED; no part of the invariant reads that bit.
LEMMA SetCpuUnfinishedKeeps ==
  ASSUME IInv, NEW c \in CPUs, SetCpuUnfinished(c)
  PROVE  IInv'
<1>1. \A t, d : Linked(t, d)' <=> Linked(t, d)
  BY DEF SetCpuUnfinished, Linked
<1>2. queue' = queue
  BY DEF SetCpuUnfinished
<1>11. TypeOK'
  BY DEF IInv, SetCpuUnfinished, Goto, TypeOK, Locations, ScheduleLocations,
      DestroyLocations, RunLocations, MainLocations, TaskStates
<1>12. LinkedOnce'
  BY <1>2 DEF IInv, LinkedOnce
<1>13. NewTaskInv'
  BY <1>1 DEF IInv, SetCpuUnfinished, Goto, TypeOK, NewTaskInv,
      ScheduleLocations, Scheduling
<1>14. StateInv'
  BY <1>1 DEF IInv, SetCpuUnfinished, Goto, TypeOK, StateInv, CursorInv,
      CursorOK, Executing, ScheduleLocations, DestroyLocations
<1>15. CursorInv'
  BY <1>1 DEF IInv, SetCpuUnfinished, Goto, TypeOK, CursorInv, CursorOK,
      StateInv, ScheduleLocations, DestroyLocations, MainLocations, Executing,
      NoCursor
<1>16. RepeatInv'
  BY DEF IInv, SetCpuUnfinished, Goto, TypeOK, RepeatInv, RepeatOK
<1>17. BarrierInv'
  BY DEF IInv, SetCpuUnfinished, Goto, TypeOK, BarrierInv, NewTaskInv,
      ScheduleLocations
<1>18. RoundInv'
  BY <1>1 DEF IInv, SetCpuUnfinished, Goto, TypeOK, RoundInv
<1>19. QED
  BY <1>11, <1>12, <1>13, <1>14, <1>15, <1>16, <1>17, <1>18 DEF IInv

\* run_tasks blocks its CPU; no part of the invariant reads that bit.
LEMMA SetCpuBlockedKeeps ==
  ASSUME IInv, NEW c \in CPUs, SetCpuBlocked(c)
  PROVE  IInv'
<1>1. \A t, d : Linked(t, d)' <=> Linked(t, d)
  BY DEF SetCpuBlocked, Linked
<1>2. queue' = queue
  BY DEF SetCpuBlocked
<1>11. TypeOK'
  BY DEF IInv, SetCpuBlocked, Goto, TypeOK, Locations, ScheduleLocations,
      DestroyLocations, RunLocations, MainLocations, TaskStates
<1>12. LinkedOnce'
  BY <1>2 DEF IInv, LinkedOnce
<1>13. NewTaskInv'
  BY <1>1 DEF IInv, SetCpuBlocked, Goto, TypeOK, NewTaskInv, ScheduleLocations,
      Scheduling
<1>14. StateInv'
  BY <1>1 DEF IInv, SetCpuBlocked, Goto, TypeOK, StateInv, CursorInv, CursorOK,
      Executing, ScheduleLocations, DestroyLocations
<1>15. CursorInv'
  BY <1>1 DEF IInv, SetCpuBlocked, Goto, TypeOK, CursorInv, CursorOK, StateInv,
      ScheduleLocations, DestroyLocations, MainLocations, Executing, NoCursor
<1>16. RepeatInv'
  BY DEF IInv, SetCpuBlocked, Goto, TypeOK, RepeatInv, RepeatOK
<1>17. BarrierInv'
  BY DEF IInv, SetCpuBlocked, Goto, TypeOK, BarrierInv, NewTaskInv,
      ScheduleLocations
<1>18. RoundInv'
  BY <1>1 DEF IInv, SetCpuBlocked, Goto, TypeOK, RoundInv
<1>19. QED
  BY <1>11, <1>12, <1>13, <1>14, <1>15, <1>16, <1>17, <1>18 DEF IInv

\* A CPU that meets a READY task in its queue stops in BUG().
LEMMA BugKeeps ==
  ASSUME IInv, NEW c \in CPUs, Bug(c)
  PROVE  IInv'
<1>1. \A t, d : Linked(t, d)' <=> Linked(t, d)
  BY DEF Bug, Linked
<1>2. queue' = queue
  BY DEF Bug
<1>11. TypeOK'
  BY DEF IInv, Bug, Goto, TypeOK, Locations, ScheduleLocations,
      DestroyLocations, RunLocations, MainLocations, TaskStates
<1>12. LinkedOnce'
  BY <1>2 DEF IInv, LinkedOnce
<1>13. NewTaskInv'
  BY <1>1 DEF IInv, Bug, Goto, TypeOK, NewTaskInv, ScheduleLocations,
      Scheduling
<1>14. StateInv'
  BY <1>1 DEF IInv, Bug, Goto, TypeOK, StateInv, CursorInv, CursorOK,
      Executing, ScheduleLocations, DestroyLocations
<1>15. CursorInv'
  BY <1>1 DEF IInv, Bug, Goto, TypeOK, CursorInv, CursorOK, StateInv,
      ScheduleLocations, DestroyLocations, MainLocations, Executing, NoCursor
<1>16. RepeatInv'
  BY DEF IInv, Bug, Goto, TypeOK, RepeatInv, RepeatOK
<1>17. BarrierInv'
  BY DEF IInv, Bug, Goto, TypeOK, BarrierInv, NewTaskInv, ScheduleLocations
<1>18. RoundInv'
  BY <1>1 DEF IInv, Bug, Goto, TypeOK, RoundInv
<1>19. QED
  BY <1>11, <1>12, <1>13, <1>14, <1>15, <1>16, <1>17, <1>18 DEF IInv

\* destroy_task takes the lock of the CPU the task is queued on, its own.
LEMMA DestroyLockKeeps ==
  ASSUME IInv, NEW c \in CPUs, DestroyLock(c)
  PROVE  IInv'
<1>1. \A t, d : Linked(t, d)' <=> Linked(t, d)
  BY DEF DestroyLock, Linked
<1>2. queue' = queue
  BY DEF DestroyLock
<1>3. /\ pc[c] = "destroy_lock" /\ pc' = [pc EXCEPT ![c] = "destroy_unlink"]
      /\ UNCHANGED <<taskVars, queue, runStateVars, cursorVars, newVars, bspVars>>
  BY Zenon DEF DestroyLock, Goto
<1>4. taskCpu[task[c]] = c
  BY Zenon, <1>3 DEF IInv, CursorInv, CursorOK, DestroyLocations
<1>11. TypeOK'
  BY <1>4 DEF IInv, DestroyLock, Goto, TypeOK, Locations, ScheduleLocations,
      DestroyLocations, RunLocations, MainLocations, TaskStates
<1>12. LinkedOnce'
  BY <1>2 DEF IInv, LinkedOnce
<1>13. NewTaskInv'
  BY <1>1, <1>3 DEF IInv, TypeOK, NewTaskInv, ScheduleLocations, Scheduling
<1>14. StateInv'
  BY <1>1, <1>3 DEF IInv, TypeOK, StateInv, CursorInv, CursorOK, Executing,
      ScheduleLocations, DestroyLocations
<1>15. CursorInv'
  BY <1>1, <1>3 DEF IInv, TypeOK, CursorInv, CursorOK, StateInv,
      ScheduleLocations, DestroyLocations, MainLocations, Executing, NoCursor
<1>16. RepeatInv'
  BY <1>1, <1>3 DEF IInv, TypeOK, RepeatInv, RepeatOK
<1>17. BarrierInv'
  BY <1>1, <1>3 DEF IInv, TypeOK, BarrierInv, NewTaskInv, ScheduleLocations
<1>18. RoundInv'
  BY <1>1, <1>3 DEF IInv, TypeOK, RoundInv
<1>19. QED
  BY <1>11, <1>12, <1>13, <1>14, <1>15, <1>16, <1>17, <1>18 DEF IInv

\* destroy_task drops the lock of a task that is already unlinked.
LEMMA DestroyUnlockKeeps ==
  ASSUME IInv, NEW c \in CPUs, DestroyUnlock(c)
  PROVE  IInv'
<1>1. \A t, d : Linked(t, d)' <=> Linked(t, d)
  BY DEF DestroyUnlock, Linked
<1>2. queue' = queue
  BY DEF DestroyUnlock
<1>11. TypeOK'
  BY Zenon DEF IInv, DestroyUnlock, Goto, TypeOK, Locations, ScheduleLocations,
      DestroyLocations, RunLocations, MainLocations, TaskStates
<1>12. LinkedOnce'
  BY <1>2 DEF IInv, LinkedOnce
<1>13. NewTaskInv'
  BY <1>1 DEF IInv, DestroyUnlock, Goto, TypeOK, NewTaskInv, ScheduleLocations,
      Scheduling
<1>14. StateInv'
  BY <1>1 DEF IInv, DestroyUnlock, Goto, TypeOK, StateInv, CursorInv, CursorOK,
      Executing, ScheduleLocations, DestroyLocations
<1>15. CursorInv'
  BY <1>1 DEF IInv, DestroyUnlock, Goto, TypeOK, CursorInv, CursorOK, StateInv,
      ScheduleLocations, DestroyLocations, MainLocations, Executing, NoCursor
<1>16. RepeatInv'
  BY DEF IInv, DestroyUnlock, Goto, TypeOK, RepeatInv, RepeatOK
<1>17. BarrierInv'
  BY DEF IInv, DestroyUnlock, Goto, TypeOK, BarrierInv, NewTaskInv,
      ScheduleLocations
<1>18. RoundInv'
  BY <1>1 DEF IInv, DestroyUnlock, Goto, TypeOK, RoundInv
<1>19. QED
  BY <1>11, <1>12, <1>13, <1>14, <1>15, <1>16, <1>17, <1>18 DEF IInv
============================================================================
