---------------------------- MODULE SchedProofs ----------------------------
(***************************************************************************)
(* Theorems about the scheduler, for any number of CPUs, tasks and tests: the *)
(* safety properties of Sched that do not depend on the run states.  The steps *)
(* of execute_tasks keep the invariant, hence every step does, and the     *)
(* invariant implies the properties.                                       *)
(***************************************************************************)
EXTENDS SchedTaskSteps, SchedQueueSteps

USE DEF taskVars, queueVars, runStateVars, cursorVars, newVars, bspVars

\* execute_tasks begins after the test function has queued its tasks.
LEMMA ExecuteTasksKeeps ==
  ASSUME IInv, ExecuteTasks
  PROVE  IInv'
<1>1. \A t, d : Linked(t, d)' <=> Linked(t, d)
  BY DEF ExecuteTasks, Linked
<1>2. queue' = queue
  BY DEF ExecuteTasks
<1>3. pc[Bsp] = "main" /\ pc' = [pc EXCEPT ![Bsp] = "unblock"]
  BY DEF ExecuteTasks, Goto
<1>11. TypeOK'
  BY <1>3, CpuListType DEF IInv, ExecuteTasks, Goto, TypeOK, Locations,
      ScheduleLocations, DestroyLocations, RunLocations, MainLocations,
      TaskStates
<1>12. LinkedOnce'
  BY <1>2 DEF IInv, LinkedOnce
<1>13. NewTaskInv'
  BY <1>1, <1>3, CpuListType DEF IInv, ExecuteTasks, Goto, TypeOK, NewTaskInv,
      ScheduleLocations, Scheduling
<1>14. StateInv'
  BY <1>1, <1>3, CpuListType DEF IInv, ExecuteTasks, Goto, TypeOK, StateInv,
      CursorInv, CursorOK, Executing, ScheduleLocations, DestroyLocations
<1>15. CursorInv'
  BY <1>1, <1>3, CpuListType DEF IInv, ExecuteTasks, Goto, TypeOK, CursorInv,
      CursorOK, StateInv, ScheduleLocations, DestroyLocations, MainLocations,
      Executing, NoCursor
<1>16. RepeatInv'
  BY <1>3, CpuListType DEF IInv, ExecuteTasks, Goto, TypeOK, RepeatInv,
      RepeatOK
<1>17. BarrierInv'
  BY <1>3, CpuListType DEF IInv, ExecuteTasks, Goto, TypeOK, BarrierInv,
      NewTaskInv, ScheduleLocations
<1>18. RoundInv'
  BY <1>1, <1>3, CpuListType DEF IInv, ExecuteTasks, Goto, TypeOK, RoundInv
<1>19. QED
  BY <1>11, <1>12, <1>13, <1>14, <1>15, <1>16, <1>17, <1>18 DEF IInv

\* One step of unblock_all_cpus.
LEMMA UnblockCpuKeeps ==
  ASSUME IInv, UnblockCpu
  PROVE  IInv'
<1>1. \A t, d : Linked(t, d)' <=> Linked(t, d)
  BY DEF UnblockCpu, Linked
<1>2. PICK to \in {"unfinish", "unblock"} :
        /\ pc[Bsp] = "unblock" /\ pc' = [pc EXCEPT ![Bsp] = to]
        /\ unblocked' = [unblocked EXCEPT ![CpuList[idx]] = TRUE]
        /\ idx' \in 1 .. Len(CpuList) /\ (to = "unfinish" => idx' = 1)
        /\ UNCHANGED <<taskVars, queueVars, finished, cursorVars, newVars, round>>
  <2>1. idx \in 1 .. Len(CpuList) /\ Len(CpuList) \in Nat
    BY SchedAssumption DEF IInv, TypeOK
  <2>2. CASE idx = Len(CpuList)
    BY <2>1, <2>2 DEF UnblockCpu, Goto
  <2>3. CASE idx # Len(CpuList)
    <3>1. idx + 1 \in 1 .. Len(CpuList)
      BY <2>1, <2>3
    <3>2. idx' = idx + 1 /\ pc' = [pc EXCEPT ![Bsp] = "unblock"]
      BY Zenon, <2>3 DEF UnblockCpu, Goto
    <3>3. QED
      BY Zenon, <3>1, <3>2 DEF UnblockCpu, Goto
  <2>4. QED
    BY <2>2, <2>3
<1>11. TypeOK'
  BY Zenon, <1>1, <1>2, CpuListType DEF IInv, TypeOK, Locations, ScheduleLocations,
      DestroyLocations, RunLocations, MainLocations, TaskStates
<1>12. LinkedOnce'
  BY <1>2 DEF IInv, LinkedOnce
<1>13. NewTaskInv'
  BY <1>1, <1>2, CpuListType DEF IInv, TypeOK, NewTaskInv, ScheduleLocations,
      Scheduling
<1>14. StateInv'
  BY <1>1, <1>2, CpuListType DEF IInv, TypeOK, StateInv, CursorInv, CursorOK,
      Executing, ScheduleLocations, DestroyLocations
<1>15. CursorInv'
  BY <1>1, <1>2, CpuListType DEF IInv, TypeOK, CursorInv, CursorOK, StateInv,
      ScheduleLocations, DestroyLocations, MainLocations, Executing, NoCursor
<1>16. RepeatInv'
  BY <1>1, <1>2, CpuListType DEF IInv, TypeOK, RepeatInv, RepeatOK
<1>17. BarrierInv'
  BY Zenon, <1>1, <1>2, CpuListType DEF IInv, TypeOK, BarrierInv, NewTaskInv,
      ScheduleLocations
<1>18. RoundInv'
  BY <1>1, <1>2, CpuListType DEF IInv, TypeOK, RoundInv
<1>19. QED
  BY <1>11, <1>12, <1>13, <1>14, <1>15, <1>16, <1>17, <1>18 DEF IInv

\* wait_for_all_cpus is through with a CPU whose queue it saw empty.
LEMMA NextCpuToWaitForKeeps ==
  ASSUME IInv, pc[Bsp] \in {"wait_finished", "wait_empty"},
         queue[CpuList[idx]] = <<>>, NextCpuToWaitFor,
         UNCHANGED <<taskVars, queueVars, runStateVars, cursorVars, newVars>>
  PROVE  IInv'
<1>1. \A t, d : Linked(t, d)' <=> Linked(t, d)
  BY DEF Linked
<1>2. idx \in 1 .. Len(CpuList) /\ Len(CpuList) \in Nat /\ round \in Nat /\ round <= NrTests + 1
  BY SchedAssumption DEF IInv, TypeOK, RoundInv
<1>3. \A i \in 1 .. idx : queue[CpuList[i]] = <<>>
  BY <1>2 DEF IInv, BarrierInv
<1>4. PICK to \in {"wait_finished", "main", "echo"} :
        /\ pc' = [pc EXCEPT ![Bsp] = to]
        /\ IF to = "wait_finished" THEN idx' = idx + 1 /\ idx < Len(CpuList) /\ round' = round
           ELSE idx' = 1 /\ idx = Len(CpuList) /\ round' = round + 1
        /\ to = "main" => round # NrTests + 1
  <2>1. CASE idx < Len(CpuList)
    BY <2>1 DEF NextCpuToWaitFor
  <2>2. CASE ~(idx < Len(CpuList))
    BY <1>2, <2>2 DEF NextCpuToWaitFor
  <2>3. QED
    BY <2>1, <2>2
\* When execute_tasks returns nothing is queued and no CPU runs or queues a task.
<1>5. to # "wait_finished" =>
        \A c \in CPUs : queue[c] = <<>> /\ pc[c] \notin ScheduleLocations
  <2>1. to # "wait_finished" => \A c \in CPUs : queue[c] = <<>>
    BY <1>2, <1>3, <1>4, SchedAssumption DEF CPUs
  <2>2. ASSUME NEW c \in CPUs, queue[c] = <<>>, pc[c] \in ScheduleLocations
        PROVE  FALSE
    <3>1. c # Bsp
      BY <2>2 DEF ScheduleLocations
    <3>2. task[c] \in Tasks
      BY <2>2, <3>1 DEF IInv, TypeOK, NewTaskInv
    <3>3. Linked(task[c], c)
      BY <2>2, <3>2, SchedAssumption DEF IInv, CursorInv, CursorOK, StateInv, Executing
    <3>4. QED
      BY <2>2, <3>3 DEF Linked, Entries
  <2>3. QED
    BY <2>1, <2>2
<1>6. to # "wait_finished" => \A c \in CPUs : \A t : ~Linked(t, c)
  BY <1>5 DEF Linked, Entries
<1>11. TypeOK'
  <2>1. idx' \in 1 .. Len(CpuList)
    BY <1>2, <1>4
  <2>2. round' \in 0 .. NrTests + 2
    BY <1>2, <1>4, SchedAssumption
  <2>3. pc' \in [CPUs -> Locations]
    BY Zenon, <1>4 DEF IInv, TypeOK, Locations, MainLocations
  <2>4. QED
    BY <2>1, <2>2, <2>3 DEF IInv, TypeOK
<1>12. LinkedOnce'
  BY DEF IInv, LinkedOnce
<1>13. NewTaskInv'
  BY <1>1, <1>4, <1>5, CpuListType
     DEF IInv, TypeOK, NewTaskInv, ScheduleLocations, Scheduling
<1>14. StateInv'
  BY <1>1, <1>4, CpuListType DEF IInv, TypeOK, StateInv, Executing, ScheduleLocations
<1>15. CursorInv'
  <2> SUFFICES ASSUME NEW d \in CPUs
               PROVE  CursorOK(d)'
    BY DEF CursorInv
  <2>1. CASE d = Bsp
    BY <1>1, <1>4, CpuListType, <2>1
       DEF IInv, TypeOK, CursorInv, CursorOK, ScheduleLocations, DestroyLocations,
           MainLocations, Executing, NoCursor
  <2>2. CASE d # Bsp
    BY SMTT(20), <1>1, <1>4, <2>2 DEF IInv, TypeOK, CursorInv, CursorOK
  <2>3. QED
    BY <2>1, <2>2
<1>16. RepeatInv'
  BY DEF IInv, RepeatInv, RepeatOK
<1>17. BarrierInv'
  <2>1. \A c \in CPUs : c # Bsp => pc'[c] = pc[c]
    BY <1>4 DEF IInv, TypeOK
  <2>2. pc'[Bsp] = to
    BY <1>4, CpuListType DEF IInv, TypeOK
  <2>3. to = "wait_finished" => \A i \in 1 .. idx' - 1 : queue'[CpuList[i]] = <<>>
    BY <1>2, <1>3, <1>4
  <2>4. queue'[Bsp] = <<>>
    BY DEF IInv, BarrierInv
  <2>5. QED
    BY <1>4, <2>1, <2>2, <2>3, <2>4 DEF IInv, BarrierInv
<1>18. RoundInv'
  <2>1. (pc[Bsp] # "echo" => round <= NrTests + 1)'
    BY <1>2, <1>4, CpuListType, SchedAssumption DEF IInv, TypeOK, RoundInv
  <2>2. \A t \in Tasks : born'[t] <= round'
    BY <1>2, <1>4, SchedAssumption DEF IInv, TypeOK, RoundInv
  <2>3. (\A t \in Tasks : taskCpu[t] # NoCpu /\ born[t] < round =>
           \A c \in CPUs : ~Linked(t, c))'
    BY <1>1, <1>4, <1>6 DEF IInv, RoundInv
  <2>4. QED
    BY <2>1, <2>2, <2>3 DEF RoundInv
<1>19. QED
  BY <1>11, <1>12, <1>13, <1>14, <1>15, <1>16, <1>17, <1>18 DEF IInv

\* wait_for_all_cpus skips the Bsp, or has seen CPU_FINISHED, stale or not.
LEMMA WaitFinishedKeeps ==
  ASSUME IInv, WaitFinished
  PROVE  IInv'
<1>1. \A t, d : Linked(t, d)' <=> Linked(t, d)
  BY DEF WaitFinished, Linked
<1>2. pc[Bsp] = "wait_finished" /\ UNCHANGED <<taskVars, queueVars, runStateVars, cursorVars, newVars>>
  BY DEF WaitFinished
<1>3. CASE CpuList[idx] # Bsp /\ pc' = [pc EXCEPT ![Bsp] = "wait_empty"] /\ UNCHANGED bspVars
  <2>1. PICK to \in {"wait_finished", "wait_empty"} : pc' = [pc EXCEPT ![Bsp] = to]
    BY <1>3 DEF WaitFinished
  <2>11. TypeOK'
    BY <1>1, <1>2, <1>3, <2>1, CpuListType DEF IInv, TypeOK, Locations,
        ScheduleLocations, DestroyLocations, RunLocations, MainLocations,
        TaskStates
  <2>12. LinkedOnce'
    BY <1>2 DEF IInv, LinkedOnce
  <2>13. NewTaskInv'
    BY <1>1, <1>2, <1>3, <2>1, CpuListType DEF IInv, TypeOK, NewTaskInv,
        ScheduleLocations, Scheduling
  <2>14. StateInv'
    BY SMTT(20), <1>1, <1>2, <1>3, <2>1, CpuListType DEF IInv, TypeOK, StateInv, CursorInv,
        CursorOK, Executing, ScheduleLocations, DestroyLocations
  <2>15. CursorInv'
    BY <1>1, <1>2, <1>3, <2>1, CpuListType DEF IInv, TypeOK, CursorInv, CursorOK,
        StateInv, ScheduleLocations, DestroyLocations, MainLocations, Executing,
        NoCursor
  <2>16. RepeatInv'
    BY <1>1, <1>2, <1>3, <2>1, CpuListType DEF IInv, TypeOK, RepeatInv, RepeatOK
  <2>17. BarrierInv'
    BY <1>1, <1>2, <1>3, <2>1, CpuListType DEF IInv, TypeOK, BarrierInv,
        NewTaskInv, ScheduleLocations
  <2>18. RoundInv'
    BY SMTT(20), <1>1, <1>2, <1>3, <2>1, CpuListType DEF IInv, TypeOK, RoundInv
  <2>19. QED
    BY <2>11, <2>12, <2>13, <2>14, <2>15, <2>16, <2>17, <2>18 DEF IInv
<1>4. CASE CpuList[idx] = Bsp /\ NextCpuToWaitFor
  <2>1. queue[CpuList[idx]] = <<>>
    BY <1>2, <1>4 DEF IInv, BarrierInv
  <2>2. QED
    BY <1>2, <1>4, <2>1, NextCpuToWaitForKeeps
<1>5. QED
  BY <1>3, <1>4 DEF WaitFinished

\* wait_for_all_cpus passes a CPU only when it sees its queue empty.
LEMMA WaitEmptyKeeps ==
  ASSUME IInv, WaitEmpty
  PROVE  IInv'
<1>1. \A t, d : Linked(t, d)' <=> Linked(t, d)
  BY DEF WaitEmpty, Linked
<1>2. pc[Bsp] = "wait_empty" /\ UNCHANGED <<taskVars, queueVars, runStateVars, cursorVars, newVars>>
  BY DEF WaitEmpty
<1>3. CASE pc' = [pc EXCEPT ![Bsp] = "wait_finished"] /\ UNCHANGED bspVars
  <2>1. PICK to \in {"wait_finished", "wait_empty"} : pc' = [pc EXCEPT ![Bsp] = to]
    BY <1>3 DEF WaitEmpty
  <2>11. TypeOK'
    BY <1>1, <1>2, <1>3, <2>1, CpuListType DEF IInv, TypeOK, Locations,
        ScheduleLocations, DestroyLocations, RunLocations, MainLocations,
        TaskStates
  <2>12. LinkedOnce'
    BY <1>2 DEF IInv, LinkedOnce
  <2>13. NewTaskInv'
    BY <1>1, <1>2, <1>3, <2>1, CpuListType DEF IInv, TypeOK, NewTaskInv,
        ScheduleLocations, Scheduling
  <2>14. StateInv'
    BY SMTT(20), <1>1, <1>2, <1>3, <2>1, CpuListType DEF IInv, TypeOK, StateInv, CursorInv,
        CursorOK, Executing, ScheduleLocations, DestroyLocations
  <2>15. CursorInv'
    BY <1>1, <1>2, <1>3, <2>1, CpuListType DEF IInv, TypeOK, CursorInv, CursorOK,
        StateInv, ScheduleLocations, DestroyLocations, MainLocations, Executing,
        NoCursor
  <2>16. RepeatInv'
    BY <1>1, <1>2, <1>3, <2>1, CpuListType DEF IInv, TypeOK, RepeatInv, RepeatOK
  <2>17. BarrierInv'
    BY <1>1, <1>2, <1>3, <2>1, CpuListType DEF IInv, TypeOK, BarrierInv,
        NewTaskInv, ScheduleLocations
  <2>18. RoundInv'
    BY SMTT(20), <1>1, <1>2, <1>3, <2>1, CpuListType DEF IInv, TypeOK, RoundInv
  <2>19. QED
    BY <2>11, <2>12, <2>13, <2>14, <2>15, <2>16, <2>17, <2>18 DEF IInv
<1>4. CASE queue[CpuList[idx]] = <<>> /\ NextCpuToWaitFor
  BY <1>2, <1>4, NextCpuToWaitForKeeps
<1>5. QED
  BY <1>3, <1>4 DEF WaitEmpty

\* The invariant holds when kernel_main starts.
LEMMA InitIInv == Init => IInv
<1> SUFFICES ASSUME Init
             PROVE  IInv
  OBVIOUS
<1>1. \A t, c : c \in CPUs => ~Linked(t, c)
  BY DEF Init, Linked, Entries
<1>2. Len(CpuList) \in Nat /\ 1 \in 1 .. Len(CpuList)
  <2>1. PICK i \in DOMAIN CpuList : CpuList[i] = Bsp
    BY SchedAssumption DEF CPUs
  <2>2. QED
    BY <2>1, SchedAssumption
<1>3. TypeOK
  BY <1>2, SchedAssumption, MaxRunsType
     DEF Init, TypeOK, Locations, MainLocations, RunLocations, TaskStates, TASK_REPEAT_ONCE
<1>4. LinkedOnce
  BY DEF Init, LinkedOnce
<1>5. NewTaskInv
  BY DEF Init, NewTaskInv, ScheduleLocations, Scheduling
<1>6. StateInv
  BY <1>1 DEF Init, StateInv
<1>7. CursorInv
  BY DEF Init, CursorInv, CursorOK, ScheduleLocations, DestroyLocations, Executing
<1>8. RepeatInv
  BY DEF Init, RepeatInv, RepeatOK, TASK_REPEAT_ONCE, TASK_REPEAT_LOOP
<1>9. BarrierInv
  BY CpuListType DEF Init, BarrierInv
<1>10. RoundInv
  BY SchedAssumption DEF Init, RoundInv
<1>11. QED
  BY <1>3, <1>4, <1>5, <1>6, <1>7, <1>8, <1>9, <1>10 DEF IInv

\* Every step of every CPU keeps the invariant.
LEMMA NextIInv == IInv /\ [Next]_vars => IInv'
<1> SUFFICES ASSUME IInv, [Next]_vars
             PROVE  IInv'
  OBVIOUS
<1>1. CASE Create
  BY <1>1, NewTaskKeeps DEF Create
<1>2. CASE BspStep
  BY <1>2, ExecuteTasksKeeps, UnblockCpuKeeps, WaitFinishedKeeps, WaitEmptyKeeps DEF BspStep
<1>3. ASSUME NEW c \in CPUs, CpuStep(c)
      PROVE  IInv'
  <2>1. CASE ScheduleLock(c) \/ ScheduleAdd(c) \/ ScheduleState(c) \/ ScheduleUnlock(c)
    BY <2>1, ScheduleLockKeeps, ScheduleAddKeeps, ScheduleStateKeeps, ScheduleUnlockKeeps
  <2>2. CASE WaitCpuUnblocked(c) \/ SetCpuUnfinished(c) \/ FirstEntry(c) \/ NextEntry(c)
    BY <2>2, WaitCpuUnblockedKeeps, SetCpuUnfinishedKeeps, FirstEntryKeeps, NextEntryKeeps
  <2>3. CASE RunTask(c) \/ TaskReturns(c) \/ RepeatTask(c) \/ FinishTask(c) \/ Bug(c)
    BY <2>3, RunTaskKeeps, TaskReturnsKeeps, RepeatTaskKeeps, FinishTaskKeeps, BugKeeps
  <2>4. CASE DestroyLock(c) \/ DestroyUnlink(c) \/ DestroyUnlock(c) \/ Kfree(c)
    BY <2>4, DestroyLockKeeps, DestroyUnlinkKeeps, DestroyUnlockKeeps, KfreeKeeps
  <2>5. CASE ListIsEmpty(c) \/ SetCpuBlocked(c) \/ SetCpuFinished(c)
    BY <2>5, ListIsEmptyKeeps, SetCpuBlockedKeeps, SetCpuFinishedKeeps
  <2>6. QED
    BY <1>3, <2>1, <2>2, <2>3, <2>4, <2>5 DEF CpuStep
<1>4. CASE EchoLoop \/ UNCHANGED vars
  <2>1. UNCHANGED vars
    BY <1>4 DEF EchoLoop
  <2>2. \A t, d : Linked(t, d)' <=> Linked(t, d)
    BY <2>1 DEF vars, Linked
  <2>3. TypeOK' /\ LinkedOnce'
    BY SMTT(20), <2>1 DEF vars, IInv, TypeOK, LinkedOnce
  <2>4. NewTaskInv' /\ StateInv'
    BY SMTT(20), <2>1, <2>2 DEF vars, IInv, NewTaskInv, StateInv
  <2>5. CursorInv'
    BY SMTT(20), <2>1, <2>2 DEF vars, IInv, CursorInv, CursorOK
  <2>6. RepeatInv' /\ BarrierInv' /\ RoundInv'
    BY <2>1, <2>2 DEF vars, IInv, RepeatInv, RepeatOK, BarrierInv, RoundInv
  <2>7. QED
    BY <2>3, <2>4, <2>5, <2>6 DEF IInv
<1>5. QED
  BY <1>1, <1>2, <1>3, <1>4 DEF Next

\* The inductive invariant holds in every reachable state.
LEMMA SpecIInv == Spec => []IInv
  BY InitIInv, NextIInv, PTL DEF Spec

\* Every variable of the scheduler keeps its type, for any list of CPUs and any
\* set of tasks.
THEOREM SchedTypeCorrect == Spec => []TypeOK
<1>1. IInv => TypeOK
  BY DEF IInv
<1>2. QED
  BY <1>1, SpecIInv, PTL

\* No task is linked twice, in one task queue or in two.
THEOREM TasksLinkedOnce == Spec => []LinkedOnce
<1>1. IInv => LinkedOnce
  BY DEF IInv
<1>2. QED
  BY <1>1, SpecIInv, PTL

\* The unlocked walk of run_tasks only uses tasks that are linked in the queue of
\* its own CPU and not freed.
THEOREM WalkIsSafe == Spec => []CursorsLinked
<1>1. IInv => CursorsLinked
  <2> SUFFICES ASSUME IInv, NEW c \in CPUs
               PROVE  /\ InBody(c) => Linked(task[c], c) /\ state[task[c]] # "FREED"
                      /\ safe[c] # ListHead =>
                           Linked(safe[c], c) /\ safe[c] # task[c] /\ state[safe[c]] # "FREED"
    BY DEF CursorsLinked
  <2>1. task[c] \in Tasks \cup {ListHead} /\ safe[c] \in Tasks \cup {ListHead}
    BY SMTT(20) DEF IInv, TypeOK
  <2>2. InBody(c) => Linked(task[c], c)
    BY <2>1 DEF IInv, InBody, CursorInv, CursorOK, StateInv, Executing
  <2>3. safe[c] # ListHead => Linked(safe[c], c) /\ safe[c] # task[c]
    BY DEF IInv, CursorInv, CursorOK
  <2>4. QED
    BY Zenon, <2>1, <2>2, <2>3 DEF IInv, InBody, StateInv
<1>2. QED
  BY <1>1, SpecIInv, PTL

\* A task's function runs on one CPU at a time, the one schedule_task was given.
THEOREM TasksRunOnTheirCpu == Spec => []RunsOnItsCpu
<1>1. IInv => RunsOnItsCpu
  <2> SUFFICES ASSUME IInv, NEW t \in Tasks, state[t] = "RUNNING", NEW c \in CPUs
               PROVE  task[c] = t <=> c = taskCpu[t]
    BY DEF RunsOnItsCpu
  <2>1. c = taskCpu[t] => task[c] = t
    BY DEF IInv, StateInv
  <2>2. task[c] = t => Linked(t, c) \/ taskCpu[t] = c
    BY SchedAssumption DEF IInv, CursorInv, CursorOK
  <2>3. Linked(t, c) => taskCpu[t] = c
    BY DEF IInv, StateInv
  <2>4. QED
    BY <2>1, <2>2, <2>3
<1>2. QED
  BY <1>1, SpecIInv, PTL

\* A task is freed exactly when it has run as often as set_task_repeat asked.
THEOREM TasksRunAsAsked == Spec => []RunsAsAsked
<1>1. IInv => RunsAsAsked
  <2> SUFFICES ASSUME IInv, NEW t \in Tasks, state[t] = "FREED"
               PROVE  runs[t] = asked[t]
    BY DEF RunsAsAsked
  <2>1. RepeatOK(t) /\ asked[t] \in Nat
    BY DEF IInv, RepeatInv, TypeOK
  <2>2. QED
    BY <2>1 DEF RepeatOK, TASK_REPEAT_ONCE
<1>2. QED
  BY <1>1, SpecIInv, PTL

\* When execute_tasks returns, every task queued before it was called has run to
\* its end and has left its queue, whatever stale finished bits it read.
THEOREM ExecuteTasksIsABarrier == Spec => []ExecuteTasksCompletes
<1>1. IInv => ExecuteTasksCompletes
  <2> SUFFICES ASSUME IInv, NEW t \in Tasks, taskCpu[t] # NoCpu, born[t] < round
               PROVE  state[t] \in {"DONE", "FREED"} /\ \A c \in CPUs : ~Linked(t, c)
    BY DEF ExecuteTasksCompletes
  <2>1. \A c \in CPUs : ~Linked(t, c)
    BY DEF IInv, RoundInv
  <2>2. state[t] \in TaskStates
    BY DEF IInv, TypeOK
  <2>3. QED
    BY <2>1, <2>2 DEF IInv, StateInv, TaskStates
<1>2. QED
  BY <1>1, SpecIInv, PTL
============================================================================
