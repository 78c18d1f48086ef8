-------------------------- MODULE SchedTaskSteps ---------------------------
(***************************************************************************)
(* The steps of run_tasks on the task under its cursor, and of the cursor, *)
(* keep the invariant.                                                     *)
(***************************************************************************)
EXTENDS SchedInvariant

USE DEF taskVars, queueVars, runStateVars, cursorVars, newVars, bspVars

\* run_task starts a SCHEDULED task on the CPU whose queue it is in.
LEMMA RunTaskKeeps ==
  ASSUME IInv, NEW c \in CPUs, RunTask(c)
  PROVE  IInv'
<1>1. \A t, d : Linked(t, d)' <=> Linked(t, d)
  BY DEF RunTask, Linked
<1>2. queue' = queue
  BY DEF RunTask
<1>3. task[c] \in Tasks /\ Linked(task[c], c) /\ taskCpu[task[c]] = c /\ state[task[c]] = "SCHEDULED"
  BY DEF IInv, RunTask, Goto, TypeOK, CursorInv, CursorOK, StateInv
<1>4. (IF runs[task[c]] < MaxRuns THEN runs[task[c]] + 1 ELSE runs[task[c]]) \in 0 .. MaxRuns
  BY <1>3, MaxRunsType DEF IInv, TypeOK
<1>11. TypeOK'
  BY <1>3, <1>4 DEF IInv, RunTask, Goto, TypeOK, Locations, ScheduleLocations,
      DestroyLocations, RunLocations, MainLocations, TaskStates
<1>12. LinkedOnce'
  BY <1>2 DEF IInv, LinkedOnce
<1>13. NewTaskInv'
  BY <1>1, <1>3 DEF IInv, RunTask, Goto, TypeOK, NewTaskInv, ScheduleLocations,
      Scheduling
<1>14. StateInv'
  BY <1>1, <1>3 DEF IInv, RunTask, Goto, TypeOK, StateInv, CursorInv, CursorOK,
      Executing, ScheduleLocations, DestroyLocations
<1>15. CursorInv'
  BY SMTT(20), <1>1, <1>3 DEF IInv, RunTask, Goto, TypeOK, CursorInv, CursorOK, StateInv,
      ScheduleLocations, DestroyLocations, MainLocations, Executing, NoCursor
<1>16. RepeatInv'
  <2> SUFFICES ASSUME NEW t \in Tasks
               PROVE  RepeatOK(t)'
    BY DEF RepeatInv
  <2>1. CASE t = task[c]
    <3>1. /\ state'[t] = "RUNNING" /\ repeat' = repeat /\ asked' = asked
          /\ runs'[t] = IF runs[t] < MaxRuns THEN runs[t] + 1 ELSE runs[t]
      BY <2>1 DEF IInv, RunTask, TypeOK
    <3>2. /\ RepeatOK(t) /\ state[t] = "SCHEDULED" /\ runs[t] \in Nat
          /\ asked[t] \in Nat /\ repeat[t] \in Nat
      BY <2>1, <1>3 DEF IInv, TypeOK, RepeatInv
    <3>3. asked[t] < MaxRuns
      BY <3>2, MaxRunsType DEF RepeatOK
    <3>4. QED
      BY <3>1, <3>2, <3>3, MaxRunsType DEF RepeatOK, TASK_REPEAT_LOOP
  <2>2. CASE t # task[c]
    BY <2>2 DEF IInv, RunTask, TypeOK, RepeatInv, RepeatOK
  <2>3. QED
    BY <2>1, <2>2
<1>17. BarrierInv'
  BY DEF IInv, RunTask, Goto, TypeOK, BarrierInv, NewTaskInv, ScheduleLocations
<1>18. RoundInv'
  BY <1>1 DEF IInv, RunTask, Goto, TypeOK, RoundInv
<1>19. QED
  BY <1>11, <1>12, <1>13, <1>14, <1>15, <1>16, <1>17, <1>18 DEF IInv

\* run_task ends: a RUNNING task, linked in the queue of its CPU, is DONE.
LEMMA TaskReturnsKeeps ==
  ASSUME IInv, NEW c \in CPUs, TaskReturns(c)
  PROVE  IInv'
<1>1. \A t, d : Linked(t, d)' <=> Linked(t, d)
  BY DEF TaskReturns, Linked
<1>2. queue' = queue
  BY DEF TaskReturns
<1>3. task[c] \in Tasks /\ state[task[c]] = "RUNNING" /\ taskCpu[task[c]] = c
  BY DEF IInv, TaskReturns, Goto, TypeOK, CursorInv, CursorOK, Executing
<1>11. TypeOK'
  BY <1>3 DEF IInv, TaskReturns, Goto, TypeOK, Locations, ScheduleLocations,
      DestroyLocations, RunLocations, MainLocations, TaskStates
<1>12. LinkedOnce'
  BY <1>2 DEF IInv, LinkedOnce
<1>13. NewTaskInv'
  BY <1>1, <1>3 DEF IInv, TaskReturns, Goto, TypeOK, NewTaskInv,
      ScheduleLocations, Scheduling
<1>14. StateInv'
  BY <1>1, <1>3 DEF IInv, TaskReturns, Goto, TypeOK, StateInv, CursorInv,
      CursorOK, Executing, ScheduleLocations, DestroyLocations
<1>15. CursorInv'
  BY SMTT(20), <1>1, <1>3 DEF IInv, TaskReturns, Goto, TypeOK, CursorInv, CursorOK,
      StateInv, ScheduleLocations, DestroyLocations, MainLocations, Executing,
      NoCursor
<1>16. RepeatInv'
  <2> SUFFICES ASSUME NEW t \in Tasks
               PROVE  RepeatOK(t)'
    BY DEF RepeatInv
  <2>1. CASE t = task[c]
    BY <2>1, <1>3 DEF IInv, TaskReturns, TypeOK, RepeatInv, RepeatOK, TASK_REPEAT_ONCE, TASK_REPEAT_LOOP
  <2>2. CASE t # task[c]
    BY <2>2 DEF IInv, TaskReturns, TypeOK, RepeatInv, RepeatOK
  <2>3. QED
    BY <2>1, <2>2
<1>17. BarrierInv'
  BY DEF IInv, TaskReturns, Goto, TypeOK, BarrierInv, NewTaskInv,
      ScheduleLocations
<1>18. RoundInv'
  BY <1>1 DEF IInv, TaskReturns, Goto, TypeOK, RoundInv
<1>19. QED
  BY <1>11, <1>12, <1>13, <1>14, <1>15, <1>16, <1>17, <1>18 DEF IInv

\* process_task_repeat decides to destroy a DONE task on its last run.
LEMMA FinishTaskKeeps ==
  ASSUME IInv, NEW c \in CPUs, FinishTask(c)
  PROVE  IInv'
<1>1. \A t, d : Linked(t, d)' <=> Linked(t, d)
  BY DEF FinishTask, Linked
<1>2. queue' = queue
  BY DEF FinishTask
<1>11. TypeOK'
  BY DEF IInv, FinishTask, Goto, TypeOK, Locations, ScheduleLocations,
      DestroyLocations, RunLocations, MainLocations, TaskStates
<1>12. LinkedOnce'
  BY <1>2 DEF IInv, LinkedOnce
<1>13. NewTaskInv'
  BY <1>1 DEF IInv, FinishTask, Goto, TypeOK, NewTaskInv, ScheduleLocations,
      Scheduling
<1>14. StateInv'
  BY <1>1 DEF IInv, FinishTask, Goto, TypeOK, StateInv, CursorInv, CursorOK,
      Executing, ScheduleLocations, DestroyLocations
<1>15. CursorInv'
  BY <1>1 DEF IInv, FinishTask, Goto, TypeOK, CursorInv, CursorOK, StateInv,
      ScheduleLocations, DestroyLocations, MainLocations, Executing, NoCursor
<1>16. RepeatInv'
  BY DEF IInv, FinishTask, Goto, TypeOK, RepeatInv, RepeatOK
<1>17. BarrierInv'
  BY DEF IInv, FinishTask, Goto, TypeOK, BarrierInv, NewTaskInv,
      ScheduleLocations
<1>18. RoundInv'
  BY <1>1 DEF IInv, FinishTask, Goto, TypeOK, RoundInv
<1>19. QED
  BY <1>11, <1>12, <1>13, <1>14, <1>15, <1>16, <1>17, <1>18 DEF IInv

\* process_task_repeat puts a DONE task back to SCHEDULED with one run less to go.
LEMMA RepeatTaskKeeps ==
  ASSUME IInv, NEW c \in CPUs, RepeatTask(c)
  PROVE  IInv'
<1>1. \A t, d : Linked(t, d)' <=> Linked(t, d)
  BY DEF RepeatTask, Linked
<1>2. queue' = queue
  BY DEF RepeatTask
<1>3. /\ task[c] \in Tasks /\ Linked(task[c], c) /\ taskCpu[task[c]] = c
      /\ state[task[c]] = "DONE" /\ repeat[task[c]] # TASK_REPEAT_ONCE
  BY DEF IInv, RepeatTask, Goto, TypeOK, CursorInv, CursorOK, StateInv
<1>4. repeat[task[c]] \in Nat /\ (repeat[task[c]] # 0 => repeat[task[c]] - 1 \in Nat)
  BY <1>3 DEF IInv, TypeOK
<1>11. TypeOK'
  BY <1>3, <1>4 DEF IInv, RepeatTask, Goto, TASK_REPEAT_LOOP, TypeOK,
      Locations, ScheduleLocations, DestroyLocations, RunLocations,
      MainLocations, TaskStates
<1>12. LinkedOnce'
  BY <1>2 DEF IInv, LinkedOnce
<1>13. NewTaskInv'
  BY <1>1, <1>3 DEF IInv, RepeatTask, Goto, TypeOK, NewTaskInv,
      ScheduleLocations, Scheduling
<1>14. StateInv'
  <2>1. (\A t \in Tasks : state[t] \in {"NONE", "READY"} => taskCpu[t] = NoCpu)'
    BY <1>3 DEF IInv, RepeatTask, TypeOK, StateInv
  <2>2. (\A t \in Tasks, d \in CPUs : Linked(t, d) =>
           /\ state[t] \notin {"NONE", "FREED"}
           /\ state[t] # "READY" => taskCpu[t] = d)'
    BY <1>1, <1>3 DEF IInv, RepeatTask, TypeOK, StateInv
  <2>3. (\A t \in Tasks : state[t] \in {"SCHEDULED", "RUNNING"} =>
           taskCpu[t] \in CPUs /\ Linked(t, taskCpu[t]))'
    BY <1>1, <1>3 DEF IInv, RepeatTask, TypeOK, StateInv
  <2>4. (\A t \in Tasks : state[t] = "RUNNING" =>
           task[taskCpu[t]] = t /\ pc[taskCpu[t]] \in Executing)'
    BY <1>3 DEF IInv, RepeatTask, Goto, TypeOK, StateInv, Executing, ScheduleLocations
  <2>5. QED
    BY <2>1, <2>2, <2>3, <2>4 DEF StateInv
<1>15. CursorInv'
  BY <1>1, <1>3 DEF IInv, RepeatTask, Goto, TypeOK, CursorInv, CursorOK,
      StateInv, ScheduleLocations, DestroyLocations, MainLocations, Executing,
      NoCursor
<1>16. RepeatInv'
  <2> SUFFICES ASSUME NEW t \in Tasks
               PROVE  RepeatOK(t)'
    BY DEF RepeatInv
  <2>1. CASE t = task[c]
    BY <2>1, <1>3, <1>4 DEF IInv, RepeatTask, TypeOK, RepeatInv, RepeatOK, TASK_REPEAT_ONCE, TASK_REPEAT_LOOP
  <2>2. CASE t # task[c]
    BY <2>2 DEF IInv, RepeatTask, TypeOK, RepeatInv, RepeatOK
  <2>3. QED
    BY <2>1, <2>2
<1>17. BarrierInv'
  BY DEF IInv, RepeatTask, Goto, TypeOK, BarrierInv, NewTaskInv,
      ScheduleLocations
<1>18. RoundInv'
  BY <1>1 DEF IInv, RepeatTask, Goto, TypeOK, RoundInv
<1>19. QED
  BY <1>11, <1>12, <1>13, <1>14, <1>15, <1>16, <1>17, <1>18 DEF IInv

\* destroy_task frees a task that is in no queue and has run as asked.
LEMMA KfreeKeeps ==
  ASSUME IInv, NEW c \in CPUs, Kfree(c)
  PROVE  IInv'
<1>1. \A t, d : Linked(t, d)' <=> Linked(t, d)
  BY DEF Kfree, Linked
<1>2. queue' = queue
  BY DEF Kfree
<1>3. /\ task[c] \in Tasks /\ state[task[c]] = "DONE" /\ taskCpu[task[c]] = c
      /\ repeat[task[c]] = TASK_REPEAT_ONCE /\ ~Linked(task[c], c)
  BY DEF IInv, Kfree, Goto, TypeOK, CursorInv, CursorOK, DestroyLocations
<1>11. TypeOK'
  BY SMTT(20), <1>3 DEF IInv, Kfree, Goto, TypeOK, Locations, ScheduleLocations,
      DestroyLocations, RunLocations, MainLocations, TaskStates
<1>12. LinkedOnce'
  BY <1>2 DEF IInv, LinkedOnce
<1>13. NewTaskInv'
  BY <1>1, <1>3 DEF IInv, Kfree, Goto, TypeOK, NewTaskInv, ScheduleLocations,
      Scheduling
<1>14. StateInv'
  BY <1>1, <1>3 DEF IInv, Kfree, Goto, TypeOK, StateInv, CursorInv, CursorOK,
      Executing, ScheduleLocations, DestroyLocations
<1>15. CursorInv'
  BY SMTT(20), <1>1, <1>3 DEF IInv, Kfree, Goto, TypeOK, CursorInv, CursorOK, StateInv,
      ScheduleLocations, DestroyLocations, MainLocations, Executing, NoCursor
<1>16. RepeatInv'
  <2> SUFFICES ASSUME NEW t \in Tasks
               PROVE  RepeatOK(t)'
    BY DEF RepeatInv
  <2>1. CASE t = task[c]
    BY <2>1, <1>3 DEF IInv, Kfree, TypeOK, RepeatInv, RepeatOK, TASK_REPEAT_ONCE, TASK_REPEAT_LOOP
  <2>2. CASE t # task[c]
    BY <2>2 DEF IInv, Kfree, TypeOK, RepeatInv, RepeatOK
  <2>3. QED
    BY <2>1, <2>2
<1>17. BarrierInv'
  BY DEF IInv, Kfree, Goto, TypeOK, BarrierInv, NewTaskInv, ScheduleLocations
<1>18. RoundInv'
  BY <1>1 DEF IInv, Kfree, Goto, TypeOK, RoundInv
<1>19. QED
  BY <1>11, <1>12, <1>13, <1>14, <1>15, <1>16, <1>17, <1>18 DEF IInv

\* The walk arrives at position i of the queue.
LEMMA CursorAtKeeps ==
  ASSUME IInv, NEW c \in CPUs, NEW i \in 1 .. Len(queue[c]) + 1,
         pc[c] \in {"first", "next"}, CursorAt(c, i)
  PROVE  IInv'
<1> DEFINE e == EntryAt(queue[c], i)
           n == EntryAt(queue[c], i + 1)
           to == IF i \in DOMAIN queue[c] THEN "visit" ELSE "is_empty"
<1>1. \A t, d : Linked(t, d)' <=> Linked(t, d)
  BY DEF CursorAt, Linked
<1>2. /\ task' = [task EXCEPT ![c] = e]
      /\ safe' = [safe EXCEPT ![c] = n]
      /\ pc' = [pc EXCEPT ![c] = to]
      /\ UNCHANGED <<taskVars, queueVars, runStateVars, newVars, bspVars>>
  BY DEF CursorAt
<1>3. queue[c] \in Seq(Tasks) /\ DOMAIN queue[c] = 1 .. Len(queue[c]) /\ Len(queue[c]) \in Nat
  BY DEF IInv, TypeOK
<1>4. /\ to \in {"visit", "is_empty"}
      /\ to = "visit" => e \in Tasks /\ Linked(e, c)
      /\ to = "is_empty" => e = ListHead
      /\ n # ListHead => n \in Tasks /\ Linked(n, c) /\ n # e
  <2>1. CASE i \in DOMAIN queue[c] /\ i + 1 \in DOMAIN queue[c]
    BY <1>3, <2>1, SchedAssumption DEF EntryAt, Linked, Entries, IInv, LinkedOnce
  <2>2. CASE i \in DOMAIN queue[c] /\ i + 1 \notin DOMAIN queue[c]
    BY <1>3, <2>2, SchedAssumption DEF EntryAt, Linked, Entries
  <2>3. CASE i \notin DOMAIN queue[c]
    BY <1>3, <2>3 DEF EntryAt
  <2>4. QED
    BY <2>1, <2>2, <2>3
<1> HIDE DEF e, n, to
<1>5. /\ \A d \in CPUs : d # c => pc'[d] = pc[d] /\ task'[d] = task[d]
      /\ pc'[c] = to /\ pc[c] \notin ScheduleLocations /\ pc'[c] \notin ScheduleLocations
  BY <1>2, <1>4 DEF IInv, TypeOK, ScheduleLocations
<1>6. /\ queue' = queue /\ newTask' = newTask /\ newCpu' = newCpu
      /\ state' = state /\ born' = born /\ round' = round
  BY <1>2 DEF taskVars, queueVars, newVars, bspVars
<1>7. /\ Scheduling \subseteq ScheduleLocations
      /\ {"sched_lock", "sched_add"} \subseteq ScheduleLocations
      /\ "sched_state" \in ScheduleLocations
  BY DEF Scheduling, ScheduleLocations
<1>11. TypeOK'
  BY Zenon, <1>1, <1>2, <1>4 DEF IInv, TypeOK, Locations, ScheduleLocations,
      DestroyLocations, RunLocations, MainLocations, TaskStates
<1>12. LinkedOnce'
  BY <1>6 DEF IInv, LinkedOnce
<1>13. NewTaskInv'
  BY <1>1, <1>5, <1>6, <1>7 DEF IInv, NewTaskInv
<1>14. StateInv'
  BY SMTT(20), <1>1, <1>2, <1>4 DEF IInv, TypeOK, StateInv, CursorInv, CursorOK,
      Executing, ScheduleLocations, DestroyLocations
<1>15. CursorInv'
  <2> SUFFICES ASSUME NEW d \in CPUs
               PROVE  CursorOK(d)'
    BY DEF CursorInv
  <2>1. CASE d = c
    BY <1>1, <1>2, <1>4, <2>1, SchedAssumption
       DEF IInv, TypeOK, CursorOK, ScheduleLocations, DestroyLocations, MainLocations,
           Executing, NoCursor
  <2>2. CASE d # c
    BY <1>1, <1>2, <2>2 DEF IInv, TypeOK, CursorInv, CursorOK
  <2>3. QED
    BY <2>1, <2>2
<1>16. RepeatInv'
  BY <1>1, <1>2, <1>4 DEF IInv, TypeOK, RepeatInv, RepeatOK
<1>17. BarrierInv'
  <2>1. pc'[Bsp] # pc[Bsp] => pc'[Bsp] \in {"visit", "is_empty"} /\ pc[Bsp] \in {"first", "next"}
    BY <1>4, <1>5, CpuListType
  <2>2. \A d \in CPUs : pc'[d] # pc[d] => pc'[d] \in {"visit", "is_empty"}
    BY <1>4, <1>5
  <2>3. QED
    BY <1>2, <2>1, <2>2 DEF IInv, BarrierInv
<1>18. RoundInv'
  BY <1>1, <1>2, <1>4 DEF IInv, TypeOK, RoundInv
<1>19. QED
  BY <1>11, <1>12, <1>13, <1>14, <1>15, <1>16, <1>17, <1>18 DEF IInv

\* The walk of run_tasks begins.
LEMMA FirstEntryKeeps ==
  ASSUME IInv, NEW c \in CPUs, FirstEntry(c)
  PROVE  IInv'
<1>1. 1 \in 1 .. Len(queue[c]) + 1
  BY DEF IInv, TypeOK
<1>2. QED
  BY <1>1, CursorAtKeeps DEF FirstEntry

\* The walk of run_tasks goes on at the saved next entry, which is still linked.
LEMMA NextEntryKeeps ==
  ASSUME IInv, NEW c \in CPUs, NextEntry(c)
  PROVE  IInv'
<1>1. queue[c] \in Seq(Tasks)
  BY DEF IInv, TypeOK
<1>2. CASE safe[c] = ListHead
  BY <1>1, <1>2, CursorAtKeeps DEF NextEntry
<1>3. CASE safe[c] # ListHead
  <2>1. PICK i \in DOMAIN queue[c] : CursorAt(c, i)
    BY <1>3 DEF NextEntry
  <2>2. i \in 1 .. Len(queue[c]) + 1
    BY <1>1
  <2>3. QED
    BY <2>1, <2>2, CursorAtKeeps DEF NextEntry
<1>4. QED
  BY <1>2, <1>3

\* The loop of run_tasks ends only when the CPU's own queue is empty.
LEMMA ListIsEmptyKeeps ==
  ASSUME IInv, NEW c \in CPUs, ListIsEmpty(c)
  PROVE  IInv'
<1>1. \A t, d : Linked(t, d)' <=> Linked(t, d)
  BY DEF ListIsEmpty, Linked
<1>2. queue' = queue
  BY DEF ListIsEmpty
<1>3. PICK to \in {"first", "finish", "block"} :
        /\ pc' = [pc EXCEPT ![c] = to]
        /\ to = "block" => c # Bsp
        /\ to = "finish" => queue[c] = <<>>
  BY Zenon DEF ListIsEmpty, Goto
<1>4. /\ pc[c] = "is_empty"
      /\ UNCHANGED <<taskVars, queueVars, runStateVars, cursorVars, newVars, bspVars>>
  BY DEF ListIsEmpty, Goto
<1>11. TypeOK'
  BY <1>1, <1>3, <1>4 DEF IInv, TypeOK, Locations, ScheduleLocations,
      DestroyLocations, RunLocations, MainLocations, TaskStates
<1>12. LinkedOnce'
  BY <1>2 DEF IInv, LinkedOnce
<1>13. NewTaskInv'
  BY <1>1, <1>3, <1>4 DEF IInv, TypeOK, NewTaskInv, ScheduleLocations,
      Scheduling
<1>14. StateInv'
  BY SMTT(20), <1>1, <1>3, <1>4 DEF IInv, TypeOK, StateInv, CursorInv, CursorOK,
      Executing, ScheduleLocations, DestroyLocations
<1>15. CursorInv'
  <2> SUFFICES ASSUME NEW d \in CPUs
               PROVE  CursorOK(d)'
    BY DEF CursorInv
  <2>1. CASE d = c
    BY SMTT(20), <1>1, <1>3, <1>4, <2>1
       DEF IInv, TypeOK, CursorInv, CursorOK, ScheduleLocations, DestroyLocations,
           MainLocations, Executing, NoCursor
  <2>2. CASE d # c
    BY SMTT(20), <1>1, <1>3, <1>4, <2>2 DEF IInv, TypeOK, CursorInv, CursorOK
  <2>3. QED
    BY <2>1, <2>2
<1>16. RepeatInv'
  BY <1>1, <1>3, <1>4 DEF IInv, TypeOK, RepeatInv, RepeatOK
<1>17. BarrierInv'
  BY SMTT(20), <1>1, <1>3, <1>4 DEF IInv, TypeOK, BarrierInv, NewTaskInv,
      ScheduleLocations
<1>18. RoundInv'
  BY <1>1, <1>3, <1>4 DEF IInv, TypeOK, RoundInv
<1>19. QED
  BY <1>11, <1>12, <1>13, <1>14, <1>15, <1>16, <1>17, <1>18 DEF IInv

\* The Bsp gets to wait_for_all_cpus with its own queue empty.
LEMMA SetCpuFinishedKeeps ==
  ASSUME IInv, NEW c \in CPUs, SetCpuFinished(c)
  PROVE  IInv'
<1>1. \A t, d : Linked(t, d)' <=> Linked(t, d)
  BY DEF SetCpuFinished, Linked
<1>2. queue' = queue
  BY DEF SetCpuFinished
<1>3. PICK to \in {"wait_finished", "wait_unblocked"} :
        pc' = [pc EXCEPT ![c] = to] /\ (to = "wait_finished" <=> c = Bsp)
  BY Zenon DEF SetCpuFinished, Goto
<1>4. /\ pc[c] = "finish" /\ finished' = [finished EXCEPT ![c] = TRUE]
      /\ UNCHANGED <<taskVars, queueVars, unblocked, cursorVars, newVars, bspVars>>
  BY DEF SetCpuFinished, Goto
<1>11. TypeOK'
  BY <1>1, <1>3, <1>4 DEF IInv, TypeOK, Locations, ScheduleLocations,
      DestroyLocations, RunLocations, MainLocations, TaskStates
<1>12. LinkedOnce'
  BY <1>2 DEF IInv, LinkedOnce
<1>13. NewTaskInv'
  BY <1>1, <1>3, <1>4 DEF IInv, TypeOK, NewTaskInv, ScheduleLocations,
      Scheduling
<1>14. StateInv'
  BY <1>1, <1>3, <1>4 DEF IInv, TypeOK, StateInv, CursorInv, CursorOK,
      Executing, ScheduleLocations, DestroyLocations
<1>15. CursorInv'
  BY SMTT(20), <1>1, <1>3, <1>4 DEF IInv, TypeOK, CursorInv, CursorOK, StateInv,
      ScheduleLocations, DestroyLocations, MainLocations, Executing, NoCursor
<1>16. RepeatInv'
  BY <1>1, <1>3, <1>4 DEF IInv, TypeOK, RepeatInv, RepeatOK
<1>17. BarrierInv'
  BY <1>1, <1>3, <1>4, CpuListType DEF IInv, TypeOK, BarrierInv, NewTaskInv,
      ScheduleLocations
<1>18. RoundInv'
  BY <1>1, <1>3, <1>4 DEF IInv, TypeOK, RoundInv
<1>19. QED
  BY <1>11, <1>12, <1>13, <1>14, <1>15, <1>16, <1>17, <1>18 DEF IInv
============================================================================
