-------------------------- MODULE SchedQueueSteps --------------------------
(***************************************************************************)
(* The steps that create a task, put it on a queue and take it off keep the *)
(* invariant.                                                              *)
(***************************************************************************)
EXTENDS SchedInvariant

USE DEF taskVars, queueVars, runStateVars, cursorVars, newVars, bspVars

\* new_task makes a task that no queue and no CPU knows yet.
LEMMA NewTaskKeeps ==
  ASSUME IInv, NEW c \in CPUs, NEW t \in Tasks, NEW r \in Repeats,
         NEW cpu \in CPUs \cup {NoCpu}, NewTask(c, t, r, cpu)
  PROVE  IInv'
<1>1. \A u, d : Linked(u, d)' <=> Linked(u, d)
  BY DEF NewTask, Linked
<1>2. /\ state[t] = "NONE" /\ taskCpu[t] = NoCpu
      /\ \A d \in CPUs : ~Linked(t, d)
  BY DEF IInv, NewTask, StateInv
<1>3. asked[t] = 1 /\ repeat[t] = 1 /\ runs[t] = 0
  <2>1. RepeatOK(t) /\ repeat[t] \in Nat /\ runs[t] \in Int
    BY MaxRunsType DEF IInv, TypeOK, RepeatInv
  <2>2. QED
    BY <1>2, <2>1 DEF RepeatOK, TASK_REPEAT_LOOP, TASK_REPEAT_ONCE
<1>4. /\ state' = [state EXCEPT ![t] = "READY"]
      /\ repeat' = [repeat EXCEPT ![t] = r]
      /\ asked' = [asked EXCEPT ![t] = r]
      /\ born' = [born EXCEPT ![t] = round]
      /\ UNCHANGED <<taskCpu, runs, queueVars, runStateVars, cursorVars, bspVars>>
  BY DEF NewTask
<1>5. /\ pc[c] \in {"main", "exec"}
      /\ pc[c] = "main" => c = Bsp
      /\ pc[c] = "exec" => cpu = c
  BY DEF NewTask, MayCreate
<1>6. r \in Nat
  BY SchedAssumption
\* Either way c goes to schedule_task or stays, and no other CPU moves.
<1>7. /\ pc' \in [CPUs -> Locations]
      /\ newTask' \in [CPUs -> Tasks \cup {ListHead}]
      /\ newCpu' \in [CPUs -> CPUs \cup {NoCpu}]
      /\ \A d \in CPUs : d # c =>
           pc'[d] = pc[d] /\ newTask'[d] = newTask[d] /\ newCpu'[d] = newCpu[d]
      /\ pc'[c] \in {pc[c], "sched_lock"}
      /\ pc'[c] = "sched_lock" =>
           newTask'[c] = t /\ newCpu'[c] \in CPUs /\ (pc[c] = "exec" => newCpu'[c] = c)
  <2>1. CASE cpu = NoCpu
    BY <1>5, <2>1 DEF NewTask, IInv, TypeOK
  <2>2. CASE cpu # NoCpu
    <3>1. /\ pc' = [pc EXCEPT ![c] = "sched_lock"]
          /\ newTask' = [newTask EXCEPT ![c] = t]
          /\ newCpu' = [newCpu EXCEPT ![c] = cpu]
      BY <2>2 DEF NewTask
    <3>2. QED
      BY <1>5, <2>2, <3>1 DEF IInv, TypeOK, Locations, ScheduleLocations
  <2>3. QED
    BY <2>1, <2>2
<1>8. /\ state'[t] = "READY" /\ born'[t] = round /\ round' = round
      /\ \A u \in Tasks : u # t => state'[u] = state[u] /\ born'[u] = born[u]
      /\ UNCHANGED <<taskCpu, task, queue, idx>>
  BY <1>4 DEF IInv, TypeOK
<1>11. TypeOK'
  BY SMTT(20), <1>4, <1>6, <1>7 DEF IInv, TypeOK, TaskStates
<1>12. LinkedOnce'
  BY <1>4 DEF IInv, LinkedOnce
<1>13. NewTaskInv'
  <2>1. (pc[c] = "exec" => task[c] # ListHead) /\ (pc[c] = "main" => task[c] = ListHead)
    BY DEF IInv, CursorInv, CursorOK, NoCursor, MainLocations
  <2>2. \A d \in CPUs : d # c /\ pc[d] \in Scheduling => newTask[d] \in Tasks /\ newTask[d] # t
    BY <1>2 DEF IInv, NewTaskInv, ScheduleLocations, Scheduling
  <2>3. (\A d \in CPUs : pc[d] \in ScheduleLocations =>
           /\ newTask[d] \in Tasks /\ newCpu[d] \in CPUs
           /\ IF task[d] = ListHead THEN d = Bsp ELSE newCpu[d] = d)'
    BY <1>5, <1>7, <1>8, <2>1 DEF IInv, NewTaskInv, ScheduleLocations
  <2>4. (\A d \in CPUs : pc[d] \in Scheduling =>
           state[newTask[d]] = "READY" /\ born[newTask[d]] = round)'
    BY <1>5, <1>7, <1>8, <2>2 DEF IInv, NewTaskInv, Scheduling
  <2>5. (\A d \in CPUs :
           /\ pc[d] \in {"sched_lock", "sched_add"} => \A e \in CPUs : ~Linked(newTask[d], e)
           /\ pc[d] = "sched_state" => Linked(newTask[d], newCpu[d]))'
    BY <1>1, <1>2, <1>5, <1>7 DEF IInv, NewTaskInv
  <2>6. (\A d, e \in CPUs : pc[d] \in Scheduling /\ pc[e] \in Scheduling /\ d # e
           => newTask[d] # newTask[e])'
    BY <1>5, <1>7, <2>2 DEF IInv, NewTaskInv, Scheduling
  <2>7. QED
    BY <2>3, <2>4, <2>5, <2>6 DEF NewTaskInv
<1>14. StateInv'
  BY <1>1, <1>2, <1>5, <1>7, <1>8 DEF IInv, StateInv, Executing, ScheduleLocations
<1>15. CursorInv'
  <2> SUFFICES ASSUME NEW d \in CPUs
               PROVE  CursorOK(d)'
    BY DEF CursorInv
  <2>1. CASE d = c
    BY ZenonT(30), <1>1, <1>2, <1>4, <1>5, <1>7, SchedAssumption, <2>1
       DEF IInv, TypeOK, CursorInv, CursorOK, ScheduleLocations, DestroyLocations,
           MainLocations, Executing, NoCursor
  <2>2. CASE d # c
    BY ZenonT(30), <1>1, <1>2, <1>4, <1>7, <2>2 DEF IInv, TypeOK, CursorInv, CursorOK
  <2>3. QED
    BY <2>1, <2>2
<1>16. RepeatInv'
  <2> SUFFICES ASSUME NEW u \in Tasks
               PROVE  RepeatOK(u)'
    BY DEF RepeatInv
  <2>1. CASE u = t
    BY <1>3, <1>4, <1>6, <2>1 DEF IInv, TypeOK, RepeatOK, TASK_REPEAT_ONCE, TASK_REPEAT_LOOP
  <2>2. CASE u # t
    BY <1>4, <2>2 DEF IInv, TypeOK, RepeatInv, RepeatOK
  <2>3. QED
    BY <2>1, <2>2
<1>17. BarrierInv'
  BY <1>5, <1>7, <1>8, CpuListType DEF IInv, BarrierInv
<1>18. RoundInv'
  <2>1. (pc[Bsp] # "echo" => round <= NrTests + 1)'
    BY <1>5, <1>7, <1>8, CpuListType DEF IInv, RoundInv
  <2>2. \A u \in Tasks : born'[u] <= round'
    <3>1. round \in Int
      BY SchedAssumption DEF IInv, TypeOK
    <3>2. QED
      BY <1>8, <3>1 DEF IInv, RoundInv
  <2>3. (\A u \in Tasks : taskCpu[u] # NoCpu /\ born[u] < round =>
           \A d \in CPUs : ~Linked(u, d))'
    BY <1>1, <1>2, <1>8 DEF IInv, RoundInv
  <2>4. QED
    BY <2>1, <2>2, <2>3 DEF RoundInv
<1>19. QED
  BY <1>11, <1>12, <1>13, <1>14, <1>15, <1>16, <1>17, <1>18 DEF IInv

\* schedule_task links a READY task that is in no queue.
LEMMA ScheduleAddKeeps ==
  ASSUME IInv, NEW c \in CPUs, ScheduleAdd(c)
  PROVE  IInv'
<1>1. /\ newTask[c] \in Tasks /\ newCpu[c] \in CPUs /\ state[newTask[c]] = "READY"
      /\ taskCpu[newTask[c]] = NoCpu
      /\ \A d \in CPUs : ~Linked(newTask[c], d)
  BY DEF IInv, ScheduleAdd, Goto, NewTaskInv, StateInv, ScheduleLocations, Scheduling
<1>2. /\ pc[c] = "sched_add" /\ pc' = [pc EXCEPT ![c] = "sched_state"]
      /\ queue' = [queue EXCEPT ![newCpu[c]] = Append(@, newTask[c])]
      /\ UNCHANGED <<taskVars, lock, runStateVars, cursorVars, newVars, bspVars>>
  BY DEF ScheduleAdd, Goto
<1>3. \A t, d : d \in CPUs =>
        (Linked(t, d)' <=> Linked(t, d) \/ (t = newTask[c] /\ d = newCpu[c]))
  BY <1>1, <1>2, LinkedAppend DEF IInv, TypeOK, Linked
<1>4. c # Bsp => newCpu[c] = c /\ queue[c] # <<>>
  <2>1. c # Bsp => task[c] \in Tasks /\ newCpu[c] = c
    BY <1>2 DEF IInv, TypeOK, NewTaskInv, ScheduleLocations
  <2>2. c # Bsp => Linked(task[c], c)
    BY <1>2, <2>1, SchedAssumption DEF IInv, CursorInv, CursorOK, StateInv, Executing, ScheduleLocations
  <2>3. QED
    BY <2>1, <2>2 DEF Linked, Entries
<1>5. queue[newCpu[c]] \in Seq(Tasks) /\ Append(queue[newCpu[c]], newTask[c]) \in Seq(Tasks)
  BY <1>1 DEF IInv, TypeOK
<1>11. TypeOK'
  BY SMTT(20), <1>1, <1>2, <1>5 DEF IInv, TypeOK, Locations, ScheduleLocations,
      DestroyLocations, RunLocations, MainLocations, TaskStates
<1>12. LinkedOnce'
  <2> DEFINE q == queue[newCpu[c]]
  <2>1. /\ Len(queue'[newCpu[c]]) = Len(q) + 1
        /\ \A i \in 1 .. Len(q) : queue'[newCpu[c]][i] = q[i]
        /\ queue'[newCpu[c]][Len(q) + 1] = newTask[c]
        /\ DOMAIN queue'[newCpu[c]] = 1 .. Len(q) + 1
        /\ DOMAIN q = 1 .. Len(q)
        /\ Len(q) \in Nat
    BY <1>1, <1>2, <1>5 DEF IInv, TypeOK
  <2>2. \A d \in CPUs : d # newCpu[c] => queue'[d] = queue[d]
    BY <1>2 DEF IInv, TypeOK
  <2>3. \A d \in CPUs : \A i \in DOMAIN queue[d] : queue[d][i] # newTask[c]
    BY <1>1 DEF Linked, Entries
  <2>4. ASSUME NEW d \in CPUs, NEW j \in DOMAIN queue'[d]
        PROVE  \/ j \in DOMAIN queue[d] /\ queue'[d][j] = queue[d][j]
               \/ d = newCpu[c] /\ j = Len(q) + 1 /\ queue'[d][j] = newTask[c]
    <3>1. CASE d = newCpu[c]
      BY <2>1, <3>1
    <3>2. CASE d # newCpu[c]
      BY <2>2, <3>2
    <3>3. QED
      BY <3>1, <3>2
  <2> HIDE DEF q
  <2>5. QED
    BY <2>3, <2>4 DEF IInv, LinkedOnce
<1>13. NewTaskInv'
  BY <1>1, <1>2, <1>3 DEF IInv, TypeOK, NewTaskInv, ScheduleLocations,
      Scheduling
<1>14. StateInv'
  BY <1>1, <1>2, <1>3 DEF IInv, TypeOK, StateInv, CursorInv, CursorOK,
      Executing, ScheduleLocations, DestroyLocations
<1>15. CursorInv'
  BY SMTT(20), <1>1, <1>2, <1>3 DEF IInv, TypeOK, CursorInv, CursorOK, StateInv,
      ScheduleLocations, DestroyLocations, MainLocations, Executing, NoCursor
<1>16. RepeatInv'
  BY <1>2 DEF IInv, TypeOK, RepeatInv, RepeatOK
<1>17. BarrierInv'
  <2>1. \A d \in CPUs : d # newCpu[c] => queue'[d] = queue[d]
    BY <1>2 DEF IInv, TypeOK
  <2>2. CASE c = Bsp
    BY <1>2, <2>2, CpuListType DEF IInv, TypeOK, BarrierInv
  <2>3. CASE c # Bsp
    <3>1. \A d \in CPUs : queue[d] = <<>> => queue'[d] = <<>>
      BY <1>4, <2>1, <2>3
    <3>2. \A j \in 1 .. idx - 1 : CpuList[j] \in CPUs
      BY CpuListType DEF IInv, TypeOK
    <3>3. QED
      BY <1>2, <2>3, <3>1, <3>2, CpuListType DEF IInv, TypeOK, BarrierInv
  <2>4. QED
    BY <2>2, <2>3
<1>18. RoundInv'
  BY <1>1, <1>2, <1>3 DEF IInv, TypeOK, RoundInv
<1>19. QED
  BY <1>11, <1>12, <1>13, <1>14, <1>15, <1>16, <1>17, <1>18 DEF IInv

\* schedule_task sets task->cpu and makes the linked READY task SCHEDULED.
LEMMA ScheduleStateKeeps ==
  ASSUME IInv, NEW c \in CPUs, ScheduleState(c)
  PROVE  IInv'
<1>1. \A t, d : Linked(t, d)' <=> Linked(t, d)
  BY DEF ScheduleState, Linked
<1>2. queue' = queue
  BY Zenon DEF ScheduleState, queueVars
<1>5. /\ pc[c] = "sched_state" /\ pc' = [pc EXCEPT ![c] = "sched_unlock"]
      /\ taskCpu' = [taskCpu EXCEPT ![newTask[c]] = newCpu[c]]
      /\ state' = [state EXCEPT ![newTask[c]] = "SCHEDULED"]
      /\ UNCHANGED <<repeat, runs, asked, born, queueVars, runStateVars, cursorVars,
                     newVars, bspVars>>
  BY DEF ScheduleState, Goto
<1>3. /\ newTask[c] \in Tasks /\ newCpu[c] \in CPUs /\ state[newTask[c]] = "READY"
      /\ taskCpu[newTask[c]] = NoCpu /\ born[newTask[c]] = round
      /\ Linked(newTask[c], newCpu[c])
  <2>1. pc[c] = "sched_state"
    BY <1>5
  <2>2. pc[c] \in ScheduleLocations /\ pc[c] \in {"sched_state", "sched_unlock"}
    BY <2>1 DEF ScheduleLocations
  <2>3. QED
    BY <2>1, <2>2 DEF IInv, NewTaskInv, StateInv, Scheduling
<1>4. \A d \in CPUs : Linked(newTask[c], d) => d = newCpu[c]
  BY Zenon, <1>3, OneList DEF IInv
<1>11. TypeOK'
  BY SMTT(20), <1>3, <1>5 DEF IInv, TypeOK, Locations, ScheduleLocations,
      DestroyLocations, RunLocations, MainLocations, TaskStates
<1>12. LinkedOnce'
  BY <1>2 DEF IInv, LinkedOnce
<1>13. NewTaskInv'
  BY <1>1, <1>3, <1>5 DEF IInv, TypeOK, NewTaskInv, ScheduleLocations,
      Scheduling
<1>14. StateInv'
  <2>1. (\A t \in Tasks : state[t] \in {"NONE", "READY"} => taskCpu[t] = NoCpu)'
    BY <1>3, <1>5 DEF IInv, TypeOK, StateInv
  <2>2. (\A t \in Tasks, d \in CPUs : Linked(t, d) =>
           /\ state[t] \notin {"NONE", "FREED"}
           /\ state[t] # "READY" => taskCpu[t] = d)'
    BY <1>1, <1>3, <1>4, <1>5 DEF IInv, TypeOK, StateInv
  <2>3. (\A t \in Tasks : state[t] \in {"SCHEDULED", "RUNNING"} =>
           taskCpu[t] \in CPUs /\ Linked(t, taskCpu[t]))'
    BY SMTT(20), <1>1, <1>3, <1>5 DEF IInv, TypeOK, StateInv
  <2>4. (\A t \in Tasks : state[t] = "RUNNING" =>
           task[taskCpu[t]] = t /\ pc[taskCpu[t]] \in Executing)'
    BY <1>3, <1>5 DEF IInv, TypeOK, StateInv, Executing, ScheduleLocations
  <2>5. QED
    BY <2>1, <2>2, <2>3, <2>4 DEF StateInv
<1>15. CursorInv'
  BY SMTT(20), <1>1, <1>3, <1>4, <1>5, SchedAssumption DEF IInv, TypeOK, CursorInv,
      CursorOK, StateInv, ScheduleLocations, DestroyLocations, MainLocations,
      Executing, NoCursor
<1>16. RepeatInv'
  BY <1>3, <1>5 DEF IInv, TypeOK, RepeatInv, RepeatOK
<1>17. BarrierInv'
  BY <1>5 DEF IInv, TypeOK, BarrierInv, NewTaskInv, ScheduleLocations
<1>18. RoundInv'
  BY <1>1, <1>3, <1>5 DEF IInv, TypeOK, RoundInv
<1>19. QED
  BY <1>11, <1>12, <1>13, <1>14, <1>15, <1>16, <1>17, <1>18 DEF IInv

\* destroy_task unlinks the cursor and nothing else: the saved next entry stays.
LEMMA DestroyUnlinkKeeps ==
  ASSUME IInv, NEW c \in CPUs, DestroyUnlink(c)
  PROVE  IInv'
<1>1. task[c] \in Tasks /\ taskCpu[task[c]] = c /\ Linked(task[c], c) /\ state[task[c]] = "DONE"
  BY DEF IInv, DestroyUnlink, Goto, TypeOK, CursorInv, CursorOK, DestroyLocations
<1>2. \E i \in DOMAIN queue[c] :
        queue[c][i] = task[c] /\ queue' = [queue EXCEPT ![c] = ListUnlink(@, i)]
  BY Zenon, <1>1 DEF DestroyUnlink
<1>3. /\ pc[c] = "destroy_unlink" /\ pc' = [pc EXCEPT ![c] = "destroy_unlock"]
      /\ UNCHANGED <<taskVars, lock, runStateVars, cursorVars, newVars, bspVars>>
  BY Zenon DEF DestroyUnlink, Goto
<1>4. /\ queue[c] \in Seq(Tasks) /\ queue[c] # <<>>
      /\ \A d \in CPUs : d # c => queue'[d] = queue[d]
      /\ queue' \in [CPUs -> Seq(Tasks)]
  BY SMTT(20), <1>2, ListUnlinkIs DEF IInv, TypeOK
<1>5. Entries(queue'[c]) = Entries(queue[c]) \ {task[c]}
  <2>1. \A j, k \in DOMAIN queue[c] : queue[c][j] = queue[c][k] => j = k
    BY DEF IInv, LinkedOnce
  <2>2. PICK i \in DOMAIN queue[c] :
          queue[c][i] = task[c] /\ queue'[c] = ListUnlink(queue[c], i)
    BY <1>2 DEF IInv, TypeOK
  <2>3. QED
    BY Zenon, <1>4, <2>1, <2>2, LinkedRemove
<1>6. \A t, d : d \in CPUs => (Linked(t, d)' <=> Linked(t, d) /\ ~(t = task[c] /\ d = c))
  BY <1>4, <1>5 DEF Linked
<1>7. \A d \in CPUs : Linked(task[c], d) => d = c
  BY <1>1 DEF IInv, LinkedOnce, Linked, Entries
<1>11. TypeOK'
  BY Zenon, <1>3, <1>4 DEF IInv, TypeOK, Locations, ScheduleLocations,
      DestroyLocations, RunLocations, MainLocations, TaskStates
<1>12. LinkedOnce'
  <2>1. PICK i \in DOMAIN queue[c] :
          queue[c][i] = task[c] /\ queue'[c] = ListUnlink(queue[c], i)
    BY <1>2 DEF IInv, TypeOK
  <2> DEFINE q == queue[c]
             r == queue'[c]
  <2>2. /\ q \in Seq(Tasks) /\ i \in 1 .. Len(q) /\ Len(q) \in Nat
        /\ DOMAIN q = 1 .. Len(q)
    BY <1>4
  <2>3. /\ r \in Seq(Tasks) /\ Len(r) = Len(q) - 1
        /\ \A j \in 1 .. Len(q) - 1 : r[j] = IF j < i THEN q[j] ELSE q[j + 1]
    BY Zenon, <2>1, <2>2, ListUnlinkIs
  <2>4. DOMAIN r = 1 .. Len(q) - 1
    BY <2>3
  <2> HIDE DEF q, r
  <2> DEFINE old(x, n) == IF x = c /\ n >= i THEN n + 1 ELSE n
  <2>5. ASSUME NEW d \in CPUs, NEW j \in DOMAIN queue'[d]
        PROVE  old(d, j) \in DOMAIN queue[d] /\ queue[d][old(d, j)] = queue'[d][j]
    <3>1. CASE d = c /\ j >= i
      <4>1. j \in 1 .. Len(q) - 1 /\ ~(j < i) /\ old(d, j) = j + 1 /\ j + 1 \in DOMAIN q
        BY <2>2, <2>4, <3>1 DEF r
      <4>2. QED
        BY <2>3, <3>1, <4>1 DEF q, r
    <3>2. CASE d = c /\ ~(j >= i)
      <4>1. j \in 1 .. Len(q) - 1 /\ j < i /\ old(d, j) = j /\ j \in DOMAIN q
        BY <2>2, <2>4, <3>2 DEF r
      <4>2. QED
        BY <2>3, <3>2, <4>1 DEF q, r
    <3>3. CASE d # c
      BY <1>4, <3>3
    <3>4. QED
      BY <3>1, <3>2, <3>3
  <2>6. ASSUME NEW d \in CPUs, NEW e \in CPUs,
               NEW j \in DOMAIN queue'[d], NEW k \in DOMAIN queue'[e],
               queue'[d][j] = queue'[e][k]
        PROVE  d = e /\ j = k
    <3>1. d = e /\ old(d, j) = old(e, k)
      BY <2>5, <2>6 DEF IInv, LinkedOnce
    <3>2. CASE d = c
      BY <2>2, <2>4, <3>1, <3>2 DEF r
    <3>3. CASE d # c
      BY <3>1, <3>3
    <3>4. QED
      BY <3>2, <3>3
  <2>7. QED
    BY <2>6 DEF LinkedOnce
<1>13. NewTaskInv'
  BY <1>1, <1>3, <1>6 DEF IInv, TypeOK, NewTaskInv, ScheduleLocations,
      Scheduling
<1>14. StateInv'
  BY <1>1, <1>3, <1>6, <1>7 DEF IInv, TypeOK, StateInv, CursorInv, CursorOK,
      Executing, ScheduleLocations, DestroyLocations
<1>15. CursorInv'
  <2> SUFFICES ASSUME NEW d \in CPUs
               PROVE  CursorOK(d)'
    BY DEF CursorInv
  <2>1. CASE d = c
    BY <1>1, <1>3, <1>6, <2>1
       DEF IInv, TypeOK, CursorInv, CursorOK, ScheduleLocations, DestroyLocations,
           MainLocations, Executing, NoCursor
  <2>2. CASE d # c
    BY <1>1, <1>3, <1>6, <1>7, <2>2 DEF IInv, TypeOK, CursorInv, CursorOK
  <2>3. QED
    BY <2>1, <2>2
<1>16. RepeatInv'
  BY <1>3 DEF IInv, TypeOK, RepeatInv, RepeatOK
<1>17. BarrierInv'
  <2>1. \A d \in CPUs : queue[d] = <<>> => queue'[d] = <<>>
    BY <1>4
  <2>2. \A j \in 1 .. idx - 1 : CpuList[j] \in CPUs
    BY CpuListType DEF IInv, TypeOK
  <2>3. QED
    BY Zenon, <1>3, <2>1, <2>2, CpuListType DEF IInv, TypeOK, BarrierInv
<1>18. RoundInv'
  BY <1>1, <1>3, <1>6 DEF IInv, TypeOK, RoundInv
<1>19. QED
  BY <1>11, <1>12, <1>13, <1>14, <1>15, <1>16, <1>17, <1>18 DEF IInv
============================================================================
