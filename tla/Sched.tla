------------------------------- MODULE Sched -------------------------------
(***************************************************************************)
(* The task scheduler of common/sched.c with the CPU run states of         *)
(* common/cpu.c and the boot CPU's main program of common/kernel.c.        *)
(*                                                                         *)
(* The boot CPU (Bsp) runs kernel_main: execute_tasks, then for each test  *)
(* on the command line the test function followed by execute_tasks, then   *)
(* execute_tasks once more and the echo loop.  A test function creates     *)
(* tasks and queues them on any CPU.  The other CPUs run                   *)
(* `while (true) run_tasks(cpu)' (smp/smp.c).  A task that runs may queue  *)
(* further tasks on its own CPU, as AcpiOsExecute does.                    *)
(*                                                                         *)
(* A step is one access to memory that CPUs share: a spinlock, a run state *)
(* bit, a link of a task queue, a task's state.  The queues are only       *)
(* locked by schedule_task and destroy_task; run_tasks walks them, and     *)
(* wait_for_all_cpus looks at them, without the lock.                      *)
(***************************************************************************)
EXTENDS Integers, Sequences, FiniteSets

CONSTANTS CpuList,    \* the list `cpus' of common/cpu.c, in list order
          Bsp,        \* the boot CPU, an element of CpuList
          Tasks,      \* the task structures a run can allocate
          ListHead,   \* the list head a cursor ends on; not a task
          NoCpu,      \* what get_cpu returns for an id it does not know
          Repeats,    \* values of task->repeat a test asks for
          NrTests     \* the number of tests on the command line

TASK_REPEAT_LOOP == 0
TASK_REPEAT_ONCE == 1

CPUs == {CpuList[i] : i \in DOMAIN CpuList}

ASSUME SchedAssumption ==
  /\ CpuList \in Seq(CPUs)
  /\ Bsp \in CPUs
  /\ NoCpu \notin CPUs
  /\ ListHead \notin Tasks
  /\ Repeats \subseteq Nat
  /\ \E n \in Repeats : \A m \in Repeats : m <= n
  /\ NrTests \in Nat

VARIABLES
  state,      \* task->state; "NONE" before create_task, "FREED" after kfree
  repeat,     \* task->repeat
  taskCpu,    \* task->cpu
  queue,      \* cpu->task_queue
  lock,       \* cpu->lock
  unblocked,  \* the bit CPU_UNBLOCKED of cpu->run_state
  finished,   \* the bit CPU_FINISHED of cpu->run_state
  pc,         \* where each CPU is
  task,       \* the cursor of run_tasks
  safe,       \* the saved next entry of list_for_each_entry_safe
  newTask,    \* the task a CPU is in schedule_task for
  newCpu,     \* the CPU that schedule_task is to queue it on
  idx,        \* the Bsp's position in CpuList
  round,      \* how many times execute_tasks has returned
  runs,       \* history: how often a task was run (capped above any repeat)
  asked,      \* history: the repeat count a task was created with
  born        \* history: the round a task was created in

taskVars == <<state, repeat, taskCpu, runs, asked, born>>
queueVars == <<queue, lock>>
runStateVars == <<unblocked, finished>>
cursorVars == <<task, safe>>
newVars == <<newTask, newCpu>>
bspVars == <<idx, round>>
vars == <<taskVars, queueVars, runStateVars, pc, cursorVars, newVars, bspVars>>

Aps == CPUs \ {Bsp}

\* The entries of a list, and list_unlink of the one at position i.
Entries(list) == {list[i] : i \in DOMAIN list}
ListUnlink(list, i) ==
  [j \in 1 .. Len(list) - 1 |-> IF j < i THEN list[j] ELSE list[j + 1]]

TaskStates == {"NONE", "READY", "SCHEDULED", "RUNNING", "DONE", "FREED"}

ScheduleLocations == {"sched_lock", "sched_add", "sched_state", "sched_unlock"}
DestroyLocations == {"destroy_lock", "destroy_unlink", "destroy_unlock", "kfree"}
RunLocations == {"wait_unblocked", "unfinish", "first", "visit", "exec", "next",
                 "is_empty", "block", "finish", "bug"}
MainLocations == {"main", "unblock", "wait_finished", "wait_empty", "echo"}

Locations ==
  ScheduleLocations \cup DestroyLocations \cup RunLocations \cup MainLocations

\* The cap on the history variable runs.
MaxRuns == 1 + CHOOSE n \in Repeats : \A m \in Repeats : m <= n

Goto(c, from, to) ==
  /\ pc[c] = from
  /\ pc' = [pc EXCEPT ![c] = to]

Init ==
  /\ state = [t \in Tasks |-> "NONE"]
  /\ repeat = [t \in Tasks |-> TASK_REPEAT_ONCE]
  /\ taskCpu = [t \in Tasks |-> NoCpu]
  /\ queue = [c \in CPUs |-> <<>>]
  /\ lock = [c \in CPUs |-> FALSE]
  /\ unblocked = [c \in CPUs |-> c = Bsp]
  /\ finished = [c \in CPUs |-> FALSE]
  /\ pc = [c \in CPUs |-> IF c = Bsp THEN "main" ELSE "wait_unblocked"]
  /\ task = [c \in CPUs |-> ListHead]
  /\ safe = [c \in CPUs |-> ListHead]
  /\ newTask = [c \in CPUs |-> ListHead]
  /\ newCpu = [c \in CPUs |-> NoCpu]
  /\ idx = 1
  /\ round = 0
  /\ runs = [t \in Tasks |-> 0]
  /\ asked = [t \in Tasks |-> TASK_REPEAT_ONCE]
  /\ born = [t \in Tasks |-> 0]

(***************************************************************************)
(* new_task and schedule_task.                                             *)
(***************************************************************************)

\* A test function on the Bsp, or a task's function on any CPU.
MayCreate(c, cpu) ==
  \/ /\ c = Bsp /\ pc[c] = "main" /\ round \in 1 .. NrTests
     /\ cpu \in CPUs \cup {NoCpu}
  \/ pc[c] = "exec" /\ cpu = c

\* new_task (create_task, prepare_task) and set_task_repeat: the task is
\* private to its creator.  Then schedule_task is called, which refuses a CPU
\* that does not exist and leaves the task READY.
NewTask(c, t, r, cpu) ==
  /\ MayCreate(c, cpu)
  /\ state[t] = "NONE"
  /\ state' = [state EXCEPT ![t] = "READY"]
  /\ repeat' = [repeat EXCEPT ![t] = r]
  /\ asked' = [asked EXCEPT ![t] = r]
  /\ born' = [born EXCEPT ![t] = round]
  /\ IF cpu = NoCpu
       THEN UNCHANGED <<pc, newVars>>
       ELSE /\ pc' = [pc EXCEPT ![c] = "sched_lock"]
            /\ newTask' = [newTask EXCEPT ![c] = t]
            /\ newCpu' = [newCpu EXCEPT ![c] = cpu]
  /\ UNCHANGED <<taskCpu, runs, queueVars, runStateVars, cursorVars, bspVars>>

\* spin_lock(&cpu->lock)
ScheduleLock(c) ==
  /\ Goto(c, "sched_lock", "sched_add")
  /\ ~lock[newCpu[c]]
  /\ lock' = [lock EXCEPT ![newCpu[c]] = TRUE]
  /\ UNCHANGED <<taskVars, queue, runStateVars, cursorVars, newVars, bspVars>>

\* list_add_tail(&task->list, &cpu->task_queue)
ScheduleAdd(c) ==
  /\ Goto(c, "sched_add", "sched_state")
  /\ queue' = [queue EXCEPT ![newCpu[c]] = Append(@, newTask[c])]
  /\ UNCHANGED <<taskVars, lock, runStateVars, cursorVars, newVars, bspVars>>

\* Mutant: task->cpu is the CPU that runs schedule_task.
ScheduleStateOnCaller(c) ==
  /\ Goto(c, "sched_state", "sched_unlock")
  /\ taskCpu' = [taskCpu EXCEPT ![newTask[c]] = c]
  /\ state' = [state EXCEPT ![newTask[c]] = "SCHEDULED"]
  /\ UNCHANGED <<repeat, runs, asked, born, queueVars, runStateVars, cursorVars,
                 newVars, bspVars>>

\* task->cpu = cpu; set_task_state(task, TASK_STATE_SCHEDULED)
ScheduleState(c) ==
  /\ Goto(c, "sched_state", "sched_unlock")
  /\ taskCpu' = [taskCpu EXCEPT ![newTask[c]] = newCpu[c]]
  /\ state' = [state EXCEPT ![newTask[c]] = "SCHEDULED"]
  /\ UNCHANGED <<repeat, runs, asked, born, queueVars, runStateVars, cursorVars,
                 newVars, bspVars>>

\* spin_unlock(&cpu->lock), and back to the test or to the task that called.
ScheduleUnlock(c) ==
  /\ Goto(c, "sched_unlock", IF task[c] = ListHead THEN "main" ELSE "exec")
  /\ lock' = [lock EXCEPT ![newCpu[c]] = FALSE]
  /\ newTask' = [newTask EXCEPT ![c] = ListHead]
  /\ newCpu' = [newCpu EXCEPT ![c] = NoCpu]
  /\ UNCHANGED <<taskVars, queue, runStateVars, cursorVars, bspVars>>

(***************************************************************************)
(* run_tasks.                                                              *)
(***************************************************************************)

\* wait_cpu_unblocked
WaitCpuUnblocked(c) ==
  /\ Goto(c, "wait_unblocked", "unfinish")
  /\ unblocked[c]
  /\ UNCHANGED <<taskVars, queueVars, runStateVars, cursorVars, newVars, bspVars>>

SetCpuUnfinished(c) ==
  /\ Goto(c, "unfinish", "first")
  /\ finished' = [finished EXCEPT ![c] = FALSE]
  /\ UNCHANGED <<taskVars, queueVars, unblocked, cursorVars, newVars, bspVars>>

\* list_for_each_entry_safe arrives at position i of the CPU's own queue.
EntryAt(q, i) == IF i \in DOMAIN q THEN q[i] ELSE ListHead

CursorAt(c, i) ==
  /\ task' = [task EXCEPT ![c] = EntryAt(queue[c], i)]
  /\ safe' = [safe EXCEPT ![c] = EntryAt(queue[c], i + 1)]
  /\ pc' = [pc EXCEPT ![c] = IF i \in DOMAIN queue[c] THEN "visit" ELSE "is_empty"]
  /\ UNCHANGED <<taskVars, queueVars, runStateVars, newVars, bspVars>>

FirstEntry(c) == pc[c] = "first" /\ CursorAt(c, 1)

NextEntry(c) ==
  /\ pc[c] = "next"
  /\ IF safe[c] = ListHead
       THEN CursorAt(c, Len(queue[c]) + 1)
       ELSE \E i \in DOMAIN queue[c] : queue[c][i] = safe[c] /\ CursorAt(c, i)

\* case TASK_STATE_SCHEDULED: run_task up to the call of the task's function.
RunTask(c) ==
  /\ Goto(c, "visit", "exec")
  /\ state[task[c]] = "SCHEDULED"
  /\ state' = [state EXCEPT ![task[c]] = "RUNNING"]
  /\ runs' = [runs EXCEPT ![task[c]] = IF @ < MaxRuns THEN @ + 1 ELSE @]
  /\ UNCHANGED <<repeat, taskCpu, asked, born, queueVars, runStateVars, cursorVars,
                 newVars, bspVars>>

\* Mutant: run_task itself runs a task that repeats for ever again.
TaskReturnsToLoop(c) ==
  /\ Goto(c, "exec", IF repeat[task[c]] = TASK_REPEAT_LOOP THEN "visit" ELSE "next")
  /\ state' = [state EXCEPT ![task[c]] =
                 IF repeat[task[c]] = TASK_REPEAT_LOOP THEN "SCHEDULED" ELSE "DONE"]
  /\ UNCHANGED <<repeat, taskCpu, runs, asked, born, queueVars, runStateVars,
                 cursorVars, newVars, bspVars>>

\* The task's function returns: the end of run_task.
TaskReturns(c) ==
  /\ Goto(c, "exec", "next")
  /\ state' = [state EXCEPT ![task[c]] = "DONE"]
  /\ UNCHANGED <<repeat, taskCpu, runs, asked, born, queueVars, runStateVars,
                 cursorVars, newVars, bspVars>>

\* Mutant: a task that repeats is queued once more.
RepeatTaskRequeues(c) ==
  /\ Goto(c, "visit", "next")
  /\ state[task[c]] = "DONE"
  /\ repeat[task[c]] # TASK_REPEAT_ONCE
  /\ repeat' = [repeat EXCEPT ![task[c]] =
                  IF @ = TASK_REPEAT_LOOP THEN @ ELSE @ - 1]
  /\ state' = [state EXCEPT ![task[c]] = "SCHEDULED"]
  /\ queue' = [queue EXCEPT ![c] = Append(@, task[c])]
  /\ UNCHANGED <<taskCpu, runs, asked, born, lock, runStateVars, cursorVars,
                 newVars, bspVars>>

\* case TASK_STATE_DONE: process_task_repeat of a task that is to run again.
RepeatTask(c) ==
  /\ Goto(c, "visit", "next")
  /\ state[task[c]] = "DONE"
  /\ repeat[task[c]] # TASK_REPEAT_ONCE
  /\ repeat' = [repeat EXCEPT ![task[c]] =
                  IF @ = TASK_REPEAT_LOOP THEN @ ELSE @ - 1]
  /\ state' = [state EXCEPT ![task[c]] = "SCHEDULED"]
  /\ UNCHANGED <<taskCpu, runs, asked, born, queueVars, runStateVars, cursorVars,
                 newVars, bspVars>>

\* Mutant: the break after the repeating cases is missing.
FinishTaskAnyRepeat(c) ==
  /\ Goto(c, "visit", "destroy_lock")
  /\ state[task[c]] = "DONE"
  /\ UNCHANGED <<taskVars, queueVars, runStateVars, cursorVars, newVars, bspVars>>

\* case TASK_STATE_DONE: process_task_repeat calls destroy_task.
FinishTask(c) ==
  /\ Goto(c, "visit", "destroy_lock")
  /\ state[task[c]] = "DONE"
  /\ repeat[task[c]] = TASK_REPEAT_ONCE
  /\ UNCHANGED <<taskVars, queueVars, runStateVars, cursorVars, newVars, bspVars>>

\* default: BUG()
Bug(c) ==
  /\ Goto(c, "visit", "bug")
  /\ state[task[c]] \notin {"DONE", "SCHEDULED"}
  /\ UNCHANGED <<taskVars, queueVars, runStateVars, cursorVars, newVars, bspVars>>

(***************************************************************************)
(* destroy_task.                                                           *)
(***************************************************************************)

\* spin_lock(&task->cpu->lock)
DestroyLock(c) ==
  LET cpu == taskCpu[task[c]] IN
  /\ Goto(c, "destroy_lock", "destroy_unlink")
  /\ ~lock[cpu]
  /\ lock' = [lock EXCEPT ![cpu] = TRUE]
  /\ UNCHANGED <<taskVars, queue, runStateVars, cursorVars, newVars, bspVars>>

\* Mutant: the task is freed without being unlinked.
DestroyKeepsLink(c) ==
  /\ Goto(c, "destroy_unlink", "destroy_unlock")
  /\ UNCHANGED <<taskVars, queueVars, runStateVars, cursorVars, newVars, bspVars>>

\* list_unlink(&task->list); a user task's stack page is given back here too.
DestroyUnlink(c) ==
  LET cpu == taskCpu[task[c]] IN
  /\ Goto(c, "destroy_unlink", "destroy_unlock")
  /\ \E i \in DOMAIN queue[cpu] :
       /\ queue[cpu][i] = task[c]
       /\ queue' = [queue EXCEPT ![cpu] = ListUnlink(@, i)]
  /\ UNCHANGED <<taskVars, lock, runStateVars, cursorVars, newVars, bspVars>>

\* spin_unlock(&task->cpu->lock)
DestroyUnlock(c) ==
  /\ Goto(c, "destroy_unlock", "kfree")
  /\ lock' = [lock EXCEPT ![taskCpu[task[c]]] = FALSE]
  /\ UNCHANGED <<taskVars, queue, runStateVars, cursorVars, newVars, bspVars>>

\* kfree(task)
Kfree(c) ==
  /\ Goto(c, "kfree", "next")
  /\ state' = [state EXCEPT ![task[c]] = "FREED"]
  /\ UNCHANGED <<repeat, taskCpu, runs, asked, born, queueVars, runStateVars,
                 cursorVars, newVars, bspVars>>

(***************************************************************************)
(* The end of run_tasks.                                                   *)
(***************************************************************************)

\* Mutant: run_tasks walks its queue only once.
ListWalkedOnce(c) ==
  /\ Goto(c, "is_empty", IF c = Bsp THEN "finish" ELSE "block")
  /\ UNCHANGED <<taskVars, queueVars, runStateVars, cursorVars, newVars, bspVars>>

\* while (!list_is_empty(&cpu->task_queue))
ListIsEmpty(c) ==
  /\ Goto(c, "is_empty", IF queue[c] # <<>> THEN "first"
                         ELSE IF c = Bsp THEN "finish" ELSE "block")
  /\ UNCHANGED <<taskVars, queueVars, runStateVars, cursorVars, newVars, bspVars>>

SetCpuBlocked(c) ==
  /\ Goto(c, "block", "finish")
  /\ unblocked' = [unblocked EXCEPT ![c] = FALSE]
  /\ UNCHANGED <<taskVars, queueVars, finished, cursorVars, newVars, bspVars>>

\* The Bsp goes on to wait_for_all_cpus, another CPU calls run_tasks again.
SetCpuFinished(c) ==
  /\ Goto(c, "finish", IF c = Bsp THEN "wait_finished" ELSE "wait_unblocked")
  /\ finished' = [finished EXCEPT ![c] = TRUE]
  /\ UNCHANGED <<taskVars, queueVars, unblocked, cursorVars, newVars, bspVars>>

(***************************************************************************)
(* kernel_main on the Bsp.                                                 *)
(***************************************************************************)

\* The test function, if there is one in this round, returns: execute_tasks.
ExecuteTasks ==
  /\ Goto(Bsp, "main", "unblock")
  /\ UNCHANGED <<taskVars, queueVars, runStateVars, cursorVars, newVars, bspVars>>

\* One iteration of unblock_all_cpus; after the last one run_tasks(bsp) begins.
UnblockCpu ==
  /\ Goto(Bsp, "unblock", IF idx = Len(CpuList) THEN "unfinish" ELSE "unblock")
  /\ unblocked' = [unblocked EXCEPT ![CpuList[idx]] = TRUE]
  /\ idx' = IF idx = Len(CpuList) THEN 1 ELSE idx + 1
  /\ UNCHANGED <<taskVars, queueVars, finished, cursorVars, newVars, round>>

\* wait_for_all_cpus is through with CpuList[idx].  After the last CPU
\* execute_tasks returns, into the next test or into the echo loop.
NextCpuToWaitFor ==
  IF idx < Len(CpuList)
    THEN /\ idx' = idx + 1
         /\ pc' = [pc EXCEPT ![Bsp] = "wait_finished"]
         /\ UNCHANGED round
    ELSE /\ idx' = 1
         /\ round' = round + 1
         /\ pc' = [pc EXCEPT ![Bsp] = IF round = NrTests + 1 THEN "echo" ELSE "main"]

\* Mutant: only the queue is looked at.
WaitFinishedUnchecked ==
  /\ pc[Bsp] = "wait_finished"
  /\ \/ CpuList[idx] = Bsp /\ NextCpuToWaitFor
     \/ /\ CpuList[idx] # Bsp
        /\ pc' = [pc EXCEPT ![Bsp] = "wait_empty"]
        /\ UNCHANGED bspVars
  /\ UNCHANGED <<taskVars, queueVars, runStateVars, cursorVars, newVars>>

\* if (is_cpu_bsp(cpu)) continue; ... !is_cpu_finished(cpu)
WaitFinished ==
  /\ pc[Bsp] = "wait_finished"
  /\ \/ CpuList[idx] = Bsp /\ NextCpuToWaitFor
     \/ /\ CpuList[idx] # Bsp
        /\ finished[CpuList[idx]]
        /\ pc' = [pc EXCEPT ![Bsp] = "wait_empty"]
        /\ UNCHANGED bspVars
  /\ UNCHANGED <<taskVars, queueVars, runStateVars, cursorVars, newVars>>

\* Mutant: only the finished bit is looked at.
WaitEmptyUnchecked ==
  /\ pc[Bsp] = "wait_empty"
  /\ NextCpuToWaitFor
  /\ UNCHANGED <<taskVars, queueVars, runStateVars, cursorVars, newVars>>

\* || !list_is_empty(&cpu->task_queue): a second look at the other CPU.
WaitEmpty ==
  /\ pc[Bsp] = "wait_empty"
  /\ IF queue[CpuList[idx]] = <<>>
       THEN NextCpuToWaitFor
       ELSE pc' = [pc EXCEPT ![Bsp] = "wait_finished"] /\ UNCHANGED bspVars
  /\ UNCHANGED <<taskVars, queueVars, runStateVars, cursorVars, newVars>>

\* echo_loop never returns.
EchoLoop ==
  /\ pc[Bsp] = "echo"
  /\ UNCHANGED vars

BspStep ==
  ExecuteTasks \/ UnblockCpu \/ WaitFinished \/ WaitEmpty

CpuStep(c) ==
  \/ ScheduleLock(c) \/ ScheduleAdd(c) \/ ScheduleState(c) \/ ScheduleUnlock(c)
  \/ WaitCpuUnblocked(c) \/ SetCpuUnfinished(c) \/ FirstEntry(c) \/ NextEntry(c)
  \/ RunTask(c) \/ TaskReturns(c) \/ RepeatTask(c) \/ FinishTask(c) \/ Bug(c)
  \/ DestroyLock(c) \/ DestroyUnlink(c) \/ DestroyUnlock(c) \/ Kfree(c)
  \/ ListIsEmpty(c) \/ SetCpuBlocked(c) \/ SetCpuFinished(c)

Create ==
  \E c \in CPUs, t \in Tasks, r \in Repeats, cpu \in CPUs \cup {NoCpu} :
    NewTask(c, t, r, cpu)

Next == Create \/ BspStep \/ EchoLoop \/ \E c \in CPUs : CpuStep(c)

Spec == Init /\ [][Next]_vars

\* Every CPU keeps executing: the CPUs are independent processors, spin loops
\* are left as soon as their condition holds, and a task's function returns.
FairSpec == Spec /\ WF_vars(BspStep) /\ \A c \in CPUs : WF_vars(CpuStep(c))

(***************************************************************************)
(* Properties.                                                             *)
(***************************************************************************)

\* Every variable has its type.
TypeOK ==
  /\ state \in [Tasks -> TaskStates]
  /\ repeat \in [Tasks -> Nat]
  /\ taskCpu \in [Tasks -> CPUs \cup {NoCpu}]
  /\ queue \in [CPUs -> Seq(Tasks)]
  /\ lock \in [CPUs -> BOOLEAN]
  /\ unblocked \in [CPUs -> BOOLEAN]
  /\ finished \in [CPUs -> BOOLEAN]
  /\ pc \in [CPUs -> Locations]
  /\ task \in [CPUs -> Tasks \cup {ListHead}]
  /\ safe \in [CPUs -> Tasks \cup {ListHead}]
  /\ newTask \in [CPUs -> Tasks \cup {ListHead}]
  /\ newCpu \in [CPUs -> CPUs \cup {NoCpu}]
  /\ idx \in 1 .. Len(CpuList)
  /\ round \in 0 .. NrTests + 2
  /\ runs \in [Tasks -> 0 .. MaxRuns]
  /\ asked \in [Tasks -> Nat]
  /\ born \in [Tasks -> 0 .. NrTests + 2]

Linked(t, c) == t \in Entries(queue[c])

\* A CPU in one of these locations is inside the body of run_tasks' loop, and
\* dereferences its cursor (the Bsp outside of a task has cursor ListHead).
InBody(c) ==
  /\ task[c] # ListHead
  /\ pc[c] \in {"visit", "exec", "destroy_lock", "destroy_unlink"} \cup
               ScheduleLocations

\* No task is linked twice, in one queue or in two: list_add_tail under the
\* lock of the target CPU never meets a task that is still queued elsewhere.
LinkedOnce ==
  \A c, d \in CPUs : \A i \in DOMAIN queue[c], j \in DOMAIN queue[d] :
    queue[c][i] = queue[d][j] => c = d /\ i = j

\* The unlocked walk of run_tasks never touches a task that has left the
\* queue: the cursor is linked in the CPU's own queue while the loop body uses
\* it, and the saved next entry is linked there while the loop still needs it,
\* although other CPUs append and this CPU unlinks and frees meanwhile.
CursorsLinked ==
  \A c \in CPUs :
    /\ InBody(c) => Linked(task[c], c) /\ state[task[c]] # "FREED"
    /\ safe[c] # ListHead =>
         Linked(safe[c], c) /\ safe[c] # task[c] /\ state[safe[c]] # "FREED"

\* A task's function runs on one CPU at a time, the one schedule_task was
\* given.
RunsOnItsCpu ==
  \A t \in Tasks : state[t] = "RUNNING" =>
    \A c \in CPUs : task[c] = t <=> c = taskCpu[t]

\* A task that set_task_repeat asked to run n times has run exactly n times
\* when destroy_task frees it, and a LOOP task is never freed.
RunsAsAsked ==
  \A t \in Tasks : state[t] = "FREED" => runs[t] = asked[t]

\* execute_tasks is a barrier for the tasks queued before it: when it returns
\* (round counts its returns), each of them has left its queue for good.
ExecuteTasksCompletes ==
  \A t \in Tasks : taskCpu[t] # NoCpu /\ born[t] < round =>
    /\ state[t] \in {"DONE", "FREED"}
    /\ \A c \in CPUs : ~Linked(t, c)

\* The default case of the switch in run_tasks: BUG() is never reached, so a
\* CPU only ever meets SCHEDULED and DONE tasks in its queue.
NoBug == \A c \in CPUs : pc[c] # "bug"

\* kernel_main gets through all the tests and reaches the echo loop, unless one
\* of them queued a task that repeats for ever.
TestsFinish ==
  <>(\/ pc[Bsp] = "echo"
     \/ \E t \in Tasks : taskCpu[t] # NoCpu /\ asked[t] = TASK_REPEAT_LOOP)

\* Round robin: a queued task is run, whatever else its queue holds, tasks that
\* repeat for ever included.
EveryTaskRuns ==
  \A t \in Tasks : state[t] = "SCHEDULED" ~> state[t] = "RUNNING"
============================================================================
