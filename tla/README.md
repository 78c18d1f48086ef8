# TLA+ models of KTF

KTF (Kernel Test Framework) is a small x86 kernel that boots, brings up all CPUs
and runs test functions on them. This directory holds TLA+ models of its parts,
the TLC configurations that check them on small instances, and TLAPS proofs.

    tlc -config MCSchedTwoTests.cfg MCSched      # one run
    tlapm --threads 2 SchedProofs.tla            # the proofs of one module

A module `X` models a part of the kernel, `MCX` is the instance TLC checks, and
modules named `...Invariant`, `...Steps` and `...Proofs` hold proofs.
`PROJECT.json` lists the components, the runs, the source lines each definition
stands for, the known hazards of the code and the theorems.

## 1. Inventory

The parts of the kernel, their state, and what is hard about them.

| Part | State | Operations | Hard behaviour |
|---|---|---|---|
| scheduler (`common/sched.c`) | task queue and lock of each CPU; state, repeat, cpu of each task | new_task, schedule_task, run_tasks, process_task_repeat, destroy_task, wait_for_task_group | queues are walked without the lock while others append |
| run states (`common/cpu.c`, `cpu.h`) | bits UNBLOCKED and FINISHED of each CPU | unblock_all_cpus, wait_for_all_cpus, set_cpu_* | stale bits of an earlier round, lost wakeups |
| main program (`common/kernel.c`, `tests/test.c`) | position in the list of tests | execute_tasks, test_main, echo_loop | it relies on execute_tasks being a barrier |
| semaphore (`lib/semaphore.c`, `atomic.h`) | one counter | sem_wait, sem_trywait, sem_post, *_units | check, decrement and undo are three steps |
| physical memory (`mm/pmm.c`) | free and busy lists per order, frames arrays and their counters | get/put_free_frames, split, merge, new arrays, reclaim | the allocator allocates for itself in the middle of a split |
| page tables (`arch/x86/pagetables.c`) | the tree of tables, `_tmp_mapping` | vmap, vunmap, vmap_range, vunmap_range | partial failure; mapping needs a frame, a frames array needs a mapping |
| VMM (`mm/vmm.c`) | mmap_lock | get_free_pages, put_pages | a frame is kept when its mapping fails |
| slab (`mm/slab.c`) | meta slabs and free lists per size | kmalloc, kfree | a page and a descriptor to undo when one step fails |
| SMP (`smp/smp.c`) | ap_new_sp, ap_cpuid, ap_callin | boot_cpu, ap_startup | a handshake over globals |
| console, serial (`common/console.c`) | a lock, two callbacks | vprintk, panic | a non-recursive lock used from interrupts and panic |
| keyboard (`drivers/keyboard.c`) | a ring of 80 keys | handler, keyboard_process_keys | no check for a full ring |
| APIC, IOAPIC, PIC | mode of each local APIC, ICR, redirection tables, overrides | init_apic, add_ioapic, configure_isa_irq | the processor refuses some changes of mode; interrupts before anyone handles them |
| CPU list, per-CPU pages (`common/cpu.c`, `percpu.c`) | a list, newest first | add_cpu, get_cpu | several tables name one CPU |
| ACPI tables, MP tables | tables and their mappings, what they fill in | init_acpi, init_mptables | bad checksums, shared pages, missing tables |
| memory map (`boot/multiboot.c`, `regions.c`) | tags, ranges | init_multiboot, init_pmm | ranges that begin and end anywhere |
| PCI (`common/pci.c`) | list of devices | probe_pci | recursion over what the devices say |
| setup (`common/setup.c`) | boot flags, options | kernel_start | the order of about thirty initialisations |
| ACPICA OS layer (`osl.c`) | mapped frames with counts, semaphores, one interrupt handler | AcpiOs* | partial failure, tasks that wait for tasks |
| user mode (`common/usermode.c`, `entry.S`) | cr3, gs, stack, flags | enter_usermode, system calls, interrupts, exceptions | three ways in, interrupted anywhere |
| keyboard, serial, VGA | rings, screens | handlers, echo_loop | interrupts against the loop, scrolling against printing |
| command line, strings, printk's formats | static buffers | parse_cmdline, strtok, vsnprintf | terminators and limits |
| symbols | a generated table | print_symbol, symbol_address | a search that has to end |
| framebuffer, MTRR, PAT, segments, bitmap | device registers, tables | | pure I/O or data |

How they interact. kernel_main on the boot CPU (Bsp) alternates between test
functions, which queue tasks with schedule_task, and execute_tasks, which
unblocks the other CPUs, runs the Bsp's own queue, and waits for all. The other
CPUs run `while (true) run_tasks(cpu)`. Tasks may queue further tasks on their
own CPU (AcpiOsExecute) and use semaphores. Everything that allocates goes
through slab, VMM, PMM and page tables; the last two call each other. Before all
that, kernel_start builds on the boot CPU what the rest relies on: the frames out
of the memory map, the CPU list and the I/O APICs out of the firmware's tables,
and then it starts the other CPUs one by one.

## 2. Modules and their relation to the code

**Semaphore** (with MCSemaphore). `v` is `sem->v.counter`. A wait is the actions
SemWaitUnits (the call), CheckValue (`sem_value(sem) >= units`), SubReturn (the
xadd and the test of its result) and Undo (the addition when the test fails);
SemPostUnits and Signal are sem_post_units by a holder and by a thread that holds
nothing. AddReturned is what `lock xadd` returns: the value before the addition.

**Sched** (with MCSched). One step is one access to memory CPUs share: a lock, a
run state bit, a link of a queue, a task's state. `pc` names the place in the
code; `task` and `safe` are the two cursors of list_for_each_entry_safe.

| actions | code |
|---|---|
| Create (NewTask) | create_task, prepare_task, set_task_repeat in a test or in a running task |
| ScheduleLock, ScheduleAdd, ScheduleState, ScheduleUnlock | schedule_task |
| WaitCpuUnblocked, SetCpuUnfinished, FirstEntry, NextEntry, ListIsEmpty, SetCpuBlocked, SetCpuFinished | run_tasks |
| RunTask, TaskReturns, RepeatTask, FinishTask, Bug | run_task, process_task_repeat and the `default: BUG()` of run_tasks |
| DestroyLock, DestroyUnlink, DestroyUnlock, Kfree | destroy_task |
| ExecuteTasks, UnblockCpu, WaitFinished, WaitEmpty, EchoLoop | execute_tasks, unblock_all_cpus, wait_for_all_cpus, kernel_main |

A list is a sequence: an append is atomic for a walk that does not lock, because
the walk only follows `next`, and list_insert writes `prev->next`, the link that
makes the entry visible to it, last. A test function is abstracted to the
tasks it queues, on any CPU; a task's function to the tasks it queues on its own
CPU. `runs`, `asked` and `born` are history variables.

**Pmm** (with MCPmm), **FrameAllocator**. A frame is its first page; `order` and `used` give the list
it is on, `array` the frames array of its descriptor. The operations hold the
PMM lock throughout, so one is in progress at a time and `pc` says where; one
step is one frame split, merged or added, with everything the code does to the
lists and counters for it. Where the code takes the first entry of a list the
model takes any. Panics and failing assertions are locations the operation
stops in. FrameAllocator is what the allocator promises its callers, Vmm and Slab
among them, without splits, merges and descriptors: a page has one owner at a time.
The pages handed over, the frames held and the frames arrays of Pmm are its state.

### Boot

The following modules together are one specification, composed in Boot: each has
its own variables, and Boot's `bootPc` says which of them moves.

**Boot** (with MCBoot). kernel_start of `common/setup.c` from its first line to
kernel_main. `bootPc` names the initialisation that is next; each of them is one
action or, where it loops over what the machine says, the actions of the module
that has it. The machine is chosen in the initial state: `fw` (tables, ports,
timers), `tags` (the boot loader's), `present` (the processors there are),
`apicMsr`, `pciFw`, `redir`. A boot ends in "main", "panic", "fault" or "reset".

**BootMem**. init_multiboot one tag a step, then init_pmm one frame a step:
FindFirstAvailRegion, OpenRange, AddEarly4K, AddMaxOrder, Add2M, Add4K and
CheckEarlyFrames are find_first_avail_region, the four loops of
process_memory_range and check_early_frames. Addresses are small numbers with
several to a page, so that ranges begin and end inside pages.

**Cpus**. The list of `common/cpu.c` with the per-CPU pages its entries share, as
operators.

**Acpi**. init_acpi and init_mptables. One table mapped, one MADT or MP entry
processed is one step. Tables live on pages that are mapped and unmapped, so that a
use after an unmap is a fault of the model; the root table may reach over two pages,
since an RSDT is mapped by its own length and an XSDT by the RSDP's. `fw.acpica` chooses the variant built
with ACPICA, whose table manager is external.

**Ioapic**. The I/O APICs, buses and overrides that Acpi registers, init_ioapic and
configure_isa_irq, over redirection tables that start as the firmware left them.

**Smp**, **BringUp**. boot_cpu on the boot CPU and ap_start with ap_startup on the
others. One step is one access to `ap_new_sp`, `ap_cpuid`, `ap_callin`, the ICR or
the APIC's mode register; Deliver is the local APIC. BringUp is what init_smp
promises, without all that: the processors of the list come up one at a time, in
list order, each once, for its own entry and on a stack of its own. MaxStacks is how
many 2M frames are free for stacks; boot_cpu does not look whether it got one, so a
processor may be handed NoStack, and dies or goes on with it. The mapping
(`Promise` in Smp) takes `list` to be the CPU list and `running` to be the CPU and
stack of the processors that have reached run_tasks.

**Pci**. probe_pci, with the recursion of probe_pci_bus as an explicit stack.

### The running kernel

MCRuntime puts these side by side; they share only frames and locks, so `part`
picks one for a behaviour.

**Vmap**, **Vmm**. Vmap has `_vmap`, `_vunmap`, vmap_range, vunmap_range and the
mapping of page tables as functions on the memory `m`: the two roots, the tables
by frame, the free frames. Vmm has their callers as actions: get_free_pages and
put_pages for all combinations of address spaces, the system calls mmap and
munmap, init_pagetables and zap_boot_mappings. A mapping fails for an address that
cannot be mapped; no frame for a table is a BUG_ON. `asked`, `maybe`, `stale` and
`twice` are history: what the last successful call for a page asked for, the pages
of failed calls, those put_pages left mapped, and those mapped over a mapping.
unmap_pagetable reads each entry through the table's own mapping, as the code does.

**Slab**. kmalloc and kfree. `desc` are the descriptors, which themselves are
objects of meta pages; `slabs` and `metaPages` are the lists.

**Locks**. A function is the sequence of what it does with locks and calls, and a
processor a stack of such functions. Calls and early returns that depend on data
may happen or not. An interrupt of the UART comes anywhere, and vprintk panics, with
its lock held, where a text does not fit its buffer.

**Osl**. AcpiOsMapMemory, AcpiOsUnmapMemory, AcpiOsTerminate and the installation
of the interrupt handler, which refuses a NULL handler.

**Usermode**. One processor as entry.S sees it: privilege level, address space,
gs, stack, interrupt flag and what is on each stack. One step is one instruction or
macro of entry.S (`todo` is what is still to come). An interrupt comes between any two
steps where the flag allows it and an exception between any two. `caught` is history:
an exception came in the kernel's privilege level but not in the kernel's state.

**Devices**. The keyboard's handler and keyboard_process_keys over the ring, the
UART's handler with its reboot sequence, vga_write and the scroll keys.

**Text**. parse_cmdline's string options, the configuration of a serial port,
get_cpu_freq, vsnprintf and vprintk. Strings are sequences of codes and memory is
longer than the strings in it, since terminators and stale bytes are the point.

**Symbols**. The search of print_symbol, the dump of a trap's stack, and the tests
that test_main finds by name.

### Proofs and mutants

**SchedInvariant, SchedTaskSteps, SchedQueueSteps, SchedProofs** hold the
inductive invariant of Sched and the proofs, **PmmProofs**, **PmmCounters** and
**PmmRefinement** those of Pmm, **SmpProofs** those of Smp (section 5).

A definition named in a comment "Mutant: ..." is a deliberately wrong variant of
the one after it. No specification uses it; it shows that a property can fail.

## 3. Runs

| run | instance | properties | result |
|---|---|---|---|
| semaphore | 3 CPUs, calls for 1 or 2 units | UnitsConserved, HoldersBounded, SomeoneGetsUnits | hold |
| semaphore_over | 3 CPUs, one unit | AtMostMaxThreads | violated |
| sched_two_tests | 2 CPUs, 3 tasks, 2 tests | LinkedOnce, CursorsLinked, RunsOnItsCpu, RunsAsAsked, ExecuteTasksCompletes | hold |
| sched_one_test | 3 CPUs, 2 tasks, 1 test, a task may repeat for ever | NoBug, TestsFinish, EveryTaskRuns | hold |
| sched_bug | two tests | NoBug | violated |
| sched_hang | two tests | TestsFinish | violated |
| pmm | 10 pages, 3 orders, arrays of 4 descriptors | FramesPartition, BusyFramesOwned, CountersAgree, LeavesA4kFrame, OperationsEnd, PagesGivenOnce | hold |
| pmm_order | the same memory: two frames of the largest order are siblings | OrderAssert | violated |
| pmm_array | 11 pages, arrays of 3 descriptors | ArrayAssert | violated |
| pmm_cond | the same memory | CondDoesNotSplit | violated |
| boot | some 870 machines, up to 5 CPUs, 2 I/O APICs, 4 buses | CpusDistinct, OnlyKnownIrqs, IsaIrqsRouted, FaultExplained, BootFramesAvailable, EarlyFramesFirst, PciFound, ApicLegal, BootCompletes, Refinement | hold |
| runtime | eight parts, bounds below | FreeFramesUnmapped, VmapAnswers, SlabAccounts, SlabReturnsPages, DeadlocksExplained, OslCounts, EntryConsistent, InputHandled, ScreenShown, TextRead, TextPrinted, SymbolsFound, CallsEnd | hold |

What the runs show.

*Semaphore.* Units are conserved through waits that fail half way, and waiters do
not starve each other for ever. Because the value tested is the one before the
decrement, one thread more than the units allow can be inside; HoldersBounded
shows that the excess is never more than the units of one call.

*Scheduler.* With a single test everything holds: no CPU meets a task in an
unexpected state, kernel_main gets through, and a task that repeats for ever does
not starve the others of its CPU. With two tests execute_tasks still is a barrier
for the tasks themselves, but not for the CPUs: CPU_FINISHED of the first round
is still set when wait_for_all_cpus looks at a CPU that has been unblocked and
has not yet called set_cpu_unfinished. That CPU goes through run_tasks while the
second test queues tasks on it. sched_bug shows it meeting a linked task that is
still READY, which is `BUG()`; sched_hang shows it blocking itself after it was
unblocked for the second round, so that its task never runs.

*Physical memory.* No sequence of operations loses a page, gives it out twice or
takes it from its owner, the counters agree with the lists, and every operation
ends, also when a frames array is made inside a split. Merging knows no largest
order (pmm_order); giving back the last descriptor of an array fails an assertion
(pmm_array); get_free_frames_cond splits frames although its comment says it does
not (pmm_cond).

*Boot.* The frames are memory the boot loader called available and not the kernel's,
up to the page in which a range ends, about which the code warns
(BootFramesAvailable), and the early ones come first (EarlyFramesFirst). However often the
tables name a CPU it has one entry (CpusDistinct). When interrupts are enabled
nothing can interrupt that no driver asked for (OnlyKnownIrqs), and those arrive
at the vector the override says (IsaIrqsRouted) where the I/O APIC's interrupts
start at 0; configure_isa_irq uses a global interrupt number as a pin. The boot
faults only after a failed allocation, on a table recorded with a bad checksum, on an
XSDT that the length of the RSDP does not cover, and on an MP configuration table
outside the mapped BIOS areas (FaultExplained). All visible functions behind all bridges are found (PciFound).
No change of APIC mode faults (ApicLegal). The hand-over of the CPUs implements
BringUp (Refinement), and no wait of the boot is for ever on a machine that is as
the tables say (BootCompletes); the definition Sane lists what that takes.

*Memory.* Every page translates to what the last successful call asked for, and a
user program reaches its own pages only (VmapAnswers). Free frames are mapped
nowhere, except through what put_pages leaves when a page was got for several
address spaces: it unmaps only the address it is given (FreeFramesUnmapped). The
slab allocator never hands out an object twice, and gives pages back
(SlabAccounts, SlabReturnsPages).

*Locks.* The order of the six locks rules out all deadlocks but four, which
DeadlocksExplained names: mapping a new frames array under the frame allocator's
lock, putting one back under it, an interrupt that prints while the CPU it
interrupts prints, and a panic, which prints under vprintk's lock or stops a CPU with
the locks it holds. Apart from these every call returns (CallsEnd).

*ACPICA.* The counts are exact, except that a call which fails half way leaves its
earlier pages counted; an interrupt level of MAX_INT is accepted, and its gate is one
past the end of the IDT (OslCounts).

*User mode.* However system calls, interrupts and exceptions nest, C code has its
address space, gs and stack, and the user's task ends with its result
(EntryConsistent). SYSENTER leaves interrupts off in the user's task. The one gap are
exceptions, an NMI for instance, in the few instructions of an entry or exit in which
the privilege level is the kernel's and the rest is not: then the CPU panics or faults
for ever, and nothing else runs on it.

*Devices.* Keys are lost only in whole rings, when the ring overflows, and never
doubled or reordered, and reboots happen for their keys only (InputHandled). The
screens show what was printed unless a scroll runs beside a write (ScreenShown); this
is about vga.c by itself, which the kernel does not register (section 4).

*Text.* Options, port configurations and frequencies are read as written, and
texts are printed as C demands, up to the cases TextRead and TextPrinted name: the
byte strncpy writes too many, fractions of a frequency with a leading 0 (read as
octal), a frequency in MHz behind stale bytes, `0` together with a precision, the
lower case `0x` of `%#X`, and one zero too many for `%#o` with a precision larger than
the number.

*Symbols.* A dump names the right functions. The search does not end for an address
in the last symbol or in a gap between symbols (SymbolsFound).

### Bounds

* Semaphore: three CPUs are needed for two to race with one inside; one or two
  units per call make an undo that gives back the wrong number visible. Units
  posted by non-holders are bounded by MaxSignals.
* Sched: two CPUs, three tasks and two tests are the smallest instance in which a
  task queues another and run states of an earlier round are stale. Task symmetry
  is used only in runs without liveness. A third CPU matters for the order in
  which wait_for_all_cpus passes them, so sched_one_test has it. Tasks is also the
  bound on how many tasks are created; MaxRuns caps the history of a task that
  repeats for ever.
* Pmm: three orders let a split take two steps and a merge cascade; the arrays of
  3 or 4 descriptors (127 in the build) make the thresholds reachable; MaxHeld
  bounds the frames callers hold.

* Boot: a machine is a default one with one of its parts replaced in every way
  MCBoot lists, so parts are varied one at a time and their inputs exhaustively.
  Five APIC IDs give four CPUs to start, enough for a global to be reused, and two
  stacks leave two of them without;
  two I/O APICs fill the array (MAX_IOAPICS is 2 here) and a third overruns
  nothing but the model's sequence. A page is two addresses, a 2M frame two pages,
  the largest frame eight. MaxPciDevs is how many devices kzalloc has room for.
* Vmm: tables of two entries make 2M pages two and 1G pages four pages large, so
  that a range crosses tables of every level; 28 frames are enough for the tables of
  three operations (MaxVmmOps), which reach a mapping, its removal and a reuse of
  the frame.
* Slab: four sizes, two of them of one order and one too large; two descriptors to
  a meta page and five pages; six calls fill and empty a meta page.
* Locks: two CPUs, a call each, one interrupt. The four deadlocks need no more.
* Osl: overlapping ranges of one to three pages, one page that cannot be mapped,
  five calls. Usermode: an exception comes with fewer than two frames on the stack
  (MaxFrames); tasks, system calls and interrupts are not bounded.
* Devices: rings of three, screens of two, four events. Text: buffers of 8 to 18 bytes,
  two options. Symbols: tables of one, three and four symbols.

### Deadlock

sched_one_test checks for deadlock. sched_two_tests and the runs of Pmm do not:
a CPU that reached BUG(), or an operation that panicked, really stops. Nor do
boot, which ends in kernel_main, in a panic or in a fault, and runtime, whose
parts stop at their bounds; BootCompletes and CallsEnd say which stops are right.

### Fairness

Sched: weak fairness of each CPU. The CPUs are independent processors without
preemption, a spin loop ends as soon as its condition is seen, and a task's
function returns. Creating tasks is not fair: a test need not queue anything.
Semaphore: weak fairness of each CPU, and holders post. Pmm: weak fairness of the
operation in progress, none of the callers. Boot: weak fairness of the boot CPU,
of each CPU that was started and of the delivery of inter-processor interrupts;
nothing preempts any of them, and the code waits for nothing else. Locks: weak
fairness of each processor inside a call; each makes one, so a lock it waits for
stays free once it is. New calls and interrupts are not fair.

## 4. Findings

The five violations of what the code asserts or relies on, and the one of what a
comment says, are described with their lines in `PROJECT.json`.

Facts the models show about which no document of the repository says anything are
no findings; the properties carry them as exceptions, as section 3 tells. Others
that the models merely reproduce: a third console overruns console_callbacks;
neither the VGA nor the QEMU console is ever registered, because `boot_flags.vga`
and `opt_qemu_console` are tested before they are set; sizes of the basic memory
information, in KiB, are used as bytes; a table with a bad checksum is unmapped
and recorded all the same; for_each_cpu also starts CPUs that are not enabled.

## 5. Proofs

SchedProofs proves, for any list of CPUs, any set of tasks and any number of tests:

| theorem | property |
|---|---|
| SchedTypeCorrect | TypeOK (no run checks it) |
| TasksLinkedOnce | LinkedOnce |
| WalkIsSafe | CursorsLinked |
| TasksRunOnTheirCpu | RunsOnItsCpu |
| TasksRunAsAsked | RunsAsAsked |
| ExecuteTasksIsABarrier | ExecuteTasksCompletes |

The only assumption is SchedAssumption in Sched: the Bsp is in the list of CPUs,
ListHead and NoCpu are not tasks or CPUs, and Repeats is a set of naturals with a
largest element (which the cap MaxRuns needs).

None of these is inductive by itself. That the walk is safe depends on destroy_task
unlinking only the task under the cursor of the same CPU; that depends on
task->cpu being the CPU whose queue links the task; and that on schedule_task
working on a task nobody else has. IInv in SchedInvariant states this chain:

* NewTaskInv: while schedule_task is at work the task is READY, its creator is the
  only CPU working on it, and it is linked from the moment ScheduleAdd is done;
* StateInv: what each state says about queue and CPU (a SCHEDULED or RUNNING task
  is linked in the queue of task->cpu, a RUNNING one is under its cursor);
* CursorInv: what each location says about the cursor and the saved entry;
* RepeatInv: runs done and runs to go add up to what was asked;
* BarrierInv: the queues wait_for_all_cpus has passed are empty. This holds although
  the finished bits are stale, because nobody but the Bsp queues on an empty CPU:
  a task only queues on its own CPU, whose queue still holds the task;
* RoundInv: tasks of earlier rounds are in no queue.

There is one lemma per action. SchedInvariant has the steps that touch only locks
and run states, SchedTaskSteps those of run_tasks, SchedQueueSteps those that
create, link and unlink, SchedProofs those of execute_tasks and the theorems. The
split keeps each module quick to check; the modules build on SchedInvariant.

PmmProofs, PmmCounters and PmmRefinement prove, for any memory map, any largest order
and any size of the frames arrays:

| theorem | states |
|---|---|
| MemoryIsPartitioned | FramesPartition |
| BusyFramesHaveOwners | BusyFramesOwned |
| A4kFrameIsLeft | LeavesA4kFrame |
| CountersAreRight | FramesCounted and DescriptorsCounted, two parts of CountersAgree |
| PmmImplementsAllocator | PagesGivenOnce: Pmm implements FrameAllocator |

from PmmAssumption and MemoryAssumption in Pmm: there are finitely many pages, a
frame of an order is two of the order below, and the ranges of the boot and of the
init sections do not overlap. Neither FramesPartition nor BusyFramesOwned is
inductive. A merge keeps the partition because CanMerge looks at the lists, and what
is on a list is what the partition is about; linking a frame keeps the owners because
the frame being added is on no list, which the partition says (NewFrameNowhere); and
the ranges still to come at boot must be free of what is in use (BootLeft). IInv is
the four together with the types. That a split goes to an order that exists rests on
find_larger_frame taking the least of the larger orders with a free frame; that there
is a least one (LeastNatural) follows from the library's theorem that the finite
subsets of a set are well-founded. PmmCounters adds that descriptors are in arrays on
the list (ArraysListed), and counts with one lemma (Recount) how many frames have an
order after the order of one has changed. For the refinement one fact is left to show:
the pages of a frame on a free list have no owner (FreeFrameUnowned). They are disjoint
from those of the busy frames by the partition, and what callers or the allocator have
are busy frames by BusyFramesOwned.

SmpProofs proves, for any CPU list, any set of processors and any number of stacks:

| theorem | states |
|---|---|
| HandOverInvariant | the inductive invariant HandOver |
| SmpRefinement | Refinement: Smp implements BringUp |

from SmpAssumption (MaxStacks is a natural number, NotRunning is not a record of a
CPU and a stack or NoStack). The
refinement needs that the step in which a processor calls in is a Start of BringUp:
that the entry it runs for is the current one, that all earlier ones are up, and
that nobody has its stack. HandOver gives this: the boot CPU's position in the list
(Position), earlier processors up and later ones off (EarlierUp, LaterOff), at most
one on its way (OneRises), `ap_callin` set by the current one only (CallinFresh), an
interrupt in flight for it only (IpiCurrent), and the globals and stacks it takes
(Handed, StacksApart). When no stack is left the promise is weaker: NoStack is handed
out only when all stacks are in use, which StacksUsed says. It holds for lists that name no processor twice; BringUp
promises nothing for others. There is one lemma per action, and one per action for
its image in BringUp.

Only model-checked, and why:

* NoBug, TestsFinish, EveryTaskRuns, SomeoneGetsUnits, OperationsEnd,
  BootCompletes and CallsEnd: liveness under fairness is out of the prover's reach
  (NoBug holds for one test only);
* UnitsConserved, HoldersBounded, OslCounts and total_free_frames (TotalCounted in
  CountersAgree): sums over sets need induction over data, which the installed
  provers cannot do; nor can they for what Text, Pci, Vmap and Symbols compute with
  recursion;
* the rest of Boot and the running kernel: their invariants are about particular
  machines and sequences of calls, and large for what a proof would add.

## 6. Not modelled

* Pure output and data: frame buffer text, fonts, logo, dumps of registers and
  page tables.
* Register access without a state of its own: MTRR, PAT, segments, the rest of
  CPUID, baud rates, performance counters, the toolkit for caches.
* Code before kernel_start (`head.S`, `real_mode.S`, boot page tables) and headers
  that declare hardware or boot loader structures.
* Byte layouts of the firmware's tables and of the boot loader's information.
* Helpers without state: bitmap, memory functions, lists but for what Sched uses.
* The test functions themselves, ACPICA and libpfm.
* In modelled parts: wait_for_task_group, get_task_by_name and tasks that cannot
  be created (Sched); lookup functions and del_frames_array's effect (Pmm); five
  levels of page tables (Vmap); time conversion and msleep; BARs (Pci).

PROJECT.json has a note for each component.

## 7. Plan

1. Vmm and Slab over FrameAllocator, in place of the pools of pages they have now.
2. AcpiOsWaitEventsComplete on top of wait_for_task_group, as part of Sched.
3. A CPU list that names a processor twice in SmpProofs: what init_smp does then.
