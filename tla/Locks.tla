-------------------------------- MODULE Locks --------------------------------
(***************************************************************************)
(* The spin locks of the memory managers and of the console, and who takes *)
(* them: kmalloc and kfree (slab_mm_lock), get_free_pages and put_pages    *)
(* (mmap_lock), the page tables (vmap_lock), the frame allocator (its      *)
(* lock), the ACPICA layer (map_lock) and vprintk.                         *)
(*                                                                         *)
(* A function is the sequence of what it does with locks:                  *)
(*   <<"lock", l>>, <<"unlock", l>>                                        *)
(*   <<"call", f>>       a call it always makes                            *)
(*   <<"may", f>>        a call that depends on the data                   *)
(*   <<"may_leave", l>>  an early return that unlocks l, or nothing        *)
(*   <<"halt", "">>      the processor is halted for good                  *)
(* and a processor is a stack of functions with the steps they are at.     *)
(* What the functions do besides is in modules Slab, Vmm, Pmm and Osl.     *)
(***************************************************************************)
EXTENDS Integers, Sequences, FiniteSets

CONSTANTS LockCpus,   \* processors that call these functions
          IrqCpu,     \* the one the interrupts of the UART go to
          NoCpu,
          TopCalls    \* the functions they call

ASSUME LocksAssumption == IrqCpu \in LockCpus /\ NoCpu \notin LockCpus

VARIABLES owner,   \* lock -> the processor that has it, or NoCpu
          stack,   \* processor -> Seq of [f, at]
          called,  \* processor -> whether it has made its call
          irqs     \* the interrupts of the UART still to come

lockVars == <<owner, stack, called, irqs>>

SpinLocks == {"slab_mm_lock", "mmap_lock", "vmap_lock", "pmm_lock", "map_lock", "console_lock"}

(***************************************************************************)
(* The functions.                                                          *)
(***************************************************************************)

\* A text that does not fit the buffer is a panic, with the lock held.
vprintk == << <<"lock", "console_lock">>, <<"may", "panic">>, <<"unlock", "console_lock">> >>

\* panic, BUG_ON and ASSERT: oops_print calls vprintk, one call standing for its
\* four, and no lock is given back.
panic == << <<"call", "vprintk">>, <<"halt", "">> >>

uart_interrupt_handler == << <<"may", "vprintk">> >>

\* The frame array that is added when few entries are left needs a mapping, and
\* the one that is removed is put like any frame; both under the lock.
get_free_frames ==
  << <<"lock", "pmm_lock">>, <<"may", "vprintk">>, <<"may", "new_frames_array">>,
     <<"may", "panic">>, <<"may_leave", "pmm_lock">>, <<"unlock", "pmm_lock">> >>

new_frames_array == << <<"call", "vmap">>, <<"may", "panic">> >>

put_free_frames ==
  << <<"lock", "pmm_lock">>, <<"may", "vprintk">>, <<"may", "panic">>,
     <<"may", "del_frames_array">>, <<"unlock", "pmm_lock">> >>

del_frames_array == << <<"may", "panic">>, <<"call", "put_free_frames">> >>

\* Mutant of vmap: the tables come from get_free_pages.
vmapPages ==
  << <<"lock", "vmap_lock">>, <<"may", "get_free_pages">>, <<"may", "panic">>,
     <<"unlock", "vmap_lock">> >>

\* vmap_kern, vmap_user, their _1g, _2m and _4k forms, and vmap_range: a table that
\* is missing takes a frame.
vmap ==
  << <<"lock", "vmap_lock">>, <<"may", "get_free_frames">>, <<"may", "panic">>,
     <<"unlock", "vmap_lock">> >>

\* vunmap_kern, vunmap_user and vunmap_range
vunmap == << <<"lock", "vmap_lock">>, <<"may", "panic">>, <<"unlock", "vmap_lock">> >>

get_free_pages ==
  << <<"call", "get_free_frames">>, <<"lock", "mmap_lock">>, <<"call", "vmap">>,
     <<"unlock", "mmap_lock">> >>

put_pages ==
  << <<"lock", "mmap_lock">>, <<"call", "vunmap">>, <<"may", "panic">>,
     <<"unlock", "mmap_lock">>, <<"call", "put_free_frames">> >>

\* A page for descriptors and a page for objects, where there is no room.
kmalloc ==
  << <<"lock", "slab_mm_lock">>, <<"may", "vprintk">>, <<"may", "get_free_pages">>,
     <<"may", "get_free_pages">>, <<"may", "panic">>, <<"unlock", "slab_mm_lock">> >>

kfree ==
  << <<"lock", "slab_mm_lock">>, <<"may", "put_pages">>, <<"may", "put_pages">>,
     <<"may", "panic">>, <<"unlock", "slab_mm_lock">> >>

\* Mutant of AcpiOsMapMemory: the return for a page that cannot be mapped keeps
\* map_lock.
AcpiOsMapMemoryKept ==
  << <<"lock", "map_lock">>, <<"may", "vmap">>, <<"may_leave", "">>, <<"may", "kmalloc">>,
     <<"unlock", "map_lock">> >>

AcpiOsMapMemory ==
  << <<"lock", "map_lock">>, <<"may", "vmap">>, <<"may_leave", "map_lock">>, <<"may", "kmalloc">>,
     <<"unlock", "map_lock">> >>

AcpiOsUnmapMemory ==
  << <<"lock", "map_lock">>, <<"may", "panic">>, <<"may", "vunmap">>, <<"may", "kfree">>,
     <<"unlock", "map_lock">> >>

sys_mmap == << <<"call", "get_free_frames">>, <<"call", "vmap">> >>

sys_munmap == << <<"call", "vunmap">>, <<"may", "put_free_frames">> >>

Body ==
  [vprintk |-> vprintk, panic |-> panic, uart_interrupt_handler |-> uart_interrupt_handler,
   get_free_frames |-> get_free_frames, new_frames_array |-> new_frames_array,
   put_free_frames |-> put_free_frames, del_frames_array |-> del_frames_array,
   vmap |-> vmap, vunmap |-> vunmap,
   get_free_pages |-> get_free_pages, put_pages |-> put_pages,
   kmalloc |-> kmalloc, kfree |-> kfree,
   AcpiOsMapMemory |-> AcpiOsMapMemory, AcpiOsUnmapMemory |-> AcpiOsUnmapMemory,
   sys_mmap |-> sys_mmap, sys_munmap |-> sys_munmap]

(***************************************************************************)
(* A processor.                                                            *)
(***************************************************************************)

\* The steps of the functions, and their ends.
Points == UNION {[f : {g}, at : 1 .. Len(Body[g]) + 1] : g \in DOMAIN Body}

\* Where a processor at a step may be when it next does something with a lock,
\* in the function and in those it calls, and <<>> when the function returns
\* before.  What it always calls takes a lock.
Within[p \in Points] ==
  LET op == Body[p.f][p.at]
      next == [p EXCEPT !.at = @ + 1]
      inside == {<<next>> \o q : q \in Within[[f |-> op[2], at |-> 1]]}
  IN  IF p.at > Len(Body[p.f]) THEN {<<>>}
      ELSE CASE op[1] = "call"      -> inside
             [] op[1] = "may"       -> inside \cup Within[next]
             [] op[1] = "may_leave" -> {<<p>>} \cup Within[next]
             [] OTHER               -> {<<p>>}

\* The same for a stack: a function that returns goes on in its caller.
Ahead(s) ==
  LET ahead[n \in 0 .. Len(s)] ==
        IF n = 0 THEN {<<>>}
        ELSE {SubSeq(s, 1, n - 1) \o q : q \in Within[s[n]] \ {<<>>}}
             \cup IF <<>> \in Within[s[n]] THEN ahead[n - 1] ELSE {}
  IN  ahead[Len(s)]

At(c) == LET top == stack[c][Len(stack[c])] IN Body[top.f][top.at]

Advanced(s) == [s EXCEPT ![Len(s)].at = @ + 1]

Called(s, f) == Append(s, [f |-> f, at |-> 1])

\* spin_lock: nothing is done to interrupts, and nothing tells that the lock is
\* the processor's own.
SpinLock(c) ==
  /\ At(c)[1] = "lock" /\ owner[At(c)[2]] = NoCpu
  /\ owner' = [owner EXCEPT ![At(c)[2]] = c]
  /\ \E s \in Ahead(Advanced(stack[c])) : stack' = [stack EXCEPT ![c] = s]

SpinUnlock(c) ==
  /\ At(c)[1] = "unlock"
  /\ owner' = [owner EXCEPT ![At(c)[2]] = NoCpu]
  /\ \E s \in Ahead(Advanced(stack[c])) : stack' = [stack EXCEPT ![c] = s]

Leave(c) ==
  /\ At(c)[1] = "may_leave"
  /\ owner' = [l \in SpinLocks |-> IF l = At(c)[2] THEN NoCpu ELSE owner[l]]
  /\ \E s \in Ahead(SubSeq(stack[c], 1, Len(stack[c]) - 1)) : stack' = [stack EXCEPT ![c] = s]

CpuStep(c) ==
  /\ stack[c] # <<>>
  /\ SpinLock(c) \/ SpinUnlock(c) \/ Leave(c)
  /\ UNCHANGED <<called, irqs>>

CallTop(c, f) ==
  /\ stack[c] = <<>> /\ ~called[c]
  /\ \E s \in Ahead(Called(<<>>, f)) : stack' = [stack EXCEPT ![c] = s]
  /\ called' = [called EXCEPT ![c] = TRUE]
  /\ UNCHANGED <<owner, irqs>>

\* The handler runs on top of what it interrupts, with interrupts off.
UartInterrupt ==
  /\ irqs > 0
  /\ irqs' = irqs - 1
  /\ \A i \in DOMAIN stack[IrqCpu] : stack[IrqCpu][i].f # "uart_interrupt_handler"
  /\ \E s \in Ahead(Called(stack[IrqCpu], "uart_interrupt_handler")) :
       stack' = [stack EXCEPT ![IrqCpu] = s]
  /\ UNCHANGED <<owner, called>>

LocksStep ==
  \/ \E c \in LockCpus : CpuStep(c)
  \/ \E c \in LockCpus, f \in TopCalls : CallTop(c, f)
  \/ UartInterrupt

\* A processor that can go on does; which calls are made is open.
LocksFairness == \A c \in LockCpus : WF_lockVars(CpuStep(c))

LocksInit(n) ==
  /\ owner = [l \in SpinLocks |-> NoCpu]
  /\ stack = [c \in LockCpus |-> <<>>]
  /\ called = [c \in LockCpus |-> FALSE]
  /\ irqs = n

(***************************************************************************)
(* Properties                                                              *)
(***************************************************************************)

Halted(c) == stack[c] # <<>> /\ At(c)[1] = "halt"

\* The processor a processor spins for, or NoCpu; one that has halted waits for
\* itself.
WaitsFor(c) ==
  IF Halted(c) THEN c
  ELSE IF stack[c] # <<>> /\ At(c)[1] = "lock" THEN owner[At(c)[2]] ELSE NoCpu

\* Processors each of which waits for one of them, forever.
Stuck(S) == S # {} /\ \A c \in S : WaitsFor(c) \in S

Inside(c, f) == \E i \in DOMAIN stack[c] : stack[c][i].f = f

\* The order of the locks, map_lock, slab_mm_lock, mmap_lock ("must be taken
\* before vmap_lock"), vmap_lock, the frame allocator's and vprintk's, rules out
\* that processors wait for each other, or one for itself, in all cases but four:
\* a frame array mapped under the frame allocator's lock; a frame array put under
\* it, where the processor waits for itself; an interrupt whose printk finds the
\* console taken by what it interrupted; and a panic, after which the processor
\* has halted with its locks or, where vprintk itself panics, waits for the
\* console it has.  In particular no processor waits for mmap_lock with vmap_lock.
DeadlocksExplained ==
  /\ \A S \in SUBSET LockCpus : Stuck(S) =>
       \E c \in S :
         \/ Inside(c, "new_frames_array")
         \/ Inside(c, "del_frames_array") /\ WaitsFor(c) = c /\ At(c)[2] = "pmm_lock"
         \/ Inside(c, "uart_interrupt_handler") /\ WaitsFor(c) = c /\ At(c)[2] = "console_lock"
         \/ Inside(c, "panic") /\ WaitsFor(c) = c /\ At(c)[2] \in {"console_lock", ""}
  /\ \A c \in LockCpus : WaitsFor(c) # NoCpu /\ At(c)[2] = "mmap_lock" => owner["vmap_lock"] # c

\* Every call returns, whatever early returns it and the others take, unless
\* some processors are in one of those deadlocks: no path keeps a lock.
CallsEnd ==
  \A c \in LockCpus :
    stack[c] # <<>> ~> (stack[c] = <<>> \/ \E S \in SUBSET LockCpus : Stuck(S))
=============================================================================
