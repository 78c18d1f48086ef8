------------------------------- MODULE Usermode -------------------------------
(***************************************************************************)
(* User tasks on one processor: enter_usermode, the three system call      *)
(* entries, interrupts and exceptions (arch/x86/entry.S, traps.c and       *)
(* common/usermode.c).                                                     *)
(*                                                                         *)
(* The state is that of the processor, a record:                           *)
(*   at       where it is, see the actions                                 *)
(*   cpl      its privilege level, 0 or 3                                  *)
(*   as       "cr3" or "user_cr3"                                          *)
(*   gs       "percpu" or "user", which swapgs exchanges                   *)
(*   sp       the stack it is on: "task", "user" or "rsp0"                 *)
(*   private  usermode_private, which SWITCH_STACK exchanges with sp       *)
(*   on       whether interrupts are enabled                               *)
(*   st       for each stack what was pushed                               *)
(*   todo     in assembly code, the macros and instructions still to come  *)
(*   bad      "", or what went wrong                                       *)
(*   caught   history: an exception came at level 0 outside KernelState    *)
(* An interrupt comes between any two steps where the flag allows it, and  *)
(* an exception between any two: a fault, a debug trap, an NMI or a        *)
(* machine check, in C code, in a user task and in the assembly code.      *)
(***************************************************************************)
EXTENDS Integers, Sequences

CONSTANTS MaxFrames  \* an exception comes with less frames than this on the stack

VARIABLES cpu,
          call,    \* the system call: how and which, what the handler got, the
                   \* flag in r11, the exit code, and whether SYSENTER was used
          result   \* what enter_usermode returned last

entryVars == <<cpu, call, result>>

(***************************************************************************)
(* The macros.                                                             *)
(***************************************************************************)

Push(p, x) == [p EXCEPT !.st[p.sp] = Append(@, x)]

\* What is popped must be what the code takes it for.
PopKind(p, kind) ==
  LET s == p.st[p.sp]
  IN  IF s = <<>> \/ s[Len(s)].kind # kind THEN [p EXCEPT !.bad = kind]
      ELSE [p EXCEPT !.st[p.sp] = SubSeq(s, 1, Len(s) - 1)]

TopFrame(p) == p.st[p.sp][Len(p.st[p.sp])]

SAVE_ALL_REGS(p) == Push(p, [kind |-> "regs"])

RESTORE_ALL_REGS(p) == PopKind(p, "regs")

swapgs(p) == [p EXCEPT !.gs = IF @ = "percpu" THEN "user" ELSE "percpu"]

\* The word is found through gs.
SWITCH_STACK(p) ==
  IF p.gs # "percpu" THEN [p EXCEPT !.bad = "gs"]
  ELSE [p EXCEPT !.sp = p.private, !.private = p.sp]

FromUsermode(switchStack) ==
  <<"SET_CR3 cr3", "swapgs">> \o IF switchStack THEN <<"SWITCH_STACK">> ELSE <<>>

ToUsermode(switchStack) ==
  (IF switchStack THEN <<"SWITCH_STACK">> ELSE <<>>) \o <<"swapgs", "SET_CR3 user_cr3">>

\* Mutant of CondFromUsermode: what was interrupted is not looked at.
CondFromUsermodeAlways(frame) == FromUsermode(FALSE)

CondFromUsermode(frame) == IF frame.cpl = 3 THEN FromUsermode(FALSE) ELSE <<>>

CondToUsermode(frame) == IF frame.cpl = 3 THEN ToUsermode(FALSE) ELSE <<>>

\* The processor takes an interrupt gate: from user mode on the stack in rsp0.
Gate(p, todo) ==
  LET frame == [kind |-> "frame", cpl |-> p.cpl, sp |-> p.sp, on |-> p.on,
                at |-> p.at, todo |-> p.todo]
      q == IF p.cpl = 3 THEN [p EXCEPT !.sp = "rsp0", !.st.rsp0 = <<>>] ELSE p
  IN  [Push(q, frame) EXCEPT !.cpl = 0, !.on = FALSE, !.at = "asm", !.todo = todo]

IRET(p) ==
  LET f == TopFrame(p)
  IN  IF p.st[p.sp] = <<>> \/ f.kind # "frame" THEN [p EXCEPT !.bad = "frame"]
      ELSE [PopKind(p, "frame") EXCEPT !.cpl = f.cpl, !.sp = f.sp, !.on = f.on,
                                       !.at = f.at, !.todo = f.todo]

POPF(p) ==
  LET f == TopFrame(p)
  IN  IF p.st[p.sp] = <<>> \/ f.kind # "flags" THEN [p EXCEPT !.bad = "flags"]
      ELSE [PopKind(p, "flags") EXCEPT !.on = f.on]

\* A call or a jump out of the pages that init_usermode maps in user_cr3: there
\* it is a page fault, the entry of which jumps again, and so on for ever.
Reach(p, at, todo) ==
  IF p.as = "user_cr3" THEN [p EXCEPT !.at = "lost", !.todo = <<>>]
  ELSE [p EXCEPT !.at = at, !.todo = todo]

(***************************************************************************)
(* The assembly code.                                                      *)
(***************************************************************************)

\* The frame is pushed on the stack of the user task, with the flag set.
enter_usermode ==
  <<"SAVE_ALL_REGS", "PUSHF", "cli", "mov usermode_private">> \o ToUsermode(TRUE)
    \o <<"push user frame", "IRET">>

syscall_exit == <<"SWITCH_STACK", "POPF", "mov gs", "RESTORE_ALL_REGS", "ret">>

\* check_syscall_exit, and the rest of the three entries up to the call.
SyscallEntry(mode, nr) ==
  IF nr = "EXIT" THEN FromUsermode(FALSE) \o <<"jmp syscall_exit">>
  ELSE <<"SAVE_ALL_REGS">> \o FromUsermode(mode = "SYSCALL")
         \o (IF mode = "SYSCALL" THEN <<"push cx r11">> ELSE <<>>) \o <<"call syscall_handler">>

SyscallReturn(mode) ==
  (IF mode = "SYSCALL" THEN <<"pop cx r11">> ELSE <<>>) \o ToUsermode(mode = "SYSCALL")
    \o <<"RESTORE_ALL_REGS",
         CASE mode = "SYSCALL" -> "SYSRET" [] mode = "SYSENTER" -> "SYSEXIT" [] mode = "INT80" -> "IRET">>

interrupt_handler == <<"cond_from_usermode", "SAVE_ALL_REGS", "call handler">>

exception_handler == <<"cond_from_usermode", "jmp handle_exception">>

handle_exception == <<"SAVE_ALL_REGS", "call do_exception">>

HandlerReturn == <<"RESTORE_ALL_REGS", "cond_to_usermode", "IRET">>

\* SYSRET restores the flags from r11 and SYSEXIT does not.
Execute(p, op) ==
  CASE op = "SAVE_ALL_REGS"         -> SAVE_ALL_REGS(p)
    [] op = "RESTORE_ALL_REGS"      -> RESTORE_ALL_REGS(p)
    [] op = "PUSHF"                 -> Push(p, [kind |-> "flags", on |-> p.on])
    [] op = "POPF"                  -> POPF(p)
    [] op = "cli"                   -> [p EXCEPT !.on = FALSE]
    [] op = "mov usermode_private"  -> [p EXCEPT !.private = "user", !.st.user = <<>>]
    [] op = "mov gs"                -> [p EXCEPT !.gs = "percpu"]
    [] op = "swapgs"                -> swapgs(p)
    [] op = "SWITCH_STACK"          -> SWITCH_STACK(p)
    [] op = "SET_CR3 cr3"           -> [p EXCEPT !.as = "cr3"]
    [] op = "SET_CR3 user_cr3"      -> [p EXCEPT !.as = "user_cr3"]
    [] op = "push cx r11"           -> Push(p, [kind |-> "cx_r11"])
    [] op = "pop cx r11"            -> PopKind(p, "cx_r11")
    [] op = "push user frame"       -> Push(p, [kind |-> "frame", cpl |-> 3, sp |-> "user",
                                               on |-> TRUE, at |-> "user", todo |-> <<>>])
    [] op = "cond_from_usermode"    -> [p EXCEPT !.todo = CondFromUsermode(TopFrame(p)) \o @]
    [] op = "cond_to_usermode"      -> [p EXCEPT !.todo = CondToUsermode(TopFrame(p)) \o @]
    [] op = "jmp syscall_exit"      -> Reach(p, "asm", syscall_exit)
    [] op = "jmp handle_exception"  -> Reach(p, "asm", handle_exception)
    [] op = "call syscall_handler"  -> Reach(p, "sys", <<>>)
    [] op = "call handler"          -> Reach(p, "irq", <<>>)
    [] op = "call do_exception"     -> Reach(p, "exc", <<>>)
    [] op = "IRET"                  -> IRET(p)
    [] op = "SYSRET"                -> [p EXCEPT !.cpl = 3, !.on = call.r11, !.at = "user"]
    [] op = "SYSEXIT"               -> [p EXCEPT !.cpl = 3, !.sp = "user", !.at = "user"]
    [] op = "ret"                   -> [p EXCEPT !.at = "kernel"]

\* The registers _syscall, _int80 and _sysenter load, by what they hold.
UserRegs(mode) ==
  IF mode = "SYSENTER"
    THEN [ax |-> "nr", si |-> "arg1", di |-> "arg2", r10 |-> "arg3", r8 |-> "arg4", r9 |-> "arg5",
          cx |-> "sp", dx |-> "ip"]
    ELSE [ax |-> "nr", si |-> "arg1", dx |-> "arg2", di |-> "arg3", r8 |-> "arg4", r9 |-> "arg5",
          cx |-> "ip", r10 |-> "user"]

\* What syscall_handler gets from them.
HandlerArgs(mode, r) ==
  IF mode = "SYSENTER" THEN <<r.ax, r.si, r.di, r.r10, r.r8, r.r9>>
  ELSE <<r.ax, r.si, r.dx, r.di, r.r8, r.r9>>

(***************************************************************************)
(* The steps.                                                              *)
(***************************************************************************)

\* The state C code of the kernel needs: the kernel's address space, the per-CPU
\* data in gs, and a stack of the kernel.
KernelState == cpu.cpl = 0 /\ cpu.as = "cr3" /\ cpu.gs = "percpu" /\ cpu.sp # "user"

\* syscall_handler gets its arguments, and enter_usermode returns the exit code.
Instruction ==
  LET op == Head(cpu.todo)
  IN  /\ cpu.todo # <<>>
      /\ cpu' = Execute([cpu EXCEPT !.todo = Tail(@)], op)
      /\ call' = IF op = "call syscall_handler"
                   THEN [call EXCEPT !.got = HandlerArgs(call.mode, UserRegs(call.mode))] ELSE call
      /\ result' = IF op = "ret" THEN call.exit ELSE result

\* A task is started on a new user stack.
EnterUsermode ==
  /\ cpu.at = "kernel"
  /\ cpu' = [cpu EXCEPT !.at = "asm", !.todo = enter_usermode]
  /\ call' = [call EXCEPT !.sysenter = FALSE]
  /\ UNCHANGED result

\* The instructions: SYSCALL stays on the user stack, SYSENTER goes to the stack
\* in its MSR, which is that of rsp0, and INT80 is a gate.  All clear the flag.
Syscall(mode, nr) ==
  LET p == CASE mode = "SYSCALL"  -> cpu
             [] mode = "SYSENTER" -> [cpu EXCEPT !.sp = "rsp0", !.st.rsp0 = <<>>]
             [] mode = "INT80"    -> Gate(cpu, <<>>)
  IN  /\ cpu.at = "user"
      /\ cpu' = [p EXCEPT !.cpl = 0, !.on = FALSE, !.at = "asm", !.todo = SyscallEntry(mode, nr)]
      /\ call' = [mode |-> mode, nr |-> nr, got |-> <<>>, r11 |-> cpu.on,
                  exit |-> IF nr = "EXIT" THEN "arg1" ELSE "none",
                  sysenter |-> call.sysenter \/ mode = "SYSENTER"]
      /\ UNCHANGED result

\* C code returns to the assembly code that called it.
Return(at, todo) ==
  /\ cpu.at = at
  /\ cpu' = [cpu EXCEPT !.at = "asm", !.todo = todo]
  /\ UNCHANGED <<call, result>>

Interrupt ==
  /\ cpu.on
  /\ cpu' = Gate(cpu, interrupt_handler)
  /\ UNCHANGED <<call, result>>

Exception ==
  /\ cpu.at \notin {"panic", "lost"} /\ Len(SelectSeq(cpu.st[cpu.sp], LAMBDA x : x.kind = "frame")) < MaxFrames
  /\ cpu' = [Gate(cpu, exception_handler) EXCEPT !.caught = @ \/ (cpu.cpl = 0 /\ ~KernelState)]
  /\ UNCHANGED <<call, result>>

\* What the handler was entered from.
Interrupted == TopFrame(PopKind(cpu, "regs"))

\* do_exception: the extables are for the kernel, and list places in C code only;
\* a user task is ended, by terminate_user_task, and what is left is a panic.
DoException ==
  /\ cpu.at = "exc"
  /\ IF Interrupted.cpl = 3
       THEN /\ cpu' = [cpu EXCEPT !.at = "asm", !.todo = syscall_exit]
            /\ call' = [call EXCEPT !.exit = "EFAULT"]
       ELSE /\ \/ cpu' = [cpu EXCEPT !.at = "panic"]
               \/ Interrupted.todo = <<>> /\ cpu' = [cpu EXCEPT !.at = "asm", !.todo = HandlerReturn]
            /\ UNCHANGED call
  /\ UNCHANGED <<result>>

EntryStep ==
  /\ cpu.bad = ""
  /\ \/ Instruction \/ EnterUsermode
     \/ \E mode \in {"SYSCALL", "SYSENTER", "INT80"}, nr \in {"EXIT", "other"} : Syscall(mode, nr)
     \/ Return("sys", SyscallReturn(call.mode)) \/ Return("irq", HandlerReturn)
     \/ Interrupt \/ Exception \/ DoException

\* What init_traps, init_gdt, init_tss and init_usermode leave.
EntryInit ==
  /\ cpu = [at |-> "kernel", cpl |-> 0, as |-> "cr3", gs |-> "percpu", sp |-> "task",
            private |-> "none", on |-> TRUE,
            st |-> [s \in {"task", "user", "rsp0"} |-> <<>>], todo |-> <<>>, bad |-> "",
            caught |-> FALSE]
  /\ call = [mode |-> "SYSCALL", nr |-> "other", got |-> <<>>, r11 |-> TRUE, exit |-> "none",
             sysenter |-> FALSE]
  /\ result = "none"

(***************************************************************************)
(* Properties                                                              *)
(***************************************************************************)

\* Whichever way the processor went between user mode and the kernel, C code of
\* the kernel runs in the kernel's state and, in handlers, with interrupts off; a
\* user task runs in its own, with the kernel stack it was started from saved;
\* every POPF, RESTORE and IRET finds what was pushed for it; syscall_handler gets
\* the number and the arguments the user passed; and when enter_usermode returns,
\* the stack and the interrupt flag are as they were and the result is the user's
\* exit code, or EFAULT after an exception.  Interrupts are on in a user task
\* until it uses SYSENTER, and off in the assembly code whenever its state is not
\* the kernel's.  The exceptions that need no flag are the one gap: where one
\* comes in such a place, with privilege level 0, cond_from_usermode leaves the
\* state as it is, and do_exception runs in the wrong state or is never reached.
\* That is the only way, and then no other code of the kernel and no user task
\* runs again: the processor ends in a panic, or faults for ever.
EntryConsistent ==
  /\ cpu.bad = ""
  /\ ~cpu.caught => cpu.at # "lost"
  /\ cpu.caught => cpu.at \in {"asm", "exc", "panic", "lost"}
  /\ cpu.at \in {"kernel", "sys", "irq", "exc"} /\ ~cpu.caught => KernelState
  /\ cpu.at \in {"sys", "irq", "exc"} \/ (cpu.at = "asm" /\ ~KernelState) => ~cpu.on
  /\ cpu.at = "user" => /\ cpu.cpl = 3 /\ cpu.as = "user_cr3" /\ cpu.gs = "user" /\ cpu.sp = "user"
                        /\ cpu.private = "task"
                        /\ cpu.on \/ call.sysenter
                        /\ cpu.st.user = <<>>
  /\ cpu.at = "kernel" => cpu.sp = "task" /\ cpu.st.task = <<>> /\ cpu.on
  /\ cpu.at = "sys" => call.got = <<"nr", "arg1", "arg2", "arg3", "arg4", "arg5">>
  /\ result \in {"none", "arg1", "EFAULT"}
=============================================================================
