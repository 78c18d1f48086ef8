-------------------------------- MODULE Smp --------------------------------
(***************************************************************************)
(* The start of the application processors: init_smp and boot_cpu on the   *)
(* boot CPU (smp/smp.c), the trampoline ap_start (smp/bootstrap.S) and     *)
(* ap_startup on the processor that is started, with init_apic             *)
(* (arch/x86/apic.c) on both.                                              *)
(*                                                                         *)
(* The boot CPU hands a processor its stack and its id through globals     *)
(* (ap_new_sp, ap_cpuid) and waits for ap_callin before it reuses them.    *)
(* init_apic has put the local APIC in XAPIC mode by then, so              *)
(* apic_wait_ready really waits and one interrupt at a time is in flight.  *)
(*                                                                         *)
(* A processor is named by its APIC ID.  It need not exist: the list of    *)
(* CPUs is what the firmware tables said.                                  *)
(***************************************************************************)
EXTENDS Integers, Sequences, Cpus

CONSTANTS ApicIds,      \* the APIC IDs a processor can have
          NotRunning,   \* a processor that has not reached run_tasks
          NoCpu,        \* get_cpu found nothing
          MaxStacks     \* the free frames of order 2M, which become stacks

ASSUME SmpAssumption ==
  /\ MaxStacks \in Nat
  /\ NotRunning \notin [cpu : Nat, sp : 0 .. MaxStacks]

VARIABLES
  cpus,       \* the list of common/cpu.c (module Cpus)
  present,    \* the processors of the machine
  bspApicId,  \* the one the kernel was booted on
  timer,      \* what init_apic_timer has to calibrate with
  bspIf,      \* EFLAGS.IF of the boot CPU
  apic_mode,  \* the global of arch/x86/apic.c
  apicMsr,    \* MSR_APIC_BASE of each processor
  smpPc,      \* where the boot CPU is in init_smp
  idx,        \* its position in the list
  ap_new_sp,  \* the stack handed over, or NoStack
  ap_cpuid,   \* the CPU id handed over
  ap_callin,  \* set by the processor when it is up
  icr,        \* the interrupt the local APIC has still to deliver
  stacks,     \* stacks handed out so far
  apPc,       \* where each other processor is
  apSp,       \* the stack it runs on
  apCpu       \* the CPU id it took

platformVars == <<cpus, present, bspApicId, timer>>
apicVars == <<apic_mode, apicMsr>>
handVars == <<ap_new_sp, ap_cpuid, ap_callin, stacks>>
apVars == <<apPc, apSp, apCpu>>
smpVars == <<platformVars, bspIf, apicVars, smpPc, idx, handVars, icr, apVars>>

NoIpi == [mode |-> "none", dest |-> 0]
NoStack == 0

(***************************************************************************)
(* The local APIC.                                                         *)
(***************************************************************************)

ApicModes == {"DISABLED", "XAPIC", "X2APIC"}

\* The changes of MSR_APIC_BASE that do not raise a general protection fault.
LegalApicChange(from, to) ==
  \/ from = to
  \/ to = "DISABLED"
  \/ from = "DISABLED" /\ to = "XAPIC"
  \/ from = "XAPIC" /\ to = "X2APIC"

\* Mutant of ApicOff: the APIC is not disabled before it is enabled.
ApicOffNot(mode) == mode

\* init_apic first disables the local APIC, whatever mode it was in.
ApicOff(mode) == "DISABLED"

\* Then it sets en, and extd only once en is set.
ApicStep(mode) == IF mode = "XAPIC" THEN "X2APIC" ELSE "XAPIC"

(***************************************************************************)
(* The boot CPU.                                                           *)
(***************************************************************************)

SmpGoto(from, to) == smpPc = from /\ smpPc' = to

\* apic_wait_ready has seen the delivery status clear.
ApicReady == icr = NoIpi

\* init_smp: ap_cr3 is set, the walk of for_each_cpu begins.
InitSmp ==
  /\ SmpGoto("boot", "next")
  /\ idx' = 1
  /\ UNCHANGED <<platformVars, bspIf, apicVars, handVars, icr, apVars>>

\* The boot CPU's own entry is skipped, and the walk ends.
SkipBsp ==
  /\ smpPc = "next" /\ idx <= Len(cpus) /\ cpus[idx].bsp
  /\ idx' = idx + 1
  /\ UNCHANGED <<platformVars, bspIf, apicVars, smpPc, handVars, icr, apVars>>

SmpDone ==
  /\ SmpGoto("next", "done")
  /\ idx > Len(cpus)
  /\ UNCHANGED <<platformVars, bspIf, apicVars, idx, handVars, icr, apVars>>

\* get_free_pages_top never hands out the same pages twice.  When there are none
\* it returns NULL plus the size, the same for everyone, which BUG_ON lets pass.
NewStack(n) == IF n < MaxStacks THEN n + 1 ELSE NoStack

\* ap_new_sp = get_free_pages_top(...), for the next entry that is not the BSP.
HandStack ==
  /\ SmpGoto("next", "cpuid")
  /\ idx <= Len(cpus) /\ ~cpus[idx].bsp
  /\ ap_new_sp' = NewStack(stacks)
  /\ stacks' = IF ap_new_sp' = NoStack THEN stacks ELSE ap_new_sp'
  /\ UNCHANGED <<platformVars, bspIf, apicVars, idx, ap_cpuid, ap_callin, icr, apVars>>

HandCpuid ==
  /\ SmpGoto("cpuid", "callin")
  /\ ap_cpuid' = cpus[idx].id
  /\ UNCHANGED <<platformVars, bspIf, apicVars, idx, ap_new_sp, ap_callin, stacks,
                 icr, apVars>>

\* Mutant of ClearCallin: the flag keeps what the last processor left in it.
ClearCallinNot ==
  /\ SmpGoto("callin", "init")
  /\ UNCHANGED <<platformVars, bspIf, apicVars, idx, handVars, icr, apVars>>

ClearCallin ==
  /\ SmpGoto("callin", "init")
  /\ ap_callin' = FALSE
  /\ UNCHANGED <<platformVars, bspIf, apicVars, idx, ap_new_sp, ap_cpuid, stacks,
                 icr, apVars>>

\* apic_wait_ready(); apic_icr_write(&icr): INIT, then the SIPI, twice.
SendIpi(from, mode, to) ==
  /\ ApicReady
  /\ SmpGoto(from, to)
  /\ icr' = [mode |-> mode, dest |-> cpus[idx].apic_id]
  /\ UNCHANGED <<platformVars, bspIf, apicVars, idx, handVars, apVars>>

SendIpis ==
  \/ SendIpi("init", "INIT", "sipi1")
  \/ SendIpi("sipi1", "SIPI", "sipi2")
  \/ SendIpi("sipi2", "SIPI", "wait")

\* apic_wait_ready(); while (!ap_callin) cpu_relax();
WaitCallin ==
  /\ ApicReady /\ ap_callin
  /\ SmpGoto("wait", "next")
  /\ idx' = idx + 1
  /\ UNCHANGED <<platformVars, bspIf, apicVars, handVars, icr, apVars>>

BspSmpStep ==
  \/ InitSmp \/ SkipBsp \/ SmpDone
  \/ HandStack \/ HandCpuid \/ ClearCallin \/ SendIpis \/ WaitCallin

(***************************************************************************)
(* The other processors.                                                   *)
(***************************************************************************)

\* The interrupt reaches its destination.  INIT makes a processor wait for a
\* SIPI, wherever it was; a SIPI starts one that waits and is ignored by any
\* other.  An INIT to the boot CPU itself resets it.
Deliver ==
  /\ ~ApicReady
  /\ icr' = NoIpi
  /\ LET h == icr.dest IN
     /\ apPc' = IF h \notin present \/ h = bspApicId THEN apPc
                ELSE [apPc EXCEPT ![h] =
                        CASE icr.mode = "INIT" -> "wait_sipi"
                          [] @ = "wait_sipi" -> "start"
                          [] OTHER -> @]
     /\ smpPc' = IF icr.mode = "INIT" /\ h = bspApicId THEN "reset" ELSE smpPc
  /\ UNCHANGED <<platformVars, bspIf, apicVars, idx, handVars, apSp, apCpu>>

ApGoto(h, from, to) ==
  /\ apPc[h] = from
  /\ apPc' = [apPc EXCEPT ![h] = to]

\* ap_start, then WRITE_SP(ap_new_sp).  Without a stack of its own the processor
\* faults at the first call, or goes on if something is mapped there.
TakeStack(h) ==
  /\ \/ ApGoto(h, "start", "cpu")
     \/ ap_new_sp = NoStack /\ ApGoto(h, "start", "dead")
  /\ apSp' = [apSp EXCEPT ![h] = ap_new_sp]
  /\ UNCHANGED <<platformVars, bspIf, apicVars, smpPc, idx, handVars, icr, apCpu>>

\* cpu = get_cpu(ap_cpuid); init_traps(cpu);
TakeCpu(h) ==
  /\ ApGoto(h, "cpu", "apic")
  /\ apCpu' = [apCpu EXCEPT ![h] = ap_cpuid]
  /\ UNCHANGED <<platformVars, bspIf, apicVars, smpPc, idx, handVars, icr, apSp>>

\* init_apic(ap_cpuid, apic_get_mode()): the writes to the MSR, then the
\* BUG_ON that the CPU is known (it is the one just taken).
ApApicWrite(h) ==
  /\ ApGoto(h, "apic", "apic_on")
  /\ apicMsr' = [apicMsr EXCEPT ![h] = ApicOff(@)]
  /\ UNCHANGED <<platformVars, bspIf, apic_mode, smpPc, idx, handVars, icr, apSp, apCpu>>

ApApicOn(h) ==
  /\ apPc[h] = "apic_on"
  /\ IF apicMsr[h] # apic_mode
       THEN /\ apicMsr' = [apicMsr EXCEPT ![h] = ApicStep(@)]
            /\ UNCHANGED apPc
       ELSE /\ apPc' = [apPc EXCEPT ![h] = IF HasCpu(cpus, ap_cpuid) THEN "timers" ELSE "bug"]
            /\ UNCHANGED apicMsr
  /\ UNCHANGED <<platformVars, bspIf, apic_mode, smpPc, idx, handVars, icr, apSp, apCpu>>

\* init_timers: the calibration of the local APIC timer sleeps until the
\* boot CPU has counted ticks of the global timer.
ApTimers(h) ==
  /\ timer = "ticking" => bspIf
  /\ timer # "silent"
  /\ ApGoto(h, "timers", "callin")
  /\ UNCHANGED <<platformVars, bspIf, apicVars, smpPc, idx, handVars, icr, apSp, apCpu>>

\* ap_callin = true, and on to run_tasks.
Callin(h) ==
  /\ ApGoto(h, "callin", "tasks")
  /\ ap_callin' = TRUE
  /\ UNCHANGED <<platformVars, bspIf, apicVars, smpPc, idx, ap_new_sp, ap_cpuid,
                 stacks, icr, apSp, apCpu>>

ApStep(h) ==
  \/ TakeStack(h) \/ TakeCpu(h) \/ ApApicWrite(h) \/ ApApicOn(h)
  \/ ApTimers(h) \/ Callin(h)

\* What the abstract specification sees of a processor.
Running(h) ==
  IF apPc[h] = "tasks" THEN [cpu |-> apCpu[h], sp |-> apSp[h]] ELSE NotRunning

Promise == INSTANCE BringUp WITH
  Stacks <- 1 .. MaxStacks,
  list <- cpus,
  running <- [h \in ApicIds |-> Running(h)]

\* The hand-over keeps the promise of module BringUp.
Refinement == Promise!Spec

SmpNext == BspSmpStep \/ Deliver \/ \E h \in ApicIds : ApStep(h)

\* The processors run, and the local APIC delivers.
SmpFairness ==
  /\ WF_smpVars(BspSmpStep)
  /\ WF_smpVars(Deliver)
  /\ \A h \in ApicIds : WF_smpVars(ApStep(h))

\* What the boot CPU finds when it comes to init_smp.
SmpStart ==
  /\ smpPc = "boot" /\ idx = 0
  /\ ap_new_sp = 0 /\ ap_cpuid = 0 /\ ap_callin = FALSE
  /\ icr = NoIpi /\ stacks = 0
  /\ apPc = [h \in ApicIds |-> "off"]
  /\ apSp = [h \in ApicIds |-> 0]
  /\ apCpu = [h \in ApicIds |-> NoCpu]

\* The hand-over by itself: any list, any processors, any timer.
Entries == [id : Nat, bsp : BOOLEAN, enabled : BOOLEAN, page : Nat, apic_id : ApicIds]

SmpInit ==
  /\ SmpStart
  /\ cpus \in Seq(Entries)
  /\ present \subseteq ApicIds
  /\ apic_mode \in ApicModes
  /\ apicMsr \in [ApicIds -> ApicModes]

SmpSpec == SmpInit /\ [][SmpNext]_smpVars
============================================================================
