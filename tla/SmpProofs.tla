----------------------------- MODULE SmpProofs ------------------------------
(***************************************************************************)
(* The hand-over of stacks and CPU ids in smp/smp.c implements BringUp:    *)
(* for any CPU list, any set of processors that exist and any number of    *)
(* stacks, the processors start one at a time, in the order of the list,   *)
(* each with the id of its own entry and on a stack nobody else runs on;   *)
(* one is started without a stack of its own only when all are in use.     *)
(***************************************************************************)
EXTENDS Smp, TLAPS

\* The stages of boot_cpu in which the globals ap_* are in use.
Handing == {"cpuid", "callin", "init", "sipi1", "sipi2", "wait"}

\* A processor between the INIT and its callin; one that has a stack; one that
\* has also read ap_cpuid and not yet called in.
Rising == {"wait_sipi", "start", "dead", "cpu", "apic", "apic_on", "timers", "callin", "bug"}
OnStack == {"cpu", "apic", "apic_on", "timers", "callin", "bug", "tasks"}
Identified == {"apic", "apic_on", "timers", "callin", "bug"}

Types ==
  /\ cpus \in Seq(Entries)
  /\ idx \in Nat
  /\ stacks \in 0 .. MaxStacks
  /\ ap_callin \in BOOLEAN
  /\ apPc \in [ApicIds -> {"off", "tasks"} \cup Rising]
  /\ apSp \in [ApicIds -> 0 .. MaxStacks]
  /\ ap_new_sp \in 0 .. MaxStacks
  /\ DOMAIN apCpu = ApicIds

\* Where the boot CPU is in the list.
Position ==
  /\ smpPc = "boot" => idx = 0
  /\ smpPc # "boot" => idx >= 1
  /\ smpPc \in Handing => idx <= Len(cpus) /\ ~cpus[idx].bsp

\* The processors of earlier entries are up.
EarlierUp ==
  \A j \in DOMAIN cpus : j < idx /\ ~cpus[j].bsp => apPc[cpus[j].apic_id] = "tasks"

\* Those of later entries are off, and so is the current one before its INIT.
LaterOff ==
  \A j \in DOMAIN cpus :
    \/ j > idx
    \/ j = idx /\ (smpPc \in {"boot", "next", "cpuid", "callin", "init"} \/ icr.mode = "INIT")
    => apPc[cpus[j].apic_id] = "off"

\* Only the processor of the current entry is on its way.
OneRises ==
  \A h \in ApicIds : apPc[h] \in Rising =>
    /\ smpPc \in {"sipi1", "sipi2", "wait"}
    /\ h = cpus[idx].apic_id
    /\ ap_callin = FALSE
    /\ smpPc = "sipi1" => apPc[h] = "wait_sipi"

\* ap_callin is the answer of the current processor and not of an earlier one.
CallinFresh ==
  /\ smpPc \in {"init", "sipi1"} => ap_callin = FALSE
  /\ smpPc \in {"sipi2", "wait"} /\ ap_callin = TRUE => apPc[cpus[idx].apic_id] = "tasks"

\* An interrupt in flight is for the current processor.
IpiCurrent ==
  icr # NoIpi =>
    /\ icr.dest = cpus[idx].apic_id
    /\ \/ icr.mode = "INIT" /\ smpPc = "sipi1"
       \/ icr.mode = "SIPI" /\ smpPc \in {"sipi2", "wait"}

\* What the globals hold: a stack, unless none was left.
Handed ==
  /\ smpPc \in Handing => \/ ap_new_sp = stacks /\ stacks >= 1
                          \/ ap_new_sp = NoStack /\ stacks = MaxStacks
  /\ smpPc \in Handing \ {"cpuid"} => ap_cpuid = cpus[idx].id
  /\ \A h \in ApicIds : apPc[h] \in Identified => apCpu[h] = cpus[idx].id
  /\ \A h \in ApicIds : apPc[h] \in Identified \cup {"tasks"} => apCpu[h] \in Nat

\* The stacks in use differ, and the one handed over is newer than all others.
StacksApart ==
  /\ \A h \in ApicIds : apPc[h] \in OnStack => apSp[h] \in 0 .. stacks
  /\ \A g, h \in ApicIds :
       g # h /\ apPc[g] \in OnStack /\ apPc[h] \in OnStack /\ apSp[g] # NoStack
       => apSp[g] # apSp[h]
  /\ smpPc \in Handing =>
       \A h \in ApicIds : apPc[h] \in OnStack =>
         IF h = cpus[idx].apic_id THEN apSp[h] = ap_new_sp
         ELSE ap_new_sp # NoStack => apSp[h] < ap_new_sp

\* Every stack handed out is that of a processor that runs, but for the one that
\* is being handed over.
StacksUsed ==
  smpPc # "reset" =>
    \A s \in 1 .. stacks :
      \/ smpPc \in Handing /\ s = ap_new_sp
      \/ \E h \in ApicIds : apPc[h] = "tasks" /\ apSp[h] = s

\* The inductive invariant, for lists in which every processor has one entry.
Ordered ==
  /\ Position
  /\ EarlierUp
  /\ LaterOff
  /\ OneRises
  /\ CallinFresh
  /\ IpiCurrent
  /\ Handed
  /\ StacksApart
  /\ StacksUsed

HandOver == Types /\ (Promise!WellFormed(cpus) => Ordered)

\* What a step of init_smp starts from: such a list, which no step changes.
Started ==
  /\ Types /\ Types' /\ cpus' = cpus
  /\ \A j \in DOMAIN cpus :
       cpus[j].apic_id \in ApicIds /\ cpus[j].id \in Nat /\ cpus[j].bsp \in BOOLEAN
  /\ \A i, j \in DOMAIN cpus : i # j => cpus[i].apic_id # cpus[j].apic_id
  /\ Ordered

-----------------------------------------------------------------------------
(* Every step keeps the order.  The sets of locations and the conjuncts of  *)
(* the invariant are expanded throughout.                                   *)

\* A step that hands out no stack and takes nobody from run_tasks keeps every
\* stack in use.
LEMMA StacksUsedKept ==
  ASSUME Started, stacks' = stacks, ap_new_sp' = ap_new_sp,
         smpPc = "reset" => smpPc' = "reset",
         smpPc \in Handing => smpPc' \in Handing \cup {"reset"},
         \A g \in ApicIds : apPc[g] = "tasks" => apPc'[g] = "tasks" /\ apSp'[g] = apSp[g]
  PROVE  StacksUsed'
<1> SUFFICES ASSUME smpPc' # "reset", NEW s \in 1 .. stacks
             PROVE  \/ smpPc' \in Handing /\ s = ap_new_sp
                    \/ \E h \in ApicIds : apPc'[h] = "tasks" /\ apSp'[h] = s
  BY DEF StacksUsed
<1>1. CASE smpPc \in Handing /\ s = ap_new_sp
  BY <1>1
<1>2. CASE \E h \in ApicIds : apPc[h] = "tasks" /\ apSp[h] = s
  BY <1>2, Zenon
<1>3. QED
  BY <1>1, <1>2 DEF Started, Ordered, StacksUsed

USE DEF NoStack, Started, Types, Ordered, Position, EarlierUp, LaterOff, OneRises, CallinFresh,
        IpiCurrent, Handed, StacksApart, Handing, Rising, OnStack, Identified

\* The walk begins: nothing has been started.
LEMMA InitSmpStep ==
  ASSUME Started, InitSmp
  PROVE  Ordered'
<1>1. Position' /\ EarlierUp' /\ LaterOff'
  BY SmpAssumption DEF InitSmp, SmpGoto, platformVars, apicVars, handVars, apVars
<1>2. OneRises' /\ CallinFresh' /\ IpiCurrent'
  BY SmpAssumption DEF InitSmp, SmpGoto, platformVars, apicVars, handVars, apVars
<1>3. Handed' /\ StacksApart'
  BY SmpAssumption DEF InitSmp, SmpGoto, platformVars, apicVars, handVars, apVars
<1>4. StacksUsed'
  BY StacksUsedKept DEF InitSmp, SmpGoto, platformVars, apicVars, handVars, apVars
<1>5. QED
  BY <1>1, <1>2, <1>3, <1>4

\* The boot CPU's own entry is passed over.
LEMMA SkipBspStep ==
  ASSUME Started, SkipBsp
  PROVE  Ordered'
<1>1. Position' /\ EarlierUp' /\ LaterOff'
  BY SmpAssumption DEF SkipBsp, platformVars, apicVars, handVars, apVars
<1>2. OneRises' /\ CallinFresh' /\ IpiCurrent'
  BY SmpAssumption DEF SkipBsp, platformVars, apicVars, handVars, apVars
<1>3. Handed' /\ StacksApart'
  BY SmpAssumption DEF SkipBsp, platformVars, apicVars, handVars, apVars
<1>4. StacksUsed'
  BY StacksUsedKept DEF SkipBsp, platformVars, apicVars, handVars, apVars
<1>5. QED
  BY <1>1, <1>2, <1>3, <1>4

\* The walk ends.
LEMMA SmpDoneStep ==
  ASSUME Started, SmpDone
  PROVE  Ordered'
<1>1. Position' /\ EarlierUp' /\ LaterOff'
  BY SmpAssumption DEF SmpDone, SmpGoto, platformVars, apicVars, handVars, apVars
<1>2. OneRises' /\ CallinFresh' /\ IpiCurrent'
  BY SmpAssumption DEF SmpDone, SmpGoto, platformVars, apicVars, handVars, apVars
<1>3. Handed' /\ StacksApart'
  BY SmpAssumption DEF SmpDone, SmpGoto, platformVars, apicVars, handVars, apVars
<1>4. StacksUsed'
  BY StacksUsedKept DEF SmpDone, SmpGoto, platformVars, apicVars, handVars, apVars
<1>5. QED
  BY <1>1, <1>2, <1>3, <1>4

\* The new stack is above all that are in use, and the processor it is for is
\* still off.
LEMMA HandStackStep ==
  ASSUME Started, HandStack
  PROVE  Ordered'
<1>1. Position' /\ EarlierUp' /\ LaterOff'
  BY SmpAssumption DEF HandStack, SmpGoto, NewStack, platformVars, apicVars, handVars, apVars
<1>2. OneRises' /\ CallinFresh' /\ IpiCurrent'
  BY SmpAssumption DEF HandStack, SmpGoto, NewStack, platformVars, apicVars, handVars, apVars
<1>3. Handed' /\ StacksApart'
  BY SmpAssumption DEF HandStack, SmpGoto, NewStack, platformVars, apicVars, handVars, apVars
<1>4. StacksUsed'
  <2> SUFFICES ASSUME NEW s \in 1 .. stacks'
               PROVE  s = ap_new_sp' \/ \E h \in ApicIds : apPc[h] = "tasks" /\ apSp[h] = s
    BY DEF StacksUsed, HandStack, SmpGoto, NewStack, platformVars, apicVars, handVars, apVars
  <2>1. s = ap_new_sp' \/ s \in 1 .. stacks
    BY SmpAssumption DEF HandStack, NewStack
  <2>2. QED
    BY <2>1 DEF StacksUsed, HandStack, SmpGoto
<1>5. QED
  BY <1>1, <1>2, <1>3, <1>4

\* The id handed over is that of the current entry.
LEMMA HandCpuidStep ==
  ASSUME Started, HandCpuid
  PROVE  Ordered'
<1>1. Position' /\ EarlierUp' /\ LaterOff'
  BY SmpAssumption DEF HandCpuid, SmpGoto, platformVars, apicVars, handVars, apVars
<1>2. OneRises' /\ CallinFresh' /\ IpiCurrent'
  BY SmpAssumption DEF HandCpuid, SmpGoto, platformVars, apicVars, handVars, apVars
<1>3. Handed' /\ StacksApart'
  BY SmpAssumption DEF HandCpuid, SmpGoto, platformVars, apicVars, handVars, apVars
<1>4. StacksUsed'
  BY StacksUsedKept DEF HandCpuid, SmpGoto, platformVars, apicVars, handVars, apVars
<1>5. QED
  BY <1>1, <1>2, <1>3, <1>4

\* Nobody is on the way who could set ap_callin again.
LEMMA ClearCallinStep ==
  ASSUME Started, ClearCallin
  PROVE  Ordered'
<1>1. Position' /\ EarlierUp' /\ LaterOff'
  BY SmpAssumption DEF ClearCallin, SmpGoto, platformVars, apicVars, handVars, apVars
<1>2. OneRises' /\ CallinFresh' /\ IpiCurrent'
  BY SmpAssumption DEF ClearCallin, SmpGoto, platformVars, apicVars, handVars, apVars
<1>3. Handed' /\ StacksApart'
  BY SmpAssumption DEF ClearCallin, SmpGoto, platformVars, apicVars, handVars, apVars
<1>4. StacksUsed'
  BY StacksUsedKept DEF ClearCallin, SmpGoto, platformVars, apicVars, handVars, apVars
<1>5. QED
  BY <1>1, <1>2, <1>3, <1>4

\* The interrupts go to the current entry's processor, off before the INIT.
LEMMA SendIpisStep ==
  ASSUME Started, SendIpis
  PROVE  Ordered'
<1>1. Position' /\ EarlierUp' /\ LaterOff'
  BY SmpAssumption DEF SendIpis, SendIpi, SmpGoto, ApicReady, NoIpi, platformVars, apicVars, handVars, apVars
<1>2. OneRises' /\ CallinFresh' /\ IpiCurrent'
  BY SmpAssumption DEF SendIpis, SendIpi, SmpGoto, ApicReady, NoIpi, platformVars, apicVars, handVars, apVars
<1>3. Handed' /\ StacksApart'
  BY SmpAssumption DEF SendIpis, SendIpi, SmpGoto, ApicReady, NoIpi, platformVars, apicVars, handVars, apVars
<1>4. StacksUsed'
  BY StacksUsedKept DEF SendIpis, SendIpi, SmpGoto, ApicReady, NoIpi, platformVars, apicVars, handVars, apVars
<1>5. QED
  BY <1>1, <1>2, <1>3, <1>4

\* ap_callin means that the current processor is in run_tasks, so the entry now
\* counts as an earlier one.
LEMMA WaitCallinStep ==
  ASSUME Started, WaitCallin
  PROVE  Ordered'
<1>1. Position' /\ EarlierUp' /\ LaterOff'
  BY SmpAssumption DEF WaitCallin, SmpGoto, ApicReady, NoIpi, platformVars, apicVars, handVars, apVars
<1>2. OneRises' /\ CallinFresh' /\ IpiCurrent'
  BY SmpAssumption DEF WaitCallin, SmpGoto, ApicReady, NoIpi, platformVars, apicVars, handVars, apVars
<1>3. Handed' /\ StacksApart'
  BY SmpAssumption DEF WaitCallin, SmpGoto, ApicReady, NoIpi, platformVars, apicVars, handVars, apVars
<1>4. StacksUsed'
  <2>1. /\ idx \in DOMAIN cpus /\ cpus[idx].apic_id \in ApicIds
        /\ apPc[cpus[idx].apic_id] = "tasks" /\ apSp[cpus[idx].apic_id] = ap_new_sp
    BY DEF WaitCallin, SmpGoto
  <2>2. \A s \in 1 .. stacks : \E h \in ApicIds : apPc[h] = "tasks" /\ apSp[h] = s
    BY <2>1 DEF StacksUsed, WaitCallin, SmpGoto
  <2>3. QED
    BY <2>2 DEF StacksUsed, WaitCallin, SmpGoto, handVars, apVars
<1>5. QED
  BY <1>1, <1>2, <1>3, <1>4

\* An INIT finds the current processor off, so it takes nobody out of
\* run_tasks; the boot CPU itself is never on the way.
LEMMA DeliverStep ==
  ASSUME Started, Deliver
  PROVE  Ordered'
<1>1. Position' /\ EarlierUp' /\ LaterOff'
  BY SmpAssumption DEF Deliver, ApicReady, NoIpi, platformVars, apicVars, handVars, apVars
<1>2. OneRises' /\ CallinFresh' /\ IpiCurrent'
  BY SmpAssumption DEF Deliver, ApicReady, NoIpi, platformVars, apicVars, handVars, apVars
<1>3. Handed' /\ StacksApart'
  BY SmpAssumption DEF Deliver, ApicReady, NoIpi, platformVars, apicVars, handVars, apVars
<1>4. StacksUsed'
  <2>1. \A g \in ApicIds : apPc[g] = "tasks" => apPc'[g] = "tasks"
    BY DEF Deliver, ApicReady, NoIpi, platformVars, apicVars, handVars, apVars
  <2>2. QED
    BY <2>1, StacksUsedKept DEF Deliver, handVars
<1>5. QED
  BY <1>1, <1>2, <1>3, <1>4

\* The stack read is the newest: nobody else is on it.
LEMMA TakeStackStep ==
  ASSUME Started, NEW h \in ApicIds, TakeStack(h)
  PROVE  Ordered'
<1>1. Position' /\ EarlierUp' /\ LaterOff'
  BY SmpAssumption DEF TakeStack, ApGoto, platformVars, apicVars, handVars, apVars
<1>2. OneRises' /\ CallinFresh' /\ IpiCurrent'
  BY SmpAssumption DEF TakeStack, ApGoto, platformVars, apicVars, handVars, apVars
<1>3. Handed' /\ StacksApart'
  BY SmpAssumption DEF TakeStack, ApGoto, platformVars, apicVars, handVars, apVars
<1>4. StacksUsed'
  BY StacksUsedKept DEF TakeStack, ApGoto, platformVars, apicVars, handVars, apVars
<1>5. QED
  BY <1>1, <1>2, <1>3, <1>4

\* The id read is that of the entry the processor was started for.
LEMMA TakeCpuStep ==
  ASSUME Started, NEW h \in ApicIds, TakeCpu(h)
  PROVE  Ordered'
<1>1. Position' /\ EarlierUp' /\ LaterOff'
  BY SmpAssumption DEF TakeCpu, ApGoto, platformVars, apicVars, handVars, apVars
<1>2. OneRises' /\ CallinFresh' /\ IpiCurrent'
  BY SmpAssumption DEF TakeCpu, ApGoto, platformVars, apicVars, handVars, apVars
<1>3. Handed' /\ StacksApart'
  BY SmpAssumption DEF TakeCpu, ApGoto, platformVars, apicVars, handVars, apVars
<1>4. StacksUsed'
  BY StacksUsedKept DEF TakeCpu, ApGoto, platformVars, apicVars, handVars, apVars
<1>5. QED
  BY <1>1, <1>2, <1>3, <1>4

\* init_apic on the processor.
LEMMA ApApicWriteStep ==
  ASSUME Started, NEW h \in ApicIds, ApApicWrite(h)
  PROVE  Ordered'
<1>1. Position' /\ EarlierUp' /\ LaterOff'
  BY SmpAssumption DEF ApApicWrite, ApGoto, platformVars, apicVars, handVars, apVars
<1>2. OneRises' /\ CallinFresh' /\ IpiCurrent'
  BY SmpAssumption DEF ApApicWrite, ApGoto, platformVars, apicVars, handVars, apVars
<1>3. Handed' /\ StacksApart'
  BY SmpAssumption DEF ApApicWrite, ApGoto, platformVars, apicVars, handVars, apVars
<1>4. StacksUsed'
  BY StacksUsedKept DEF ApApicWrite, ApGoto, platformVars, apicVars, handVars, apVars
<1>5. QED
  BY <1>1, <1>2, <1>3, <1>4

\* The id is in the list, whatever init_apic is asked to check.
LEMMA ApApicOnStep ==
  ASSUME Started, NEW h \in ApicIds, ApApicOn(h)
  PROVE  Ordered'
<1>1. Position' /\ EarlierUp' /\ LaterOff'
  BY SmpAssumption DEF ApApicOn, platformVars, apicVars, handVars, apVars
<1>2. OneRises' /\ CallinFresh' /\ IpiCurrent'
  BY SmpAssumption DEF ApApicOn, platformVars, apicVars, handVars, apVars
<1>3. Handed' /\ StacksApart'
  <2>1. \A g \in ApicIds :
          apPc'[g] = apPc[g] \/ (apPc[g] = "apic_on" /\ apPc'[g] \in {"timers", "bug"})
    BY DEF ApApicOn
  <2>2. Handed'
    BY <2>1 DEF ApApicOn, platformVars, handVars
  <2>3. StacksApart'
    BY <2>1 DEF ApApicOn, platformVars, handVars
  <2>4. QED
    BY <2>2, <2>3
<1>4. StacksUsed'
  <2>1. \A g \in ApicIds : apPc[g] = "tasks" => apPc'[g] = "tasks"
    BY DEF ApApicOn
  <2>2. QED
    BY <2>1, StacksUsedKept DEF ApApicOn, handVars
<1>5. QED
  BY <1>1, <1>2, <1>3, <1>4

\* init_timers on the processor.
LEMMA ApTimersStep ==
  ASSUME Started, NEW h \in ApicIds, ApTimers(h)
  PROVE  Ordered'
<1>1. Position' /\ EarlierUp' /\ LaterOff'
  BY SmpAssumption DEF ApTimers, ApGoto, platformVars, apicVars, handVars, apVars
<1>2. OneRises' /\ CallinFresh' /\ IpiCurrent'
  BY SmpAssumption DEF ApTimers, ApGoto, platformVars, apicVars, handVars, apVars
<1>3. Handed' /\ StacksApart'
  BY SmpAssumption DEF ApTimers, ApGoto, platformVars, apicVars, handVars, apVars
<1>4. StacksUsed'
  BY StacksUsedKept DEF ApTimers, ApGoto, platformVars, apicVars, handVars, apVars
<1>5. QED
  BY <1>1, <1>2, <1>3, <1>4

\* The processor that calls in is the one the boot CPU waits for.
LEMMA CallinStep ==
  ASSUME Started, NEW h \in ApicIds, Callin(h)
  PROVE  Ordered'
<1>1. Position' /\ EarlierUp' /\ LaterOff'
  BY SmpAssumption DEF Callin, ApGoto, platformVars, apicVars, handVars, apVars
<1>2. OneRises' /\ CallinFresh' /\ IpiCurrent'
  BY SmpAssumption DEF Callin, ApGoto, platformVars, apicVars, handVars, apVars
<1>3. Handed' /\ StacksApart'
  BY SmpAssumption DEF Callin, ApGoto, platformVars, apicVars, handVars, apVars
<1>4. StacksUsed'
  BY StacksUsedKept DEF Callin, ApGoto, platformVars, apicVars, handVars, apVars
<1>5. QED
  BY <1>1, <1>2, <1>3, <1>4

HIDE DEF NoStack, Started, Types, Ordered, Position, EarlierUp, LaterOff, OneRises, CallinFresh,
         IpiCurrent, Handed, StacksApart, StacksUsed, Handing, Rising, OnStack, Identified

-----------------------------------------------------------------------------
(* The invariant.                                                          *)

LEMMA TypesStep ==
  ASSUME Types, SmpNext
  PROVE  Types' /\ cpus' = cpus
<1> USE SmpAssumption DEF Types, platformVars, apicVars, handVars, apVars, Rising
<1>1. CASE InitSmp \/ SkipBsp \/ WaitCallin
  BY <1>1 DEF InitSmp, SkipBsp, WaitCallin
<1>2. CASE SmpDone \/ HandCpuid \/ ClearCallin
  BY <1>2 DEF SmpDone, HandCpuid, ClearCallin
<1>3. CASE HandStack
  BY <1>3 DEF HandStack, NewStack, NoStack
<1>4. CASE SendIpis
  BY <1>4 DEF SendIpis, SendIpi
<1>5. CASE Deliver
  BY <1>5 DEF Deliver
<1>6. ASSUME NEW h \in ApicIds, ApStep(h)
      PROVE  Types' /\ cpus' = cpus
  BY <1>6 DEF ApStep, TakeStack, TakeCpu, ApApicWrite, ApApicOn, ApTimers, Callin, ApGoto
<1>7. QED
  BY <1>1, <1>2, <1>3, <1>4, <1>5, <1>6 DEF SmpNext, BspSmpStep

LEMMA EntryTypes ==
  ASSUME cpus \in Seq(Entries), NEW j \in DOMAIN cpus
  PROVE  /\ j \in Nat \ {0}
         /\ cpus[j].apic_id \in ApicIds /\ cpus[j].id \in Nat /\ cpus[j].bsp \in BOOLEAN
<1>1. j \in 1 .. Len(cpus) /\ cpus[j] \in Entries
  OBVIOUS
<1>2. QED
  BY <1>1 DEF Entries

LEMMA StartedHolds ==
  ASSUME HandOver, SmpNext, Promise!WellFormed(cpus)
  PROVE  Started
<1>1. Types /\ Types' /\ cpus' = cpus /\ Ordered
  BY TypesStep DEF HandOver
<1>2. \A j \in DOMAIN cpus :
        cpus[j].apic_id \in ApicIds /\ cpus[j].id \in Nat /\ cpus[j].bsp \in BOOLEAN
  BY <1>1, EntryTypes DEF Types
<1>3. \A i, j \in DOMAIN cpus : i # j => cpus[i].apic_id # cpus[j].apic_id
  BY DEF Promise!WellFormed
<1>4. QED
  BY <1>1, <1>2, <1>3 DEF Started

LEMMA HandOverStep ==
  ASSUME HandOver, [SmpNext]_smpVars
  PROVE  HandOver'
<1>1. CASE UNCHANGED smpVars
  BY <1>1 DEF HandOver, Types, Ordered, Position, EarlierUp, LaterOff, OneRises, CallinFresh,
      IpiCurrent, Handed, StacksApart, StacksUsed, smpVars, platformVars, apicVars, handVars, apVars,
      Promise!WellFormed
<1>2. CASE SmpNext /\ Promise!WellFormed(cpus)
  <2>1. Started
    BY <1>2, StartedHolds
  <2>2. Ordered'
    BY <1>2, <2>1, InitSmpStep, SkipBspStep, SmpDoneStep, HandStackStep, HandCpuidStep,
       ClearCallinStep, SendIpisStep, WaitCallinStep, DeliverStep, TakeStackStep, TakeCpuStep,
       ApApicWriteStep, ApApicOnStep, ApTimersStep, CallinStep
    DEF SmpNext, BspSmpStep, ApStep
  <2>3. QED
    BY <2>1, <2>2 DEF HandOver, Started
<1>3. CASE SmpNext /\ ~Promise!WellFormed(cpus)
  BY <1>3, TypesStep DEF HandOver, Promise!WellFormed
<1>4. QED
  BY <1>1, <1>2, <1>3

LEMMA HandOverInit == SmpInit => HandOver
<1> SUFFICES ASSUME SmpInit PROVE HandOver
  OBVIOUS
<1> USE DEF SmpInit, SmpStart, Rising
<1>1. Types
  <2>1. apPc \in [ApicIds -> {"off", "tasks"} \cup Rising] /\ DOMAIN apCpu = ApicIds
    OBVIOUS
  <2>2. apSp \in [ApicIds -> 0 .. MaxStacks] /\ stacks \in 0 .. MaxStacks /\ idx \in Nat
    BY SmpAssumption
  <2>3. ap_new_sp \in 0 .. MaxStacks
    BY SmpAssumption
  <2>4. ap_callin \in BOOLEAN /\ cpus \in Seq(Entries)
    BY Zenon
  <2>5. QED
    BY <2>1, <2>2, <2>3, <2>4 DEF Types
<1>2. \A j \in DOMAIN cpus : cpus[j].apic_id \in ApicIds /\ j \in Nat \ {0}
  BY EntryTypes
<1>3. Position /\ OneRises
  BY DEF Position, OneRises, Handing
<1>4. EarlierUp /\ LaterOff
  BY <1>2 DEF EarlierUp, LaterOff
<1>5. CallinFresh /\ IpiCurrent /\ Handed /\ StacksApart /\ StacksUsed
  BY DEF CallinFresh, IpiCurrent, Handed, StacksApart, StacksUsed, Handing, OnStack, Identified
<1>6. QED
  BY <1>1, <1>3, <1>4, <1>5 DEF HandOver, Ordered

\* The hand-over of ap_new_sp, ap_cpuid and ap_callin between init_smp and
\* ap_startup is in order at all times: earlier processors run, later ones are
\* off, only the current one is on its way, and the globals are for it.
THEOREM HandOverInvariant == SmpSpec => []HandOver
<1>1. HandOver /\ [SmpNext]_smpVars => HandOver'
  BY HandOverStep
<1>2. QED
  BY <1>1, HandOverInit, PTL DEF SmpSpec

-----------------------------------------------------------------------------
(* The refinement.                                                         *)

\* Nobody but a processor that calls in starts or stops running.
LEMMA OthersStutter ==
  ASSUME Started, SmpNext, \A h \in ApicIds : ~Callin(h)
  PROVE  UNCHANGED [h \in ApicIds |-> Running(h)]
<1>1. SUFFICES ASSUME NEW g \in ApicIds
               PROVE  Running(g)' = Running(g)
  BY Zenon
<1>2. CASE BspSmpStep
  BY <1>2 DEF BspSmpStep, InitSmp, SkipBsp, SmpDone, HandStack, HandCpuid, ClearCallin,
      SendIpis, SendIpi, WaitCallin, apVars, Running
<1>3. CASE Deliver
  BY <1>3 DEF Deliver, ApicReady, Started, Ordered, LaterOff, IpiCurrent, Position, Types,
      Rising, Handing, Running
<1>4. ASSUME NEW h \in ApicIds, ApStep(h)
      PROVE  Running(g)' = Running(g)
  BY <1>4 DEF ApStep, TakeStack, TakeCpu, ApApicWrite, ApApicOn, ApTimers, ApGoto, Running,
      Started, Types
<1>5. QED
  BY <1>2, <1>3, <1>4 DEF SmpNext

\* The callin is the start of the current entry's processor.
LEMMA CallinStarts ==
  ASSUME Started, NEW h \in ApicIds, Callin(h)
  PROVE  \E i \in DOMAIN cpus, sp \in 1 .. MaxStacks \cup {NoStack} : Promise!Start(i, sp)
<1> DEFINE R == [g \in ApicIds |-> Running(g)]
<1>1. /\ idx \in DOMAIN cpus /\ h = cpus[idx].apic_id /\ ~cpus[idx].bsp /\ smpPc \in Handing
      /\ apPc[h] = "callin" /\ apCpu[h] = cpus[idx].id
  BY SmpAssumption DEF Callin, ApGoto, Started, Ordered, OneRises, Position, Handed,
      Types, Rising, OnStack, Identified, Handing
<1>2. /\ apSp[h] \in 0 .. MaxStacks /\ apSp[h] = ap_new_sp
      /\ apSp[h] = NoStack => stacks = MaxStacks
  BY <1>1, SmpAssumption DEF Started, Ordered, StacksApart, Handed, Types, OnStack, NoStack
<1>3. \A g \in ApicIds : apPc[g] = "tasks" => R[g] \in [cpu : Nat, sp : 0 .. MaxStacks]
  BY SmpAssumption DEF Running, Started, Ordered, Handed, StacksApart, Types, OnStack
<1>4. \A g \in ApicIds : /\ R[g] # NotRunning <=> apPc[g] = "tasks"
                         /\ R[g] # NotRunning => R[g].sp = apSp[g]
  BY <1>3, SmpAssumption DEF Running
<1>5. R[h] = NotRunning
  BY <1>1 DEF Running
<1>6. \A j \in 1 .. idx - 1 : ~cpus[j].bsp => R[cpus[j].apic_id] # NotRunning
  BY <1>1, <1>3, SmpAssumption DEF Started, Ordered, EarlierUp, Types
<1>7. Promise!Free(apSp[h])
  <2> DEFINE taken == {R[g].sp : g \in {f \in ApicIds : R[f] # NotRunning}}
  <2>1. CASE apSp[h] = NoStack
    <3>1. \A s \in 1 .. MaxStacks : \E g \in ApicIds : apPc[g] = "tasks" /\ apSp[g] = s
      BY <1>1, <1>2, <2>1, SmpAssumption DEF Started, Ordered, StacksUsed, Handing, NoStack
    <3>2. 1 .. MaxStacks \subseteq taken
      BY <1>4, <3>1
    <3>3. QED
      BY <2>1, <3>2 DEF Promise!Free
  <2>2. CASE apSp[h] # NoStack
    <3>1. \A g \in ApicIds : R[g] # NotRunning => R[g].sp # apSp[h]
      BY <1>1, <1>4, <2>2 DEF Started, Ordered, StacksApart, OnStack
    <3>2. QED
      BY <2>2, <3>1 DEF Promise!Free
  <2>3. QED
    BY <2>1, <2>2
<1>8. R' = [R EXCEPT ![h] = [cpu |-> cpus[idx].id, sp |-> apSp[h]]]
  BY <1>1 DEF Callin, ApGoto, Running, Started, Types
<1>9. Promise!Start(idx, apSp[h])
  BY <1>1, <1>5, <1>6, <1>7, <1>8 DEF Promise!Start, Started
<1>10. apSp[h] \in 1 .. MaxStacks \cup {NoStack}
  BY <1>2 DEF NoStack
<1>11. QED
  BY <1>1, <1>9, <1>10

LEMMA StepRefines ==
  ASSUME HandOver, [SmpNext]_smpVars
  PROVE  [Promise!Next]_(Promise!vars)
<1>1. CASE UNCHANGED smpVars
  BY <1>1 DEF smpVars, platformVars, apVars, Promise!vars, Running
<1>2. CASE SmpNext /\ ~Promise!WellFormed(cpus)
  BY <1>2, TypesStep DEF Promise!Next, HandOver
<1>3. CASE SmpNext /\ Promise!WellFormed(cpus)
  <2>1. Started
    BY <1>3, StartedHolds
  <2>2. CASE \E h \in ApicIds : Callin(h)
    BY <2>1, <2>2, CallinStarts DEF Promise!Next
  <2>3. CASE \A h \in ApicIds : ~Callin(h)
    BY <1>3, <2>1, <2>3, OthersStutter DEF Promise!vars, Started
  <2>4. QED
    BY <2>2, <2>3
<1>4. QED
  BY <1>1, <1>2, <1>3

\* init_smp, boot_cpu and ap_startup implement BringUp: every processor that
\* reaches run_tasks does so once, after those before it in the list, with the
\* id of its own entry and on a stack that nobody else runs on, or, when all
\* stacks are in use, on none (get_free_pages_top failed).
THEOREM SmpRefinement == SmpSpec => Refinement
<1>1. SmpInit => Promise!Init
  BY DEF SmpInit, SmpStart, Promise!Init, Promise!Idle, Running
<1>2. HandOver /\ [SmpNext]_smpVars => [Promise!Next]_(Promise!vars)
  BY StepRefines
<1>3. QED
  BY <1>1, <1>2, HandOverInvariant, PTL DEF SmpSpec, Refinement, Promise!Spec
=============================================================================
