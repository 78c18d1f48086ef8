-------------------------------- MODULE Boot --------------------------------
(***************************************************************************)
(* kernel_start (common/setup.c) from its first line to the jump to        *)
(* kernel_main, on the boot CPU, with the processors that init_smp starts  *)
(* beside it.  The parts it calls are the modules BootMem, Acpi, Ioapic,   *)
(* Smp and Pci; this module has their order and what lies between them:    *)
(* the consoles, the command line, the local APIC, the timers, the serial  *)
(* input and the keyboard.                                                 *)
(*                                                                         *)
(* The machine is the value of present, tags, pciFw and fw in the initial  *)
(* state.  A boot ends in "main", or in "panic", "fault" or "reset".       *)
(***************************************************************************)
EXTENDS Acpi, Pci

VARIABLES opts,      \* the command line options
          consoles,  \* console_callbacks: the devices printk writes to
          pic,       \* whether the 8259 interrupt masks are set
          irqs       \* the ISA interrupts configured so far

bootVars == <<opts, consoles, pic, irqs>>
fwVars == <<fw, pos, acpiVars, boot_flags>>
vars == <<bootPc, bootVars, fwVars, smpVars, ioapicVars, memVars, pciVars>>

\* The rest of the system, for the steps of this module.
others == <<memVars, pciVars, ioapicVars, smpRest, fw, acpiVars>>

(***************************************************************************)
(* The consoles and the command line.                                      *)
(***************************************************************************)

DefaultOpts ==
  [hpet |-> FALSE, pit |-> FALSE, apic_timer |-> FALSE, keyboard |-> TRUE,
   qemu_console |-> FALSE, com1 |-> "", com2 |-> ""]

\* register_console_callback
RegisterConsole(list, device) ==
  IF \E i \in DOMAIN list : list[i] = device THEN list ELSE Append(list, device)

\* init_uart programs the port and waits for its receiver; fw.uarts are the
\* ports whose receiver gets ready.
InitUart(port) == port \in fw.uarts

\* init_uart_console: a port that does not come up is not registered.
UartConsole(list, port) == IF InitUart(port) THEN RegisterConsole(list, port) ELSE list

\* get_first_com_port: the one the BIOS left in its data area, or COM1.
FirstComPort == fw.biosPort

\* init_early_console runs before the command line is read, so opt_qemu_console
\* still has its default.
EarlyConsole ==
  /\ BootGoto("entry", IF fw.magic THEN "multiboot" ELSE "serial")
  /\ consoles' = LET list == UartConsole(consoles, FirstComPort)
                 IN  IF opts.qemu_console THEN RegisterConsole(list, "qemu") ELSE list
  /\ UNCHANGED <<opts, pic, irqs, pos, boot_flags, cpus, timer, others>>

Multiboot ==
  /\ bootPc = "multiboot"
  /\ MultibootTag \/ MultibootEnd
  /\ bootPc' = CASE memPc' = "panic" -> "panic"
                 [] memPc' = "kept" -> "cmdline"
                 [] OTHER -> "multiboot"
  /\ UNCHANGED <<bootVars, fwVars, smpVars, ioapicVars, pciVars>>

\* parse_bool: whatever does not say no enables the option, since -1 is true.
ParseBool(value) == value \notin {"no", "off", "false", "disable", "0"}

\* cmdline_parse: unknown names are ignored, the last value of a name counts.
CmdlineParse ==
  /\ BootGoto("cmdline", "serial")
  /\ opts' = [o \in DOMAIN opts |->
       LET given == SelectSeq(mbi.cmdline, LAMBDA p : p[1] = o)
           value == given[Len(given)][2]
       IN  IF given = <<>> THEN opts[o]
           ELSE IF o \in {"com1", "com2"} THEN value ELSE ParseBool(value)]
  /\ UNCHANGED <<consoles, pic, irqs, pos, boot_flags, cpus, timer, others>>

\* parse_com_port, which module Text has in full: the port is one of the four
\* known ones and every field after it is empty or known; fw.comConfigs are the
\* strings that are so.
ParseComPort(com) == IF opts[com] \in DOMAIN fw.comConfigs THEN {fw.comConfigs[opts[com]]} ELSE {}

\* init_pic leaves every line of the two 8259 masked.
InitPic == pic' = "masked"

\* init_serial_consoles, for two of the four ports, then init_boot_traps,
\* init_real_mode, display_cpu_info and init_pic.
SerialConsoles ==
  /\ BootGoto("serial", "pmm")
  /\ consoles' = LET one(list, com) ==
                       IF ParseComPort(com) = {} THEN list
                       ELSE UartConsole(list, CHOOSE p \in ParseComPort(com) : TRUE)
                 IN  one(one(consoles, "com1"), "com2")
  /\ InitPic
  /\ UNCHANGED <<opts, irqs, pos, boot_flags, cpus, timer, others>>

(***************************************************************************)
(* The memory, the boot CPU and its local APIC.                            *)
(***************************************************************************)

\* init_regions and init_pmm; without a multiboot header there are no regions.
InitPmm ==
  /\ bootPc = "pmm"
  /\ IF memPc = "tags" THEN memPc' = "panic" /\ UNCHANGED <<tags, mbi, memPos, first, rangeVars, bootFrames>>
     ELSE PmmStep
  /\ bootPc' = CASE memPc' = "panic" -> "panic"
                 [] memPc' = "done" -> "percpu"
                 [] OTHER -> "pmm"
  /\ UNCHANGED <<bootVars, fwVars, smpVars, ioapicVars, pciVars>>

\* init_framebuffer has kept a frame buffer of a known depth.
SetupFramebuffer == mbi.fb

\* init_vga_console tests the flag before the FADT has set it.
VgaConsole(list) == IF boot_flags.vga THEN RegisterConsole(list, "vga") ELSE list

\* init_pagetables up to init_extables: the frame buffer, or the VGA console,
\* then init_percpu and init_cpus.
InitCpusStep ==
  /\ BootGoto("percpu", "apic_off")
  /\ consoles' = IF SetupFramebuffer THEN RegisterConsole(consoles, "fb")
                 ELSE VgaConsole(consoles)
  /\ boot_flags' = [boot_flags EXCEPT !.virt = TRUE]
  /\ cpus' = InitCpus
  /\ UNCHANGED <<opts, pic, irqs, pos, timer, others>>

\* init_apic(bsp->id, APIC_MODE_XAPIC), write by write.
BspApicOff ==
  /\ BootGoto("apic_off", "apic_on")
  /\ apicMsr' = [apicMsr EXCEPT ![bspApicId] = ApicOff(@)]
  /\ UNCHANGED <<bootVars, fwVars, platformVars, bspIf, apic_mode, smpPc, idx, handVars,
                 icr, apVars, ioapicVars, memVars, pciVars>>

BspApicOn ==
  /\ BootGoto("apic_on", "acpi")
  /\ apicMsr' = [apicMsr EXCEPT ![bspApicId] = ApicStep(@)]
  /\ apic_mode' = "XAPIC"
  /\ UNCHANGED <<bootVars, fwVars, platformVars, bspIf, smpPc, idx, handVars,
                 icr, apVars, ioapicVars, memVars, pciVars>>

ReadFirmware == FirmwareStep /\ UNCHANGED <<bootVars, memVars, pciVars>>

InitIoapicStep ==
  /\ BootGoto("ioapic", "hpet")
  /\ InitIoapic
  /\ UNCHANGED <<bootVars, fwVars, smpVars, memVars, pciVars>>

(***************************************************************************)
(* The timers.                                                             *)
(***************************************************************************)

PIC_IRQ0_OFFSET == 40
PIT_IRQ == 0
COM1_IRQ == 4
COM2_IRQ == 3
KEYBOARD_PORT1_IRQ == 1
KEYBOARD_PORT2_IRQ == 4

Vector(irq) == PIC_IRQ0_OFFSET + irq

\* configure_isa_irq for the boot CPU, whose cpu->id is the destination; with no
\* I/O APIC for it the ASSERT stops the boot.
Configure(irq, then) ==
  IF RouteIoapic(irq) = NULL THEN bootPc' = "panic" /\ UNCHANGED <<redir, irqs>>
  ELSE /\ bootPc' = then
       /\ redir' = ConfigureIsaIrq(redir, irq, Vector(irq), cpus[GetCpu(cpus, 0)].id)
       /\ irqs' = irqs \cup {irq}

\* init_hpet: the table it looks for may have been recorded but not be mapped.
HpetTable == First(acpi_tables, LAMBDA t : t.sig = "HPET")
HpetWorks == HpetTable # NULL /\ fw.hpet

InitHpet ==
  /\ bootPc = "hpet"
  /\ IF opts.hpet /\ HpetWorks
       THEN Configure(PIT_IRQ, "timers") /\ boot_flags' = [boot_flags EXCEPT !.timer_global = TRUE]
       ELSE bootPc' = "pit" /\ UNCHANGED <<boot_flags, redir, irqs>>
  /\ UNCHANGED <<opts, consoles, pic, pos, cpus, timer, ioapics, buses, smpRest, fw,
                 acpiVars, memVars, pciVars>>

InitPit ==
  /\ bootPc = "pit"
  /\ IF opts.pit
       THEN Configure(PIT_IRQ, "timers") /\ boot_flags' = [boot_flags EXCEPT !.timer_global = TRUE]
       ELSE bootPc' = "timers" /\ UNCHANGED <<boot_flags, redir, irqs>>
  /\ UNCHANGED <<opts, consoles, pic, pos, cpus, timer, ioapics, buses, smpRest, fw,
                 acpiVars, memVars, pciVars>>

\* The pin an ISA interrupt arrives at: the one the firmware described.
Wire(irq) ==
  LET ovr == IsaOverride(buses, "INT", irq)
      gsi == IF ovr = NULL THEN irq ELSE ovr.dst
  IN  IF ovr # NULL /\ ovr.dst_id # IOAPIC_DEST_ID_UNKNOWN
        THEN [unit |-> GetIoapic(ovr.dst_id).unit, pin |-> ovr.dst]
        ELSE [unit |-> FindIoapicForIrq(gsi).unit, pin |-> gsi - FindIoapicForIrq(gsi).gsi_base]

\* The global timer's interrupt reaches the boot CPU.
Ticks ==
  LET e == redir[Wire(PIT_IRQ).unit][Wire(PIT_IRQ).pin]
  IN  ~e.masked /\ e.vector = Vector(PIT_IRQ) /\ e.dest = bspApicId

\* init_apic_timer, where init_timers calls it: the interrupts are enabled for
\* the calibration, which ends when the global timer has ticked.
ApicTimer ==
  /\ bootPc = "timers"
  /\ IF opts.apic_timer /\ boot_flags.timer_global
       THEN /\ bootPc' = "calibrate" /\ bspIf' = TRUE
            /\ timer' = IF Ticks THEN "ticking" ELSE "silent"
       ELSE bootPc' = "irq_on" /\ UNCHANGED <<bspIf, timer>>
  /\ UNCHANGED <<bootVars, fwVars, cpus, present, bspApicId, apicVars, smpPc, idx, handVars,
                 icr, apVars, ioapicVars, memVars, pciVars>>

Calibrated ==
  /\ timer = "ticking"
  /\ BootGoto("calibrate", "irq_on")
  /\ bspIf' = FALSE
  /\ UNCHANGED <<bootVars, fwVars, platformVars, apicVars, smpPc, idx, handVars,
                 icr, apVars, ioapicVars, memVars, pciVars>>

\* Mutant of InterruptsOn: the interrupts are enabled after init_smp only.
InterruptsOnLate == FALSE

InterruptsOn == TRUE

\* interrupts_enable(), and whether there is an init_smp.
InterruptsEnable ==
  /\ BootGoto("irq_on", IF boot_flags.nosmp THEN "pci" ELSE "smp")
  /\ bspIf' = InterruptsOn
  /\ UNCHANGED <<bootVars, fwVars, platformVars, apicVars, smpPc, idx, handVars,
                 icr, apVars, ioapicVars, memVars, pciVars>>

(***************************************************************************)
(* The other processors, the PCI bus and the input devices.                *)
(***************************************************************************)

\* The boot CPU is in init_smp; the others and the local APIC go on by
\* themselves.
StartProcessors ==
  /\ bootPc = "smp"
  /\ BspSmpStep
  /\ bootPc' = IF smpPc' = "done" THEN "pci" ELSE "smp"
  /\ UNCHANGED <<bootVars, fwVars, ioapicVars, memVars, pciVars>>

DeliverIpi ==
  /\ Deliver
  /\ bootPc' = IF smpPc' = "reset" THEN "reset" ELSE bootPc
  /\ UNCHANGED <<bootVars, fwVars, ioapicVars, memVars, pciVars>>

ProcessorStarts(h) ==
  /\ ApStep(h)
  /\ UNCHANGED <<bootPc, bootVars, fwVars, ioapicVars, memVars, pciVars>>

InitPci ==
  /\ bootPc = "pci"
  /\ PciStep
  /\ bootPc' = CASE pciPc' = "done" -> "uart1" [] pciPc' = "panic" -> "panic" [] OTHER -> "pci"
  /\ UNCHANGED <<bootVars, fwVars, smpVars, ioapicVars, memVars>>

\* init_uart_input, then init_keyboard: the controller's self test and the
\* tests of its ports decide which interrupt is used, if any.
KeyboardPort ==
  CASE ~opts.keyboard \/ ~boot_flags.i8042 \/ ~fw.kbd.self_test -> {}
    [] fw.kbd.port1 -> {KEYBOARD_PORT1_IRQ}
    [] ~fw.kbd.port1 /\ fw.kbd.dual /\ fw.kbd.port2 -> {KEYBOARD_PORT2_IRQ}
    [] OTHER -> {}

InputIrq(from, irq, then) ==
  /\ bootPc = from
  /\ Configure(irq, then)
  /\ UNCHANGED <<opts, consoles, pic, fwVars, smpVars, ioapics, buses, memVars, pciVars>>

InitInput ==
  \/ InputIrq("uart1", COM1_IRQ, "uart2")
  \/ InputIrq("uart2", COM2_IRQ, "keyboard")
  \/ \E irq \in KeyboardPort : InputIrq("keyboard", irq, "main")
  \/ /\ KeyboardPort = {}
     /\ BootGoto("keyboard", "main")
     /\ UNCHANGED <<bootVars, fwVars, smpVars, ioapicVars, memVars, pciVars>>

BspStep ==
  \/ EarlyConsole \/ Multiboot \/ CmdlineParse \/ SerialConsoles \/ InitPmm \/ InitCpusStep
  \/ BspApicOff \/ BspApicOn \/ ReadFirmware \/ InitIoapicStep
  \/ InitHpet \/ InitPit \/ ApicTimer \/ Calibrated \/ InterruptsEnable
  \/ InitPci \/ InitInput

BootNext ==
  BspStep \/ StartProcessors \/ DeliverIpi \/ \E h \in ApicIds : ProcessorStarts(h)

\* Every processor runs, and the local APIC delivers: nothing in kernel_start
\* stops a processor but the loops that are modelled.
BootFairness ==
  /\ WF_vars(BspStep) /\ WF_vars(StartProcessors) /\ WF_vars(DeliverIpi)
  /\ \A h \in ApicIds : WF_vars(ProcessorStarts(h))

\* The kernel as it is entered; the machine is what the MC module chooses.
BootInit ==
  /\ bootPc = "entry" /\ pos = 0 /\ opts = DefaultOpts /\ consoles = <<>> /\ irqs = {}
  /\ pic = "unmasked"
  /\ boot_flags = [virt |-> FALSE, legacy_devs |-> FALSE, i8042 |-> FALSE, vga |-> FALSE,
                   nosmp |-> FALSE, timer_global |-> FALSE]
  /\ acpi_tables = <<>> /\ mapped = {}
  /\ cpus = <<>> /\ timer = "none" /\ bspIf = FALSE /\ apic_mode = "UNKNOWN"
  /\ ioapics = <<>> /\ buses = <<>>
  /\ SmpStart /\ MemInit /\ PciInit

(***************************************************************************)
(* Properties.                                                             *)
(***************************************************************************)

\* The tables lead to one entry per CPU in the list of common/cpu.c, however
\* often they name it; and no two CPUs share a per-CPU page, as long as no table
\* tells an id and an APIC ID of a CPU apart.
CpusDistinct ==
  \A i, j \in DOMAIN cpus : i # j =>
    /\ cpus[i].id # cpus[j].id
    /\ (\A k \in DOMAIN fw.madt : fw.madt[k].type = "X2APIC" => fw.madt[k].id = fw.madt[k].apic_id)
         => cpus[i].page # cpus[j].page

\* init_apic never asks for a change of mode that the processor refuses with a
\* general protection fault, whatever mode the firmware left the APIC in.
ApicLegal == [][\A h \in ApicIds : LegalApicChange(apicMsr[h], apicMsr'[h])]_vars

\* Once the boot CPU takes interrupts, also for the calibration of its timer,
\* the 8259s are masked, and an I/O APIC the kernel knows of sends nothing but
\* the interrupts that drivers asked for.
OnlyKnownIrqs ==
  bspIf =>
    /\ pic = "masked"
    /\ \A i \in DOMAIN ioapics : \A n \in DOMAIN redir[ioapics[i].unit] :
         LET e == redir[ioapics[i].unit][n]
         IN  e.masked \/ \E irq \in irqs : e.vector = Vector(irq)

\* The pin an ISA interrupt arrives at, according to the override the firmware
\* gave for it, is the one configure_isa_irq programmed, with its vector, its
\* polarity and its trigger mode.  configure_isa_irq takes a global system
\* interrupt for the pin's number, so this needs an I/O APIC whose gsi_base is
\* 0, and two interrupts on one pin are the later one's.
IsaIrqsRouted ==
  \A irq \in irqs :
    LET w == Wire(irq)
        ovr == IsaOverride(buses, "INT", irq)
        e == redir[w.unit][w.pin]
    IN  (/\ RouteIoapic(irq).gsi_base = 0
         /\ \A other \in irqs \ {irq} : Wire(other) # w)
        => /\ ~e.masked /\ e.vector = Vector(irq)
           /\ e.low = (ovr # NULL /\ ovr.low) /\ e.level = (ovr # NULL /\ ovr.level)

\* Reading the firmware's tables touches no page that is not mapped: the boot
\* faults there only after an allocation failed, after a table that was recorded
\* all the same had failed its checksum, on an XSDT that reaches beyond the page
\* the RSDP's length covers (acpi_find_xsdt maps no more, or nothing), and on an MP
\* configuration table outside the BIOS areas (get_mpc_addr maps nothing).
FaultExplained ==
  bootPc = "fault" =>
    \/ ~fw.kzalloc
    \/ \E i \in DOMAIN acpi_tables : ~acpi_tables[i].valid
    \/ /\ acpi_tables = <<>> /\ FoundRsdp # NULL /\ FoundRsdp.rev >= 2
       /\ FoundRsdp.length = 0 \/ fw.root.last # fw.root.page
    \/ /\ ~HasTable("FADT") \/ ~HasTable("MADT")
       /\ FoundMpf # NULL /\ FoundMpf.config /\ ~fw.mpc.mapped

\* What has to be true of the machine for the rest of the boot, when the boot
\* CPU enables interrupts: every CPU of the list is there, and a stack for it,
\* the boot CPU is the one with APIC ID 0, the timer ticks, the interrupts of the
\* input devices have an I/O APIC, and the PCI buses can be walked.
Sane ==
  /\ boot_flags.nosmp \/ \A i \in DOMAIN cpus : cpus[i].apic_id \in present
  /\ bspApicId = 0 /\ cpus[GetCpu(cpus, 0)].apic_id = 0
  /\ Promise!WellFormed(cpus)
  /\ Cardinality({i \in DOMAIN cpus : ~cpus[i].bsp}) <= MaxStacks
  /\ \A irq \in {COM1_IRQ, COM2_IRQ} \cup KeyboardPort : RouteIoapic(irq) # NULL
  /\ Finite

\* kernel_start comes to kernel_main: no processor waits for another one for
\* ever, in the hand-over of init_smp, in the calibration of the timers or in
\* the walk of the buses.
BootCompletes == (bootPc = "irq_on" /\ Sane) ~> (bootPc = "main")
============================================================================
