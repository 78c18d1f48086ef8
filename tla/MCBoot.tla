------------------------------- MODULE MCBoot -------------------------------
(***************************************************************************)
(* The boots that TLC explores.  A machine is the default one with one of  *)
(* its parts replaced: the processors and the tables that name them, the   *)
(* tables' checksums and pages, the MP tables, the I/O APICs and their     *)
(* overrides with the timers, the memory map, the PCI buses, the consoles. *)
(***************************************************************************)
EXTENDS Boot, TLC

CONSTANT NumApics   \* processors have the APIC IDs below it

MCApicIds == 0 .. NumApics - 1
MCUnits == {1, 2}
MCHwId == [u \in MCUnits |-> u]
MCHwEntries == [u \in MCUnits |-> 5]
MCKernelImage == 4 .. 9

Upto(S, n) == UNION {[1 .. k -> S] : k \in 0 .. n}

X2apic(i, a, on) == [type |-> "X2APIC", id |-> i, apic_id |-> a, enabled |-> on]
Irq(bus, src, gsi) == IrqSrc(bus, src, gsi, gsi = 3, gsi = 3)
Nmi == <<NmiSrc(1, FALSE, FALSE), LapicNmi(0, 1, FALSE, FALSE)>>
OneIoapic == <<IoApic(1, 1, 0), Irq(0, 0, 2)>>
GoodTables == <<Table("FADT", TRUE, 2), Table("MADT", TRUE, 3), Table("HPET", TRUE, 4)>>
Mmap(entries) == MmapTag(TRUE, entries)
LowMemory == <<MmapEntry(0, 3, TRUE), MmapEntry(3, 4, FALSE)>>
Device(multi) == Config(FALSE, multi)
HostBridge == <<0, 0, 0>> :> Config(TRUE, FALSE)

DefaultFw ==
  [magic |-> TRUE, biosPort |-> "p1", uarts |-> {"p1"},
   comConfigs |-> [c \in {"c1", "c2"} |-> IF c = "c1" THEN "p1" ELSE "p2"],
   rsdp |-> <<Rsdp("ebda", TRUE, 2, 36)>>, root |-> Root(TRUE, TRUE, 1, 1),
   tables |-> GoodTables,
   fadt |-> Fadt(TRUE, TRUE, FALSE),
   madt |-> <<Lapic(0, TRUE), Lapic(1, TRUE)>> \o OneIoapic \o Nmi,
   mpf |-> <<Mpf("rom", TRUE, TRUE)>>,
   mpc |-> Mpc(TRUE, TRUE, <<>>),
   kzalloc |-> TRUE, acpica |-> FALSE, hpet |-> TRUE,
   kbd |-> [self_test |-> TRUE, dual |-> TRUE, port1 |-> TRUE, port2 |-> TRUE]]

Default ==
  [fw |-> DefaultFw, present |-> {0, 1}, bsp |-> 0, mode |-> "XAPIC",
   tags |-> <<Mmap(LowMemory \o <<MmapEntry(4, 20, TRUE)>>)>>, cmdline |-> <<>>,
   pci |-> HostBridge @@ (<<0, 1, 0>> :> Device(FALSE))]

\* The processors, and the entries that name them.
CpuMachines ==
  {[Default EXCEPT !.fw.madt = l \o OneIoapic, !.present = p, !.bsp = b,
                   !.cmdline = <<<<"pit", "1">>, <<"apic_timer", "on">>>>] :
     l \in Upto({Lapic(i, on) : i \in 0 .. 2, on \in BOOLEAN}, 2)
           \cup {<<Lapic(0, TRUE), Lapic(2, TRUE), Lapic(1, TRUE)>>,
                 <<Lapic(2, TRUE), Lapic(1, TRUE), Lapic(2, TRUE)>>},
     p \in {{0, 1}, {0, 1, 2}}, b \in {0, 1}}
  \cup {[Default EXCEPT !.fw.madt = [i \in 1 .. NumApics - 1 |-> Lapic(i, TRUE)] \o OneIoapic,
                        !.present = MCApicIds]}
  \cup {[Default EXCEPT !.mode = m] : m \in ApicModes}
  \cup {[Default EXCEPT !.fw.acpica = TRUE, !.present = {0, 1, 2}, !.fw.root.valid = ok,
                        !.fw.madt = l \o <<IoApic(1, 1, 0)>>] :
          l \in Upto({X2apic(1, 2, TRUE), X2apic(2, 1, TRUE), X2apic(2, 2, FALSE),
                      [type |-> "SAPIC", id |-> 1, enabled |-> TRUE],
                      [type |-> "X2APIC_NMI", id |-> 0, lint |-> 1, low |-> FALSE, level |-> FALSE],
                      [type |-> "OTHER"]}, 2),
          ok \in BOOLEAN}

\* The tables: where the root is found, checksums, pages two tables share.
TableMachines ==
  {[Default EXCEPT !.fw.tables = <<Table("FADT", a, r), Table("MADT", b, p), Table("HPET", c, q)>>,
                   !.cmdline = <<<<"hpet", "1">>>>] :
     a, b, c \in BOOLEAN, p \in {2, 3}, q \in {1, 3, 4}, r \in {1, 2}}
  \cup {[Default EXCEPT !.fw.rsdp = r, !.tags = @ \o t, !.fw.root.valid = v] :
          r \in Upto({Rsdp("ebda", FALSE, 2, 36), Rsdp("rom", TRUE, 2, 36)}, 2),
          t \in {<<>>, <<AcpiTag(Rsdp("mbi", FALSE, 2, 36))>>},
          v \in BOOLEAN}
  \cup {[Default EXCEPT !.fw.rsdp = <<Rsdp("ebda", TRUE, rev, len)>>, !.fw.root = Root(s, v, 1, p),
                        !.fw.tables = <<Table("FADT", TRUE, 2), Table("MADT", a, q), Table("HPET", TRUE, 4)>>] :
          rev \in {0, 2}, len \in {0, 36}, s, v, a \in BOOLEAN, p \in {1, 5}, q \in {3, 5}}
  \cup {[Default EXCEPT !.fw.tables = SelectSeq(GoodTables, LAMBDA t : t.sig # sig),
                        !.fw.fadt.legacy_devs = l, !.fw.kzalloc = k, !.fw.mpc.mapped = w] :
          sig \in {"FADT", "MADT", "none"}, l, k, w \in BOOLEAN}

\* The MP tables, in place of ACPI.
MpDefault == <<MpCpu(0, TRUE, TRUE), MpCpu(1, FALSE, TRUE), MpBus(1, "ISA"),
               MpIoapic(1, 1), MpIoapic(2, 2),
               MpInt("IO_INT", 1, "INT", 0, 2, 1), MpInt("IO_INT", 1, "INT", 4, 3, 2)>>
MpMachines ==
  {[Default EXCEPT !.fw.rsdp = <<>>, !.fw.mpc.entries = e, !.fw.kzalloc = k,
                   !.cmdline = <<<<"pit", "yes">>, <<"apic_timer", "1">>>>] :
     e \in {MpDefault, SubSeq(MpDefault, 1, 4), <<MpCpu(1, TRUE, TRUE), MpCpu(0, FALSE, TRUE)>> \o MpDefault,
            <<[type |-> "UNKNOWN"]>> \o MpDefault,
            MpDefault \o <<MpBus(1, "PCI"), MpInt("LOCAL_INT", 1, "NMI", 0, 1, 0)>>},
     k \in BOOLEAN}
  \cup {[Default EXCEPT !.fw.rsdp = <<>>, !.fw.mpc = Mpc(v, w, MpDefault),
                        !.fw.mpf = <<Mpf(a, TRUE, c)>>,
                        !.tags = <<Mmap(m \o <<MmapEntry(4, 20, TRUE)>>)>>] :
          a \in {"ebda", "rom"}, c, v, w \in BOOLEAN, m \in {<<>>, LowMemory}}

\* The I/O APICs, the overrides, the timers and the keyboard.
IrqMachines ==
  {[Default EXCEPT !.fw.madt = <<Lapic(0, TRUE), Lapic(1, TRUE)>> \o a \o o, !.fw.hpet = h,
                   !.cmdline = c] :
     a \in {<<>>, <<IoApic(1, 1, 0)>>, <<IoApic(2, 2, 5), IoApic(1, 1, 0)>>,
            <<IoApic(1, 1, 2)>>, <<IoApic(7, 1, 0), IoApic(7, 2, 0), IoApic(1, 1, 0)>>},
     o \in {<<>>, <<Irq(0, 0, 2)>>, <<Irq(0, 0, 2), Irq(0, 0, 1), Irq(0, 4, 3)>>,
            <<Irq(3, 0, 2), Irq(0, 4, 6)>>},
     h \in BOOLEAN,
     c \in {<<<<"hpet", "1">>, <<"apic_timer", "1">>, <<"pit", "junk">>>>,
            <<<<"pit", "0">>, <<"apic_timer", "1">>, <<"keyboard", "0">>>>,
            <<<<"hpet", "no">>, <<"pit", "1">>>>}}
  \cup {[Default EXCEPT !.fw.kbd = [self_test |-> s, dual |-> d, port1 |-> p, port2 |-> q]] :
          s, d, p, q \in BOOLEAN}
  \cup {[Default EXCEPT !.fw.madt = <<IoApic(7, 1, 0), IoApic(8, 1, 0), IoApic(9, 1, 0), IoApic(3, 1, 0)>>]}

\* The memory map: where ranges begin and end, and none.
MemMachines ==
  {[Default EXCEPT !.tags = <<Mmap(LowMemory \o <<MmapEntry(a, b, TRUE), MmapEntry(c, d, TRUE)>>)>>] :
     a \in {4, 5, 14}, b \in {11, 18, 23, 26}, c \in {26, 28}, d \in {30, 45}}
  \cup {[Default EXCEPT !.tags = t] :
          t \in {<<BasicMeminfo(l, u)>> :
                   l \in {0, 3}, u \in {0, 5, 16}}
                \cup {<<>>, <<MmapTag(FALSE, <<>>), [type |-> "MODULE"]>>}}

\* The PCI buses.
PciMachines ==
  {[Default EXCEPT !.pci = p] :
     p \in {<<>>, <<0, 0, 0>> :> Device(FALSE),
            HostBridge @@ (<<0, 1, 1>> :> Device(FALSE)),
            HostBridge @@ (<<0, 1, 0>> :> Device(FALSE)) @@ (<<0, 1, 1>> :> Device(FALSE))}
           \cup {HostBridge @@ (<<0, 1, 0>> :> Device(TRUE)) @@ (<<0, 1, 1>> :> BridgeConfig(s, t))
                   @@ (<<1, 0, 0>> :> Device(FALSE)) @@ (<<2, 1, 0>> :> Device(TRUE))
                   @@ (<<2, 1, 1>> :> Device(FALSE)) @@ extra :
                   s \in {1, 2}, t \in 0 .. 3,
                   extra \in {HostBridge, <<1, 1, 0>> :> BridgeConfig(2, 2), <<1, 1, 0>> :> BridgeConfig(1, 1)}}}

\* The consoles.
ConsoleMachines ==
  {[Default EXCEPT !.fw.uarts = u, !.fw.magic = m, !.cmdline = c,
                   !.tags = @ \o <<FramebufferTag(f)>>] :
     u \in SUBSET {"p1", "p2"}, m, f \in BOOLEAN,
     c \in {<<>>, <<<<"com1", "c1">>>>, <<<<"com1", "c2">>, <<"com2", "c1">>, <<"foo", "1">>>>,
            <<<<"com1", "bad">>, <<"qemu_console", "1">>>>}}

Machines ==
  CpuMachines \cup TableMachines \cup MpMachines \cup IrqMachines \cup MemMachines
  \cup PciMachines \cup ConsoleMachines

\* The firmware leaves pin 0 of the first I/O APIC enabled.
FirmwareRedir ==
  [u \in MCUnits |-> [n \in 0 .. MCHwEntries[u] - 1 |->
     IF u = 1 /\ n = 0 THEN RoutedEntry(8, 0, FALSE, FALSE) ELSE MaskedEntry]]

MCInit ==
  /\ BootInit
  /\ \E m \in Machines :
       /\ fw = m.fw /\ present = m.present /\ bspApicId = m.bsp /\ pciFw = m.pci
       /\ tags = m.tags \o <<CmdlineTag(m.cmdline)>>
       /\ apicMsr = [h \in MCApicIds |-> IF h = m.bsp THEN m.mode ELSE "XAPIC"]
  /\ redir = FirmwareRedir

MCSpec == MCInit /\ [][BootNext]_vars /\ BootFairness
=============================================================================
