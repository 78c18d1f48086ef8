-------------------------------- MODULE Acpi --------------------------------
(***************************************************************************)
(* The firmware's description of the machine, and how init_acpi            *)
(* (common/acpi.c) and init_mptables (smp/mptables.c) turn it into the CPU *)
(* list, the I/O APICs and the system buses.                               *)
(*                                                                         *)
(* The tables are fw, a record: where an RSDP is and which root table it   *)
(* has, the tables the root names, each with its page and whether its      *)
(* checksum is right, the entries of the MADT, and the MP tables.  The     *)
(* kernel is built with its own parser or with ACPICA (fw.acpica), whose   *)
(* table manager is external.  One entry of a table is one step.           *)
(***************************************************************************)
EXTENDS Smp, Ioapic, BootMem

VARIABLES fw,          \* what the firmware left in memory; never changes
          bootPc,      \* where the boot CPU is in kernel_start
          pos,         \* its position in the table it walks
          acpi_tables, \* the tables init_acpi recorded, in order
          mapped,      \* pages of ACPI tables mapped by VMAP_KERNEL_MAP
          boot_flags   \* those the firmware decides

acpiVars == <<acpi_tables, mapped>>
smpRest == <<present, bspApicId, bspIf, apicVars, smpPc, idx, handVars, icr, apVars>>

\* The tables: the root pointer, the root table with the pages of its header and
\* of its last entry, one that the root table names, the FADT's flags, the
\* entries of the MADT and of the MP configuration table.
Rsdp(at, valid, rev, length) == [at |-> at, valid |-> valid, rev |-> rev, length |-> length]
Root(sig, valid, page, last) == [sig |-> sig, valid |-> valid, page |-> page, last |-> last]
Table(sig, valid, page) == [sig |-> sig, valid |-> valid, page |-> page]
Fadt(legacy_devs, i8042, no_vga) ==
  [legacy_devs |-> legacy_devs, i8042 |-> i8042, no_vga |-> no_vga]
Lapic(id, enabled) == [type |-> "LAPIC", id |-> id, enabled |-> enabled]
IoApic(id, unit, gsi) == [type |-> "IOAPIC", id |-> id, unit |-> unit, gsi |-> gsi]
IrqSrc(bus, src, gsi, low, level) ==
  [type |-> "IRQ_SRC", bus |-> bus, src |-> src, gsi |-> gsi, low |-> low, level |-> level]
NmiSrc(gsi, low, level) == [type |-> "NMI_SRC", gsi |-> gsi, low |-> low, level |-> level]
LapicNmi(id, lint, low, level) ==
  [type |-> "LAPIC_NMI", id |-> id, lint |-> lint, low |-> low, level |-> level]
Mpf(at, valid, config) == [at |-> at, valid |-> valid, config |-> config]
Mpc(valid, mapped_, entries) == [valid |-> valid, mapped |-> mapped_, entries |-> entries]
MpCpu(id, bsp, enabled) == [type |-> "CPU", id |-> id, bsp |-> bsp, enabled |-> enabled]
MpBus(id, name) == [type |-> "BUS", id |-> id, name |-> name]
MpIoapic(id, unit) == [type |-> "IOAPIC", id |-> id, unit |-> unit]
MpInt(type, bus, int, src, dst, dst_id) ==
  [type |-> type, bus |-> bus, int |-> int, src |-> src, dst |-> dst, dst_id |-> dst_id,
   low |-> FALSE, level |-> FALSE]

BootGoto(from, to) == bootPc = from /\ bootPc' = to

(***************************************************************************)
(* init_acpi without ACPICA: the tables.                                   *)
(***************************************************************************)

\* acpi_find_rsdp: the boot loader's copy is taken as it is, one in the EBDA
\* or the BIOS ROM must pass validate_rsdp.
FoundRsdp ==
  First(mbi.rsdp \o fw.rsdp, LAMBDA r : r.at = "mbi" \/ (r.valid /\ r.rev \in {0, 2}))

\* The pages of the root table, and the one its entry i is in.
RootEntryPage(i) == IF i = Len(fw.tables) THEN fw.root.last ELSE fw.root.page
RootPages == {fw.root.page, fw.root.last}

\* acpi_find_rsdt maps the table by the length in its header, acpi_find_xsdt by
\* the length of the RSDP, enough for a header, and does not look whether it could.
RootMapped ==
  IF FoundRsdp.rev < 2 THEN RootPages
  ELSE IF FoundRsdp.length = 0 THEN {} ELSE {fw.root.page}

\* The root table is mapped, and unmapped again if its signature is another one
\* or its checksum, for which all of it is read, is wrong.
FindRootTable ==
  /\ bootPc = "acpi" /\ ~fw.acpica
  /\ bootPc' = IF FoundRsdp = NULL THEN "mptables"
               ELSE IF fw.root.page \notin RootMapped THEN "fault"
               ELSE IF ~fw.root.sig THEN "mptables"
               ELSE IF ~(RootPages \subseteq RootMapped) THEN "fault"
               ELSE IF ~fw.root.valid THEN "mptables"
               ELSE "acpi_table"
  /\ mapped' = IF bootPc' = "mptables" THEN {} ELSE RootMapped
  /\ pos' = 1
  /\ UNCHANGED <<fw, acpi_tables, boot_flags, cpus, timer, smpRest, ioapicVars>>

\* Mutant of AfterChecksum: the test is the wrong way round.
AfterChecksumInverted(pages, table) == IF table.valid THEN pages \ {table.page} ELSE pages

\* A table whose checksum is wrong is unmapped.
AfterChecksum(pages, table) == IF table.valid THEN pages ELSE pages \ {table.page}

\* One turn of the loop over the root table's entries, which it reads from the
\* root table's pages.  The table is recorded whatever its checksum was.
RecordTable ==
  /\ bootPc = "acpi_table" /\ pos <= Len(fw.tables)
  /\ IF RootEntryPage(pos) \in mapped
       THEN /\ mapped' = AfterChecksum(mapped \cup {fw.tables[pos].page}, fw.tables[pos])
            /\ acpi_tables' = Append(acpi_tables, fw.tables[pos])
            /\ pos' = pos + 1
            /\ UNCHANGED bootPc
       ELSE bootPc' = "fault" /\ UNCHANGED <<pos, acpiVars>>
  /\ UNCHANGED <<fw, boot_flags, cpus, timer, smpRest, ioapicVars>>

\* acpi_dump_tables reads the header of every table recorded.
DumpTables ==
  /\ bootPc = "acpi_table" /\ pos > Len(fw.tables)
  /\ bootPc' = IF \A i \in DOMAIN acpi_tables : acpi_tables[i].page \in mapped
                 THEN "fadt" ELSE "fault"
  /\ UNCHANGED <<fw, pos, acpiVars, boot_flags, cpus, timer, smpRest, ioapicVars>>

\* acpi_find_table
HasTable(sig) == \E i \in DOMAIN acpi_tables : acpi_tables[i].sig = sig

\* With ACPICA its table manager finds the tables and checks them.
InitializeFullAcpi ==
  /\ bootPc = "acpi" /\ fw.acpica
  /\ IF FoundRsdp = NULL \/ ~fw.root.sig \/ ~fw.root.valid
       THEN bootPc' = "mptables" /\ UNCHANGED acpi_tables
       ELSE /\ bootPc' = "fadt"
            /\ acpi_tables' = SelectSeq(fw.tables, LAMBDA t : t.valid)
  /\ UNCHANGED <<fw, pos, mapped, boot_flags, cpus, timer, smpRest, ioapicVars>>

\* process_fadt and init_fadt: without a FADT init_acpi fails, and the MADT is
\* not looked at.
ProcessFadt ==
  /\ bootPc = "fadt"
  /\ IF HasTable("FADT")
       THEN /\ bootPc' = "madt_isa"
            /\ boot_flags' = [boot_flags EXCEPT !.legacy_devs = fw.fadt.legacy_devs,
                                                !.i8042 = fw.fadt.i8042,
                                                !.vga = ~fw.fadt.no_vga]
       ELSE bootPc' = "mptables" /\ UNCHANGED boot_flags
  /\ UNCHANGED <<fw, pos, acpiVars, cpus, timer, smpRest, ioapicVars>>

(***************************************************************************)
(* The MADT.                                                               *)
(***************************************************************************)

\* process_madt_entries: the ISA bus is there if the FADT says so; with ACPICA
\* every entry adds it.  A bus that cannot be allocated is a BUG.
ProcessMadt ==
  /\ bootPc = "madt_isa"
  /\ LET isa == HasTable("MADT")
                  /\ (IF fw.acpica THEN fw.madt # <<>> ELSE boot_flags.legacy_devs) IN
     /\ bootPc' = CASE ~HasTable("MADT") -> "mptables"
                    [] isa /\ ~fw.kzalloc -> "panic"
                    [] OTHER -> "madt"
     /\ buses' = IF isa /\ fw.kzalloc THEN AddSystemBus(buses, 0, "ISA") ELSE buses
  /\ pos' = 1
  /\ UNCHANGED <<fw, acpiVars, boot_flags, cpus, timer, smpRest, ioapics, redir>>

\* The CPU list after an entry.  A disabled LAPIC entry is skipped; disabled
\* SAPIC and X2APIC entries are not.
MadtCpus(e) ==
  CASE e.type = "LAPIC" -> IF e.enabled THEN FindOrAddCpu(cpus, e.id, TRUE) ELSE cpus
    [] e.type = "SAPIC" /\ fw.acpica -> FindOrAddCpu(cpus, e.id, e.enabled)
    [] e.type = "X2APIC" /\ fw.acpica ->
         LET list == FindOrAddCpu(cpus, e.id, e.enabled)
         IN  SetApicId(list, GetCpu(list, e.id), e.apic_id)
    [] OTHER -> cpus

\* The overrides an entry adds, on the bus it names or on bus 0.
MadtBuses(e) ==
  CASE e.type = "IRQ_SRC" ->
         AddOverride(buses, e.bus,
           IrqOverride("INT", e.src, e.gsi, IOAPIC_DEST_ID_UNKNOWN, e))
    [] e.type = "NMI_SRC" ->
         AddOverride(buses, 0, IrqOverride("NMI", e.gsi, 0, 0, e))
    [] e.type = "LAPIC_NMI" \/ (e.type = "X2APIC_NMI" /\ fw.acpica) ->
         AddOverride(buses, 0, IrqOverride("NMI", 0, e.lint, e.id, e))
    [] OTHER -> buses

MadtIoapics(e) ==
  IF e.type \in {"IOAPIC", "IOSAPIC"} THEN AddIoapic(e.id, e.unit, e.gsi) ELSE ioapics

\* A CPU that cannot be allocated is dereferenced all the same.
CpuAllocFails(list) == ~fw.kzalloc /\ Len(list) > Len(cpus)

\* One entry: madt_parser, and the body of the loop of process_madt_entries.
MadtEntry ==
  /\ bootPc = "madt" /\ pos <= Len(fw.madt)
  /\ LET e == fw.madt[pos] IN
     /\ bootPc' = CASE CpuAllocFails(MadtCpus(e)) -> "fault"
                    [] e.type \in {"IOAPIC", "IOSAPIC"} /\ IoapicBug(e.id) -> "panic"
                    [] OTHER -> "madt"
     /\ cpus' = MadtCpus(e)
     /\ ioapics' = MadtIoapics(e)
     /\ buses' = IF fw.kzalloc THEN MadtBuses(e) ELSE buses
  /\ pos' = pos + 1
  /\ UNCHANGED <<fw, acpiVars, boot_flags, timer, smpRest, redir>>

MadtEnd ==
  /\ pos > Len(fw.madt)
  /\ BootGoto("madt", "ioapic")
  /\ UNCHANGED <<fw, pos, acpiVars, boot_flags, cpus, timer, smpRest, ioapicVars>>

(***************************************************************************)
(* The MP tables, when init_acpi failed.                                   *)
(***************************************************************************)

\* get_mpf_addr: the EBDA, the end of the low memory, the BIOS ROM.  When the
\* boot loader reported no memory at 512 KiB the ROM is not searched.
FoundMpf ==
  First(fw.mpf, LAMBDA m : m.valid /\ (m.at = "ebda" \/ HasMemoryRange(mbi, KB512)))

\* get_mpc_addr reads the configuration table where it expects it to be mapped,
\* as map_bios_area did with the BIOS areas, and maps nothing.
AfterMpc ==
  IF ~fw.mpc.mapped THEN "fault" ELSE IF fw.mpc.valid THEN "mpc" ELSE "ioapic"

\* init_mptables up to process_mpc_entries; on failure there is no SMP.
InitMptables ==
  /\ bootPc = "mptables"
  /\ bootPc' = IF FoundMpf = NULL \/ ~FoundMpf.config THEN "ioapic" ELSE AfterMpc
  /\ boot_flags' = IF bootPc' = "ioapic" THEN [boot_flags EXCEPT !.nosmp = TRUE] ELSE boot_flags
  /\ pos' = 1
  /\ UNCHANGED <<fw, acpiVars, cpus, timer, smpRest, ioapicVars>>

\* The boot CPU's entry is taken for the boot CPU whatever its id says.
MpcCpus(e) ==
  IF e.type # "CPU" THEN cpus
  ELSE LET list == IF e.bsp THEN [cpus EXCEPT ![GetCpu(cpus, 0)].enabled = e.enabled]
                            ELSE FindOrAddCpu(cpus, e.id, e.enabled)
       IN  SetApicId(list, GetCpu(list, IF e.bsp THEN 0 ELSE e.id), e.id)

MpcBuses(e) ==
  CASE e.type = "BUS" -> AddSystemBus(buses, e.id, e.name)
    [] e.type \in {"IO_INT", "LOCAL_INT"} ->
         AddOverride(buses, e.bus, IrqOverride(e.int, e.src, e.dst, e.dst_id, e))
    [] OTHER -> buses

MpcIoapics(e) == IF e.type = "IOAPIC" THEN AddIoapic(e.id, e.unit, 0) ELSE ioapics

\* One entry of process_mpc_entries.  The pointer does not move past an entry
\* of an unknown type, so the loop ends without seeing the ones after it.
MpcEntry ==
  /\ bootPc = "mpc" /\ pos <= Len(fw.mpc.entries)
  /\ LET e == fw.mpc.entries[pos] IN
     /\ bootPc' = CASE CpuAllocFails(MpcCpus(e)) -> "fault"
                    [] e.type = "BUS" /\ ~fw.kzalloc -> "panic"
                    [] e.type = "IOAPIC" /\ IoapicBug(e.id) -> "panic"
                    [] e.type = "UNKNOWN" -> "ioapic"
                    [] OTHER -> "mpc"
     /\ cpus' = MpcCpus(e)
     /\ ioapics' = MpcIoapics(e)
     /\ buses' = IF fw.kzalloc THEN MpcBuses(e) ELSE buses
  /\ pos' = pos + 1
  /\ UNCHANGED <<fw, acpiVars, boot_flags, timer, smpRest, redir>>

MpcEnd ==
  /\ pos > Len(fw.mpc.entries)
  /\ BootGoto("mpc", "ioapic")
  /\ UNCHANGED <<fw, pos, acpiVars, boot_flags, cpus, timer, smpRest, ioapicVars>>

FirmwareStep ==
  \/ FindRootTable \/ RecordTable \/ DumpTables \/ InitializeFullAcpi
  \/ ProcessFadt \/ ProcessMadt \/ MadtEntry \/ MadtEnd
  \/ InitMptables \/ MpcEntry \/ MpcEnd
============================================================================
