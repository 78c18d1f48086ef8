------------------------------- MODULE Ioapic -------------------------------
(***************************************************************************)
(* The I/O APICs and the system buses of arch/x86/ioapic.c: what the       *)
(* firmware tables register, init_ioapic, and the routing of an ISA        *)
(* interrupt by configure_isa_irq.                                         *)
(*                                                                         *)
(* An I/O APIC's registers are found at its base address; a base stands    *)
(* for the hardware unit, whose id and number of redirection entries are   *)
(* in HwId and HwEntries (external).  nr_entries is 0 until init_ioapic.   *)
(***************************************************************************)
EXTENDS Naturals, Sequences

CONSTANTS Units,       \* base addresses of I/O APICs
          HwId,        \* the id each unit reports
          HwEntries,   \* its number of redirection entries
          MAX_IOAPICS, \* the length of the array ioapics
          NULL         \* no I/O APIC, no bus, no override

ASSUME IoapicAssumption ==
  /\ HwEntries \in [Units -> Nat \ {0}]
  /\ HwId \in [Units -> Nat]
  /\ MAX_IOAPICS \in Nat

VARIABLES ioapics,  \* the array, as a sequence: id, gsi_base, unit, nr_entries
          buses,    \* bus_list: id, name and the sequence of overrides
          redir     \* by unit and pin: the redirection table

ioapicVars == <<ioapics, buses, redir>>

IOAPIC_DEST_ID_UNKNOWN == 255

\* The list entries: a bus, an I/O APIC not yet initialised, an override.
Bus(id, name) == [id |-> id, name |-> name, overrides |-> <<>>]
NewIoapic(id, unit, gsi_base) ==
  [id |-> id, unit |-> unit, gsi_base |-> gsi_base, nr_entries |-> 0]
IrqOverride(type, src, dst, dst_id, e) ==
  [type |-> type, src |-> src, dst |-> dst, dst_id |-> dst_id, low |-> e.low, level |-> e.level]

\* A redirection entry as init_ioapic leaves it, and one as it routes.
MaskedEntry == [vector |-> 0, dest |-> 0, low |-> FALSE, level |-> FALSE, masked |-> TRUE]
RoutedEntry(vector, dest, low, level) ==
  [vector |-> vector, dest |-> dest, low |-> low, level |-> level, masked |-> FALSE]

\* The first element that passes a test, or NULL.
First(seq, Test(_)) ==
  LET matches == SelectSeq(seq, Test)
  IN  IF matches = <<>> THEN NULL ELSE matches[1]

(***************************************************************************)
(* The buses.                                                              *)
(***************************************************************************)

BusById(bs, id) == First(bs, LAMBDA b : b.id = id)
BusByName(bs, name) == First(bs, LAMBDA b : b.name = name)

\* add_system_bus: a known id with another name is refused, with NULL; a
\* known id with the same name is left as it is.
BusRefused(bs, id, name) == BusById(bs, id) # NULL /\ BusById(bs, id).name # name
AddSystemBus(bs, id, name) ==
  IF BusById(bs, id) # NULL THEN bs
  ELSE Append(bs, Bus(id, name))

\* add_system_bus_irq_override: -ENODEV for an unknown bus, which no caller
\* looks at: the override is dropped.
AddOverride(bs, id, ovr) ==
  [i \in DOMAIN bs |->
     IF bs[i] = BusById(bs, id)
       THEN [bs[i] EXCEPT !.overrides = Append(@, ovr)] ELSE bs[i]]

\* get_system_isa_bus_irq: the first override of that type and source.
IsaOverride(bs, type, src) ==
  LET bus == BusByName(bs, "ISA")
  IN  IF bus = NULL THEN NULL
      ELSE First(bus.overrides, LAMBDA o : o.type = type /\ o.src = src)

(***************************************************************************)
(* The I/O APICs.                                                          *)
(***************************************************************************)

\* get_ioapic
GetIoapic(id) == First(ioapics, LAMBDA a : a.id = id)

\* add_ioapic: an entry with the same id is overwritten, its nr_entries kept.
AddIoapic(id, unit, gsi_base) ==
  LET new == NewIoapic(id, unit, gsi_base)
  IN  IF GetIoapic(id) = NULL THEN Append(ioapics, new)
      ELSE [i \in DOMAIN ioapics |->
              IF ioapics[i].id = id THEN [new EXCEPT !.nr_entries = ioapics[i].nr_entries]
              ELSE ioapics[i]]

\* add_ioapic's BUG_ON fires only past the end of the array.
IoapicBug(id) == GetIoapic(id) = NULL /\ Len(ioapics) > MAX_IOAPICS

\* Mutant of InitIoapic: the entries are left as the firmware programmed them.
InitIoapicKept ==
  /\ ioapics' = [i \in DOMAIN ioapics |->
                   [ioapics[i] EXCEPT !.id = HwId[ioapics[i].unit],
                                      !.nr_entries = HwEntries[ioapics[i].unit]]]
  /\ UNCHANGED <<buses, redir>>

\* init_ioapic: the id and the number of entries come from the hardware, and
\* every entry is masked.
InitIoapic ==
  /\ ioapics' = [i \in DOMAIN ioapics |->
                   [ioapics[i] EXCEPT !.id = HwId[ioapics[i].unit],
                                      !.nr_entries = HwEntries[ioapics[i].unit]]]
  /\ redir' = [u \in Units |->
                 IF \E i \in DOMAIN ioapics : ioapics[i].unit = u
                   THEN [n \in DOMAIN redir[u] |-> [redir[u][n] EXCEPT !.masked = TRUE]]
                   ELSE redir[u]]
  /\ UNCHANGED buses

\* find_ioapic_for_irq
FindIoapicForIrq(gsi) ==
  First(ioapics, LAMBDA a : gsi \in a.gsi_base .. a.gsi_base + a.nr_entries - 1)

\* Mutant of RouteIndex: the override is not looked up.
RouteIndexPlain(irq) == irq

\* The I/O APIC that configure_isa_irq programs, and the index it uses in it.
\* The index is the override's destination as it stands, or the IRQ itself.
RouteIndex(irq) ==
  IF IsaOverride(buses, "INT", irq) = NULL THEN irq ELSE IsaOverride(buses, "INT", irq).dst
RouteIoapic(irq) ==
  LET ovr == IsaOverride(buses, "INT", irq)
  IN  IF ovr = NULL \/ ovr.dst_id = IOAPIC_DEST_ID_UNKNOWN
        THEN FindIoapicForIrq(RouteIndex(irq)) ELSE GetIoapic(ovr.dst_id)

\* set_ioapic_redirtbl_entry: an index past the table is -EINVAL, which nobody
\* looks at.
SetRedirtblEntry(table, ioapic, n, entry) ==
  IF n >= ioapic.nr_entries THEN table ELSE [table EXCEPT ![ioapic.unit][n] = entry]

\* configure_isa_irq, once an I/O APIC was found (ASSERT else).
ConfigureIsaIrq(table, irq, vector, dest) ==
  LET ovr == IsaOverride(buses, "INT", irq)
  IN  SetRedirtblEntry(table, RouteIoapic(irq), RouteIndex(irq),
        RoutedEntry(vector, dest, ovr # NULL /\ ovr.low, ovr # NULL /\ ovr.level))
============================================================================
