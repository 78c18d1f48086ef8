--------------------------------- MODULE Osl ---------------------------------
(***************************************************************************)
(* The memory mappings and the interrupt handler ACPICA gets from the OS   *)
(* layer (drivers/acpi/acpica/osl.c).                                      *)
(*                                                                         *)
(* AcpiOsMapMemory maps the pages of a physical range and counts, in a     *)
(* list of mapped_frame, how many ranges share a page; map_lock makes a    *)
(* call one step.  An address counts units, OSL_PAGE to a page.            *)
(***************************************************************************)
EXTENDS Integers, Sequences, FiniteSets, FiniteSetsExt

CONSTANTS OSL_PAGE,
          Ranges,         \* what ACPICA maps: [pa, len]
          UnmappablePages, \* the pages vmap_kern_4k fails for
          Levels,         \* interrupt levels ACPICA asks for
          MAX_INT,        \* vectors of the IDT
          MaxOslOps       \* bound on the number of calls

VARIABLES mapped_frames,  \* page -> refcount, for the pages in the list
          kernMap,        \* the pages mapped in VIRT_KERNEL_MAP
          ranges,         \* history: bag of the ranges ACPICA has, as a function
          leaked,         \* history: page -> references of calls that failed
          terminated,     \* history: AcpiOsTerminate has been called
          oslBug,         \* "", or how a call stopped the kernel
          acpi_irq,       \* [installed, num, handler]
          gate,           \* the vectors whose gate is the ACPI handler
          oslOps

oslVars == <<mapped_frames, kernMap, ranges, leaked, terminated, oslBug, acpi_irq, gate, oslOps>>

Refs(f, page) == IF page \in DOMAIN f THEN f[page] ELSE 0

PutRefs(f, page, n) ==
  [p \in IF n = 0 THEN DOMAIN f \ {page} ELSE DOMAIN f \cup {page} |->
     IF p = page THEN n ELSE f[p]]

\* num_pages: a range that ends with a page has one more than it needs.
NumPages(addr, len) == ((addr % OSL_PAGE) + len) \div OSL_PAGE + 1

PagesOf(r) == (r.pa \div OSL_PAGE) .. (r.pa \div OSL_PAGE) + NumPages(r.pa, r.len) - 1

\* The pages AcpiOsMapMemory gets to: those before the first that is new and
\* cannot be mapped.
Reached(r) ==
  {p \in PagesOf(r) : \A q \in PagesOf(r) :
     q <= p => q \in DOMAIN mapped_frames \/ q \notin UnmappablePages}

\* AcpiOsMapMemory.  With no page for the mapped_frame of a new page,
\* new_mapped_frame writes through NULL.
AcpiOsMap(r, memory) ==
  LET ok == Reached(r) = PagesOf(r)
  IN  /\ IF ~memory /\ Reached(r) \ DOMAIN mapped_frames # {}
           THEN /\ oslBug' = "no_memory"
                /\ UNCHANGED <<mapped_frames, kernMap, ranges, leaked>>
           ELSE /\ mapped_frames' = [p \in DOMAIN mapped_frames \cup Reached(r) |->
                                       Refs(mapped_frames, p) + IF p \in Reached(r) THEN 1 ELSE 0]
                /\ kernMap' = kernMap \cup Reached(r)
                /\ ranges' = IF ok THEN PutRefs(ranges, r, Refs(ranges, r) + 1) ELSE ranges
                /\ leaked' = IF ok THEN leaked
                             ELSE [p \in DOMAIN leaked \cup Reached(r) |->
                                     Refs(leaked, p) + IF p \in Reached(r) THEN 1 ELSE 0]
                /\ UNCHANGED oslBug
      /\ UNCHANGED <<terminated, acpi_irq, gate>>

\* Mutant of Unreferenced: a page goes with the first range that does.
UnreferencedFirst(pages) == pages

\* The pages whose last reference goes.
Unreferenced(pages) == {p \in pages : mapped_frames[p] = 1}

\* AcpiOsUnmapMemory, for a range ACPICA has.
AcpiOsUnmap(r) ==
  LET pages == PagesOf(r)
  IN  /\ r \in DOMAIN ranges
      /\ ranges' = PutRefs(ranges, r, ranges[r] - 1)
      /\ IF pages \subseteq DOMAIN mapped_frames
           THEN /\ mapped_frames' = [p \in DOMAIN mapped_frames \ Unreferenced(pages) |->
                                       mapped_frames[p] - IF p \in pages THEN 1 ELSE 0]
                /\ kernMap' = kernMap \ Unreferenced(pages)
                /\ UNCHANGED oslBug
           ELSE oslBug' = "BUG_ON" /\ UNCHANGED <<mapped_frames, kernMap>>
      /\ UNCHANGED <<leaked, terminated, acpi_irq, gate>>

\* AcpiOsTerminate frees the list and leaves the pages mapped.
AcpiOsTerminate ==
  /\ ~terminated
  /\ terminated' = TRUE
  /\ mapped_frames' = <<>>
  /\ leaked' = <<>>
  /\ UNCHANGED <<kernMap, ranges, oslBug, acpi_irq, gate>>

\* AcpiOsInstallInterruptHandler: AE_ALREADY_EXISTS, and AE_BAD_PARAMETER for a NULL
\* handler ("none") and a level above MAX_INT.  MAX_INT, which is one past the IDT,
\* is not refused.
AcpiOsInstallHandler(level, handler) ==
  /\ IF acpi_irq.installed \/ handler = "none" \/ level > MAX_INT THEN UNCHANGED <<acpi_irq, gate>>
     ELSE /\ acpi_irq' = [installed |-> TRUE, num |-> level, handler |-> handler]
          /\ gate' = gate \cup {level}
  /\ UNCHANGED <<mapped_frames, kernMap, ranges, leaked, terminated, oslBug>>

\* AcpiOsRemoveInterruptHandler also compares the handler with the address in the
\* gate, which is that of asm_interrupt_handler_acpi.
AcpiOsRemoveHandler(level, handler) ==
  /\ IF \/ ~acpi_irq.installed
        \/ handler = "none" \/ level > MAX_INT \/ level # acpi_irq.num
        \/ handler # "asm_interrupt_handler_acpi"
       THEN UNCHANGED <<acpi_irq, gate>>
     ELSE acpi_irq' = [acpi_irq EXCEPT !.installed = FALSE] /\ gate' = gate \ {level}
  /\ UNCHANGED <<mapped_frames, kernMap, ranges, leaked, terminated, oslBug>>

OslStep ==
  /\ oslBug = "" /\ oslOps < MaxOslOps
  /\ oslOps' = oslOps + 1
  /\ \/ \E r \in Ranges, memory \in BOOLEAN : AcpiOsMap(r, memory)
     \/ \E r \in Ranges : AcpiOsUnmap(r)
     \/ AcpiOsTerminate
     \/ \E level \in Levels, h \in {"sci", "other", "none"} :
          AcpiOsInstallHandler(level, h) \/ AcpiOsRemoveHandler(level, h)

\* AcpiOsInitialize and the statics.
OslInit ==
  /\ mapped_frames = <<>>
  /\ kernMap = {}
  /\ ranges = <<>>
  /\ leaked = <<>>
  /\ terminated = FALSE
  /\ oslBug = ""
  /\ acpi_irq = [installed |-> FALSE, num |-> 0, handler |-> "none"]
  /\ gate = {}
  /\ oslOps = 0

(***************************************************************************)
(* Properties                                                              *)
(***************************************************************************)

\* A page is mapped as long as a range ACPICA has needs it, and until
\* AcpiOsTerminate its refcount is the number of such ranges, plus one for each
\* AcpiOsMapMemory that failed after it had counted the page; with no range and
\* no failed call nothing stays mapped.  The BUG_ON of AcpiOsUnmapMemory is
\* reached only for ranges mapped before AcpiOsTerminate, and a lack of memory
\* is the only other way to stop.  A gate is open only for the one handler that is
\* installed, a real one, and lies in the IDT or, for the level MAX_INT that the
\* test lets through, in the one entry behind it.
OslCounts ==
  LET needs(p) == FoldSet(LAMBDA r, n : n + IF p \in PagesOf(r) THEN ranges[r] ELSE 0,
                          0, DOMAIN ranges)
  IN  /\ oslBug = "BUG_ON" => terminated
      /\ oslBug = "" /\ ~terminated =>
           /\ \A r \in DOMAIN ranges : (r.pa \div OSL_PAGE) .. ((r.pa + r.len - 1) \div OSL_PAGE) \subseteq kernMap
           /\ DOMAIN mapped_frames = kernMap
           /\ \A p \in kernMap : mapped_frames[p] = needs(p) + Refs(leaked, p)
      /\ gate # {} => acpi_irq.installed /\ acpi_irq.handler # "none" /\ gate = {acpi_irq.num}
      /\ gate \subseteq 0 .. MAX_INT
=============================================================================
