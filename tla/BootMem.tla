------------------------------ MODULE BootMem ------------------------------
(***************************************************************************)
(* The memory the boot loader reports (arch/x86/boot/multiboot.c,          *)
(* mm/regions.c) and how init_pmm cuts it into frames                      *)
(* (process_memory_range and its callers in mm/pmm.c).  What happens to a  *)
(* frame afterwards is module Pmm.                                         *)
(*                                                                         *)
(* Addresses are numbers in a small unit, with a page several units long   *)
(* so that a range need not begin or end at a page.  One frame added is    *)
(* one step.                                                               *)
(***************************************************************************)
EXTENDS Naturals, Sequences, FiniteSets

CONSTANTS PAGE_SIZE, PAGE_ORDER_2M, MAX_PAGE_ORDER,
          MB1,           \* MB(1)
          KB512,         \* KB(512)
          EARLY,         \* MB(EARLY_VIRT_MEM)
          KernelImage,   \* addresses in a section of the kernel
          NoRange        \* -ENOENT or -ENOMEM

ASSUME BootMemAssumption ==
  /\ PAGE_SIZE \in Nat \ {0} /\ PAGE_ORDER_2M \in Nat /\ MAX_PAGE_ORDER \in Nat
  /\ PAGE_ORDER_2M <= MAX_PAGE_ORDER
  /\ KernelImage \subseteq Nat

VARIABLES tags,       \* the boot loader's tags; never change
          mbi,        \* what init_multiboot kept of them
          memPc,      \* where the boot CPU is in this module
          memPos,     \* the tag, then the region it is at
          first,      \* first_avail_region
          cur, end,   \* of process_memory_range
          max_order,  \* of process_memory_range
          warned,     \* the regions whose processing ended in its warning
          bootFrames  \* free_frames, all orders in one list: mfn and order

memVars == <<tags, mbi, memPc, memPos, first, cur, end, max_order, warned, bootFrames>>
rangeVars == <<cur, end, max_order, warned>>

MemGoto(from, to) == memPc = from /\ memPc' = to

OrderToSize(order) == PAGE_SIZE * 2 ^ order

\* The tags of the boot loader that are looked at.
CmdlineTag(value) == [type |-> "CMDLINE", value |-> value]
BasicMeminfo(lower, upper) == [type |-> "BASIC_MEMINFO", lower |-> lower, upper |-> upper]
MmapEntry(start, end_, available) == [start |-> start, end |-> end_, available |-> available]
MmapTag(entry_size_ok, entries) ==
  [type |-> "MMAP", entry_size_ok |-> entry_size_ok, entries |-> entries]
FramebufferTag(usable) == [type |-> "FRAMEBUFFER", usable |-> usable]
AcpiTag(rsdp) == [type |-> "ACPI_NEW", rsdp |-> rsdp]

(***************************************************************************)
(* init_multiboot, one tag at a time.                                      *)
(***************************************************************************)

NoMbi == [cmdline |-> <<>>, mmap |-> <<>>, lower |-> 0, upper |-> 0,
          rsdp |-> <<>>, fb |-> FALSE]

\* The last tag of a type wins.  A frame buffer needs an address and a known
\* depth, and a text frame buffer is not one.
KeepTag(m, t) ==
  CASE t.type = "CMDLINE" -> [m EXCEPT !.cmdline = t.value]
    [] t.type = "BASIC_MEMINFO" -> [m EXCEPT !.lower = t.lower, !.upper = t.upper]
    [] t.type = "MMAP" -> [m EXCEPT !.mmap = t.entries]
    [] t.type = "FRAMEBUFFER" -> [m EXCEPT !.fb = t.usable]
    [] t.type \in {"ACPI_OLD", "ACPI_NEW"} -> [m EXCEPT !.rsdp = <<t.rsdp>>]
    [] OTHER -> m

MultibootTag ==
  /\ memPc = "tags" /\ memPos <= Len(tags)
  /\ IF tags[memPos].type = "MMAP" /\ ~tags[memPos].entry_size_ok
       THEN memPc' = "panic" /\ UNCHANGED mbi
       ELSE UNCHANGED memPc /\ mbi' = KeepTag(mbi, tags[memPos])
  /\ memPos' = memPos + 1
  /\ UNCHANGED <<tags, first, rangeVars, bootFrames>>

MultibootEnd ==
  /\ memPos > Len(tags)
  /\ MemGoto("tags", "kept")
  /\ UNCHANGED <<tags, mbi, memPos, first, rangeVars, bootFrames>>

(***************************************************************************)
(* The ranges of memory.                                                   *)
(***************************************************************************)

Avail(m) == SelectSeq(m.mmap, LAMBDA e : e.available)

\* mbi_get_avail_memory_ranges_num
AvailNum(m) ==
  IF m.mmap # <<>> THEN Len(Avail(m))
  ELSE Cardinality({k \in {"lower", "upper"} : m[k] > 0})

\* mbi_get_avail_memory_range; index counts from 0.  Without a memory map the
\* sizes of the basic memory information are used, which are in KiB, as bytes.
AvailRange(m, index) ==
  IF m.mmap # <<>>
    THEN IF index < Len(Avail(m)) THEN Avail(m)[index + 1] ELSE NoRange
  ELSE LET start == IF index = 0 THEN 0 ELSE MB1
           size == IF index = 0 THEN m.lower ELSE m.upper
       IN  IF size > 0 THEN MmapEntry(start, start + size, TRUE)
           ELSE NoRange

\* mbi_get_memory_range as has_memory_range and get_mpf_addr use it.
HasMemoryRange(m, pa) ==
  IF m.mmap # <<>>
    THEN \E i \in DOMAIN m.mmap : pa >= m.mmap[i].start /\ pa < m.mmap[i].end
    ELSE pa < m.lower \/ (pa >= MB1 /\ pa < MB1 + m.upper)

\* get_region_free_start
FreeStart(from) ==
  LET past == {k \in 0 .. Cardinality(KernelImage) : from + k * PAGE_SIZE \notin KernelImage}
  IN  from + PAGE_SIZE * (CHOOSE k \in past : \A j \in past : k <= j)

(***************************************************************************)
(* init_pmm.                                                               *)
(***************************************************************************)

\* find_first_avail_region: the first one that starts at 1 MiB or above and
\* has room for the early mappings, else panic.
Usable(m) ==
  {i \in 0 .. AvailNum(m) - 1 :
     LET r == AvailRange(m, i) IN r # NoRange /\ r.start >= MB1 /\ r.end - r.start >= EARLY}

FindFirstAvailRegion ==
  /\ memPc = "kept"
  /\ IF Usable(mbi) = {}
       THEN memPc' = "panic" /\ UNCHANGED <<first, memPos>>
       ELSE /\ memPc' = "region"
            /\ first' = CHOOSE i \in Usable(mbi) : \A j \in Usable(mbi) : i <= j
            /\ memPos' = first'
  /\ UNCHANGED <<tags, mbi, rangeVars, bootFrames>>

\* The head of process_memory_range.
OpenRange ==
  /\ memPc = "region" /\ memPos < AvailNum(mbi)
  /\ LET r == AvailRange(mbi, memPos) IN
     IF r = NoRange THEN memPos' = memPos + 1 /\ UNCHANGED <<memPc, rangeVars>>
     ELSE /\ memPc' = "early" /\ cur' = FreeStart(r.start) /\ end' = r.end
          /\ UNCHANGED <<memPos, max_order, warned>>
  /\ UNCHANGED <<tags, mbi, first, bootFrames>>

Frame(order) == [mfn |-> cur \div PAGE_SIZE, order |-> order]

\* Mutant of AddsEarly: the frames of every region go to the front.
AddsEarlyAlways(index) == TRUE

AddsEarly(index) == index <= first

\* The 4K frames below EARLY and up to the next 2M boundary: add_early_frame
\* puts them at the front of the list, add_frame at its end.
AddEarly4K ==
  /\ memPc = "early"
  /\ IF (cur < EARLY \/ cur % OrderToSize(PAGE_ORDER_2M) # 0) /\ cur + PAGE_SIZE <= end
       THEN /\ bootFrames' = IF AddsEarly(memPos) THEN <<Frame(0)>> \o bootFrames
                                                  ELSE Append(bootFrames, Frame(0))
            /\ cur' = cur + PAGE_SIZE
            /\ UNCHANGED <<memPc, max_order>>
       ELSE /\ memPc' = "max"
            /\ LET fit == {o \in 1 .. MAX_PAGE_ORDER : cur + OrderToSize(o) <= end}
               IN  max_order' = IF fit = {} THEN 0 ELSE CHOOSE o \in fit : \A p \in fit : p <= o
            /\ UNCHANGED <<cur, bootFrames>>
  /\ UNCHANGED <<tags, mbi, memPos, first, end, warned>>

\* One of the three loops that follow, the last of them with the warning behind.
AddFrames(pc, more, order, then) ==
  /\ memPc = pc
  /\ IF more THEN /\ bootFrames' = Append(bootFrames, Frame(order))
                  /\ cur' = cur + OrderToSize(order)
                  /\ UNCHANGED <<memPc, memPos, warned>>
     ELSE /\ memPc' = then
          /\ memPos' = IF then = "region" THEN memPos + 1 ELSE memPos
          /\ warned' = IF then = "region" /\ cur # end THEN warned \cup {memPos} ELSE warned
          /\ UNCHANGED <<cur, bootFrames>>
  /\ UNCHANGED <<tags, mbi, first, end, max_order>>

\* Mutant of FitsMax: the frame only has to begin inside the range.
FitsMaxBegin == cur < end

FitsMax == cur + OrderToSize(max_order) <= end

AddMaxOrder == AddFrames("max", FitsMax, max_order, "2m")
Add2M == AddFrames("2m", cur + OrderToSize(PAGE_ORDER_2M) <= end, PAGE_ORDER_2M, "4k")
Add4K == AddFrames("4k", cur < end, 0, "region")

\* check_early_frames: the subtraction is unsigned, so a first region that
\* begins above EARLY panics like one with too few frames.
CheckEarlyFrames ==
  /\ memPc = "region" /\ memPos >= AvailNum(mbi)
  /\ LET start == FreeStart(AvailRange(mbi, first).start)
         count == Cardinality({i \in DOMAIN bootFrames : bootFrames[i].order = 0})
     IN  memPc' = IF start <= EARLY /\ count >= (EARLY - start) \div PAGE_SIZE
                    THEN "done" ELSE "panic"
  /\ UNCHANGED <<tags, mbi, memPos, first, rangeVars, bootFrames>>

PmmStep ==
  \/ FindFirstAvailRegion \/ OpenRange \/ AddEarly4K \/ AddMaxOrder \/ Add2M \/ Add4K
  \/ CheckEarlyFrames

MemInit ==
  /\ mbi = NoMbi /\ memPc = "tags" /\ memPos = 1
  /\ first = 0 /\ cur = 0 /\ end = 0 /\ max_order = 0 /\ warned = {}
  /\ bootFrames = <<>>

(***************************************************************************)
(* Properties.                                                             *)
(***************************************************************************)

Bytes(f) == f.mfn * PAGE_SIZE .. (f.mfn + 2 ^ f.order) * PAGE_SIZE - 1
FramePages(f) == f.mfn .. f.mfn + 2 ^ f.order - 1
PagesTouched(r) == r.start \div PAGE_SIZE .. (r.end - 1) \div PAGE_SIZE
Regions == {k \in 0 .. AvailNum(mbi) - 1 : AvailRange(mbi, k) # NoRange}

\* A frame of a region: inside it, or a 4K frame, of the page the region begins
\* in, or of the page it ends in and then process_memory_range warns, once it is
\* through with the region, that it did not end at its end.
FrameOf(f, k) ==
  LET r == AvailRange(mbi, k)
  IN  \/ Bytes(f) \subseteq r.start .. r.end - 1
      \/ f.order = 0 /\ r.start \in Bytes(f)
      \/ f.order = 0 /\ r.end - 1 \in Bytes(f) /\ (memPos <= k \/ k \in warned)

\* What process_memory_range hands to the allocator is memory the boot loader
\* called available, and not the kernel: every frame lies in an available range,
\* but for the pages of ranges that do not begin or end at a page, and for the
\* latter there is a warning; no frame has a byte of the kernel's image; and where
\* no two ranges meet inside a page, no page is handed out in two frames.
BootFramesAvailable ==
  /\ \A i \in DOMAIN bootFrames :
       /\ \E k \in Regions : FrameOf(bootFrames[i], k)
       /\ Bytes(bootFrames[i]) \cap KernelImage = {}
  /\ (\A k, l \in Regions : k # l =>
         PagesTouched(AvailRange(mbi, k)) \cap PagesTouched(AvailRange(mbi, l)) = {}) =>
       \A i, j \in DOMAIN bootFrames : i # j =>
         FramePages(bootFrames[i]) \cap FramePages(bootFrames[j]) = {}

\* "It's important to add the initial frames to the front of the list, because
\* initial virtual memory mapping is small" (process_memory_range): among the
\* 4K frames those below EARLY come before all others.  A first region that
\* does not begin at a page never reaches a 2M boundary, and is added to the
\* front as a whole.
EarlyFramesFirst ==
  (memPc = "done" /\ AvailRange(mbi, first).start % PAGE_SIZE = 0) =>
    \A i, j \in {k \in DOMAIN bootFrames : bootFrames[k].order = 0} :
      (bootFrames[i].mfn * PAGE_SIZE < EARLY /\ bootFrames[j].mfn * PAGE_SIZE >= EARLY) => i < j
============================================================================
