-------------------------------- MODULE Vmap --------------------------------
(***************************************************************************)
(* The page tables of arch/x86/pagetables.c: four levels of tables, large  *)
(* pages at levels 2 and 3, and two trees (cr3 and user_cr3).              *)
(*                                                                         *)
(* The functions work on a record m, the state of the memory:              *)
(*   m.root   the mfn in cr3 and in user_cr3, or NoMfn                     *)
(*   m.tab    the tables, by the frame they are in: a partial function     *)
(*            from index to entry, where a missing index is an entry with  *)
(*            MFN_INVALID                                                  *)
(*   m.free   the frames the frame allocator has left                      *)
(*   m.bug    why the kernel stopped, or ""                                *)
(*                                                                         *)
(* A virtual address is a page number and an order is the level of the     *)
(* entry that maps it: 1 for 4K, 2 for 2M, 3 for 1G.  A physical address   *)
(* counts units of which PAGE make a page, so that ranges need not be page *)
(* aligned.  All functions hold vmap_lock from beginning to end.           *)
(***************************************************************************)
EXTENDS Integers, Sequences, FiniteSets, SequencesExt

CONSTANTS PAGE,        \* units per page
          PT_ENTRIES,  \* entries of a table of level 1, 2 or 3
          VaPages,     \* the canonical pages of the address space
          SIZE_T,      \* size_t counts modulo this (2^64)
          Mfns,        \* the frames in the memory ranges of the boot loader
          NoMfn,       \* MFN_INVALID
          VIRT_IDENT_BASE, VIRT_USER_BASE, VIRT_KERNEL_MAP, VIRT_KERNEL_BASE

ASSUME VmapAssumption ==
  /\ {PAGE, PT_ENTRIES, SIZE_T} \subseteq Nat \ {0}
  /\ NoMfn \notin Mfns

VARIABLES m,      \* the memory, see above
          asked,  \* history: what the callers have asked a page to map
          maybe,  \* history: the pages a failed call may have changed
          twice   \* history: the pages mapped while they mapped another frame

vmapVars == <<m, asked, maybe, twice>>

L1_PROT == {"P", "RW"}
L1_PROT_RO == {"P"}
PROT_USER == {"P", "RW", "US"}

Span(level) == CASE level = 1 -> 1
                 [] level = 2 -> PT_ENTRIES
                 [] level = 3 -> PT_ENTRIES * PT_ENTRIES
                 [] level = 4 -> PT_ENTRIES * PT_ENTRIES * PT_ENTRIES

Index(level, va) ==
  IF level = 4 THEN va \div Span(4) ELSE (va \div Span(level)) % PT_ENTRIES

Covers(va, order) == va .. va + Span(order) - 1

mfn_invalid(mfn) == mfn \notin Mfns

\* An entry, or nothing where it has MFN_INVALID.
Entry(mem, table, i) ==
  IF i \in DOMAIN mem.tab[table] THEN mem.tab[table][i] ELSE [mfn |-> NoMfn, flags |-> {}]

SetEntry(mem, table, i, mfn, flags) ==
  [mem EXCEPT !.tab[table] = (i :> [mfn |-> mfn, flags |-> flags]) @@ @]

ClearEntry(mem, table, i) ==
  [mem EXCEPT !.tab[table] = [j \in DOMAIN @ \ {i} |-> @[j]]]

\* get_free_frame and clean_pagetable; BUG_ON(!frame).
NewTable(mem) ==
  IF mem.free = {} THEN [mem EXCEPT !.bug = "no_frame"]
  ELSE [mem EXCEPT !.free = @ \ {Max(@)}, !.tab = (Max(mem.free) :> <<>>) @@ @]

(***************************************************************************)
(* Mapping.                                                                *)
(***************************************************************************)

\* The walk of _vmap: the memory so far, and the table it is at.
GetCr3Mfn(mem, as) ==
  LET new == NewTable(mem)
  IN  IF ~mfn_invalid(mem.root[as]) THEN [mem |-> mem, table |-> mem.root[as]]
      ELSE IF new.bug # "" THEN [mem |-> new, table |-> NoMfn]
      ELSE [mem |-> [new EXCEPT !.root[as] = Max(mem.free)], table |-> Max(mem.free)]

\* pgentry_fixup_flags: what is there becomes more permissive, but a new entry
\* that asks for NX clears it.
FixupFlags(old, new) == (old \cup (new \cap {"US", "RW"})) \ (new \cap {"NX"})

\* get_pgentry_mfn does not look at PS.  Where the entry maps a large page the
\* frame of that page is taken for a table, and what happens depends on what is
\* in it: the model stops there.
GetPgentryMfn(w, i, flags) ==
  LET old == Entry(w.mem, w.table, i)
      new == NewTable(w.mem)
  IN  IF w.mem.bug # "" THEN w
      ELSE IF mfn_invalid(old.mfn)
        THEN IF new.bug # "" THEN [mem |-> new, table |-> NoMfn]
             ELSE [mem |-> SetEntry(new, w.table, i, Max(w.mem.free), flags),
                   table |-> Max(w.mem.free)]
      ELSE IF old.mfn \notin DOMAIN w.mem.tab
        THEN [mem |-> [w.mem EXCEPT !.bug = "wild"], table |-> NoMfn]
      ELSE [mem |-> SetEntry(w.mem, w.table, i, old.mfn, FixupFlags(old.flags, flags)),
            table |-> old.mfn]

\* Mutant of IsMappable: the alignment of the address is not tested.
IsMappableAny(va, order) == va \in VaPages

IsMappable(va, order) == va % Span(order) = 0 /\ va \in VaPages

\* _vmap, for entries with flags under tables with tableFlags.  The tables on
\* the way that are missing are made.
VmapPage(mem, as, va, mfn, order, tableFlags, flags) ==
  LET down(w, level) == GetPgentryMfn(w, Index(level, va), tableFlags)
      set(w) == IF w.mem.bug # "" THEN w.mem
                ELSE SetEntry(w.mem, w.table, Index(order, va), mfn,
                              IF order = 1 THEN flags ELSE flags \cup {"PS"})
  IN  IF ~IsMappable(va, order) \/ mem.bug # "" THEN mem
      ELSE set(FoldLeft(down, GetCr3Mfn(mem, as), SubSeq(<<4, 3, 2>>, 1, 4 - order)))

\* _vmap_1g, _vmap_2m and _vmap_4k.
VmapOrder(mem, as, va, mfn, order, flags, propagateUser) ==
  VmapPage(mem, as, va, mfn, order,
           L1_PROT \cup (IF propagateUser THEN flags \cap {"US"} ELSE {}), flags)

\* What _vmap_range does for each of the address spaces, in its order.  Nothing
\* asks for VMAP_KERNEL_USER_ACCESS, which is left out.
Spaces ==
  << [name |-> "KERNEL",          as |-> "kern", base |-> VIRT_KERNEL_BASE],
     [name |-> "IDENT",           as |-> "kern", base |-> VIRT_IDENT_BASE],
     [name |-> "KERNEL_MAP",      as |-> "kern", base |-> VIRT_KERNEL_MAP],
     [name |-> "KERNEL_USER",     as |-> "kern", base |-> VIRT_USER_BASE],
     [name |-> "USER",            as |-> "user", base |-> VIRT_USER_BASE],
     [name |-> "USER_IDENT",      as |-> "user", base |-> VIRT_IDENT_BASE],
     [name |-> "USER_KERNEL",     as |-> "user", base |-> VIRT_KERNEL_BASE],
     [name |-> "USER_KERNEL_MAP", as |-> "user", base |-> VIRT_KERNEL_MAP] >>

SpacesOf(vmapFlags) == SelectSeq(Spaces, LAMBDA s : s.name \in vmapFlags)

LeafFlags(s, flags) ==
  CASE s.name = "USER" -> flags \cup {"US"}
    [] s.name \in {"KERNEL", "IDENT", "KERNEL_MAP"} -> flags
    [] OTHER -> flags \ {"US"}

\* Whether _vmap_range takes the address that comes back for a success.  The
\* identity mapping of page 0 comes back as 0, which virt_invalid and ! take for
\* a failure, though the page has been mapped.
Accepted(s, va, order) ==
  IsMappable(va, order) /\ (s.name \in {"IDENT", "USER_IDENT"} => va # 0)

\* _vmap_range: partly done mappings stay when one of the spaces fails.
VmapSpaces(mem, mfn, order, flags, vmapFlags) ==
  FoldLeft(LAMBDA r, s :
             IF ~r.ok THEN r
             ELSE [mem |-> VmapOrder(r.mem, s.as, s.base + mfn, mfn, order,
                                     LeafFlags(s, flags), s.name = "USER"),
                   ok |-> Accepted(s, s.base + mfn, order)],
           [mem |-> mem, ok |-> TRUE], SpacesOf(vmapFlags))

\* The largest page that fits: the one of this chunk of vmap_range.
ChunkOrder(cur, size) ==
  CASE size >= PAGE * Span(3) /\ cur % (PAGE * Span(3)) = 0 -> 3
    [] size >= PAGE * Span(2) /\ cur % (PAGE * Span(2)) = 0 -> 2
    [] OTHER -> 1

PaddrRoundUp(pa) == ((pa + PAGE - 1) \div PAGE) * PAGE

\* The loop of vmap_range.  size is unsigned and wraps in the last chunk of a
\* range that does not end with a page.
RECURSIVE VmapLoop(_, _, _, _, _, _)
VmapLoop(mem, cur, size, end, flags, vmapFlags) ==
  LET order == ChunkOrder(cur, size)
      r == VmapSpaces(mem, cur \div PAGE, order, flags, vmapFlags)
      step == PAGE * Span(order)
  IN  IF cur >= end
        THEN [mem |-> IF cur \div PAGE = end \div PAGE THEN mem ELSE [mem EXCEPT !.bug = "range"],
              ok |-> TRUE]
      ELSE IF ~r.ok \/ r.mem.bug # "" THEN r
      ELSE VmapLoop(r.mem, cur + step, (size - step) % SIZE_T, end, flags, vmapFlags)

VmapRange(mem, pa, size, flags, vmapFlags) ==
  IF SpacesOf(vmapFlags) = <<>> \/ PaddrRoundUp(pa + size) <= pa THEN [mem |-> mem, ok |-> FALSE]
  ELSE VmapLoop(mem, pa, size, PaddrRoundUp(pa + size), flags, vmapFlags)

(***************************************************************************)
(* Looking up and unmapping.                                               *)
(***************************************************************************)

Present(e) == ~mfn_invalid(e.mfn) /\ "P" \in e.flags

\* The entry a walk ends at: the table it is in, its level and the entry; level
\* 0 when a table on the way is missing.  A large entry ends it whatever else it
\* holds, which is what _vunmap looks at first.
WalkTo(mem, as, va) ==
  LET at(t, level) == [table |-> t, level |-> level, e |-> Entry(mem, t, Index(level, va))]
      none == [table |-> NoMfn, level |-> 0, e |-> [mfn |-> NoMfn, flags |-> {}]]
      next(w, level) == IF w.level = 0 \/ "PS" \in w.e.flags THEN w
                        ELSE IF Present(w.e) THEN at(w.e.mfn, level) ELSE none
  IN  IF mfn_invalid(mem.root[as]) THEN none
      ELSE FoldLeft(next, at(mem.root[as], 4), <<3, 2, 1>>)

\* get_va_mfn_order
GetVaMfnOrder(mem, as, va) ==
  LET w == WalkTo(mem, as, va)
  IN  IF ~Present(w.e) THEN [mfn |-> NoMfn, order |-> 0]
      ELSE [mfn |-> w.e.mfn, order |-> w.level]

\* Mutant of Vunmap: the entry of a large page stays.
VunmapLargeStays(mem, as, va) ==
  LET w == WalkTo(mem, as, va)
  IN  IF w.level = 0 THEN [mem |-> mem, ok |-> FALSE, mfn |-> NoMfn, order |-> 1]
      ELSE [mem |-> IF w.level = 1 THEN ClearEntry(mem, w.table, Index(w.level, va)) ELSE mem,
            ok |-> TRUE, mfn |-> w.e.mfn, order |-> w.level]

\* _vunmap: a 4K entry is cleared whether it was present or not, and tables stay.
Vunmap(mem, as, va) ==
  LET w == WalkTo(mem, as, va)
  IN  IF w.level = 0 THEN [mem |-> mem, ok |-> FALSE, mfn |-> NoMfn, order |-> 1]
      ELSE [mem |-> ClearEntry(mem, w.table, Index(w.level, va)), ok |-> TRUE,
            mfn |-> w.e.mfn, order |-> w.level]

\* _vunmap_range: it goes on by the order of what was mapped, and ends at the
\* first page that was not, or that is not of the memory ranges.
RECURSIVE VunmapLoop(_, _, _, _)
VunmapLoop(mem, as, cur, end) ==
  LET r == Vunmap(mem, as, cur \div PAGE)
  IN  IF cur >= end THEN [mem |-> mem, ok |-> TRUE]
      ELSE IF ~r.ok \/ mfn_invalid(r.mfn) THEN [mem |-> r.mem, ok |-> FALSE]
      ELSE VunmapLoop(r.mem, as, cur + PAGE * Span(r.order), end)

VunmapRange(mem, pa, size, vmapFlags) ==
  LET end == PaddrRoundUp(pa + size)
  IN  IF SpacesOf(vmapFlags) = <<>> \/ end <= pa THEN [mem |-> mem, ok |-> FALSE]
      ELSE FoldLeft(LAMBDA r, s :
                      IF ~r.ok THEN r
                      ELSE VunmapLoop(r.mem, s.as, PAGE * s.base + pa, PAGE * s.base + end),
                    [mem |-> mem, ok |-> TRUE], SpacesOf(vmapFlags))

(***************************************************************************)
(* The mappings of the tables themselves.                                  *)
(***************************************************************************)

KernVa(mfn) == VIRT_KERNEL_BASE + mfn

MapTable(mem, table) == VmapPage(mem, "kern", KernVa(table), table, 1, L1_PROT, L1_PROT)

\* The indices of a table that lead to another table.
Children(mem, table) ==
  {i \in DOMAIN mem.tab[table] : LET e == mem.tab[table][i]
                                 IN  ~mfn_invalid(e.mfn) /\ "PS" \notin e.flags}

\* map_pagetable: the entries are read as the loop comes to them, after the
\* mapping of earlier ones may have added tables.
RECURSIVE MapPagetable(_, _, _), MapEntries(_, _, _, _)
MapEntries(mem, table, level, i) ==
  LET next == {j \in Children(mem, table) : j >= i}
  IN  IF mem.bug # "" \/ level = 1 \/ next = {} THEN mem
      ELSE MapEntries(MapPagetable(mem, mem.tab[table][Min(next)].mfn, level - 1),
                      table, level, Min(next) + 1)

MapPagetable(mem, table, level) == MapEntries(MapTable(mem, table), table, level, 0)

\* The table the entry of _tmp_mapping is in.
TmpTable(mem, va) ==
  LET entry(t, level) == Entry(mem, t, Index(level, va)).mfn
  IN  FoldLeft(entry, mem.root.kern, <<4, 3, 2>>)

\* level_to_entries
LevelToEntries(level) == IF level = 4 THEN Index(4, Max(VaPages)) + 1 ELSE PT_ENTRIES

\* unmap_pagetable: every entry of a table is read through the table's own
\* mapping, which the unmapping of the tables below it may have taken away; the
\* table of the _tmp_mapping entry is left out.
RECURSIVE UnmapPagetable(_, _, _, _), UnmapEntries(_, _, _, _, _)
UnmapEntries(mem, table, level, tmpTable, i) ==
  IF mem.bug # "" \/ level = 1 \/ i = LevelToEntries(level) THEN mem
  ELSE IF GetVaMfnOrder(mem, "kern", KernVa(table)).mfn # table
    THEN [mem EXCEPT !.bug = "fault"]
  ELSE UnmapEntries(IF i \in Children(mem, table) /\ mem.tab[table][i].mfn # tmpTable
                      THEN UnmapPagetable(mem, mem.tab[table][i].mfn, level - 1, tmpTable)
                      ELSE mem,
                    table, level, tmpTable, i + 1)

UnmapPagetable(mem, table, level, tmpTable) ==
  LET inner == UnmapEntries(mem, table, level, tmpTable, 0)
  IN  IF inner.bug # "" THEN inner ELSE Vunmap(inner, "kern", KernVa(table)).mem

\* The tables on the way to an address, from the root, each mapped before its
\* entry is read; the walk ends where there is no further table.
WalkTables(mem, va) ==
  LET next(r, mapped, level) ==
        LET e == Entry(mapped, Last(r.tables), Index(level, va))
        IN  IF mfn_invalid(e.mfn) \/ "PS" \in e.flags
              THEN [r EXCEPT !.mem = mapped, !.end = TRUE]
            ELSE [mem |-> mapped, tables |-> Append(r.tables, e.mfn), end |-> FALSE]
      down(r, level) == IF r.end \/ r.mem.bug # "" THEN r
                        ELSE next(r, MapTable(r.mem, Last(r.tables)), level)
  IN  FoldLeft(down, [mem |-> mem, tables |-> <<mem.root.kern>>, end |-> FALSE], <<4, 3, 2>>)

\* map_pagetables_va
MapPagetablesVa(mem, va) ==
  LET r == WalkTables(mem, va)
  IN  IF r.end \/ r.mem.bug # "" THEN r.mem ELSE MapTable(r.mem, r.tables[4])

\* unmap_pagetables_va maps the upper tables again before it unmaps them all.
UnmapPagetablesVa(mem, va, tmpTable) ==
  LET r == WalkTables(mem, va)
  IN  FoldLeft(LAMBDA s, t : IF s.bug # "" THEN s ELSE Vunmap(s, "kern", KernVa(t)).mem,
               r.mem, SelectSeq(r.tables, LAMBDA t : t # tmpTable))

\* Every table that can be reached from a root, the root included.
RECURSIVE TablesUnder(_, _, _)
TablesUnder(mem, table, level) ==
  {table} \cup IF level = 1 THEN {}
               ELSE UNION {TablesUnder(mem, mem.tab[table][i].mfn, level - 1) :
                             i \in Children(mem, table)}

Tables(mem, as) ==
  IF mfn_invalid(mem.root[as]) THEN {} ELSE TablesUnder(mem, mem.root[as], 4)
=============================================================================
