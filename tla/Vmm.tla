-------------------------------- MODULE Vmm --------------------------------
(***************************************************************************)
(* The users of the page tables: get_free_pages and put_pages (mm/vmm.c),  *)
(* the mmap and munmap system calls (common/usermode.c), areas mapped with *)
(* vmap_range, the page tables mapped for the tests, and what boot does:   *)
(* init_pagetables and zap_boot_mappings.  mmap_lock and vmap_lock make    *)
(* each of them one step here; the order of the locks is module Locks.     *)
(*                                                                         *)
(* Of the frame allocator only its promise is left: a frame of pages that  *)
(* are free, or none.                                                      *)
(***************************************************************************)
EXTENDS Vmap

CONSTANTS DataBlocks,  \* what get_free_frames may return, <<mfn, order>> each
          Gfps,        \* the gfp_flags of callers, as sets
          UserVas,     \* the addresses user programs ask mmap for
          Areas,       \* [pa, size, flags, spaces] of vmap_range
          BootRanges,  \* addr_ranges: the same, with init: zapped after boot
          TmpVa,       \* the address of _tmp_mapping
          MaxVmmOps    \* bound on the operations after init_pagetables

VARIABLES vmmPc,  \* "boot", or "run"
          busy,   \* the frames callers hold, <<mfn, order>> each
          pages,  \* what get_free_pages returned: [va, mfn, order, gfp]
          umaps,  \* the addresses mmap returned
          stale,  \* history: what still maps a frame that was put
          vmmOps

vmmVars == <<vmapVars, vmmPc, busy, pages, umaps, stale, vmmOps>>

(***************************************************************************)
(* What callers are entitled to: the page of each address they asked for.  *)
(***************************************************************************)

AskedPages(pa, size, vmapFlags) ==
  LET first == pa \div PAGE
      last == PaddrRoundUp(pa + size) \div PAGE - 1
  IN  {<<s, mfn>> : s \in Range(SpacesOf(vmapFlags)), mfn \in first .. last}

Wish(pa, size, vmapFlags) ==
  LET all == AskedPages(pa, size, vmapFlags)
  IN  [a \in {<<p[1].as, p[1].base + p[2]>> : p \in all} |->
         LET p == CHOOSE x \in all : <<x[1].as, x[1].base + x[2]>> = a
         IN  [mfn |-> p[2], user |-> p[1].name = "USER"]]

TableWish(tables) ==
  [a \in {<<"kern", KernVa(t)>> : t \in tables} |->
     [mfn |-> a[2] - VIRT_KERNEL_BASE, user |-> FALSE]]

Without(f, S) == [x \in DOMAIN f \ S |-> f[x]]

\* The history of a call that wished for w and came back with r.
Record(r, w) ==
  /\ asked' = IF r.ok THEN w @@ asked ELSE Without(asked, DOMAIN w)
  /\ maybe' = IF r.ok THEN maybe \ DOMAIN w ELSE maybe \cup DOMAIN w
  /\ twice' = twice \cup {a \in DOMAIN w \cap DOMAIN asked : asked[a].mfn # w[a].mfn}

Unrecord(ok, S) ==
  /\ asked' = Without(asked, S)
  /\ maybe' = IF ok THEN maybe \ S ELSE maybe \cup S
  /\ UNCHANGED twice

\* Every page that translates, as the processor does it.
Translate(mem, as, va) ==
  LET w == WalkTo(mem, as, va)
  IN  IF "P" \in w.e.flags THEN w.e.mfn + (va % Span(w.level)) ELSE NoMfn

Mapped(mem, frames) ==
  {a \in {"kern", "user"} \X VaPages : Translate(mem, a[1], a[2]) \in frames}

Run == vmmPc = "run" /\ m.bug = "" /\ vmmOps < MaxVmmOps /\ vmmOps' = vmmOps + 1 /\ UNCHANGED vmmPc

(***************************************************************************)
(* Boot.                                                                   *)
(***************************************************************************)

\* init_pagetables: the ranges of the kernel image, the static frames array, and
\* the table with the entry of _tmp_mapping, at which it points from then on.
InitPagetables ==
  LET one(r, a) == VmapRange(r.mem, a.pa, a.size, a.flags, a.spaces)
      ranges == FoldLeft(one, [mem |-> m, ok |-> TRUE], BootRanges).mem
      tmp == TmpTable(ranges, TmpVa)
      wish(f, a) == Wish(a.pa, a.size, a.spaces) @@ f
  IN  /\ vmmPc = "boot"
      /\ m' = MapTable(ranges, tmp)
      /\ asked' = TableWish({tmp}) @@ FoldLeft(wish, asked, BootRanges)
      /\ vmmPc' = "run"
      /\ UNCHANGED <<maybe, twice, busy, pages, umaps, stale, vmmOps>>

\* zap_boot_mappings: the init sections are unmapped and their frames reclaimed.
ZapBootMappings(a) ==
  LET r == VunmapRange(m, a.pa, a.size, a.spaces)
      first == a.pa \div PAGE
  IN  /\ Run
      /\ a.init
      /\ first \notin m.free /\ first \notin DOMAIN m.tab /\ ~\E f \in busy : first \in Covers(f[1], f[2])
      /\ m' = [r.mem EXCEPT !.free = @ \cup first .. ((a.pa + a.size) \div PAGE - 1)]
      /\ Unrecord(r.ok, DOMAIN Wish(a.pa, a.size, a.spaces))
      /\ UNCHANGED <<busy, pages, umaps, stale>>

(***************************************************************************)
(* get_free_pages and put_pages.                                           *)
(***************************************************************************)

GfpToVmapFlags(gfp) ==
  IF gfp = {"USER"} THEN {"KERNEL_USER", "USER"}
  ELSE (gfp \ {"USER"}) \cup
       IF "USER" \notin gfp THEN {}
       ELSE {CASE g = "IDENT" -> "USER_IDENT"
               [] g = "KERNEL" -> "USER_KERNEL"
               [] g = "KERNEL_MAP" -> "USER_KERNEL_MAP" : g \in gfp \ {"USER"}}

GfpMfnToVirt(gfp, mfn) ==
  mfn + CASE "KERNEL_MAP" \in gfp -> VIRT_KERNEL_MAP
          [] "KERNEL_MAP" \notin gfp /\ "KERNEL" \in gfp -> VIRT_KERNEL_BASE
          [] gfp \cap {"KERNEL_MAP", "KERNEL"} = {} /\ "IDENT" \in gfp -> VIRT_IDENT_BASE
          [] OTHER -> VIRT_USER_BASE

\* The frame stays taken when it cannot be mapped.
GetFreePages(b, gfp) ==
  LET taken == [m EXCEPT !.free = @ \ Covers(b[1], b[2])]
      size == PAGE * Span(b[2])
      r == VmapRange(taken, PAGE * b[1], size, L1_PROT, GfpToVmapFlags(gfp))
      va == GfpMfnToVirt(gfp, b[1])
  IN  /\ Run
      /\ Covers(b[1], b[2]) \subseteq m.free
      /\ m' = r.mem
      /\ Record(r, Wish(PAGE * b[1], size, GfpToVmapFlags(gfp)))
      /\ busy' = busy \cup {b}
      /\ pages' = IF r.ok THEN pages \cup {[va |-> va, mfn |-> b[1], order |-> b[2], gfp |-> gfp]}
                  ELSE pages
      /\ UNCHANGED <<umaps, stale>>

\* put_free_frames: a frame that is not among the busy ones is only warned about.
PutFreeFrames(mem, f) ==
  IF f \in busy THEN [mem EXCEPT !.free = @ \cup Covers(f[1], f[2])] ELSE mem

\* put_pages unmaps the address it is given and no other the frame has.
PutPages(p) ==
  LET r == Vunmap(m, "kern", p.va)
      f == <<r.mfn, r.order>>
  IN  /\ Run
      /\ m' = IF r.ok THEN PutFreeFrames(r.mem, f) ELSE [m EXCEPT !.bug = "put_pages"]
      /\ Unrecord(TRUE, IF r.ok THEN {<<"kern", va>> : va \in Covers(p.va, r.order)} ELSE {})
      /\ busy' = busy \ {f}
      /\ pages' = pages \ {p}
      /\ stale' = IF r.ok /\ (p.mfn # r.mfn \/ Cardinality(GfpToVmapFlags(p.gfp)) > 1)
                    THEN stale \cup Mapped(r.mem, Covers(f[1], f[2])) ELSE stale
      /\ UNCHANGED umaps

(***************************************************************************)
(* The system calls, vmap_range for areas, and the mapped page tables.     *)
(***************************************************************************)

\* SYSCALL_MMAP: va 0 asks for the frame's own user address.
Mmap(b, ask) ==
  LET va == IF ask = 0 THEN VIRT_USER_BASE + b[1] ELSE ask
      taken == [m EXCEPT !.free = @ \ Covers(b[1], b[2])]
      covered == {<<"user", v>> : v \in Covers(va, b[2])}
  IN  /\ Run
      /\ Covers(b[1], b[2]) \subseteq m.free
      /\ m' = VmapPage(taken, "user", va, b[1], b[2], PROT_USER, PROT_USER)
      /\ IF IsMappable(va, b[2])
           THEN /\ Record([ok |-> TRUE], [a \in covered |-> [mfn |-> b[1] + a[2] - va, user |-> TRUE]])
                /\ umaps' = umaps \cup {va}
           ELSE UNCHANGED <<asked, maybe, twice, umaps>>
      /\ busy' = busy \cup {b}
      /\ UNCHANGED <<pages, stale>>

Munmap(va) ==
  LET r == Vunmap(m, "user", va)
      f == <<r.mfn, r.order>>
  IN  /\ Run
      /\ m' = PutFreeFrames(r.mem, f)
      /\ Unrecord(TRUE, IF r.ok THEN {<<"user", v>> : v \in Covers(va, r.order)} ELSE {})
      /\ busy' = busy \ {f}
      /\ umaps' = umaps \ {va}
      /\ stale' = IF Cardinality({p \in pages : p.mfn = r.mfn}) > 0
                    THEN stale \cup Mapped(r.mem, Covers(f[1], f[2])) ELSE stale
      /\ UNCHANGED pages

MapArea(a) ==
  LET r == VmapRange(m, a.pa, a.size, a.flags, a.spaces)
  IN  /\ Run
      /\ m' = r.mem
      /\ Record(r, Wish(a.pa, a.size, a.spaces))
      /\ UNCHANGED <<busy, pages, umaps, stale>>

\* An area is unmapped as it was mapped.
UnmapArea(a) ==
  LET r == VunmapRange(m, a.pa, a.size, a.spaces)
  IN  /\ Run
      /\ DOMAIN Wish(a.pa, a.size, a.spaces) \subseteq DOMAIN asked
      /\ m' = r.mem
      /\ Unrecord(r.ok, DOMAIN Wish(a.pa, a.size, a.spaces))
      /\ UNCHANGED <<busy, pages, umaps, stale>>

\* map_pagetables(&cr3, of): the tables there were are mapped; of those made on
\* the way the walk maps the ones it still comes to.
MapPagetables(of) ==
  LET mem == MapPagetable(m, m.root[of], 4)
  IN  /\ Run
      /\ ~mfn_invalid(m.root[of])
      /\ m' = mem
      /\ asked' = TableWish(Tables(m, of)) @@ asked
      /\ maybe' = maybe \cup DOMAIN TableWish(DOMAIN mem.tab \ DOMAIN m.tab)
      /\ UNCHANGED <<twice, busy, pages, umaps, stale>>

\* unmap_pagetables(&cr3, of), which assumes that the root is mapped.
UnmapPagetables(of) ==
  LET mem == UnmapPagetable(m, m.root[of], 4, TmpTable(m, TmpVa))
      gone == DOMAIN TableWish(Tables(m, of) \ {TmpTable(m, TmpVa)})
  IN  /\ Run
      /\ ~mfn_invalid(m.root[of]) /\ <<"kern", KernVa(m.root[of])>> \in DOMAIN asked
      /\ m' = mem
      /\ IF mem.bug = "" THEN Unrecord(TRUE, gone) ELSE UNCHANGED <<asked, maybe, twice>>
      /\ UNCHANGED <<busy, pages, umaps, stale>>

MapTablesOf(va) ==
  /\ Run
  /\ m' = MapPagetablesVa(m, va)
  /\ Record([ok |-> TRUE], TableWish(Range(WalkTables(m, va).tables)))
  /\ UNCHANGED <<busy, pages, umaps, stale>>

UnmapTablesOf(va) ==
  /\ Run
  /\ m' = UnmapPagetablesVa(m, va, TmpTable(m, TmpVa))
  /\ Unrecord(TRUE, DOMAIN TableWish(Range(WalkTables(m, va).tables) \ {TmpTable(m, TmpVa)}))
  /\ UNCHANGED <<busy, pages, umaps, stale>>

VmmStep ==
  \/ InitPagetables
  \/ \E a \in Range(BootRanges) : ZapBootMappings(a)
  \/ \E b \in DataBlocks, gfp \in Gfps : GetFreePages(b, gfp)
  \/ \E p \in pages : PutPages(p)
  \/ \E b \in DataBlocks, va \in UserVas \cup {0} : Mmap(b, va)
  \/ \E va \in umaps : Munmap(va)
  \/ \E a \in Areas : MapArea(a) \/ UnmapArea(a)
  \/ \E of \in {"kern", "user"} : MapPagetables(of) \/ UnmapPagetables(of)
  \/ MapTablesOf(TmpVa) \/ UnmapTablesOf(TmpVa)

VmmInit(frames) ==
  /\ m = [root |-> [kern |-> NoMfn, user |-> NoMfn], tab |-> <<>>, free |-> frames, bug |-> ""]
  /\ asked = <<>>
  /\ maybe = {}
  /\ twice = {}
  /\ vmmPc = "boot"
  /\ busy = {}
  /\ pages = {}
  /\ umaps = {}
  /\ stale = {}
  /\ vmmOps = 0

(***************************************************************************)
(* Properties                                                              *)
(***************************************************************************)

\* All entries on the way to a page have the user flag.
UserReach(mem, va) ==
  LET e(t, level) == Entry(mem, t, Index(level, va))
      w == WalkTo(mem, "user", va)
      up(t, level) == [t |-> e(t, level).mfn, us |-> "US" \in e(t, level).flags]
      a == up(mem.root.user, 4)
      b == up(a.t, 3)
      c == up(b.t, 2)
  IN  /\ "US" \in w.e.flags
      /\ a.us
      /\ w.level < 3 => b.us
      /\ w.level < 2 => c.us

\* A page of either tree translates to the frame the last successful call of
\* vmap_range, vmap_user or map_pagetables for it asked for, a page that was
\* unmapped or never asked for does not translate, and a user program reaches
\* exactly the pages that were mapped for it.  Only the pages of a call that
\* failed may be either way.  In particular the entry of _tmp_mapping stays
\* mapped, whichever page tables are unmapped around it.
VmapAnswers ==
  vmmPc = "run" /\ m.bug = "" => \A as \in {"kern", "user"}, va \in VaPages :
    LET a == <<as, va>>
    IN  a \in maybe
        \/ IF a \in DOMAIN asked
             THEN /\ Translate(m, as, va) = asked[a].mfn
                  /\ as = "user" => (UserReach(m, va) <=> asked[a].user)
             ELSE Translate(m, as, va) = NoMfn

\* A free frame is neither one of the page tables nor mapped, except through the
\* addresses put_pages left: the other address spaces of a page that was got for
\* several of them, or a page whose own address was mapped again for another
\* frame.  Only such leftovers, those of a failed call, or a call for a page that
\* is mapped already make _vmap take a data page for a table; and reading the
\* tables in unmap_pagetables faults only when some were made or unmapped since
\* they were mapped.
FreeFramesUnmapped ==
  /\ vmmPc = "run" /\ m.bug = "" =>
       /\ Mapped(m, m.free) \subseteq stale
       /\ (Tables(m, "kern") \cup Tables(m, "user")) \cap m.free = {}
       /\ Tables(m, "kern") \cap Tables(m, "user") = {}
  /\ m.bug = "wild" => stale \cup twice \cup maybe # {}
  /\ m.bug = "fault" =>
       \E t \in Tables(m, "kern") \cup Tables(m, "user") : <<"kern", KernVa(t)>> \notin DOMAIN asked
  /\ m.bug \notin {"put_pages", "range"}
=============================================================================
