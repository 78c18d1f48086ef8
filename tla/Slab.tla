-------------------------------- MODULE Slab --------------------------------
(***************************************************************************)
(* kmalloc and kfree (mm/slab.c): slabs of one page per power of two, whose *)
(* descriptors (meta slabs) are themselves slots of slab pages.            *)
(*                                                                         *)
(* An object is <<page, slot>>.  A descriptor is an object of a meta page, *)
(* and slot 0 of a meta page is the descriptor of the page itself.  A free *)
(* object is a member of the free list of its slab; the code links a       *)
(* descriptor through one field both in the list of its order and in the   *)
(* free list of its meta page.                                             *)
(*                                                                         *)
(* slab_mm_lock makes an operation one step.  The pages come from          *)
(* get_free_page, which may have none, and go to put_pages.                *)
(***************************************************************************)
EXTENDS Integers, Sequences, FiniteSets, SequencesExt

CONSTANTS SLAB_SIZE_MIN, SLAB_SIZE_MAX, SLAB_PAGE_SIZE,
          META_SLOTS,   \* descriptors in a meta page besides its own
          SlabPages,    \* what get_free_page may return
          Sizes,        \* the sizes callers ask for
          MaxSlabOps    \* bound on the number of calls

ASSUME SlabAssumption ==
  /\ {SLAB_SIZE_MIN, SLAB_SIZE_MAX, SLAB_PAGE_SIZE, META_SLOTS} \subseteq Nat \ {0}
  /\ SLAB_SIZE_MIN <= SLAB_SIZE_MAX /\ SLAB_SIZE_MAX <= SLAB_PAGE_SIZE

VARIABLES metaPages,  \* meta_slab_page_list
          slabs,      \* meta_slab_list: for each size, its list of descriptors
          desc,       \* descriptor -> [base, len, size, allocs, head]
          slabHeld,   \* the pages the allocator has
          live,       \* history: what the callers have, object -> size
          slabBug,    \* "", or the BUG_ON or panic that was reached
          slabOps

slabVars == <<metaPages, slabs, desc, slabHeld, live, slabBug, slabOps>>

\* The state an operation of slab.c works on.
SlabState == [pages |-> metaPages, lists |-> slabs, desc |-> desc, held |-> slabHeld, bug |-> slabBug]

SlabBecomes(s) ==
  /\ metaPages' = s.pages
  /\ slabs' = s.lists
  /\ desc' = s.desc
  /\ slabHeld' = s.held
  /\ slabBug' = s.bug

next_power_of_two(n) ==
  CHOOSE p \in {2 ^ i : i \in 0 .. n} : p >= n /\ (p = 1 \/ p \div 2 < n)

Orders == {p \in SLAB_SIZE_MIN .. SLAB_SIZE_MAX : p = next_power_of_two(p)}

\* The list of a size; a size above SLAB_SIZE_MAX has none.
SizePower2(size) == next_power_of_two(IF size < SLAB_SIZE_MIN THEN SLAB_SIZE_MIN ELSE size)

\* initialize_slab and the assignments before it.
InitializeSlab(base, first, len, size) ==
  [base |-> base, len |-> len, size |-> size, allocs |-> 0,
   head |-> [i \in 1 .. len \div size |-> <<base, first + i - 1>>]]

\* slab_alloc of a slab whose free list is not empty, with its BUG_ON.
SlabAlloc(s, d) ==
  IF s.desc[d].allocs >= s.desc[d].len \div s.desc[d].size THEN [s EXCEPT !.bug = "slab_alloc"]
  ELSE [s EXCEPT !.desc[d].head = Tail(@), !.desc[d].allocs = @ + 1]

SlabFree(s, d, obj) ==
  IF s.desc[d].allocs = 0 THEN [s EXCEPT !.bug = "slab_free"]
  ELSE [s EXCEPT !.desc[d].head = Append(@, obj), !.desc[d].allocs = @ - 1]

\* The first slab of a list that has a free object.
FirstWithRoom(s, list) ==
  LET room == {i \in DOMAIN list : s.desc[list[i]].head # <<>>}
  IN  IF room = {} THEN <<>> ELSE list[Min(room)]

MetaPage(p) == <<p, 0>>

\* META_SLAB_PAGE_ENTRY
MetaPageOf(d) == MetaPage(d[1])

\* slab_meta_alloc: from the first meta page with room, or from a new one, for
\* which get_free_page returns a page of the set, or none.  The state, and the
\* descriptor or <<>>.
SlabMetaAlloc(s, page) ==
  LET old == FirstWithRoom(s, s.pages)
      d == MetaPage(page)
      new == [s EXCEPT !.desc = (d :> InitializeSlab(page, 1, META_SLOTS, 1)) @@ @,
                       !.pages = <<d>> \o @, !.held = @ \cup {page}]
  IN  IF old # <<>> THEN [s |-> SlabAlloc(s, old), d |-> Head(s.desc[old].head)]
      ELSE IF page = 0 THEN [s |-> s, d |-> <<>>]
      ELSE [s |-> SlabAlloc(new, d), d |-> Head(new.desc[d].head)]

\* ktf_alloc after the search of its list: a descriptor, then a page; without
\* the page the descriptor is returned, and a meta page made for it stays.
NewSlab(s, size, metaPage, page) ==
  LET meta == SlabMetaAlloc(s, metaPage)
      d == meta.d
      new == [meta.s EXCEPT !.desc = (d :> InitializeSlab(page, 0, SLAB_PAGE_SIZE, size)) @@ @,
                            !.held = @ \cup {page},
                            !.lists[size] = <<d>> \o @]
  IN  IF d = <<>> THEN [s |-> s, obj |-> <<>>]
      ELSE IF page = 0 THEN [s |-> SlabFree(meta.s, MetaPageOf(d), d), obj |-> <<>>]
      ELSE [s |-> SlabAlloc(new, d), obj |-> Head(new.desc[d].head)]

\* What get_free_page returns, 0 for none: pages are only compared for equality,
\* so that the first free one stands for all.
GetFreePage(held) == {0} \cup {p \in SlabPages \ held : \A q \in SlabPages \ held : p <= q}

Kmalloc(size, p, q) ==
  LET order == SizePower2(size)
      s == SlabState
      d == FirstWithRoom(s, s.lists[order])
      r == IF order > SLAB_SIZE_MAX THEN [s |-> s, obj |-> <<>>]
           ELSE IF d # <<>> THEN [s |-> SlabAlloc(s, d), obj |-> Head(s.desc[d].head)]
           ELSE NewSlab(s, order, p, q)
  IN  /\ SlabBecomes(r.s)
      /\ live' = IF r.obj = <<>> THEN live ELSE (r.obj :> size) @@ live

\* Mutant of ReleaseSlab: the descriptor goes to its free list first, and it is
\* this list, through the shared field, that it is unlinked from.
ReleaseSlabReordered(s, d) ==
  LET freed == SlabFree([s EXCEPT !.held = @ \ {s.desc[d].base}], MetaPageOf(d), d)
  IN  [freed EXCEPT !.desc[MetaPageOf(d)].head = SelectSeq(@, LAMBDA x : x # d)]

\* An empty slab is unlinked from its list, its page is put, and its descriptor
\* goes to the free list of its meta page.
ReleaseSlab(s, d) ==
  LET unlinked == [s EXCEPT !.lists[s.desc[d].size] = SelectSeq(@, LAMBDA x : x # d),
                            !.held = @ \ {s.desc[d].base},
                            !.desc = [x \in DOMAIN @ \ {d} |-> @[x]]]
  IN  SlabFree(unlinked, MetaPageOf(d), d)

\* Mutant of ReleaseMetaPage: an empty meta page is kept.
ReleaseMetaPageNever(s, d) == s

ReleaseMetaPage(s, d) ==
  IF s.desc[d].allocs # 0 THEN s
  ELSE [s EXCEPT !.pages = SelectSeq(@, LAMBDA x : x # d), !.held = @ \ {d[1]},
                 !.desc = [x \in DOMAIN @ \ {d} |-> @[x]]]

\* The slabs ktf_free finds an address in: all lists are searched.
SlabsOf(s, obj) == {d \in UNION {Range(s.lists[o]) : o \in Orders} : s.desc[d].base = obj[1]}

KtfFree(s, obj) ==
  LET d == CHOOSE x \in SlabsOf(s, obj) : TRUE
      freed == SlabFree(s, d, obj)
  IN  IF SlabsOf(s, obj) = {} THEN [s EXCEPT !.bug = "ktf_free"]
      ELSE IF freed.bug # "" \/ freed.desc[d].allocs # 0 THEN freed
      ELSE ReleaseMetaPage(ReleaseSlab(freed, d), MetaPageOf(d))

Kfree(obj) ==
  /\ SlabBecomes(KtfFree(SlabState, obj))
  /\ live' = [x \in DOMAIN live \ {obj} |-> live[x]]

SlabStep ==
  /\ slabBug = "" /\ slabOps < MaxSlabOps
  /\ slabOps' = slabOps + 1
  /\ \/ \E size \in Sizes, p \in GetFreePage(slabHeld) : \E q \in GetFreePage(slabHeld \cup {p}) :
          Kmalloc(size, p, q)
     \/ \E obj \in DOMAIN live : Kfree(obj)

\* init_slab
SlabInit ==
  /\ metaPages = <<>>
  /\ slabs = [o \in Orders |-> <<>>]
  /\ desc = <<>>
  /\ slabHeld = {}
  /\ live = <<>>
  /\ slabBug = ""
  /\ slabOps = 0

(***************************************************************************)
(* Properties                                                              *)
(***************************************************************************)

\* Every descriptor is in exactly one place, the list of its size or the free
\* list of its meta page; every object of a slab is either free, once, or held
\* by a caller, for whom it is large enough; slab_allocs counts the latter; no
\* page serves two slabs; and no BUG_ON or panic of slab.c is reached by callers
\* that free what they got, once.
SlabAccounts ==
  LET data == UNION {Range(slabs[o]) : o \in Orders}
      objects(d) == Range(desc[d].head)
      used(d) == IF d \in data THEN {x \in DOMAIN live : x[1] = desc[d].base}
                 ELSE {x \in data : MetaPageOf(x) = d}
  IN  /\ slabBug = ""
      /\ DOMAIN desc = data \cup Range(metaPages)
      /\ \A d \in DOMAIN desc :
           /\ IsInjective(desc[d].head)
           /\ objects(d) \cap used(d) = {}
           /\ Cardinality(used(d)) = desc[d].allocs
           /\ Len(desc[d].head) + desc[d].allocs = desc[d].len \div desc[d].size
      /\ \A d1, d2 \in DOMAIN desc : desc[d1].base = desc[d2].base => d1 = d2
      /\ slabHeld = {desc[d].base : d \in DOMAIN desc}
      /\ \A x \in DOMAIN live : \E d \in data :
           desc[d].base = x[1] /\ live[x] <= desc[d].size /\ d \in Range(slabs[desc[d].size])

\* Memory is given back: no slab page is kept without an object a caller holds,
\* and of the meta pages at most one is empty, the one an allocation left that
\* got no page for its slab.
SlabReturnsPages ==
  slabBug = "" =>
    /\ \A o \in Orders, d \in DOMAIN desc : d \in Range(slabs[o]) => desc[d].allocs > 0
    /\ Cardinality({d \in Range(metaPages) : desc[d].allocs = 0}) <= 1
    /\ live = <<>> => Cardinality(slabHeld) <= 1
=============================================================================
