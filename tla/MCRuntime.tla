----------------------------- MODULE MCRuntime ------------------------------
(***************************************************************************)
(* A small instance of what runs once the machine is up: the virtual       *)
(* memory manager, the slab allocator, the locks of both, the ACPICA OS    *)
(* layer, the entry code of user mode, the devices of the echo loop, the   *)
(* text that is read and printed and the table of symbols.                 *)
(* They share no state but the frames, which Pmm has, and the locks, which *)
(* Locks has; so one of them runs in a behaviour, which `part' names.      *)
(***************************************************************************)
EXTENDS Vmm, Slab, Locks, Osl, Usermode, Devices, Text, Symbols

VARIABLE part

runtimeVars == <<part, vmmVars, slabVars, lockVars, oslVars, entryVars, devVars, textVars, symbolVars>>

(***************************************************************************)
(* Page tables of two entries: a 2M page is two pages and a 1G page four.  *)
(* The four kinds of addresses lie as in include/arch/x86/page.h, the user *)
(* addresses aligned to 2M and not to 1G.                                  *)
(***************************************************************************)

MCVaPages == 0 .. 127
MCMfns == 0 .. 39
MCFrames == 8 .. 35
MCDataBlocks == {<<8, 1>>, <<9, 1>>, <<8, 2>>, <<10, 1>>}
MCGfps == {{"KERNEL_MAP"}, {"KERNEL", "USER"}, {"USER"}, {"IDENT", "KERNEL_MAP", "USER"}}
MCUserVas == {20}

Area(pa, size, flags, spaces) == [pa |-> pa, size |-> size, flags |-> flags, spaces |-> spaces]

\* Not aligned at either end, ending in a large page, in the middle of a page,
\* and of one 1G page.
MCAreas == {Area(1, 2, {"P"}, {"IDENT", "KERNEL"}),
            Area(10, 6, {"P"}, {"IDENT"}),
            Area(8, 7, {"P", "RW"}, {"KERNEL_MAP"}),
            Area(8, 8, {"P", "RW"}, {"KERNEL", "KERNEL_USER"})}

BootRange(pa, flags, spaces, init) ==
  [pa |-> pa, size |-> 2, flags |-> flags, spaces |-> spaces, init |-> init]

MCBootRanges == <<BootRange(2, {"P", "RW"}, {"IDENT"}, TRUE),
                  BootRange(6, {"P"}, {"KERNEL"}, FALSE),
                  BootRange(8, {"P", "US"}, {"USER", "KERNEL_USER"}, FALSE)>>

MCTopCalls == {"kmalloc", "kfree", "AcpiOsMapMemory", "AcpiOsUnmapMemory",
               "sys_mmap", "sys_munmap", "vprintk"}

\* Two ranges of one page, one across two pages, one with a page that fails.
MCRanges == {[pa |-> 0, len |-> 2], [pa |-> 1, len |-> 2],
             [pa |-> 3, len |-> 1], [pa |-> 2, len |-> 4]}

MCTexts == {<<120, 121, 122>>, <<119, NewLine>>}

(***************************************************************************)
(* Text, written as sequences of strings of one character.  With ten bytes *)
(* for com1 the values fit, fill the array with and without its 0, or are  *)
(* cut; some have a field missing, unknown, or empty.                      *)
(***************************************************************************)

Printable == <<" ", "#", "%", "(", ",", ".", "/", "0", "1", "2", "3", "4", "5", "6", "7", "8", "9", "=",
               "@", "A", "C", "G", "H", "M", "P", "U", "a", "b", "c", "d", "e", "f", "m", "n", "o", "q",
               "s", "t", "x", "z", "-", "k">>
Codes == <<32, 35, 37, 40, 44, 46, 47, 48, 49, 50, 51, 52, 53, 54, 55, 56, 57, 61,
           64, 65, 67, 71, 72, 77, 80, 85, 97, 98, 99, 100, 101, 102, 109, 110, 111, 113,
           115, 116, 120, 122, 45, 107>>

Code(c) == Codes[CHOOSE k \in DOMAIN Printable : Printable[k] = c]
Ascii(s) == [k \in DOMAIN s |-> Code(s[k])]

MCParamName == Ascii(<<"c", "o", "m", "1">>)
MCBehind == <<Code("7"), 0, 0>>

Com1(s) == MCParamName \o <<Equals>> \o Ascii(s)

MCOptions == {Ascii(<<"c", "o", "m", "1">>), Com1(<<>>),
              Ascii(<<"t", "e", "s", "t", "s", "=", "a", ",", "b", "c", "o", "m", "1", "0", "0">>),
              Com1(<<"0", "x", "3", "f", "8">>), Com1(<<"2", "f", "8", ",", ",", "3", "0", "0">>),
              Com1(<<"3", "f", "8", ",", "9", "6", "0", "0", ",">>),
              Com1(<<"2", "e", "8", ",", "3", "0", "0", ",", "7", ",">>),
              Com1(<<"2", "e", "8", ",", "3", "0", "0", ",", "9">>),
              Com1(<<"3", "e", "8", ",", "3", "0", "0", ",", "7", ",", "e">>),
              Com1(<<"3", "e", "8", ",", "3", "0", "1">>), Com1(<<",", "3", "f", "8">>)}

Brand(s) == Ascii(<<"C", "P", "U", " ">> \o s)

MCBrands == {Brand(<<"3", ".", "5", "0", "G", "H", "z">>), Brand(<<"1", ".", "9", "9", "G", "H", "z">>),
             Brand(<<"2", ".", "8", "G", "H", "z">>), Brand(<<"3", ".", "0", "7", "G", "H", "z">>),
             Brand(<<"3", ".", "0", "8", "G", "H", "z">>), Brand(<<"1", ".", "2", "5", "5", "G", "H", "z">>),
             Brand(<<"1", "0", "G", "H", "z">>), Brand(<<"6", "0", "0", "M", "H", "z">>),
             Brand(<<"P">>)}
MCLeftovers == {<<>>, Ascii(<<"z">>), Ascii(<<"4">>)}

\* Numbers and strings in all widths, with a buffer of eight characters.  Zeros
\* before a string, or instead of a precision, mean nothing in C.
MCPrints ==
  {p \in [flags : SUBSET {"left", "zero", "sharp"}, width : {0, 2, 5}, star : BOOLEAN,
          precision : {0, 1, 3}, modifier : {<<>>, Ascii(<<"z">>)},
          letter : {Code("d"), Code("o"), Code("x"), Code("k"), 88, 112, 117}, arg : {0, 7, 30, -9}] :
     /\ "zero" \in p.flags => p.precision = 0
     /\ p.arg < 0 => p.letter = Code("d")
     /\ p.star => p.width # 0 /\ p.arg = 30
     /\ p.modifier # <<>> => p.width = 5 /\ p.arg = 7}
  \cup [flags : SUBSET {"left"}, width : {0, 2, 5}, star : BOOLEAN, precision : {0, 1, 3},
        modifier : {<<>>}, letter : {Code("s")}, arg : {<<>>, Ascii(<<"a", "x", "b">>)}]

\* Symbols without a gap, with gaps, one alone, and two of one name; text goes
\* on behind them.
Symbol(addr, size, name) == [addr |-> addr, size |-> size, name |-> name]
MCSymbolTables ==
  {<<Symbol(2, 2, "f"), Symbol(4, 1, "g"), Symbol(5, 2, "h"), Symbol(7, 1, "t")>>,
   <<Symbol(3, 1, "f"), Symbol(5, 1, "g"), Symbol(6, 2, "g")>>,
   <<Symbol(4, 2, "t")>>}
MCTestLists == {<<>>, <<"f", "g", "t">>, <<"t", "f">>}

Init ==
  /\ part \in {"vmm", "slab", "locks", "osl", "entry", "devices", "text", "symbols"}
  /\ VmmInit(MCFrames)
  /\ SlabInit
  /\ LocksInit(1)
  /\ OslInit
  /\ EntryInit
  /\ DevicesInit
  /\ TextInit
  /\ SymbolsInit
  /\ part # "symbols" => Len(symbols) = 1 /\ tests = <<>>

Next ==
  \/ part = "vmm" /\ VmmStep
     /\ UNCHANGED <<part, slabVars, lockVars, oslVars, entryVars, devVars, textVars, symbolVars>>
  \/ part = "slab" /\ SlabStep
     /\ UNCHANGED <<part, vmmVars, lockVars, oslVars, entryVars, devVars, textVars, symbolVars>>
  \/ part = "locks" /\ LocksStep
     /\ UNCHANGED <<part, vmmVars, slabVars, oslVars, entryVars, devVars, textVars, symbolVars>>
  \/ part = "osl" /\ OslStep
     /\ UNCHANGED <<part, vmmVars, slabVars, lockVars, entryVars, devVars, textVars, symbolVars>>
  \/ part = "entry" /\ EntryStep
     /\ UNCHANGED <<part, vmmVars, slabVars, lockVars, oslVars, devVars, textVars, symbolVars>>
  \/ part = "devices" /\ DevicesStep
     /\ UNCHANGED <<part, vmmVars, slabVars, lockVars, oslVars, entryVars, textVars, symbolVars>>
  \/ part = "text" /\ TextStep
     /\ UNCHANGED <<part, vmmVars, slabVars, lockVars, oslVars, entryVars, devVars, symbolVars>>
  \/ part = "symbols" /\ SymbolsStep
     /\ UNCHANGED <<part, vmmVars, slabVars, lockVars, oslVars, entryVars, devVars, textVars>>

Spec == Init /\ [][Next]_runtimeVars /\ LocksFairness
=============================================================================
