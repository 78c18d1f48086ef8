------------------------------ MODULE Symbols ------------------------------
(***************************************************************************)
(* The table of symbols (common/symbols.c; tools/symbols/symbols.py makes  *)
(* it) and its two users: print_callstack of arch/x86/traps.c, which looks *)
(* up every word of a stack, and test_main of tests/test.c, which looks up *)
(* a test by its name.                                                     *)
(***************************************************************************)
EXTENDS Naturals, Sequences

CONSTANTS SymbolTables, \* the generated tables: sequences of addr, size and name
          TextSections, \* the addresses of the kernel's and the user's text
          Words,        \* what may be on a stack
          StackWords,   \* their number up to the end of the page
          TestLists,    \* values of the option `tests', as sequences of names
          HANGS         \* no index: the loop never ends

\* symbols.py sorts by address.  Symbols do not overlap, and there are some.
ASSUME SymbolsAssumption ==
  \A t \in SymbolTables :
    t # <<>> /\ \A i, j \in DOMAIN t : i < j => t[i].addr + t[i].size <= t[j].addr

VARIABLES symbols,   \* the table
          words,     \* of print_callstack: instruction pointer and stack
          looked,    \* how many of them it looked up
          shown,     \* the lines it printed: address and index
          hung,      \* the lookup of the next one does not return
          tests,     \* opt_tests
          taken,     \* how many of them get_next_test took
          testsRun   \* the addresses test_main called

stackVars == <<words, looked, shown, hung>>
testVars == <<tests, taken, testsRun>>
symbolVars == <<symbols, stackVars, testVars>>

is_symbol_address(addr, i) ==
  addr >= symbols[i].addr /\ addr < symbols[i].addr + symbols[i].size

\* Mutant of Middle: rounded up, so that right = mid changes nothing.
MiddleUp(left, right) == (left + right) \div 2 + 1

\* The middle of two indices that count from 0; here they count from 1.
Middle(left, right) == (left - 1 + right - 1) \div 2 + 1

\* The binary search.  A turn that changes neither left nor right is the last
\* one to make a difference.
Search(addr) ==
  LET from[left \in Nat, right \in Nat] ==
        LET mid == Middle(left, right)
        IN  IF left = right THEN IF is_symbol_address(addr, left) THEN left ELSE 0
            ELSE IF is_symbol_address(addr, mid) THEN mid
            ELSE IF addr < symbols[mid].addr
              THEN IF mid = right THEN HANGS ELSE from[left, mid]
              ELSE IF mid = left THEN HANGS ELSE from[mid, right]
  IN  from[1, Len(symbols)]

\* 0 stands for the code's -1.
symbol_index_by_address(addr) == IF addr \in TextSections THEN Search(addr) ELSE 0

\* The first symbol of that name: static functions may share one.
symbol_index_by_name(name) ==
  LET named == {i \in DOMAIN symbols : symbols[i].name = name}
  IN  IF named = {} THEN 0 ELSE CHOOSE i \in named : \A j \in named : i <= j

\* print_callstack: the instruction pointer, then the words up to the end of
\* the page.
print_callstack(w) ==
  /\ words = <<>> /\ words' = w
  /\ UNCHANGED <<symbols, looked, shown, hung, testVars>>

\* print_symbol of the next word.
print_symbol ==
  LET addr == words[looked + 1]
      index == symbol_index_by_address(addr)
  IN  /\ looked < Len(words) /\ ~hung
      /\ IF index = HANGS THEN hung' = TRUE /\ UNCHANGED <<looked, shown>>
         ELSE /\ looked' = looked + 1
              /\ shown' = IF index = 0 THEN shown ELSE Append(shown, <<addr, index>>)
              /\ UNCHANGED hung
      /\ UNCHANGED <<symbols, words, testVars>>

\* A turn of test_main: get_next_test, and the call of what it found.  After a
\* name without a symbol no other is taken.
test_main ==
  LET index == symbol_index_by_name(tests[taken + 1])
  IN  /\ taken < Len(tests) /\ taken = Len(testsRun)
      /\ taken' = taken + 1
      /\ testsRun' = IF index = 0 THEN testsRun ELSE Append(testsRun, symbols[index].addr)
      /\ UNCHANGED <<symbols, tests, stackVars>>

SymbolsInit ==
  /\ symbols \in SymbolTables /\ tests \in TestLists
  /\ words = <<>> /\ looked = 0 /\ shown = <<>> /\ hung = FALSE
  /\ taken = 0 /\ testsRun = <<>>

SymbolsStep ==
  \/ words = <<>> /\ \E w \in [1 .. StackWords + 1 -> Words] : print_callstack(w)
  \/ print_symbol
  \/ test_main

(***************************************************************************)
(* Properties                                                              *)
(***************************************************************************)

Holding(addr) == {i \in DOMAIN symbols : is_symbol_address(addr, i)}

\* The call stack of a trap has a line for exactly the words that point into a
\* symbol, in their order and with that symbol's index.  A lookup does not
\* return, and the trap's handler with it, only for an address in the last
\* symbol or, above the first, in a gap of the text.  The tests that are called
\* are the first ones taken for, up to one that has no symbol.
SymbolsFound ==
  /\ [k \in DOMAIN shown |-> shown[k][1]] = SelectSeq(SubSeq(words, 1, looked),
                                                     LAMBDA w : Holding(w) # {})
  /\ \A k \in DOMAIN shown : shown[k][2] \in Holding(shown[k][1])
  /\ hung => LET addr == words[looked + 1]
             IN  addr > symbols[1].addr /\ Holding(addr) \subseteq {Len(symbols)}
  /\ \A k \in DOMAIN testsRun : \E i \in DOMAIN symbols :
       symbols[i].addr = testsRun[k] /\ symbols[i].name = tests[k]
  /\ taken > Len(testsRun) => \A i \in DOMAIN symbols : symbols[i].name # tests[taken]
=============================================================================
