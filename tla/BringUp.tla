------------------------------ MODULE BringUp ------------------------------
(***************************************************************************)
(* What init_smp promises, without the boot CPU's loop, the globals ap_*   *)
(* and the inter-processor interrupts: the processors of the CPU list come *)
(* up one at a time, in list order, each once, each for the entry of the   *)
(* list that names it and on a stack of its own, as long as there are any. *)
(***************************************************************************)
EXTENDS Naturals, Sequences

CONSTANTS ApicIds,   \* the APIC IDs a processor can have
          Stacks,    \* the stacks there are
          NoStack,   \* the address that is not one of them
          NotRunning \* not a record

VARIABLES list,      \* the CPU list: records with id, apic_id and bsp
          running    \* by APIC ID: NotRunning, or the CPU and stack it runs on

vars == <<list, running>>

\* No entry but the boot CPU's names a processor that another entry names.
\* For a list where two do, nothing is promised.
WellFormed(cpus) ==
  \A i, j \in DOMAIN cpus : i # j =>
    /\ cpus[i].id # cpus[j].id
    /\ cpus[i].apic_id # cpus[j].apic_id

Idle == \A h \in ApicIds : running[h] = NotRunning

Init == Idle

\* The list is built before any processor is started.
Enlist == Idle /\ Idle' /\ UNCHANGED running

\* A stack of its own; the address that is none only once all are taken.
Free(sp) ==
  LET taken == {running[g].sp : g \in {h \in ApicIds : running[h] # NotRunning}}
  IN  IF sp = NoStack THEN Stacks \subseteq taken ELSE sp \notin taken

Start(i, sp) ==
  LET h == list[i].apic_id IN
  /\ ~list[i].bsp
  /\ running[h] = NotRunning
  /\ \A j \in 1 .. i - 1 : ~list[j].bsp => running[list[j].apic_id] # NotRunning
  /\ Free(sp)
  /\ running' = [running EXCEPT ![h] = [cpu |-> list[i].id, sp |-> sp]]
  /\ UNCHANGED list

Next ==
  \/ Enlist
  \/ \E i \in DOMAIN list, sp \in Stacks \cup {NoStack} : Start(i, sp)
  \/ ~WellFormed(list) /\ UNCHANGED list

Spec == Init /\ [][Next]_vars
============================================================================
