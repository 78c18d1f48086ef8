-------------------------------- MODULE Cpus --------------------------------
(***************************************************************************)
(* The CPU list of common/cpu.c and the per-CPU pages of common/percpu.c   *)
(* that its entries point to, as operators on the list.                    *)
(*                                                                         *)
(* An entry holds the CPU's id, its flags, the number of its per-CPU page  *)
(* and the apic_id in that page.  CPUs that share a page share the         *)
(* apic_id, so SetApicId writes it for all of them.  Every page belongs to *)
(* an entry, since get_percpu_page is only called for one.                 *)
(***************************************************************************)
EXTENDS Naturals, Sequences

\* get_cpu: the first entry with that id.
HasCpu(list, id) == \E i \in DOMAIN list : list[i].id = id
GetCpu(list, id) ==
  CHOOSE i \in DOMAIN list : list[i].id = id /\ \A j \in 1 .. i - 1 : list[j].id # id

Pages(list) == {list[i].page : i \in DOMAIN list}

\* get_percpu_page: the newest page whose apic_id is the id, else a new one,
\* whose apic_id becomes the id.
PageWith(list, id) == {list[i].page : i \in {j \in DOMAIN list : list[j].apic_id = id}}
GetPercpuPage(list, id) ==
  IF PageWith(list, id) # {}
    THEN CHOOSE p \in PageWith(list, id) : \A q \in PageWith(list, id) : q <= p
    ELSE 1 + Len(list)

\* init_cpu, as init_cpus and add_cpu call it.
NewCpu(list, id, is_bsp, enabled) ==
  [id |-> id, bsp |-> is_bsp, enabled |-> enabled,
   page |-> GetPercpuPage(list, id), apic_id |-> id]

InitCpus == <<NewCpu(<<>>, 0, TRUE, TRUE)>>

\* Mutant of FindOrAddCpu: the list is not searched.
FindOrAddCpuAlways(list, id, enabled) == <<NewCpu(list, id, FALSE, enabled)>> \o list

\* get_cpu(id) ?: add_cpu(id, false, enabled), and cpu->flags.enabled = enabled.
\* add_cpu puts the new entry at the head of the list.
FindOrAddCpu(list, id, enabled) ==
  IF HasCpu(list, id)
    THEN [list EXCEPT ![GetCpu(list, id)].enabled = enabled]
    ELSE <<NewCpu(list, id, FALSE, enabled)>> \o list

\* cpu->percpu->apic_id = apic_id
SetApicId(list, i, apic_id) ==
  [j \in DOMAIN list |->
     IF list[j].page = list[i].page THEN [list[j] EXCEPT !.apic_id = apic_id]
                                    ELSE list[j]]
============================================================================
