-------------------------------- MODULE Pci --------------------------------
(***************************************************************************)
(* The enumeration of the PCI functions (common/pci.c): probe_pci and the  *)
(* recursion of probe_pci_bus, whose call stack is a sequence of frames.   *)
(* One function looked at, or one bus of a bridge, is one step.            *)
(*                                                                         *)
(* pciFw is the configuration space: the functions that answer, each with  *)
(* its header's multi-function bit and, for a bridge, the buses it names.  *)
(***************************************************************************)
EXTENDS Naturals, Sequences, FiniteSets

CONSTANTS PCI_NR_BUS, PCI_NR_DEV, PCI_NR_FUNC,
          MaxPciDevs     \* devices that kzalloc has room for

VARIABLES pciFw,     \* function from <<bus, dev, func>> to its configuration
          pciPc,     \* "start", "probe", "done" or "panic"
          calls,     \* the active calls of probe_pci_bus, the innermost first
          pci_list   \* the functions found, in order

pciVars == <<pciFw, pciPc, calls, pci_list>>

\* The configuration space of a function, and of a bridge.
Config(host_bridge, multi) == [host_bridge |-> host_bridge, multi |-> multi, bridge |-> FALSE]
BridgeConfig(secondary, subordinate) ==
  [host_bridge |-> FALSE, multi |-> FALSE, bridge |-> TRUE,
   secondary |-> secondary, subordinate |-> subordinate]

\* PCI_DEV_EXISTS: the function's vendor register can be read.
Exists(f) == f \in DOMAIN pciFw

\* A call of probe_pci_bus at its beginning.  b is the bus the loop over a
\* bridge's buses has come to, while it is in it.
Call(bus, dev) == [bus |-> bus, dev |-> dev, func |-> 0, in_bridge |-> FALSE, b |-> 0]

Top == calls[1]
Function == <<Top.bus, Top.dev, Top.func>>

\* The next function of the device, or the next device.
Advance(c, next_func) ==
  IF next_func /\ c.func + 1 < PCI_NR_FUNC
    THEN [c EXCEPT !.func = @ + 1, !.in_bridge = FALSE]
    ELSE [c EXCEPT !.dev = @ + 1, !.func = 0, !.in_bridge = FALSE]

\* probe_pci: nothing is probed without a host bridge at 00:0.0, which is one
\* if either half of its class code says so.
ProbePci ==
  /\ pciPc = "start"
  /\ LET host == <<0, 0, 0>> IN
     IF ~Exists(host) \/ ~pciFw[host].host_bridge
       THEN pciPc' = "done" /\ UNCHANGED <<calls, pci_list>>
       ELSE /\ pciPc' = "probe"
            /\ calls' = <<Call(0, 1)>>
            /\ pci_list' = <<host>>
  /\ UNCHANGED pciFw

\* Mutant of OnlyFunction: the bit is not looked at.
OnlyFunctionNever(f) == FALSE

\* !pci_dev_is_multifunc
OnlyFunction(f) == ~pciFw[f].multi

\* One turn of the loops of probe_pci_bus, up to the buses of a bridge.
ProbeFunction ==
  /\ pciPc = "probe" /\ calls # <<>> /\ ~Top.in_bridge /\ Top.dev < PCI_NR_DEV
  /\ IF ~Exists(Function)
       THEN /\ calls' = [calls EXCEPT ![1] = Advance(@, TRUE)]
            /\ UNCHANGED <<pciPc, pci_list>>
     ELSE IF Len(pci_list) = MaxPciDevs
       THEN pciPc' = "panic" /\ UNCHANGED <<calls, pci_list>>
     ELSE /\ pci_list' = Append(pci_list, Function)
          /\ calls' = [calls EXCEPT ![1] =
                         IF pciFw[Function].bridge
                           THEN [@ EXCEPT !.in_bridge = TRUE, !.b = pciFw[Function].secondary]
                           ELSE Advance(@, ~OnlyFunction(Function))]
          /\ UNCHANGED pciPc
  /\ UNCHANGED pciFw

\* for (uint8_t b = secondary; b <= subordinate; b++)
ProbeBehindBridge ==
  /\ pciPc = "probe" /\ calls # <<>> /\ Top.in_bridge
  /\ calls' = IF Top.b <= pciFw[Function].subordinate
                THEN <<Call(Top.b, 0), [Top EXCEPT !.b = (@ + 1) % PCI_NR_BUS]>> \o Tail(calls)
                ELSE [calls EXCEPT ![1] = Advance(@, ~OnlyFunction(Function))]
  /\ UNCHANGED <<pciFw, pciPc, pci_list>>

\* probe_pci_bus returns.
ProbeReturn ==
  /\ pciPc = "probe" /\ calls # <<>> /\ Top.dev = PCI_NR_DEV
  /\ calls' = Tail(calls)
  /\ pciPc' = IF Len(calls) = 1 THEN "done" ELSE "probe"
  /\ UNCHANGED <<pciFw, pci_list>>

PciStep == ProbePci \/ ProbeFunction \/ ProbeBehindBridge \/ ProbeReturn

PciInit == pciPc = "start" /\ calls = <<>> /\ pci_list = <<>>

(***************************************************************************)
(* Properties.                                                             *)
(***************************************************************************)

\* A function that answers and that no lower function of its device hides by
\* not having the multi-function bit.
Visible(f) ==
  \A g \in DOMAIN pciFw : (g[1] = f[1] /\ g[2] = f[2] /\ g[3] < f[3]) => pciFw[g].multi

Bridges == {f \in DOMAIN pciFw : pciFw[f].bridge /\ Visible(f)}
Behind(f) == pciFw[f].secondary .. pciFw[f].subordinate

\* The buses a chain of n bridges from bus 0 leads to.
BusesAt[n \in Nat] ==
  IF n = 0 THEN {0}
  ELSE BusesAt[n - 1] \cup UNION {Behind(f) : f \in {g \in Bridges : g[1] \in BusesAt[n - 1]}}
Buses == BusesAt[PCI_NR_BUS]

\* A topology the recursion can come to the end of: no bridge leads back to a
\* bus at or before its own, and none reaches the last bus number, where the
\* loop's uint8_t wraps.
Finite ==
  \A f \in Bridges :
    pciFw[f].secondary > f[1] /\ pciFw[f].subordinate < PCI_NR_BUS - 1

Count(f) == Cardinality({i \in DOMAIN pci_list : pci_list[i] = f})

\* probe_pci finds every visible function of every bus the bridges lead to, and
\* nothing else.  It finds it once, unless two bridges name its bus.
PciFound ==
  (pciPc = "done" /\ pci_list # <<>>) =>
    /\ \A f \in DOMAIN pciFw : (f[1] \in Buses /\ Visible(f) /\ (f[1] = 0 => f[2] > 0)) =>
         Count(f) >= 1
    /\ \A i \in DOMAIN pci_list : Visible(pci_list[i]) /\ pci_list[i][1] \in Buses
    /\ (\A f, g \in Bridges : f # g => Behind(f) \cap Behind(g) = {}) =>
         \A i, j \in DOMAIN pci_list : i # j => pci_list[i] # pci_list[j]
============================================================================
