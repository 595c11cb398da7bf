----------------------------- MODULE ModuleGraph -----------------------------
(***************************************************************************)
(* Module::populate_graph: the nets and cells of a module become vertices, *)
(* and edges say where each of them gets its bits from. The netlist gives  *)
(* every vector of bits as often and under as many names as it likes; nets *)
(* may overlap in any way.                                                 *)
(*                                                                         *)
(* Signatures are hashes of bit vectors and taken to be the vectors. The   *)
(* order in which a hash table hands out its elements is open: any choice. *)
(***************************************************************************)
EXTENDS Integers, Sequences, FiniteSets, SequencesExt

CONSTANTS
  Modules   (* netlists: [nets, cells], nets a sequence of [bits, port],   *)
            (* cells one of sequences of [bits, dir]; bit 0 is a constant  *)

Directions == {"input", "output"}

ASSUME ModulesAssumption ==
  \A m \in Modules :
    /\ m.nets \in Seq([bits : Seq(Nat), port : Directions \cup {"none"}])
    /\ m.cells \in Seq(Seq([bits : Seq(Nat), dir : Directions]))

(* No two cells drive the same vector of bits, and none drives an input.   *)
Drives(m, i, bits) ==
  \E j \in DOMAIN m.cells[i] :
    m.cells[i][j].dir = "output" /\ m.cells[i][j].bits = bits

DrivenOnce(m) ==
  \A i \in DOMAIN m.cells : \A n \in DOMAIN m.nets :
    Drives(m, i, m.nets[n].bits) =>
      /\ m.nets[n].port # "input"
      /\ \A k \in DOMAIN m.cells : Drives(m, k, m.nets[n].bits) => k = i

(* Every bit comes from an input or from a cell.                           *)
HasDriver(m, b) ==
  \/ \E n \in DOMAIN m.nets : m.nets[n].port = "input" /\ b \in Range(m.nets[n].bits)
  \/ \E i \in DOMAIN m.cells : \E j \in DOMAIN m.cells[i] :
       m.cells[i][j].dir = "output" /\ b \in Range(m.cells[i][j].bits)

AllDriven(m) ==
  /\ \A n \in DOMAIN m.nets : \A b \in Range(m.nets[n].bits) \ {0} : HasDriver(m, b)
  /\ \A i \in DOMAIN m.cells : \A j \in DOMAIN m.cells[i] :
       \A b \in Range(m.cells[i][j].bits) \ {0} : HasDriver(m, b)

VARIABLES
  module,
  vertices,   (* m_module_graph: sequence of [type, port, bits, cell]      *)
  edges,
  pc,         (* "nets", "cells", "connect", "done"                        *)
  next,       (* the net, cell or target vertex that is next               *)
  remaining   (* target_bits: bits of the target without a source yet      *)

vars == <<module, vertices, edges, pc, next, remaining>>

SignalBits(v) == Range(v) \ {0}

Init ==
  /\ module \in Modules
  /\ vertices = <<>> /\ edges = {}
  /\ pc = "nets" /\ next = 1
  /\ remaining = {}

-----------------------------------------------------------------------------
Vertices == DOMAIN vertices

(* net_signatures, module_port_signatures and cell_port_signatures         *)
PlainNets == {v \in Vertices : vertices[v].type = "net" /\ vertices[v].port = "none"}
PortNets == {v \in Vertices : vertices[v].type = "net" /\ vertices[v].port # "none"}
CellOutputs ==
  {v \in Vertices : vertices[v].type = "cellPort" /\ vertices[v].port = "output"}

WithBits(S, bits) == {v \in S : vertices[v].bits = bits}

(* A port is joined to the plain nets of its bits that come before it.     *)
AddNet ==
  /\ pc = "nets" /\ next <= Len(module.nets)
  /\ LET net == module.nets[next]
         v == Len(vertices) + 1
         aliases == WithBits(PlainNets, net.bits)
     IN /\ vertices' = Append(vertices,
              [type |-> "net", port |-> net.port, bits |-> net.bits, cell |-> 0])
        /\ edges' = edges \cup
             CASE net.port = "input"  -> {<<v, a>> : a \in aliases}
               [] net.port = "output" -> {<<a, v>> : a \in aliases}
               [] OTHER               -> {}
  /\ next' = next + 1
  /\ UNCHANGED <<module, pc, remaining>>

AllNetsAdded ==
  /\ pc = "nets" /\ next > Len(module.nets)
  /\ pc' = "cells" /\ next' = 1
  /\ UNCHANGED <<module, vertices, edges, remaining>>

NetsForPortsFirst(bits) ==                                                (* mutant *)
  IF WithBits(PortNets, bits) # {} THEN WithBits(PortNets, bits)
                                   ELSE WithBits(PlainNets, bits)
(* The net of exactly the bits of a cell port, if there is one             *)
NetsFor(bits) ==
  IF WithBits(PlainNets, bits) # {} THEN WithBits(PlainNets, bits)
                                    ELSE WithBits(PortNets, bits)

(* A cell comes with a vertex of its own for each port without such a net. *)
AddCell ==
  /\ pc = "cells" /\ next <= Len(module.cells)
  /\ LET ports == module.cells[next]
         c == Len(vertices) + 1
         own == {j \in DOMAIN ports : NetsFor(ports[j].bits) = {}}
         OwnVertex(j) == c + Cardinality({k \in own : k <= j})
         PortAt(v) == ports[CHOOSE j \in own : OwnVertex(j) = v]
         Ends(j) == IF j \in own THEN {OwnVertex(j)} ELSE NetsFor(ports[j].bits)
         Edge(j, v) == IF ports[j].dir = "input" THEN <<v, c>> ELSE <<c, v>>
     IN /\ vertices' = vertices
              \o <<[type |-> "cell", port |-> "none", bits |-> <<>>, cell |-> next]>>
              \o [k \in 1 .. Cardinality(own) |->
                    [type |-> "cellPort", port |-> PortAt(c + k).dir,
                     bits |-> PortAt(c + k).bits, cell |-> next]]
        /\ \E end \in [DOMAIN ports -> UNION {Ends(j) : j \in DOMAIN ports}] :
             /\ \A j \in DOMAIN ports : end[j] \in Ends(j)
             /\ edges' = edges \cup {Edge(j, end[j]) : j \in DOMAIN ports}
  /\ next' = next + 1
  /\ UNCHANGED <<module, pc, remaining>>

(* What may get a source, and of which bits                                *)
HasSource(v) == \E e \in edges : e[2] = v

NeedsSource(v) ==
  /\ vertices[v].type # "cell"
  /\ ~(vertices[v].type = "net" /\ vertices[v].port = "input")
  /\ ~HasSource(v)
  /\ SignalBits(vertices[v].bits) # {}

RemainingOf(v) == IF NeedsSource(v) THEN SignalBits(vertices[v].bits) ELSE {}

AllCellsAdded ==
  /\ pc = "cells" /\ next > Len(module.cells)
  /\ pc' = "connect" /\ next' = 1
  /\ remaining' = IF vertices = <<>> THEN {} ELSE RemainingOf(1)
  /\ UNCHANGED <<module, vertices, edges>>

-----------------------------------------------------------------------------
(* Connecting the vertices that have no source yet.                        *)

(* follow_path: what is reached from v over nets, in n steps               *)
Onward(S) ==
  S \cup {w \in PlainNets \cup PortNets : \E u \in S : <<u, w>> \in edges}
Follow(v) == FoldSet(LAMBDA n, S : Onward(S), {v}, Vertices)

EligibleWithoutLoopCheck(v, s) == s # v                                   (* mutant *)
(* No source may in turn depend on the vertex.                             *)
Eligible(v, s) == s # v /\ s \notin Follow(v)

First(S, T, U) == IF S # {} THEN S ELSE IF T # {} THEN T ELSE U

(* Sources of exactly the same bits, module ports before nets before cells *)
WholeSources(v) ==
  LET Of(S) == {s \in WithBits(S, vertices[v].bits) : Eligible(v, s)}
  IN First(Of(PortNets), Of(PlainNets), Of(CellOutputs))

(* Sources of some of the bits still without one                           *)
PartSources(v) ==
  LET Of(S) == {s \in S : /\ Eligible(v, s)
                          /\ SignalBits(vertices[s].bits) \cap remaining # {}}
  IN First(Of(PortNets), Of(PlainNets), Of(CellOutputs))

Connecting == pc = "connect" /\ next <= Len(vertices)

ConnectWhole ==
  /\ Connecting /\ remaining # {} /\ ~HasSource(next)
  /\ \E s \in WholeSources(next) : edges' = edges \cup {<<s, next>>}
  /\ remaining' = {}
  /\ UNCHANGED <<module, vertices, pc, next>>

InParts == HasSource(next) \/ WholeSources(next) = {}

CoversEverything(s) == remaining                                          (* mutant *)
Covers(s) == SignalBits(vertices[s].bits)

(* The code adds the edges of a target when it has them all. They end at   *)
(* the target, so that no source becomes reachable from it meanwhile.      *)
ConnectPart ==
  /\ Connecting /\ remaining # {} /\ InParts
  /\ \E s \in PartSources(next) :
       /\ edges' = edges \cup {<<s, next>>}
       /\ remaining' = remaining \ Covers(s)
  /\ UNCHANGED <<module, vertices, pc, next>>

NextTarget ==
  /\ Connecting
  /\ remaining = {} \/ (InParts /\ PartSources(next) = {})
  /\ next' = next + 1
  /\ remaining' = IF next' <= Len(vertices) THEN RemainingOf(next') ELSE {}
  /\ UNCHANGED <<module, vertices, edges, pc>>

Populated ==
  /\ pc = "connect" /\ next > Len(vertices)
  /\ pc' = "done"
  /\ UNCHANGED <<module, vertices, edges, next, remaining>>

Next ==
  \/ AddNet \/ AllNetsAdded \/ AddCell \/ AllCellsAdded
  \/ ConnectWhole \/ ConnectPart \/ NextTarget \/ Populated

Spec == Init /\ [][Next]_vars

-----------------------------------------------------------------------------
DrivenBits(c) ==
  UNION {Range(module.cells[vertices[c].cell][j].bits) :
           j \in {k \in DOMAIN module.cells[vertices[c].cell] :
                    module.cells[vertices[c].cell][k].dir = "output"}}

(* Where export_verilog takes bit b of v from: a net or port that has it,  *)
(* or the cell that drives it (export_connection assigns equal bits).      *)
Origins(v, b) ==
  {s \in Vertices : /\ <<s, v>> \in edges
                    /\ \/ vertices[s].type # "cell" /\ b \in Range(vertices[s].bits)
                       \/ vertices[s].type = "cell" /\ b \in DrivenBits(s)}

IsDriver(v, b) ==
  \/ vertices[v].type = "net" /\ vertices[v].port = "input"
  \/ vertices[v].type = "cell"

(* Every bit of every net and cell input comes, over vertices that have the *)
(* bit, from the input port or the cell that drives it: whatever the       *)
(* overlaps and the order of the sources, no bit is left floating and no   *)
(* group of aliases feeds only itself.                                     *)
BackwardsOf(S, b) == S \cup UNION {Origins(u, b) : u \in S}
EveryBitComesFromItsDriver ==
  pc = "done" =>
    \A v \in Vertices : vertices[v].type # "cell" =>
      \A b \in SignalBits(vertices[v].bits) :
        \E u \in FoldSet(LAMBDA n, S : BackwardsOf(S, b), {v}, Vertices) :
          IsDriver(u, b)

(* The nets never form a loop: follow_path, which keeps no record of where *)
(* it was, returns, and no net depends on itself.                          *)
NetsFormNoLoop ==
  \A e \in edges : {e[1], e[2]} \subseteq PlainNets \cup PortNets => e[1] \notin Follow(e[2])

(* A net a cell drives, which a register turns into a Verilog reg, gets no *)
(* other source, and an input port gets none at all.                       *)
DriversAreNotAssigned ==
  \A e, f \in edges :
    /\ vertices[e[1]].type = "cell" /\ e[2] = f[2] => e = f
    /\ ~(vertices[e[2]].type = "net" /\ vertices[e[2]].port = "input")
=============================================================================
