------------------------- MODULE InstantiationGraph -------------------------
(***************************************************************************)
(* DesignInstance::create_instance: the modules of a design are unfolded   *)
(* into one graph. A cell that is a module is replaced by a vertex for     *)
(* each of its ports and by the cells inside it; an edge goes from a port  *)
(* that drives a bit to every port that reads it, and is labelled with a   *)
(* net of the netlist.                                                     *)
(*                                                                         *)
(* Signatures are hashes of bit vectors and taken to be the vectors, and a *)
(* vertex is its place in the hierarchy. Bits 0 and 1 are the constants.   *)
(***************************************************************************)
EXTENDS Integers, Sequences, FiniteSets, SequencesExt

CONSTANT
  Designs   (* [top, modules]; a module is [ports, cells, nets], a port    *)
            (* [name, dir, bits], a cell [name, type, ports], a net        *)
            (* [name, bits]; a cell is a module if its type is one         *)

PortType == [name : STRING, dir : {"input", "output"}, bits : Seq(Nat)]
CellType == [name : STRING, type : STRING, ports : Seq(PortType)]
NetType == [name : STRING, bits : Seq(Nat)]

ASSUME DesignsAssumption ==
  \A d \in Designs :
    /\ IsFiniteSet(DOMAIN d.modules) /\ DOMAIN d.modules \subseteq STRING
    /\ \A n \in DOMAIN d.modules :
         /\ d.modules[n].ports \in Seq(PortType)
         /\ d.modules[n].cells \in Seq(CellType)
         /\ d.modules[n].nets \in Seq(NetType)

VARIABLES
  design,
  vertices,   (* cells [at, cell, port |-> ""], ports [at, cell |-> "", port] *)
  edges,      (* the edge's ends, ports, their bits, its level and its net *)
  todo,       (* calls of populate_module still to come, innermost first   *)
  outcome     (* "building", "built" or "thrown"                           *)

graphVars == <<design, vertices, edges, todo, outcome>>

NoNet == [name |-> "", bits |-> <<>>]

CellVertex(level, cell) == [at |-> level, cell |-> cell.name, port |-> ""]
PortVertex(level, name) == [at |-> level, cell |-> "", port |-> name]
Inside(v) == Append(v.at, v.cell)

Wires(bits) == Range(bits) \ {0, 1}
Common(bits1, bits2) == Wires(bits1) \cap Wires(bits2)

IsModule(d, cell) == cell.type \in DOMAIN d.modules

(* A top module without ports is a testbench around the design.            *)
TopType(d) == IF d.modules[d.top].ports = <<>> THEN d.modules[d.top].cells[1].type
                                               ELSE d.top

Call(level, name, type) ==
  [vertex |-> [at |-> level, cell |-> name, port |-> ""], type |-> type]

GraphInit ==
  /\ design \in Designs
  /\ LET root == Call(<<>>, TopType(design), TopType(design))
     IN vertices = {root.vertex} /\ todo = <<root>>
  /\ edges = {}
  /\ outcome = "building"

-----------------------------------------------------------------------------
(* Inside a module: who drives bits and who reads them                     *)
End(v, port) == [vertex |-> v, port |-> port.name, bits |-> port.bits]

Ports(ports, dir) == {p \in Range(ports) : p.dir = dir}

Ends(m, level, ofModule, ofCells) ==
  {End(PortVertex(level, p.name), p) : p \in Ports(m.ports, ofModule)}
    \cup UNION {{End(CellVertex(level, c), p) : p \in Ports(c.ports, ofCells)} :
                 c \in Range(m.cells)}

Drivers(m, level) == Ends(m, level, "input", "output")
Readers(m, level) == Ends(m, level, "output", "input")

(* connect_port: one edge however many bits two ports share                *)
Connected(d, r) == Common(d.bits, r.bits) # {}

(* signature_to_net: of nets with the same bits the first                  *)
Representatives(nets) ==
  {nets[i] : i \in {i \in DOMAIN nets : \A j \in 1..(i - 1) : nets[j].bits # nets[i].bits}}

TouchesCovering(net, d, r) == Wires(d.bits) \subseteq Wires(net.bits)     (* mutant *)
Touches(net, d, r) == Common(net.bits, d.bits) # {} /\ Common(net.bits, r.bits) # {}

(* The net an edge is labelled with: the driver's own, else the reader's,  *)
(* else the first that has bits of both. An all-constant net that comes    *)
(* before it ends the construction ("Empty bits!").                        *)
Exact(nets, bits) == {i \in DOMAIN nets : nets[i].bits = bits}

HasExact(nets, d, r) == Exact(nets, d.bits) # {} \/ Exact(nets, r.bits) # {}

Partial(order, d, r) ==
  {i \in DOMAIN order : Wires(order[i].bits) = {} \/ Touches(order[i], d, r)}

FirstOf(nets, places) == nets[Min(places)]

EmptyBits(order, d, r) ==
  Partial(order, d, r) # {} /\ Wires(FirstOf(order, Partial(order, d, r)).bits) = {}

Label(nets, order, d, r) ==
  IF Exact(nets, d.bits) # {} THEN FirstOf(nets, Exact(nets, d.bits))
  ELSE IF Exact(nets, r.bits) # {} THEN FirstOf(nets, Exact(nets, r.bits))
  ELSE IF Partial(order, d, r) # {} THEN FirstOf(order, Partial(order, d, r))
  ELSE NoNet

Edge(d, r, level, net) ==
  [from |-> d.vertex, to |-> r.vertex, out |-> d.port, in |-> r.port,
   level |-> level, net |-> net]

-----------------------------------------------------------------------------
(* create_module_ports_vertices: the edges of the module's vertex move to  *)
(* its ports, incoming ones first, so that an edge from the module back to *)
(* itself is moved at both ends. They keep everything else.                *)
InMoved(es, v, names) ==
  es \cup {[e EXCEPT !.to = PortVertex(Inside(v), e.in)] :
             e \in {e \in es : e.to = v /\ e.in \in names}}
OutMoved(es, v, names) ==
  es \cup {[e EXCEPT !.from = PortVertex(Inside(v), e.out)] :
             e \in {e \in es : e.from = v /\ e.out \in names}}

MovedAtOnce(es, v, names) == InMoved(es, v, names) \cup OutMoved(es, v, names)  (* mutant *)
Moved(es, v, names) == OutMoved(InMoved(es, v, names), v, names)

(* clear_vertex                                                            *)
Cleared(es, v) == {e \in es : e.from # v /\ e.to # v}

(* The elements of seq at the places in I                                  *)
Sublist(seq, I) ==
  LET upTo[n \in 0 .. Len(seq)] ==
        IF n = 0 THEN <<>> ELSE IF n \in I THEN Append(upTo[n - 1], seq[n]) ELSE upTo[n - 1]
  IN upTo[Len(seq)]

Submodules(m, level) ==
  Sublist([i \in DOMAIN m.cells |-> Call(level, m.cells[i].name, m.cells[i].type)],
          {i \in DOMAIN m.cells : IsModule(design, m.cells[i])})

(* populate_module up to its calls for the modules inside. The hash table  *)
(* of nets has one order, whichever.                                       *)
Populate ==
  /\ outcome = "building" /\ todo # <<>>
  /\ LET v == Head(todo).vertex
         m == design.modules[Head(todo).type]
         level == Inside(v)
         pairs == {p \in Drivers(m, level) \X Readers(m, level) : Connected(p[1], p[2])}
         partial == {p \in pairs : ~HasExact(m.nets, p[1], p[2])}
         orders == IF partial = {} THEN {<<>>} ELSE SetToSeqs(Representatives(m.nets))
     IN \E order \in orders :
          /\ vertices' = (vertices \ {v})
               \cup {PortVertex(level, p.name) : p \in Range(m.ports)}
               \cup {CellVertex(level, c) : c \in Range(m.cells)}
          /\ edges' = Cleared(Moved(edges, v, {p.name : p \in Range(m.ports)}), v)
               \cup {Edge(p[1], p[2], level, Label(m.nets, order, p[1], p[2])) : p \in pairs}
          /\ IF \E p \in partial : EmptyBits(order, p[1], p[2])
             THEN outcome' = "thrown" /\ todo' = todo
             ELSE outcome' = outcome /\ todo' = Submodules(m, level) \o Tail(todo)
  /\ UNCHANGED design

-----------------------------------------------------------------------------
(* propagate_net_pointers: edges without a net take one from an edge after *)
(* them on the way to an output. The order of the search is open.          *)
Top == design.modules[TopType(design)]
TopPorts == {PortVertex(<<TopType(design)>>, p.name) : p \in Range(Top.ports)}
NetsNamed(name) == {i \in DOMAIN Top.nets : Top.nets[i].name = name}

PortWithoutNet == \E v \in TopPorts : NetsNamed(v.port) = {}

Unlabelled == {e \in edges : e.net = NoNet}

(* The vertices the search comes to, backwards from the ports of the top   *)
(* module; no way to them is longer than there are edges.                  *)
Searched ==
  FoldSet(LAMBDA step, V : V \cup {e.from : e \in {e \in edges : e.to \in V}},
          TopPorts, edges)

(* The nets before which e can come in the search                          *)
Following(e) ==
  {f.net : f \in {f \in edges : f.from = e.to /\ f.to \in Searched /\ f.net # NoNet}}
    \cup IF e.to \in TopPorts THEN {FirstOf(Top.nets, NetsNamed(e.to.port))} ELSE {}

Propagate ==
  /\ outcome = "building" /\ todo = <<>> /\ ~PortWithoutNet
  /\ \E e \in Unlabelled : \E net \in Following(e) :
       edges' = (edges \ {e}) \cup {[e EXCEPT !.net = net]}
  /\ UNCHANGED <<design, vertices, todo, outcome>>

(* create_instance gives up on an edge that still has no net.              *)
Finish ==
  /\ outcome = "building" /\ todo = <<>>
  /\ ~PortWithoutNet => \A e \in Unlabelled : Following(e) = {}
  /\ outcome' = IF PortWithoutNet \/ Unlabelled # {} THEN "thrown" ELSE "built"
  /\ UNCHANGED <<design, vertices, edges, todo>>

GraphNext == Populate \/ Propagate \/ Finish

-----------------------------------------------------------------------------
(* What the graph has to be, read off the netlist                          *)

(* The instances of d and the module each of them is one of, level by level *)
Below(d, S) ==
  S \cup UNION {{[level |-> Append(s.level, c.name), type |-> c.type] :
                   c \in {c \in Range(d.modules[s.type].cells) : IsModule(d, c)}} : s \in S}
Instances(d) ==
  FoldSet(LAMBDA n, S : Below(d, S),
          {[level |-> <<TopType(d)>>, type |-> TopType(d)]}, DOMAIN d.modules)

(* What a front end's netlist is like: names are keys, an instance has the *)
(* ports of its module, a module has something in it but not itself.       *)
Keyed(seq) ==
  /\ \A x \in Range(seq) : x.name # ""
  /\ \A i, j \in DOMAIN seq : seq[i].name = seq[j].name => i = j

Interface(ports) == {<<p.name, p.dir>> : p \in Range(ports)}

WellFormed(d) ==
  /\ TopType(d) \in DOMAIN d.modules
  /\ \A n \in DOMAIN d.modules :
       LET m == d.modules[n]
       IN /\ Keyed(m.ports) /\ Keyed(m.cells) /\ Keyed(m.nets)
          /\ \A c \in Range(m.cells) : Keyed(c.ports)
  /\ \A i \in Instances(d) :
       LET m == d.modules[i.type]
       IN /\ m.ports # <<>> \/ \E c \in Range(m.cells) : ~IsModule(d, c)
          /\ \A c \in Range(m.cells) :
               IsModule(d, c) => Interface(c.ports) = Interface(d.modules[c.type].ports)
  /\ Below(d, Instances(d)) = Instances(d)

Populated == {i \in Instances(design) : \E v \in vertices : v.at = i.level}

(* Where a port of a cell is once the modules of S are unfolded            *)
EndIn(S, e) ==
  IF \E i \in S : e.vertex.port = "" /\ i.level = Inside(e.vertex)
  THEN PortVertex(Inside(e.vertex), e.port) ELSE e.vertex

Connections(S) ==
  UNION {{<<EndIn(S, p[1]), EndIn(S, p[2]), p[1].port, p[2].port, i.level>> :
            p \in {p \in Drivers(design.modules[i.type], i.level)
                           \X Readers(design.modules[i.type], i.level) :
                     Common(p[1].bits, p[2].bits) # {}}} : i \in S}

(* However the modules nest and feed one another, the graph connects what  *)
(* the modules unfolded so far connect, through the ports of the instances *)
(* and at no time anything else; in the end every instance is unfolded.    *)
(* This is about populate_module and create_module_ports_vertices.         *)
EdgesAreTheConnections ==
  outcome # "thrown" =>
    /\ {<<e.from, e.to, e.out, e.in, e.level>> : e \in edges} = Connections(Populated)
    /\ outcome = "built" => Populated = Instances(design)

(* Every bit has a name, and so does every port of the top module.         *)
WellNamed(d) ==
  /\ \A i \in Instances(d) :
       LET m == d.modules[i.type]
       IN /\ \A n \in Range(m.nets) : Wires(n.bits) # {}
          /\ \A e \in Drivers(m, i.level) : \A b \in Wires(e.bits) :
               \E n \in Range(m.nets) : b \in Range(n.bits)
  /\ \A p \in Range(d.modules[TopType(d)].ports) :
       \E n \in Range(d.modules[TopType(d)].nets) : n.name = p.name

(* A netlist that names all its bits is never refused: whichever nets      *)
(* overlap, create_instance finds a net for every edge, without having to  *)
(* borrow one from another edge.                                           *)
NamedDesignsAreBuilt ==
  WellNamed(design) => outcome # "thrown" /\ Unlabelled = {}
=============================================================================
