---------------------------- MODULE SmtUnrolling ----------------------------
(***************************************************************************)
(* DesignInstance::export_smt2: one time step after the other, the graph   *)
(* of InstantiationGraph becomes equations over variables, one for each    *)
(* net of each level and time. A cell is constrained through expressions   *)
(* for its ports: what an input port reads, what an output port drives. A  *)
(* port of a module says that what it reads is what it drives.             *)
(*                                                                         *)
(* An expression is a sequence, bit 0 first, of the bits it can stand for: *)
(* more than one where the order of the edges decides. Memories are left   *)
(* out, and ports are inputs or outputs.                                   *)
(***************************************************************************)
EXTENDS InstantiationGraph

CONSTANTS
  RegisterTypes,   (* the cells that has_register()                        *)
  EnableTypes,     (* dff_types_with_enable: those that may keep their value *)
  Unrolling        (* how many time steps are exported                     *)

ASSUME UnrollingAssumption == Unrolling \in Nat \ {0}
ASSUME TypesAssumption == EnableTypes \subseteq RegisterTypes

VARIABLES
  time,       (* the unroll_factor of the next export_smt2                 *)
  reads,      (* predecessor expressions: [vertex, port, level, bits, at, expr] *)
  drives      (* successor expressions, the same                           *)

vars == <<graphVars, time, reads, drives>>

Init == GraphInit /\ time = 0 /\ reads = {} /\ drives = {}

Elaborate == GraphNext /\ UNCHANGED <<time, reads, drives>>

-----------------------------------------------------------------------------
(* Expressions                                                             *)
VarBit(level, name, t, i) == <<level, name, t, i>>
ConstBit(b) == <<<<>>, "", b, 0>>

NetBit(e, t, i) == VarBit(e.level, e.net.name, t, i)

Place(bit, bits) == Min({i \in DOMAIN bits : bits[i] = bit})

BitOfNetsAtZero(bit, es, t) ==                                            (* mutant *)
  IF bit \in {0, 1} THEN {ConstBit(bit)}
  ELSE {NetBit(e, t, 1) : e \in {e \in es : bit \in Range(e.net.bits)}}
BitOfNets(bit, es, t) ==
  IF bit \in {0, 1} THEN {ConstBit(bit)}
  ELSE {NetBit(e, t, Place(bit, e.net.bits)) : e \in {e \in es : bit \in Range(e.net.bits)}}

(* get_port_expr and sort_expr_vector: every bit of the port that a net    *)
(* has, and its constants, in the order of the port. A bit that no net has *)
(* is left out, and those above it move down.                              *)
BitByBit(bits, es, t) ==
  Sublist([i \in DOMAIN bits |-> BitOfNets(bits[i], es, t)],
          {i \in DOMAIN bits : BitOfNets(bits[i], es, t) # {}})

(* A net with exactly the bits of the port is taken as it is.              *)
Whole(bits, es) == {e \in es : e.net.bits = bits}

PortExpr(bits, es, t) ==
  IF Whole(bits, es) # {}
  THEN [i \in DOMAIN bits |-> {NetBit(e, t, i) : e \in Whole(bits, es)}]
  ELSE BitByBit(bits, es, t)

OwnVariable(v, bits, t) == [i \in DOMAIN bits |-> {VarBit(v.at, v.port, t, i)}]

-----------------------------------------------------------------------------
(* The vertices                                                            *)
ModuleAt(level) ==
  design.modules[(CHOOSE i \in Instances(design) : i.level = level).type]

CellAt(level, name) == CHOOSE c \in Range(ModuleAt(level).cells) : c.name = name

CellOf(v) == CellAt(v.at, v.cell)

IsRegister(v) == v.cell # "" /\ CellOf(v).type \in RegisterTypes

Of(ports, name) == CHOOSE p \in ports : p.name = name

InsidePort(v) == Of(Range(ModuleAt(v.at).ports), v.port)
IsRootPort(v) == Len(v.at) = 1

(* The port of the instance that v is a port of, and the level it is at    *)
OutsidePort(v) ==
  Of(Range(CellAt(Front(v.at), Last(v.at)).ports), v.port)

InEdges(v) == {e \in edges : e.to = v}
OutEdges(v) == {e \in edges : e.from = v}

Expression(v, port, level, bits, t, expr) ==
  [vertex |-> v, port |-> port, level |-> level, bits |-> bits, at |-> t, expr |-> expr]

(* Cells whose outputs nobody reads are not exported, nor registers at the *)
(* first time step, nor ports of modules that lead nowhere or come from    *)
(* nowhere.                                                                *)
ExportedCells(t) ==
  {v \in vertices : v.cell # "" /\ OutEdges(v) # {} /\ ~(IsRegister(v) /\ t = 0)}
ExportedPorts ==
  {v \in vertices : /\ v.port # ""
                    /\ InsidePort(v).dir = "input" => OutEdges(v) # {}
                    /\ InsidePort(v).dir = "output" => InEdges(v) # {}}

RegisterReadsNow(v, t) == t                                               (* mutant *)
(* A register drives now what it read one time step earlier.               *)
ReadTime(v, t) == IF IsRegister(v) THEN t - 1 ELSE t

CellReads(t) ==
  UNION {{Expression(v, p.name, v.at, p.bits, t, PortExpr(p.bits, InEdges(v), ReadTime(v, t))) :
            p \in Ports(CellOf(v).ports, "input")} : v \in ExportedCells(t)}

(* What a register with an enable keeps                                    *)
KeptReads(t) ==
  UNION {{Expression(v, p.name, v.at, p.bits, t, PortExpr(p.bits, OutEdges(v), t - 1)) :
            p \in Ports(CellOf(v).ports, "output")} :
          v \in {v \in ExportedCells(t) : CellOf(v).type \in EnableTypes}}

CellDrives(t) ==
  UNION {{Expression(v, p.name, v.at, p.bits, t, PortExpr(p.bits, OutEdges(v), t)) :
            p \in {p \in Ports(CellOf(v).ports, "output") :
                     PortExpr(p.bits, OutEdges(v), t) # <<>>}} : v \in ExportedCells(t)}

(* An input port of the top module reads, and an output port drives, a     *)
(* variable of the port's own name, which may be the one of a net.         *)
PortReads(v, t) ==
  LET inner == InsidePort(v)
  IN CASE inner.dir = "output" ->
            Expression(v, v.port, v.at, inner.bits, t, PortExpr(inner.bits, InEdges(v), t))
       [] inner.dir = "input" /\ IsRootPort(v) ->
            Expression(v, v.port, v.at, inner.bits, t, OwnVariable(v, inner.bits, t))
       [] OTHER ->
            Expression(v, v.port, Front(v.at), OutsidePort(v).bits, t,
                       PortExpr(OutsidePort(v).bits, InEdges(v), t))

PortDrives(v, t) ==
  LET inner == InsidePort(v)
  IN CASE inner.dir = "input" ->
            Expression(v, v.port, v.at, inner.bits, t, PortExpr(inner.bits, OutEdges(v), t))
       [] inner.dir = "output" /\ IsRootPort(v) ->
            Expression(v, v.port, v.at, inner.bits, t, OwnVariable(v, inner.bits, t))
       [] OTHER ->
            Expression(v, v.port, Front(v.at), OutsidePort(v).bits, t,
                       PortExpr(OutsidePort(v).bits, OutEdges(v), t))

ReadsAt(t) == CellReads(t) \cup KeptReads(t) \cup {PortReads(v, t) : v \in ExportedPorts}
DrivesAt(t) == CellDrives(t) \cup {PortDrives(v, t) : v \in ExportedPorts}

(* CellModule::export_smt2 needs both expressions, the solver equal widths. *)
Refused ==
  \E v \in ExportedPorts :
    LET drive == PortDrives(v, time).expr
    IN Len(drive) # Len(PortReads(v, time).expr) \/ drive = <<>>

Export ==
  /\ outcome = "built" /\ time < Unrolling /\ ~Refused
  /\ reads' = reads \cup ReadsAt(time)
  /\ drives' = drives \cup DrivesAt(time)
  /\ time' = time + 1
  /\ UNCHANGED graphVars

Refuse ==
  /\ outcome = "built" /\ time < Unrolling /\ Refused
  /\ outcome' = "refused"
  /\ UNCHANGED <<design, vertices, edges, todo, time, reads, drives>>

Next == Elaborate \/ Export \/ Refuse

Spec == Init /\ [][Next]_vars

-----------------------------------------------------------------------------
(* Properties                                                              *)

(* Every port that drives bits has a net of just these bits in its order,  *)
(* and no module but the top one has an output of constants only.          *)
DriversHaveNets(d) ==
  \A i \in Instances(d) :
    LET m == d.modules[i.type]
    IN /\ \A e \in Drivers(m, i.level) : \E n \in Range(m.nets) : n.bits = e.bits
       /\ Len(i.level) > 1 => \A p \in Ports(m.ports, "output") : Wires(p.bits) # {}

(* What else a front end's netlist is like: a wire is driven by one bit of *)
(* one port, a net named like a port of the top module is that port's; and *)
(* one without loose ends: a wire that is read is driven, and what a       *)
(* register drives is one port.                                            *)
DrivenOnce(d) ==
  \A i \in Instances(d) : \A e, f \in Drivers(d.modules[i.type], i.level) :
    \A k \in DOMAIN e.bits, l \in DOMAIN f.bits :
      e.bits[k] \notin {0, 1} /\ (e.bits[k] = f.bits[l] => e = f /\ k = l)

PortsAreNets(d) ==
  LET top == d.modules[TopType(d)]
  IN \A p \in Range(top.ports), n \in Range(top.nets) : n.name = p.name => n.bits = p.bits

AllDriven(d) ==
  \A i \in Instances(d) :
    LET m == d.modules[i.type]
    IN /\ \A r \in Readers(m, i.level) : \A b \in Wires(r.bits) :
            \E e \in Drivers(m, i.level) : b \in Range(e.bits)
       /\ \A c \in Range(m.cells) : c.type \in RegisterTypes =>
            \A p, q \in Ports(c.ports, "output") : p = q

(* The register that drives v had no time step to be exported for.         *)
InitialValue(level, bit, v) ==
  /\ v[3] = 0
  /\ \E c \in Range(ModuleAt(level).cells) :
       /\ c.type \in RegisterTypes
       /\ \E p \in Ports(c.ports, "output") : bit \in Range(p.bits)

Driven(level, bit, v) ==
  \/ \E x \in drives : /\ x.level = level /\ x.at = v[3]
                       /\ \E i \in DOMAIN x.expr : x.bits[i] = bit /\ x.expr[i] = {v}
  \/ InitialValue(level, bit, v)

TimeRead(x) == IF IsRegister(x.vertex) THEN x.at - 1 ELSE x.at

(* If every driver has a net of its own, the equations are the netlist:    *)
(* what a port reads is, bit by bit and at every time step, the variable   *)
(* that the driver of that bit, found through any number of levels, is     *)
(* equated with at that time; no bit is lost, moved or left unconstrained. *)
(* This is about the four set_smt_signal_... functions together.           *)
ReadsFollowTheNetlist ==
  DriversHaveNets(design) =>
    \A x \in reads :
      /\ Len(x.expr) = Len(x.bits)
      /\ \A i \in DOMAIN x.bits :
           \/ x.bits[i] \in {0, 1} /\ x.expr[i] = {ConstBit(x.bits[i])}
           \/ \E v \in x.expr[i] : /\ x.expr[i] = {v} /\ v[3] = TimeRead(x)
                                 /\ Driven(x.level, x.bits[i], v)
           \/ /\ IsRootPort(x.vertex) /\ x.vertex.port # "" /\ InsidePort(x.vertex).dir = "input"
              /\ x.expr = OwnVariable(x.vertex, x.bits, x.at)

(* The port of the top module that a net is named after                    *)
Trivial(x) == \E r \in reads : r.vertex = x.vertex /\ r.at = x.at /\ r.expr = x.expr

(* Two drivers are never equated with the same bit of a variable, however  *)
(* the nets overlap: exporting alone cannot make the instance              *)
(* unsatisfiable. It needs a name for every bit: a net borrowed from       *)
(* another edge is not one of the edge's bits.                             *)
NoVariableHasTwoDrivers ==
  WellNamed(design) =>
    \A x, y \in drives : \A i \in DOMAIN x.expr, j \in DOMAIN y.expr :
      x.expr[i] \cap y.expr[j] # {} =>
        (x = y /\ i = j) \/ Trivial(x) \/ Trivial(y)
=============================================================================
