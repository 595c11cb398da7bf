-------------------------------- MODULE Gates --------------------------------
(***************************************************************************)
(* The combinational cells: what the exported Verilog computes, and the    *)
(* rule it computes the tag of the output with (include/ducode/cell/).     *)
(*                                                                         *)
(* A tag is a bit vector and every rule treats its bits alike, so a tag is *)
(* one bit here: does the signal carry the tag of the injection in         *)
(* question? A word is the set of its 1 bits; Unknown stands for a word    *)
(* with an X bit, for which ^word === 1'bx.                                *)
(***************************************************************************)
EXTENDS Integers, FiniteSets

Unknown == {-1}
Words(width) == SUBSET (0 .. width - 1)

(* "$xor" and "$eq" stand for all the cells whose rule is the union of the *)
(* operands' tags (arithmetic, comparisons, shifts), "$not" and            *)
(* "$reduce_or" for the unary ones, which copy the tag.                    *)
BinaryGates == {"$and", "$or", "$logic_and", "$logic_or", "$xor", "$eq"}
UnaryGates == {"$not", "$reduce_or"}
GateKinds == BinaryGates \cup UnaryGates \cup {"$mux", "$pmux"}

(* Select lines of a $pmux                                                 *)
Selects == 0 .. 1

InputPorts(kind) ==
  IF kind \in UnaryGates THEN {"A"}
  ELSE IF kind \in BinaryGates THEN {"A", "B"} ELSE {"A", "B", "S"}

(* The B input of a $pmux holds a word for every select line.              *)
PortWidth(kind, width, port) ==
  CASE port = "B" /\ kind = "$pmux" -> width * Cardinality(Selects)
    [] port = "S" -> IF kind = "$mux" THEN 1 ELSE Cardinality(Selects)
    [] OTHER -> width
PortValues(kind, width, port) == Words(PortWidth(kind, width, port))

Valuations(kind, width) ==
  {in \in [InputPorts(kind) -> UNION {PortValues(kind, width, p) : p \in InputPorts(kind)}] :
     \A p \in InputPorts(kind) : in[p] \in PortValues(kind, width, p)}

Flag(truth) == IF truth THEN {0} ELSE {}

(* casez with one pattern per select line: the lowest line that is set     *)
FirstSelect(s) == CHOOSE i \in s : \A j \in s : i <= j
PmuxOutput(width, in) ==
  IF in.S = {} THEN in.A
  ELSE {b \in 0 .. width - 1 : FirstSelect(in.S) * width + b \in in.B}

MuxOutput(in) == IF in.S # {} THEN in.B ELSE in.A

(* assign Y = ...                                                          *)
Output(kind, width, in) ==
  CASE kind = "$and" -> in.A \cap in.B
    [] kind = "$or" -> in.A \cup in.B
    [] kind = "$logic_and" -> Flag(in.A # {} /\ in.B # {})
    [] kind = "$logic_or" -> Flag(in.A # {} \/ in.B # {})
    [] kind = "$xor" -> (in.A \ in.B) \cup (in.B \ in.A)
    [] kind = "$eq" -> Flag(in.A = in.B)
    [] kind = "$not" -> (0 .. width - 1) \ in.A
    [] kind = "$reduce_or" -> Flag(in.A # {})
    [] kind = "$mux" -> MuxOutput(in)
    [] kind = "$pmux" -> PmuxOutput(width, in)

(* CellAnd and CellLogicAnd: a nonzero operand lets the other's tag through*)
AndTagForOneOperand(in, t) ==                                             (* mutant *)
  \/ in.A # Unknown /\ in.A # {} /\ t.B
  \/ t.A /\ t.B
AndTag(in, t) ==
  \/ in.A # Unknown /\ in.A # {} /\ t.B
  \/ in.B # Unknown /\ in.B # {} /\ t.A
  \/ t.A /\ t.B

(* CellOr and CellLogicOr: a zero operand does                             *)
OrTag(in, t) ==
  \/ in.A = {} /\ t.B
  \/ in.B = {} /\ t.A
  \/ t.A /\ t.B

(* CellMux: the tag of the selected operand, and that of the select line   *)
(* if the operands differ in an odd number of bits                         *)
MuxTagIgnoringOperands(in, t) ==                                          (* mutant *)
  \/ IF in.S # {} THEN t.B ELSE t.A
  \/ t.S
MuxTag(in, t) ==
  \/ in.S # Unknown /\ IF in.S # {} THEN t.B ELSE t.A
  \/ /\ in.A # Unknown /\ in.B # Unknown
     /\ Cardinality((in.A \ in.B) \cup (in.B \ in.A)) % 2 = 1
     /\ t.S
  \/ t.A /\ t.S
  \/ t.B /\ t.S

PmuxTag(in, t) == (IF in.S # {} THEN t.B ELSE t.A) \/ t.S

CopiedTag(t) == t.A
UnionTag(t) == t.A \/ t.B

(* assign Y_t = ...                                                        *)
OutputTag(kind, in, t) ==
  CASE kind \in {"$and", "$logic_and"} -> AndTag(in, t)
    [] kind \in {"$or", "$logic_or"} -> OrTag(in, t)
    [] kind \in {"$xor", "$eq"} -> UnionTag(t)
    [] kind \in UnaryGates -> CopiedTag(t)
    [] kind = "$mux" -> MuxTag(in, t)
    [] kind = "$pmux" -> PmuxTag(in, t)

-----------------------------------------------------------------------------
(* Reference: the boolean difference. The tagged inputs matter for the     *)
(* output if other values of theirs, all else the same, change it.         *)

Influences(kind, width, in, t) ==
  \E other \in Valuations(kind, width) :
    /\ \A p \in InputPorts(kind) : ~t[p] => other[p] = in[p]
    /\ Output(kind, width, other) # Output(kind, width, in)

TagsCoverInfluence(kind, width) ==
  \A in \in Valuations(kind, width), t \in [InputPorts(kind) -> BOOLEAN] :
    Influences(kind, width, in, t) => OutputTag(kind, in, t)

TagsNeedInfluence(kind, width) ==
  \A in \in Valuations(kind, width), t \in [InputPorts(kind) -> BOOLEAN] :
    OutputTag(kind, in, t) => Influences(kind, width, in, t)
=============================================================================
