----------------------------- MODULE TaggedCells -----------------------------
(***************************************************************************)
(* The storage cells of an exported design, as the Verilog they export     *)
(* executes them, with the register that holds the tag (cell/*.hpp), and   *)
(* the transition relation they give to the SMT solver.                    *)
(*                                                                         *)
(* One cell is simulated twice at once: a signal carries its value, the    *)
(* value it has in a twin run, and its tag. The inputs of the two runs     *)
(* differ in tagged data signals only, so whatever differs later comes     *)
(* from the tagged data and should carry the tag. A gate may drive the     *)
(* data input, and the register may feed that gate back.                   *)
(*                                                                         *)
(* Bounds and abstractions: words of 1 to MaxWidth bits, Addresses memory  *)
(* words; controls are active high, clocks rising, and the same in both    *)
(* runs (their tags are free); a word with an X bit is Unknown and is so   *)
(* in both runs, operands of gates and inputs of the cells that set and    *)
(* clear single bits are known. The run starts when every word has been    *)
(* written once, untagged.                                                 *)
(***************************************************************************)
EXTENDS Gates, FiniteSetsExt

CONSTANTS MaxWidth,     \* widest word
          Addresses,    \* words of a memory
          Registers,    \* storage cells under consideration
          GatesInFront  \* gates that may drive the data input

ASSUME CellsAssumption ==
  /\ MaxWidth \in Nat \ {0}
  /\ Addresses # {} /\ IsFiniteSet(Addresses)
  /\ GatesInFront \subseteq GateKinds

VARIABLES cell,    \* the netlist: its register, gate, feedback, width and reset
                   \* value; never changes
          store    \* per word: its value, its twin, its tag, the bits that were
                   \* last written together with that tag, and whether it is an AD
                   \* loaded while D was Unknown

vars == <<cell, store>>

Kinds == {"$dff", "$dffe", "$adff", "$adffe", "$sdff", "$sdffe", "$aldff", "$aldffe",
          "$dlatch", "$adlatch", "$dffsr", "$dffsre", "$dlatchsr", "$sr", "$mem_v2"}
Latches == {"$dlatch", "$adlatch", "$dlatchsr", "$sr"}
BitCells == {"$dffsr", "$dffsre", "$dlatchsr", "$sr"}
AsyncCells == {"$adff", "$adffe", "$aldff", "$aldffe", "$dffsr", "$dffsre"}

ASSUME RegistersAssumption == Registers \subseteq Kinds

AllBits(width) == 0 .. width - 1
Signal(value, twin, tag) == [v |-> value, twin |-> twin, t |-> tag]

-----------------------------------------------------------------------------
(* One always block that writes the whole word: from its inputs and the    *)
(* word it holds to the word afterwards.                                   *)

Load(d, tag, width) ==
  [v |-> d.v, twin |-> d.twin, t |-> tag, covers |-> AllBits(width), besideX |-> FALSE]

(* (^D === 1'bx) ? 0 : (D == value) ? (D_t | other) : otherwise            *)
TagUnlessX(d, tag) == d.v # Unknown /\ tag
TagIfEqual(d, value, other, otherwise) ==
  IF d.v = value THEN d.t \/ other ELSE otherwise

Dff(in, width) == Load(in.D, in.D.t, width)

DffeKeepingTag(in, now, width) ==                                         (* mutant *)
  IF in.EN.v THEN Load(in.D, now.t \/ in.EN.t, width) ELSE now
Dffe(in, now, width) == IF in.EN.v THEN Load(in.D, in.D.t \/ in.EN.t, width) ELSE now

Dlatch(in, now, width) == IF in.EN.v THEN Load(in.D, in.D.t \/ in.EN.t, width) ELSE now

ResetTo(in, control, reset, width) ==
  Load(Signal(reset, reset, FALSE),
       TagUnlessX(in.D, TagIfEqual(in.D, reset, control.t, control.t)), width)
LoadOrReset(in, control, reset, width) ==
  IF control.v THEN ResetTo(in, control, reset, width)
  ELSE Load(in.D, TagUnlessX(in.D, TagIfEqual(in.D, reset, control.t, in.D.t)), width)
LoadHoldOrReset(in, control, reset, now, width) ==
  IF control.v THEN ResetTo(in, control, reset, width)
  ELSE IF in.EN.v
  THEN Load(in.D,
            TagUnlessX(in.D, TagIfEqual(in.D, reset, control.t, in.D.t) \/ in.EN.t), width)
  ELSE now

Adff(in, reset, width) == LoadOrReset(in, in.ARST, reset, width)
Adffe(in, reset, now, width) == LoadHoldOrReset(in, in.ARST, reset, now, width)
Sdff(in, reset, width) == LoadOrReset(in, in.SRST, reset, width)
Sdffe(in, reset, now, width) == LoadHoldOrReset(in, in.SRST, reset, now, width)
Adlatch(in, reset, now, width) == LoadHoldOrReset(in, in.ARST, reset, now, width)

(* The value D is compared with is that of ALOAD, a single bit. While AD   *)
(* is loaded, an X in D takes the tag of AD away.                          *)
LoadAD(in, width) ==
  [Load(in.AD,
        TagUnlessX(in.D, TagIfEqual(in.D, Flag(in.ALOAD.v), in.AD.t, in.AD.t)), width)
   EXCEPT !.besideX = in.D.v = Unknown]
Aldff(in, width) ==
  IF in.ALOAD.v THEN LoadAD(in, width)
  ELSE Load(in.D,
            TagUnlessX(in.D, TagIfEqual(in.D, Flag(in.ALOAD.v), in.AD.t, in.D.t)), width)
Aldffe(in, now, width) ==
  IF in.ALOAD.v THEN LoadAD(in, width)
  ELSE IF in.EN.v
  THEN Load(in.D,
            TagUnlessX(in.D, TagIfEqual(in.D, Flag(in.ALOAD.v), in.AD.t, in.D.t) \/ in.EN.t),
            width)
  ELSE now

-----------------------------------------------------------------------------
(* Cells that set and clear single bits have an always block per bit, and  *)
(* each block assigns the tag of the whole word. A block that does not     *)
(* hold makes one write.                                                   *)

Write(bit, value, twin, tag) == [bit |-> bit, v |-> value, twin |-> twin, t |-> tag]
LoadBit(in, i, tag) == {Write(i, i \in in.D.v, i \in in.D.twin, tag)}
ClearBit(in, i) == {Write(i, FALSE, FALSE, in.CLR.t)}
SetBit(i, tag) == {Write(i, TRUE, TRUE, tag)}

SetTag(in) == TagUnlessX(in.D, TagIfEqual(in.D, in.SET.v, in.SET.t, in.SET.t))

DffsrBit(in, i) ==
  CASE i \in in.CLR.v -> ClearBit(in, i)
    [] i \in in.SET.v \ in.CLR.v -> SetBit(i, SetTag(in))
    [] OTHER -> LoadBit(in, i, in.D.t)
DffsreBit(in, i) ==
  CASE i \in in.CLR.v -> ClearBit(in, i)
    [] i \in in.SET.v \ in.CLR.v -> SetBit(i, SetTag(in))
    [] OTHER -> IF in.EN.v THEN LoadBit(in, i, in.D.t \/ in.EN.t) ELSE {}
DlatchsrBit(in, i) ==
  CASE i \in in.CLR.v -> ClearBit(in, i)
    [] i \in in.SET.v \ in.CLR.v -> SetBit(i, in.SET.t)
    [] OTHER -> IF in.EN.v THEN LoadBit(in, i, in.D.t \/ in.EN.t) ELSE {}
SrBit(in, i) ==
  CASE i \in in.CLR.v -> ClearBit(in, i)
    [] i \in in.SET.v \ in.CLR.v -> SetBit(i, in.SET.t)
    [] OTHER -> {}

BitWrites(kind, in, i) ==
  CASE kind = "$dffsr" -> DffsrBit(in, i)
    [] kind = "$dffsre" -> DffsreBit(in, i)
    [] kind = "$dlatchsr" -> DlatchsrBit(in, i)
    [] kind = "$sr" -> SrBit(in, i)

(* The blocks that run do so in any order; the last one leaves its tag.    *)
Written(now, writes) ==
  LET After(held, one(_)) == (held \ {w.bit : w \in writes}) \cup {w.bit : w \in {x \in writes : one(x)}}
      Value(w) == w.v
      Twin(w) == w.twin
  IN  IF writes = {} THEN {now}
      ELSE {[v |-> After(now.v, Value), twin |-> After(now.twin, Twin),
             t |-> last.t, covers |-> {last.bit}, besideX |-> FALSE] : last \in writes}

(* A memory port: data bit by bit as enabled, the tag at every clock edge  *)
MemWrite(in, now) ==
  LET After(held, data) == (held \ in.WR_EN.v) \cup (data \cap in.WR_EN.v)
  IN  [v |-> After(now.v, in.D.v), twin |-> After(now.twin, in.D.twin),
       t |-> in.D.t \/ in.WR_EN.t \/ in.WR_ADDR.t, covers |-> in.WR_EN.v,
       besideX |-> FALSE]

(* What a block of a register may leave behind, if the blocks of the given *)
(* bits run                                                                *)
Stored(kind, in, reset, now, width, bits) ==
  CASE kind = "$dff" -> {Dff(in, width)}
    [] kind = "$dffe" -> {Dffe(in, now, width)}
    [] kind = "$adff" -> {Adff(in, reset, width)}
    [] kind = "$adffe" -> {Adffe(in, reset, now, width)}
    [] kind = "$sdff" -> {Sdff(in, reset, width)}
    [] kind = "$sdffe" -> {Sdffe(in, reset, now, width)}
    [] kind = "$aldff" -> {Aldff(in, width)}
    [] kind = "$aldffe" -> {Aldffe(in, now, width)}
    [] kind = "$dlatch" -> {Dlatch(in, now, width)}
    [] kind = "$adlatch" -> {Adlatch(in, reset, now, width)}
    [] kind \in BitCells -> Written(now, UNION {BitWrites(kind, in, i) : i \in bits})

-----------------------------------------------------------------------------
(* What the SMT solver is told Q is, for the clocked cells (the latches'   *)
(* relation leaves Q free while they hold).                                *)

(* std::stoi reads the reset value of sdff and sdffe in base ten           *)
DecimalReading(word, width) ==
  LET number == MapThenSumSet(LAMBDA b : 10^b, word)
  IN  {b \in AllBits(width) : (number \div 2^b) % 2 = 1}

DffSmt(in) == in.D.v
DffeSmt(in, q) == IF in.EN.v THEN in.D.v ELSE q
AdffSmt(in, reset) == IF in.ARST.v THEN reset ELSE in.D.v
AdffeSmtEnableFirst(in, reset, q) ==                                      (* mutant *)
  IF in.EN.v THEN IF in.ARST.v THEN reset ELSE in.D.v ELSE q
AdffeSmt(in, reset, q) ==
  IF in.ARST.v THEN reset ELSE IF in.EN.v THEN in.D.v ELSE q
SdffSmt(in, reset, width) ==
  IF in.SRST.v THEN DecimalReading(reset, width) ELSE in.D.v
SdffeSmt(in, reset, q, width) ==
  IF in.SRST.v THEN DecimalReading(reset, width) ELSE IF in.EN.v THEN in.D.v ELSE q
AldffSmt(in) == IF in.ALOAD.v THEN in.AD.v ELSE in.D.v
AldffeSmt(in, q) ==
  IF in.ALOAD.v THEN in.AD.v ELSE IF in.EN.v THEN in.D.v ELSE q
DffsrSmt(in) == (in.SET.v \cup in.D.v) \ in.CLR.v
DffsreSmt(in, q) == (in.SET.v \cup IF in.EN.v THEN in.D.v ELSE q) \ in.CLR.v

NextInSmt(kind, in, reset, q, width) ==
  CASE kind = "$dff" -> DffSmt(in)
    [] kind = "$dffe" -> DffeSmt(in, q)
    [] kind = "$adff" -> AdffSmt(in, reset)
    [] kind = "$adffe" -> AdffeSmt(in, reset, q)
    [] kind = "$sdff" -> SdffSmt(in, reset, width)
    [] kind = "$sdffe" -> SdffeSmt(in, reset, q, width)
    [] kind = "$aldff" -> AldffSmt(in)
    [] kind = "$aldffe" -> AldffeSmt(in, q)
    [] kind = "$dffsr" -> DffsrSmt(in)
    [] kind = "$dffsre" -> DffsreSmt(in, q)

-----------------------------------------------------------------------------
(* The netlists: every storage cell on its own, and every gate in front of *)
(* a $dff or a $dffe, fed by inputs or, at A, by the register. The data of *)
(* a $pmux grows with its select lines, so it is one bit wide.             *)

ResetCells == {"$adff", "$adffe", "$sdff", "$sdffe", "$adlatch"}
NoGate == "none"

SingleCells(width) ==
  LET Single(registers, resets) ==
        [register : registers, gate : {NoGate}, feedback : {FALSE},
         width : {width}, reset : resets]
  IN  Single(Registers \cap ResetCells, Words(width)) \cup Single(Registers \ ResetCells, {{}})
GatedCells(width) ==
  [register : Registers \cap {"$dff", "$dffe"},
   gate : IF width = 1 THEN GatesInFront ELSE GatesInFront \ {"$pmux"},
   feedback : BOOLEAN, width : {width}, reset : {{}}]
Netlists == UNION {SingleCells(w) \cup GatedCells(w) : w \in 1 .. MaxWidth}

(* Words of the cell                                                       *)
WordsOf(c) == IF c.register = "$mem_v2" THEN Addresses ELSE {CHOOSE a \in Addresses : TRUE}

Known(values) ==
  {s \in [v : values, twin : values, t : BOOLEAN] : s.t \/ s.v = s.twin}
Control == [v : BOOLEAN, t : BOOLEAN]
BitControl(c) == [v : Words(c.width), t : BOOLEAN]

(* The data a cell without a gate is given                                 *)
DataInputs(c) ==
  Known(Words(c.width))
  \cup IF c.register \in BitCells \cup {"$mem_v2"} THEN {}
       ELSE {Signal(Unknown, Unknown, t) : t \in BOOLEAN}

Operands(c, now) ==
  LET Port(p) == IF p = "A" /\ c.feedback THEN {Signal(now.v, now.twin, now.t)}
                 ELSE Known(PortValues(c.gate, c.width, p))
  IN  CASE c.gate \in UnaryGates -> [A : Port("A")]
        [] c.gate \in BinaryGates -> [A : Port("A"), B : Port("B")]
        [] OTHER -> [A : Port("A"), B : Port("B"), S : Port("S")]
Driven(c, operands) ==
  LET Field(f) == [p \in DOMAIN operands |-> operands[p][f]]
  IN  Signal(Output(c.gate, c.width, Field("v")), Output(c.gate, c.width, Field("twin")),
             OutputTag(c.gate, Field("v"), Field("t")))
Data(c, now) ==
  IF c.gate = NoGate THEN DataInputs(c) ELSE {Driven(c, o) : o \in Operands(c, now)}

Inputs(c, now) ==
  LET D == Data(c, now)
      kind == c.register
  IN  CASE kind = "$dff" -> [D : D]
        [] kind \in {"$dffe", "$dlatch"} -> [D : D, EN : Control]
        [] kind = "$adff" -> [D : D, ARST : Control]
        [] kind \in {"$adffe", "$adlatch"} -> [D : D, ARST : Control, EN : Control]
        [] kind = "$sdff" -> [D : D, SRST : Control]
        [] kind = "$sdffe" -> [D : D, SRST : Control, EN : Control]
        [] kind = "$aldff" -> [D : D, AD : D, ALOAD : Control]
        [] kind = "$aldffe" -> [D : D, AD : D, ALOAD : Control, EN : Control]
        [] kind = "$dffsr" -> [D : D, SET : BitControl(c), CLR : BitControl(c)]
        [] kind \in {"$dffsre", "$dlatchsr"} ->
             [D : D, SET : BitControl(c), CLR : BitControl(c), EN : Control]
        [] kind = "$sr" -> [SET : BitControl(c), CLR : BitControl(c)]
        [] kind = "$mem_v2" ->
             [D : D, WR_EN : BitControl(c), WR_ADDR : [v : Addresses, t : BOOLEAN]]

(* The blocks an activation edge starts: that of the whole word, or those  *)
(* of the bits whose SET or CLR goes up                                    *)
Activations(kind, in) ==
  CASE kind \in {"$adff", "$adffe"} -> IF in.ARST.v THEN {{0}} ELSE {}
    [] kind \in {"$aldff", "$aldffe"} -> IF in.ALOAD.v THEN {{0}} ELSE {}
    [] kind \in {"$dffsr", "$dffsre"} -> (SUBSET (in.SET.v \cup in.CLR.v)) \ {{}}

-----------------------------------------------------------------------------
Init ==
  /\ cell \in Netlists
  /\ \E initial \in [WordsOf(cell) -> Words(cell.width)] :
       store = [a \in WordsOf(cell) |->
                  [v |-> initial[a], twin |-> initial[a], t |-> FALSE,
                   covers |-> AllBits(cell.width), besideX |-> FALSE]]

Store(a, in, bits) ==
  \E after \in Stored(cell.register, in, cell.reset, store[a], cell.width, bits) :
    store' = [store EXCEPT ![a] = after]

(* The rising clock: every block runs.                                     *)
ClockEdge ==
  /\ cell.register \notin Latches \cup {"$mem_v2"}
  /\ \E a \in WordsOf(cell) : \E in \in Inputs(cell, store[a]) :
       Store(a, in, AllBits(cell.width))
  /\ UNCHANGED cell

(* An asynchronous control goes up between two clock edges.                *)
ActivationEdge ==
  /\ cell.register \in AsyncCells
  /\ \E a \in WordsOf(cell) : \E in \in Inputs(cell, store[a]) :
       \E bits \in Activations(cell.register, in) : Store(a, in, bits)
  /\ UNCHANGED cell

(* An input of a latch changes.                                            *)
LatchEvaluation ==
  /\ cell.register \in Latches
  /\ \E a \in WordsOf(cell) : \E in \in Inputs(cell, store[a]) :
       Store(a, in, AllBits(cell.width))
  /\ UNCHANGED cell

MemoryClock ==
  /\ cell.register = "$mem_v2"
  /\ \E a \in WordsOf(cell) : \E in \in Inputs(cell, store[a]) :
       /\ in.WR_ADDR.v = a
       /\ store' = [store EXCEPT ![a] = MemWrite(in, @)]
  /\ UNCHANGED cell

Next == ClockEdge \/ ActivationEdge \/ LatchEvaluation \/ MemoryClock

Spec == Init /\ [][Next]_vars

-----------------------------------------------------------------------------
(* $or blocks the tag of one operand if the other has any 1 bit, $mux that *)
(* of its select line if the operands differ in an even number of bits:    *)
(* words these two compute may differ untagged.                            *)
GateTracksWords == cell.width = 1 \/ cell.gate \notin {"$or", "$mux"}

Differs(word, bit) == (bit \in word.v) # (bit \in word.twin)

(* Tagged data is followed: in whatever order clock and asynchronous edges *)
(* come, through a gate and around a feedback loop, a stored bit that      *)
(* tagged data has changed carries the tag (ift_tag registers of           *)
(* cell/*.hpp). It is not true, and therefore not stated, of a bit whose   *)
(* word was given the tag of a later write to other bits (dffsr.hpp, and   *)
(* mem_v2.hpp, whose tag is written when the word is not), of an AD that   *)
(* is loaded while D is Unknown (aldff.hpp), and of words of $or and $mux. *)
TagCoversData ==
  GateTracksWords =>
    \A a \in WordsOf(cell) : ~store[a].besideX =>
      \A bit \in store[a].covers : Differs(store[a], bit) => store[a].t

(* A synchronous reset value that export_smt2, which reads it with stoi in *)
(* base ten, takes for what the Verilog means: from four bits on not all.  *)
ResetIsReadAsMeant ==
  cell.register \in {"$sdff", "$sdffe"} => DecimalReading(cell.reset, cell.width) = cell.reset

(* The relation given to the solver (export_smt2) admits the value the     *)
(* exported Verilog stores at a clock edge, and no other, from every word  *)
(* the register may hold and for all known inputs: the orders of reset,    *)
(* enable and load, written twice, are the same. Where the base of a reset *)
(* value matters the two differ, and nothing is stated.                    *)
SmtAgreesWithSimulation ==
  cell.register \notin Latches \cup {"$mem_v2"} /\ ResetIsReadAsMeant =>
    \A a \in WordsOf(cell) : \A in \in Inputs(cell, store[a]) :
      \A after \in Stored(cell.register, in, cell.reset, store[a], cell.width,
                          AllBits(cell.width)) :
        store[a].v # Unknown /\ (\A p \in {"D", "AD"} \cap DOMAIN in : in[p].v # Unknown) =>
          after.v = NextInSmt(cell.register, in, cell.reset, store[a].v, cell.width)

(* Gates by themselves: the tag rule lets a tag through whenever the       *)
(* tagged operands can change the output (the boolean difference of        *)
(* doc/Definitions/text.tex), except for $or and $mux on words ...         *)
GateTagsAreSound ==
  cell.gate # NoGate /\ GateTracksWords => TagsCoverInfluence(cell.gate, cell.width)

(* ... and for single bits only then; $eq and $pmux take the union.        *)
GateTagsAreExact ==
  cell.gate \in {"$and", "$or", "$logic_and", "$logic_or", "$xor", "$not", "$reduce_or",
                 "$mux"} /\ cell.width = 1 => TagsNeedInfluence(cell.gate, 1)
=============================================================================
