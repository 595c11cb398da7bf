-------------------------- MODULE TaggedCells_proofs --------------------------
(***************************************************************************)
(* Theorems about the cells of exported designs, for words of every width, *)
(* every set of storage cells and every set of gates.                      *)
(***************************************************************************)
EXTENDS TaggedCells, FiniteSetTheorems, TLAPS

-----------------------------------------------------------------------------
(* Words and ports.                                                        *)

LEMMA WordFacts ==
  ASSUME NEW width \in Nat \ {0}
  PROVE  /\ Unknown \notin Words(width)
         /\ {} \in Words(width)
         /\ {0} \in Words(width)
         /\ \A truth : Flag(truth) \in Words(width)
<1>1. 0 \in 0 .. width - 1 /\ -1 \notin 0 .. width - 1
  OBVIOUS
<1> QED
  BY <1>1 DEF Unknown, Words, Flag

LEMMA OneBitWords ==
  ASSUME NEW word \in Words(1)
  PROVE  word = {} \/ word = {0}
<1>1. \A b \in 0 .. 1 - 1 : b = 0
  OBVIOUS
<1> QED
  BY <1>1 DEF Words

(* What a valuation of the ports of a gate is.                             *)
LEMMA ValuationFacts ==
  ASSUME NEW kind \in GateKinds, NEW width \in Nat \ {0},
         NEW in \in Valuations(kind, width)
  PROVE  /\ in.A \in Words(width)
         /\ kind \in BinaryGates \cup {"$mux"} => in.B \in Words(width)
         /\ kind = "$mux" => in.S \in Words(1)
<1>1. /\ "A" \in InputPorts(kind)
      /\ kind \in BinaryGates \cup {"$mux"} => "B" \in InputPorts(kind)
      /\ kind = "$mux" => "S" \in InputPorts(kind)
  BY DEF InputPorts, GateKinds, BinaryGates, UnaryGates
<1>2. /\ PortWidth(kind, width, "A") = width
      /\ kind # "$pmux" => PortWidth(kind, width, "B") = width
      /\ kind = "$mux" => PortWidth(kind, width, "S") = 1
  BY DEF PortWidth
<1>3. \A p \in InputPorts(kind) : in[p] \in PortValues(kind, width, p)
  BY DEF Valuations
<1> QED
  BY <1>1, <1>2, <1>3 DEF PortValues, BinaryGates

-----------------------------------------------------------------------------
(* The tag rules of the gates.                                             *)

(* Words that tags cover: operands whose tags are not set are the same in  *)
(* both valuations.                                                        *)
LEMMA GateIsSound ==
  ASSUME NEW kind \in GateKinds, NEW width \in Nat \ {0},
         width = 1 \/ kind \notin {"$or", "$mux"},
         NEW in \in Valuations(kind, width), NEW other \in Valuations(kind, width),
         NEW t, \A p \in InputPorts(kind) : ~t[p] => other[p] = in[p],
         Output(kind, width, other) # Output(kind, width, in)
  PROVE  OutputTag(kind, in, t)
<1>1. /\ in.A \in Words(width) /\ other.A \in Words(width)
      /\ kind \in BinaryGates \cup {"$mux"} =>
           in.B \in Words(width) /\ other.B \in Words(width)
      /\ kind = "$mux" => in.S \in Words(1) /\ other.S \in Words(1)
  BY ValuationFacts
<1>2. Unknown \notin Words(width) /\ Unknown \notin Words(1)
  BY WordFacts
<1>3. ~t.A => other.A = in.A
  BY DEF InputPorts
<1>4. kind \notin UnaryGates => (~t.B => other.B = in.B)
  BY DEF InputPorts
<1>5. kind \in {"$mux", "$pmux"} => (~t.S => other.S = in.S)
  BY DEF InputPorts, UnaryGates, BinaryGates
<1>6. CASE kind = "$and"
  <2>1. in.A \cap in.B # other.A \cap other.B
    BY <1>6 DEF Output
  <2>2. OutputTag(kind, in, t) <=> AndTag(in, t)
    BY <1>6 DEF OutputTag, UnaryGates
  <2> QED
    BY <1>1, <1>2, <1>3, <1>4, <1>6, <2>1, <2>2 DEF AndTag, UnaryGates, BinaryGates
<1>7. CASE kind = "$logic_and"
  <2>1. ~((in.A # {} /\ in.B # {}) <=> (other.A # {} /\ other.B # {}))
    BY <1>7 DEF Output, Flag
  <2>2. OutputTag(kind, in, t) <=> AndTag(in, t)
    BY <1>7 DEF OutputTag, UnaryGates
  <2> QED
    BY <1>1, <1>2, <1>3, <1>4, <1>7, <2>1, <2>2 DEF AndTag, UnaryGates, BinaryGates
<1>8. CASE kind = "$or"
  <2>1. in.A \cup in.B # other.A \cup other.B
    BY <1>8 DEF Output
  <2>2. OutputTag(kind, in, t) <=> OrTag(in, t)
    BY <1>8 DEF OutputTag, UnaryGates
  <2>3. width = 1
    BY <1>8
  <2>4. \A word \in {in.A, in.B, other.A, other.B} : word = {} \/ word = {0}
    BY <1>1, <1>8, <2>3, OneBitWords DEF BinaryGates
  <2> QED
    BY <1>3, <1>4, <1>8, <2>1, <2>2, <2>4 DEF OrTag, UnaryGates
<1>9. CASE kind = "$logic_or"
  <2>1. ~((in.A # {} \/ in.B # {}) <=> (other.A # {} \/ other.B # {}))
    BY <1>9 DEF Output, Flag
  <2>2. OutputTag(kind, in, t) <=> OrTag(in, t)
    BY <1>9 DEF OutputTag, UnaryGates
  <2> QED
    BY <1>3, <1>4, <1>9, <2>1, <2>2 DEF OrTag, UnaryGates
<1>10. CASE kind \in {"$xor", "$eq"}
  <2>1. in.A # other.A \/ in.B # other.B
    BY <1>10 DEF Output
  <2>2. OutputTag(kind, in, t) <=> t.A \/ t.B
    BY <1>10 DEF OutputTag, UnionTag, UnaryGates
  <2> QED
    BY <1>3, <1>4, <1>10, <2>1, <2>2 DEF UnaryGates
<1>11. CASE kind \in UnaryGates
  <2>1. in.A # other.A
    BY <1>11 DEF Output, UnaryGates
  <2>2. OutputTag(kind, in, t) <=> t.A
    BY <1>11 DEF OutputTag, CopiedTag, UnaryGates
  <2> QED
    BY <1>3, <2>1, <2>2
<1>12. CASE kind = "$mux"
  <2>1. MuxOutput(in) # MuxOutput(other)
    BY <1>12 DEF Output
  <2>2. OutputTag(kind, in, t) <=> MuxTag(in, t)
    BY <1>12 DEF OutputTag, UnaryGates
  <2>3. width = 1
    BY <1>12
  <2>4. in.S # Unknown /\ in.A # Unknown /\ in.B # Unknown
    BY <1>1, <1>2, <1>12
  <2>5. CASE ~t.S
    BY <1>3, <1>4, <1>5, <1>12, <2>1, <2>2, <2>4, <2>5 DEF MuxTag, MuxOutput, UnaryGates
  <2>6. CASE t.S /\ (t.A \/ t.B)
    BY <2>2, <2>6 DEF MuxTag
  <2>7. CASE t.S /\ ~t.A /\ ~t.B
    <3>1. in.A # in.B
      BY <1>3, <1>4, <1>12, <2>1, <2>7 DEF MuxOutput, UnaryGates
    <3>2. in.A \in {{}, {0}} /\ in.B \in {{}, {0}}
      BY <1>1, <1>12, <2>3, OneBitWords
    <3>3. (in.A \ in.B) \cup (in.B \ in.A) = {0}
      BY <3>1, <3>2
    <3>4. Cardinality({0}) = 1
      BY FS_Singleton
    <3>5. Cardinality((in.A \ in.B) \cup (in.B \ in.A)) % 2 = 1
      BY <3>3, <3>4
    <3> QED
      BY <2>2, <2>4, <2>7, <3>5 DEF MuxTag
  <2> QED
    BY <2>5, <2>6, <2>7
<1>13. CASE kind = "$pmux"
  <2>1. PmuxOutput(width, in) # PmuxOutput(width, other)
    BY <1>13 DEF Output
  <2>2. OutputTag(kind, in, t) <=> PmuxTag(in, t)
    BY <1>13 DEF OutputTag, UnaryGates
  <2>3. CASE t.S
    BY <2>2, <2>3 DEF PmuxTag
  <2>4. CASE ~t.S
    <3>1. other.S = in.S
      BY <1>5, <1>13, <2>4
    <3>2. IF in.S # {} THEN in.B # other.B ELSE in.A # other.A
      BY <2>1, <3>1 DEF PmuxOutput
    <3> QED
      BY <1>3, <1>4, <1>13, <2>2, <3>2 DEF PmuxTag, UnaryGates
  <2> QED
    BY <2>3, <2>4
<1> QED
  BY <1>6, <1>7, <1>8, <1>9, <1>10, <1>11, <1>12, <1>13 DEF GateKinds, BinaryGates

-----------------------------------------------------------------------------
(* The netlists.                                                           *)

LEMMA NetlistFacts ==
  ASSUME NEW c \in Netlists
  PROVE  /\ c.width \in Nat \ {0}
         /\ c.register \in Kinds
         /\ c.reset \in Words(c.width)
         /\ c.gate = NoGate \/ (c.gate \in GateKinds /\ c.register \in {"$dff", "$dffe"})
<1>1. PICK w \in 1 .. MaxWidth : c \in SingleCells(w) \cup GatedCells(w)
  BY DEF Netlists
<1>2. w \in Nat \ {0}
  BY <1>1, CellsAssumption
<1>3. {} \in Words(w)
  BY DEF Words
<1>4. CASE c \in SingleCells(w)
  BY <1>2, <1>3, <1>4, RegistersAssumption DEF SingleCells
<1>5. CASE c \in GatedCells(w)
  BY <1>2, <1>3, <1>5, RegistersAssumption, CellsAssumption DEF GatedCells
<1> QED
  BY <1>1, <1>4, <1>5

LEMMA NoGateIsNoKind == NoGate \notin GateKinds
  BY DEF NoGate, GateKinds, BinaryGates, UnaryGates

-----------------------------------------------------------------------------
(* Words that are stored, and data that reaches a register.                *)

Tracks(c) == c.width = 1 \/ c.gate \notin {"$or", "$mux"}
AnyWords(c) == Words(c.width) \cup {Unknown}
Covered(s) == \A bit \in s.covers : Differs(s, bit) => s.t
NeverUnknown(c) == c.gate # NoGate \/ c.register \in BitCells \cup {"$mem_v2"}

GoodData(c, d) ==
  /\ d \in [v : AnyWords(c), twin : AnyWords(c), t : BOOLEAN]
  /\ d.v = Unknown => d.twin = Unknown
  /\ NeverUnknown(c) => d.v # Unknown /\ d.twin # Unknown
  /\ Tracks(c) => (~d.t => d.v = d.twin)

(* A word behind a gate is known, and its tag belongs to all of its bits:  *)
(* the gate may read it back as one operand.                               *)
StoredWords(c) ==
  [v : AnyWords(c), twin : AnyWords(c), t : BOOLEAN, covers : SUBSET AllBits(c.width),
   besideX : BOOLEAN]
GoodStored(c, s) ==
  /\ s \in StoredWords(c)
  /\ NeverUnknown(c) => s.v # Unknown /\ s.twin # Unknown
  /\ c.gate # NoGate => s.covers = AllBits(c.width) /\ ~s.besideX
  /\ Tracks(c) /\ ~s.besideX => Covered(s)

(* A word a gate reads back has the same value in both runs unless it is   *)
(* tagged.                                                                 *)
LEMMA FedBackWord ==
  ASSUME NEW c \in Netlists, c.gate # NoGate, NEW now, GoodStored(c, now)
  PROVE  /\ now.v \in Words(c.width) /\ now.twin \in Words(c.width) /\ now.t \in BOOLEAN
         /\ Tracks(c) => (~now.t => now.v = now.twin)
<1>1. /\ now.v \in Words(c.width) /\ now.twin \in Words(c.width) /\ now.t \in BOOLEAN
      /\ now.covers = AllBits(c.width) /\ ~now.besideX
  BY DEF GoodStored, StoredWords, NeverUnknown, AnyWords
<1>2. ASSUME Tracks(c), ~now.t
      PROVE  now.v = now.twin
  <2>1. \A bit \in AllBits(c.width) : bit \in now.v <=> bit \in now.twin
    BY <1>1, <1>2 DEF GoodStored, Covered, Differs
  <2> QED
    BY <1>1, <2>1 DEF Words, AllBits
<1> QED
  BY <1>1, <1>2

(* The operands of a gate are valuations of its ports, in either run.      *)
Field(o, f) == [p \in DOMAIN o |-> o[p][f]]

LEMMA OperandFacts ==
  ASSUME NEW c \in Netlists, c.gate # NoGate, NEW now, GoodStored(c, now),
         NEW o \in Operands(c, now)
  PROVE  /\ DOMAIN o = InputPorts(c.gate)
         /\ \A p \in InputPorts(c.gate) :
              /\ o[p].v \in PortValues(c.gate, c.width, p)
              /\ o[p].twin \in PortValues(c.gate, c.width, p)
              /\ o[p].t \in BOOLEAN
              /\ Tracks(c) => (~o[p].t => o[p].v = o[p].twin)
<1> DEFINE Fits(s, p) ==
      /\ s.v \in PortValues(c.gate, c.width, p)
      /\ s.twin \in PortValues(c.gate, c.width, p)
      /\ s.t \in BOOLEAN
      /\ Tracks(c) => (~s.t => s.v = s.twin)
<1> DEFINE Port(p) == IF p = "A" /\ c.feedback THEN {Signal(now.v, now.twin, now.t)}
                      ELSE Known(PortValues(c.gate, c.width, p))
<1>1. PortValues(c.gate, c.width, "A") = Words(c.width)
  BY DEF PortValues, PortWidth
<1>2. ASSUME NEW p, NEW s \in Port(p)
      PROVE  Fits(s, p)
  <2>1. CASE p = "A" /\ c.feedback
    BY <1>1, <1>2, <2>1, FedBackWord DEF Signal
  <2>2. CASE ~(p = "A" /\ c.feedback)
    BY <1>2, <2>2 DEF Known
  <2> QED
    BY <2>1, <2>2
<1>3. c.gate \in GateKinds
  BY NetlistFacts
<1> HIDE DEF Port, Fits
<1>4. CASE c.gate \in UnaryGates
  <2>1. o \in [A : Port("A")]
    BY <1>4 DEF Operands, Port, UnaryGates, BinaryGates
  <2>2. DOMAIN o = {"A"} /\ o["A"] \in Port("A")
    BY <2>1
  <2>3. InputPorts(c.gate) = {"A"}
    BY <1>4 DEF InputPorts
  <2>4. \A p \in InputPorts(c.gate) : Fits(o[p], p)
    BY <1>2, <2>2, <2>3
  <2> QED
    BY <2>2, <2>3, <2>4 DEF Fits
<1>5. CASE c.gate \in BinaryGates
  <2>1. o \in [A : Port("A"), B : Port("B")]
    BY <1>5 DEF Operands, Port, UnaryGates, BinaryGates
  <2>2. DOMAIN o = {"A", "B"} /\ o["A"] \in Port("A") /\ o["B"] \in Port("B")
    BY <2>1
  <2>3. InputPorts(c.gate) = {"A", "B"}
    BY <1>5 DEF InputPorts, UnaryGates, BinaryGates
  <2>4. \A p \in InputPorts(c.gate) : Fits(o[p], p)
    BY <1>2, <2>2, <2>3
  <2> QED
    BY <2>2, <2>3, <2>4 DEF Fits
<1>6. CASE c.gate \in {"$mux", "$pmux"}
  <2>1. o \in [A : Port("A"), B : Port("B"), S : Port("S")]
    BY <1>6 DEF Operands, Port, UnaryGates, BinaryGates
  <2>2. /\ DOMAIN o = {"A", "B", "S"}
        /\ o["A"] \in Port("A") /\ o["B"] \in Port("B") /\ o["S"] \in Port("S")
    BY <2>1
  <2>3. InputPorts(c.gate) = {"A", "B", "S"}
    BY <1>6 DEF InputPorts, UnaryGates, BinaryGates
  <2>4. \A p \in InputPorts(c.gate) : Fits(o[p], p)
    BY <1>2, <2>2, <2>3
  <2> QED
    BY <2>2, <2>3, <2>4 DEF Fits
<1> QED
  BY <1>3, <1>4, <1>5, <1>6 DEF GateKinds

LEMMA OperandsAreValuations ==
  ASSUME NEW c \in Netlists, c.gate # NoGate, NEW now, GoodStored(c, now),
         NEW o \in Operands(c, now)
  PROVE  /\ Field(o, "v") \in Valuations(c.gate, c.width)
         /\ Field(o, "twin") \in Valuations(c.gate, c.width)
         /\ Field(o, "t") \in [InputPorts(c.gate) -> BOOLEAN]
         /\ Tracks(c) => \A p \in InputPorts(c.gate) :
              ~Field(o, "t")[p] => Field(o, "twin")[p] = Field(o, "v")[p]
<1>1. DOMAIN o = InputPorts(c.gate)
  BY OperandFacts
<1>2. \A p \in InputPorts(c.gate) :
        /\ o[p].v \in PortValues(c.gate, c.width, p)
        /\ o[p].twin \in PortValues(c.gate, c.width, p)
        /\ o[p].t \in BOOLEAN
        /\ Tracks(c) => (~o[p].t => o[p].v = o[p].twin)
  BY OperandFacts
<1>3. /\ Field(o, "v") = [p \in InputPorts(c.gate) |-> o[p].v]
      /\ Field(o, "twin") = [p \in InputPorts(c.gate) |-> o[p].twin]
      /\ Field(o, "t") = [p \in InputPorts(c.gate) |-> o[p].t]
  BY <1>1 DEF Field
<1> QED
  BY <1>2, <1>3 DEF Valuations

LEMMA OutputIsWord ==
  ASSUME NEW kind \in GateKinds, NEW width \in Nat \ {0},
         NEW in \in Valuations(kind, width)
  PROVE  Output(kind, width, in) \in Words(width)
<1>1. /\ in.A \in Words(width)
      /\ kind \in BinaryGates \cup {"$mux"} => in.B \in Words(width)
  BY ValuationFacts
<1>2. \A truth : Flag(truth) \in Words(width)
  BY WordFacts
<1>3. CASE kind \in {"$and", "$or", "$xor"}
  BY <1>1, <1>3 DEF Output, Words, BinaryGates
<1>4. CASE kind \in {"$logic_and", "$logic_or", "$eq", "$reduce_or"}
  BY <1>2, <1>4 DEF Output
<1>5. CASE kind = "$not"
  BY <1>5 DEF Output, Words
<1>6. CASE kind = "$mux"
  BY <1>1, <1>6 DEF Output, MuxOutput
<1>7. CASE kind = "$pmux"
  <2>1. Output(kind, width, in) = PmuxOutput(width, in)
    BY <1>7 DEF Output
  <2> QED
    BY <1>1, <2>1 DEF PmuxOutput, Words
<1> QED
  BY <1>3, <1>4, <1>5, <1>6, <1>7 DEF GateKinds, BinaryGates, UnaryGates

LEMMA TagIsBoolean ==
  ASSUME NEW kind \in GateKinds, NEW in, NEW t \in [InputPorts(kind) -> BOOLEAN]
  PROVE  OutputTag(kind, in, t) \in BOOLEAN
  BY DEF OutputTag, AndTag, OrTag, UnionTag, CopiedTag, MuxTag, PmuxTag, InputPorts,
         GateKinds, UnaryGates, BinaryGates

(* What reaches the register carries a tag wherever the runs differ.       *)
LEMMA DataIsGood ==
  ASSUME NEW c \in Netlists, NEW now, GoodStored(c, now), NEW d \in Data(c, now)
  PROVE  GoodData(c, d)
<1>0. c.width \in Nat \ {0} /\ Unknown \notin Words(c.width)
  BY NetlistFacts, WordFacts
<1>1. CASE c.gate = NoGate
  <2>1. d \in DataInputs(c)
    BY <1>1 DEF Data
  <2>2. CASE d \in Known(Words(c.width))
    BY <1>0, <2>2 DEF Known, GoodData, AnyWords
  <2>3. CASE d \notin Known(Words(c.width))
    <3>1. /\ c.register \notin BitCells \cup {"$mem_v2"}
          /\ \E t \in BOOLEAN : d = Signal(Unknown, Unknown, t)
      BY <2>1, <2>3 DEF DataInputs
    <3> QED
      BY <1>1, <3>1 DEF GoodData, AnyWords, NeverUnknown, Signal
  <2> QED
    BY <2>2, <2>3
<1>2. CASE c.gate # NoGate
  <2>1. PICK o \in Operands(c, now) : d = Driven(c, o)
    BY <1>2 DEF Data
  <2>2. c.gate \in GateKinds
    BY <1>2, NetlistFacts
  <2>3. d = [v |-> Output(c.gate, c.width, Field(o, "v")),
             twin |-> Output(c.gate, c.width, Field(o, "twin")),
             t |-> OutputTag(c.gate, Field(o, "v"), Field(o, "t"))]
    BY <2>1 DEF Driven, Signal, Field
  <2>4. /\ Field(o, "v") \in Valuations(c.gate, c.width)
        /\ Field(o, "twin") \in Valuations(c.gate, c.width)
        /\ Field(o, "t") \in [InputPorts(c.gate) -> BOOLEAN]
        /\ Tracks(c) => \A p \in InputPorts(c.gate) :
             ~Field(o, "t")[p] => Field(o, "twin")[p] = Field(o, "v")[p]
    BY <1>2, OperandsAreValuations
  <2>5. d.v \in Words(c.width) /\ d.twin \in Words(c.width) /\ d.t \in BOOLEAN
    BY <1>0, <2>2, <2>3, <2>4, OutputIsWord, TagIsBoolean
  <2>6. ASSUME Tracks(c), ~d.t
        PROVE  d.v = d.twin
    <3>1. c.width = 1 \/ c.gate \notin {"$or", "$mux"}
      BY <2>6 DEF Tracks
    <3>2. Output(c.gate, c.width, Field(o, "twin")) # Output(c.gate, c.width, Field(o, "v"))
            => OutputTag(c.gate, Field(o, "v"), Field(o, "t"))
      BY <1>0, <2>2, <2>4, <2>6, <3>1, GateIsSound
    <3> QED
      BY <2>3, <2>6, <3>2
  <2> QED
    BY <1>0, <2>3, <2>5, <2>6 DEF GoodData, AnyWords
<1> QED
  BY <1>1, <1>2

-----------------------------------------------------------------------------
(* The registers.                                                          *)

LEMMA InputFacts ==
  ASSUME NEW c \in Netlists, NEW now, NEW in \in Inputs(c, now)
  PROVE  /\ c.register # "$sr" => in.D \in Data(c, now)
         /\ c.register \in {"$dffe", "$adffe", "$sdffe", "$aldffe", "$dlatch", "$adlatch",
                            "$dffsre", "$dlatchsr"} => in.EN \in Control
         /\ c.register \in {"$adff", "$adffe", "$adlatch"} => in.ARST \in Control
         /\ c.register \in {"$sdff", "$sdffe"} => in.SRST \in Control
         /\ c.register \in {"$aldff", "$aldffe"} =>
              in.AD \in Data(c, now) /\ in.ALOAD \in Control
         /\ c.register \in BitCells => in.SET \in BitControl(c) /\ in.CLR \in BitControl(c)
         /\ c.register = "$mem_v2" =>
              in.WR_EN \in BitControl(c) /\ in.WR_ADDR \in [v : Addresses, t : BOOLEAN]
<1>1. c.register \in Kinds
  BY NetlistFacts
<1>2. CASE c.register \in {"$dff", "$dffe", "$dlatch"}
  BY <1>2 DEF Inputs, BitCells
<1>3. CASE c.register \in {"$adff", "$adffe", "$adlatch"}
  BY <1>3 DEF Inputs, BitCells
<1>4. CASE c.register \in {"$sdff", "$sdffe"}
  BY <1>4 DEF Inputs, BitCells
<1>5. CASE c.register \in {"$aldff", "$aldffe"}
  BY <1>5 DEF Inputs, BitCells
<1>6. CASE c.register \in {"$dffsr", "$dffsre", "$dlatchsr", "$sr"}
  BY <1>6 DEF Inputs, BitCells
<1>7. CASE c.register = "$mem_v2"
  BY <1>7 DEF Inputs, BitCells
<1> QED
  BY <1>1, <1>2, <1>3, <1>4, <1>5, <1>6, <1>7 DEF Kinds

LEMMA DataFacts ==
  ASSUME NEW c \in Netlists, NEW d, GoodData(c, d)
  PROVE  /\ d.v \in AnyWords(c) /\ d.twin \in AnyWords(c) /\ d.t \in BOOLEAN
         /\ d.v = Unknown => d.twin = Unknown
         /\ NeverUnknown(c) => d.v \in Words(c.width) /\ d.twin \in Words(c.width)
         /\ Tracks(c) => (~d.t => d.v = d.twin)
  BY DEF GoodData, AnyWords

(* Loading a word is good if it is good data, and its tag is not lost      *)
(* unless the word is unknown.                                             *)
LEMMA LoadIsGood ==
  ASSUME NEW c \in Netlists, NEW d, GoodData(c, d), NEW tag \in BOOLEAN,
         Tracks(c) /\ d.v # Unknown /\ d.t => tag
  PROVE  GoodStored(c, Load(d, tag, c.width))
<1> DEFINE s == Load(d, tag, c.width)
<1>1. /\ s.v = d.v /\ s.twin = d.twin /\ s.t = tag /\ s.covers = AllBits(c.width)
      /\ s.besideX = FALSE
  BY DEF Load
<1>2. s \in StoredWords(c)
  BY DataFacts DEF Load, StoredWords
<1>3. NeverUnknown(c) => s.v # Unknown /\ s.twin # Unknown
  BY <1>1 DEF GoodData
<1>4. ASSUME Tracks(c)
      PROVE  Covered(s)
  <2>1. d.v # d.twin => tag
    BY <1>4, DataFacts
  <2> QED
    BY <1>1, <2>1 DEF Covered, Differs
<1> HIDE DEF s
<1>5. GoodStored(c, s)
  BY <1>1, <1>2, <1>3, <1>4 DEF GoodStored
<1> QED
  BY <1>5 DEF s

(* A reset loads the same word in both runs.                               *)
LEMMA ResetIsGood ==
  ASSUME NEW c \in Netlists, NEW d, GoodData(c, d), NEW control \in Control, NEW in,
         in.D = d
  PROVE  GoodStored(c, ResetTo(in, control, c.reset, c.width))
<1>1. c.reset \in Words(c.width) /\ c.width \in Nat \ {0}
  BY NetlistFacts
<1>2. c.reset # Unknown
  BY <1>1, WordFacts
<1>3. GoodData(c, Signal(c.reset, c.reset, FALSE))
  BY <1>1, <1>2 DEF GoodData, Signal, AnyWords
<1>4. TagUnlessX(d, TagIfEqual(d, c.reset, control.t, control.t)) \in BOOLEAN
  BY DataFacts DEF TagUnlessX, TagIfEqual, Control
<1>5. ~Signal(c.reset, c.reset, FALSE).t
  BY DEF Signal
<1> QED
  BY <1>3, <1>4, <1>5, LoadIsGood DEF ResetTo

LEMMA LoadOrResetIsGood ==
  ASSUME NEW c \in Netlists, NEW in, GoodData(c, in.D), NEW control \in Control
  PROVE  GoodStored(c, LoadOrReset(in, control, c.reset, c.width))
<1>1. CASE control.v
  BY <1>1, ResetIsGood DEF LoadOrReset
<1>2. CASE ~control.v
  <2> DEFINE tag == TagUnlessX(in.D, TagIfEqual(in.D, c.reset, control.t, in.D.t))
  <2>1. tag \in BOOLEAN /\ (in.D.v # Unknown /\ in.D.t => tag)
    BY DataFacts DEF TagUnlessX, TagIfEqual, Control
  <2>2. LoadOrReset(in, control, c.reset, c.width) = Load(in.D, tag, c.width)
    BY <1>2 DEF LoadOrReset
  <2> QED
    BY <2>1, <2>2, LoadIsGood
<1> QED
  BY <1>1, <1>2

LEMMA LoadHoldOrResetIsGood ==
  ASSUME NEW c \in Netlists, NEW in, GoodData(c, in.D), NEW control \in Control,
         in.EN \in Control, NEW now, GoodStored(c, now)
  PROVE  GoodStored(c, LoadHoldOrReset(in, control, c.reset, now, c.width))
<1>1. CASE control.v
  BY <1>1, ResetIsGood DEF LoadHoldOrReset
<1>2. CASE ~control.v /\ in.EN.v
  <2> DEFINE tag ==
        TagUnlessX(in.D, TagIfEqual(in.D, c.reset, control.t, in.D.t) \/ in.EN.t)
  <2>1. tag \in BOOLEAN /\ (in.D.v # Unknown /\ in.D.t => tag)
    BY DataFacts DEF TagUnlessX, TagIfEqual, Control
  <2>2. LoadHoldOrReset(in, control, c.reset, now, c.width) = Load(in.D, tag, c.width)
    BY <1>2 DEF LoadHoldOrReset
  <2> QED
    BY <2>1, <2>2, LoadIsGood
<1>3. CASE ~control.v /\ ~in.EN.v
  BY <1>3 DEF LoadHoldOrReset
<1> QED
  BY <1>1, <1>2, <1>3

(* The tag of AD is kept if D is known; if not, the word says so.          *)
LEMMA LoadADIsGood ==
  ASSUME NEW c \in Netlists, c.gate = NoGate, NEW in, GoodData(c, in.D), GoodData(c, in.AD),
         in.ALOAD \in Control, c.register \in {"$aldff", "$aldffe"}
  PROVE  GoodStored(c, LoadAD(in, c.width))
<1> DEFINE tag == TagUnlessX(in.D, TagIfEqual(in.D, Flag(in.ALOAD.v), in.AD.t, in.AD.t))
           s == LoadAD(in, c.width)
           besideX == in.D.v = Unknown
<1>1. tag \in BOOLEAN /\ (in.D.v # Unknown /\ in.AD.t => tag)
  BY DataFacts DEF TagUnlessX, TagIfEqual, Control
<1>2. s = [v |-> in.AD.v, twin |-> in.AD.twin, t |-> tag, covers |-> AllBits(c.width),
           besideX |-> besideX]
  <2>1. s = [Load(in.AD, tag, c.width) EXCEPT !.besideX = besideX]
    BY DEF LoadAD
  <2>2. Load(in.AD, tag, c.width)
          = [v |-> in.AD.v, twin |-> in.AD.twin, t |-> tag, covers |-> AllBits(c.width),
             besideX |-> FALSE]
    BY DEF Load
  <2> HIDE DEF tag, besideX
  <2>3. besideX = TRUE \/ besideX = FALSE
    BY DEF besideX
  <2> QED
    BY <2>1, <2>2, <2>3
<1>3. besideX \in BOOLEAN /\ (~besideX => in.D.v # Unknown)
  OBVIOUS
<1>4. in.AD.v \in AnyWords(c) /\ in.AD.twin \in AnyWords(c)
  BY DataFacts
<1>5. NeverUnknown(c) => in.AD.v # Unknown /\ in.AD.twin # Unknown
  BY DEF GoodData
<1>6. Tracks(c) /\ ~besideX /\ in.AD.v # in.AD.twin => tag
  BY <1>1, <1>3, DataFacts
<1> HIDE DEF tag, besideX, s
<1>7. GoodStored(c, s)
  BY <1>1, <1>2, <1>3, <1>4, <1>5, <1>6 DEF GoodStored, StoredWords, Covered, Differs
<1> QED
  BY <1>7 DEF s

(* A latched, clocked or enabled word that is loaded with the tag of its   *)
(* data and of the enable                                                  *)
LEMMA EnabledLoadIsGood ==
  ASSUME NEW c \in Netlists, NEW in, GoodData(c, in.D), in.EN \in Control,
         NEW now, GoodStored(c, now)
  PROVE  GoodStored(c, Dffe(in, now, c.width)) /\ GoodStored(c, Dlatch(in, now, c.width))
<1>1. (in.D.t \/ in.EN.t) \in BOOLEAN /\ (in.D.t => in.D.t \/ in.EN.t)
  BY DataFacts DEF Control
<1>2. GoodStored(c, Load(in.D, in.D.t \/ in.EN.t, c.width))
  BY <1>1, LoadIsGood
<1> QED
  BY <1>2 DEF Dffe, Dlatch

LEMMA AsyncLoadIsGood ==
  ASSUME NEW c \in Netlists, c.gate = NoGate, NEW in, GoodData(c, in.D), GoodData(c, in.AD),
         in.ALOAD \in Control, c.register \in {"$aldff", "$aldffe"},
         NEW now, GoodStored(c, now)
  PROVE  /\ GoodStored(c, Aldff(in, c.width))
         /\ in.EN \in Control => GoodStored(c, Aldffe(in, now, c.width))
<1> DEFINE kept == TagIfEqual(in.D, Flag(in.ALOAD.v), in.AD.t, in.D.t)
<1>1. kept \in BOOLEAN /\ (in.D.t => kept)
  BY DataFacts DEF TagIfEqual
<1> HIDE DEF kept
<1>2. GoodStored(c, Load(in.D, TagUnlessX(in.D, kept), c.width))
  <2>1. TagUnlessX(in.D, kept) \in BOOLEAN
        /\ (in.D.v # Unknown /\ in.D.t => TagUnlessX(in.D, kept))
    BY <1>1 DEF TagUnlessX
  <2> QED
    BY <2>1, LoadIsGood
<1>3. ASSUME in.EN \in Control
      PROVE  GoodStored(c, Load(in.D, TagUnlessX(in.D, kept \/ in.EN.t), c.width))
  <2>1. TagUnlessX(in.D, kept \/ in.EN.t) \in BOOLEAN
        /\ (in.D.v # Unknown /\ in.D.t => TagUnlessX(in.D, kept \/ in.EN.t))
    BY <1>1, <1>3 DEF TagUnlessX, Control
  <2> QED
    BY <2>1, LoadIsGood
<1>4. GoodStored(c, LoadAD(in, c.width))
  BY LoadADIsGood
<1> QED
  BY <1>2, <1>3, <1>4 DEF Aldff, Aldffe, kept

-----------------------------------------------------------------------------
(* The cells that set and clear single bits.                               *)

GoodWrite(c, w, i) ==
  /\ w.bit = i
  /\ w.v \in BOOLEAN /\ w.twin \in BOOLEAN /\ w.t \in BOOLEAN
  /\ Tracks(c) => ((w.v # w.twin) => w.t)

LEMMA BitWriteFacts ==
  ASSUME NEW c \in Netlists, c.register \in BitCells, NEW now, GoodStored(c, now),
         NEW in \in Inputs(c, now), NEW i
  PROVE  \/ BitWrites(c.register, in, i) = {}
         \/ \E w : BitWrites(c.register, in, i) = {w} /\ GoodWrite(c, w, i)
<1>1. in.SET \in BitControl(c) /\ in.CLR \in BitControl(c)
  BY InputFacts
<1>2. c.register \in {"$dffsre", "$dlatchsr"} => in.EN \in Control
  BY InputFacts
<1>3. c.register # "$sr" => GoodData(c, in.D)
  BY InputFacts, DataIsGood
<1>4. GoodWrite(c, Write(i, FALSE, FALSE, in.CLR.t), i)
  BY <1>1 DEF GoodWrite, Write, BitControl
<1>5. ASSUME NEW tag \in BOOLEAN
      PROVE  GoodWrite(c, Write(i, TRUE, TRUE, tag), i)
  BY DEF GoodWrite, Write
<1>6. ASSUME c.register # "$sr"
      PROVE  SetTag(in) \in BOOLEAN
  BY <1>1, <1>3, <1>6, DataFacts DEF SetTag, TagUnlessX, TagIfEqual, BitControl
<1>7. in.SET.t \in BOOLEAN
  BY <1>1 DEF BitControl
<1>8. ASSUME c.register # "$sr", NEW tag \in BOOLEAN, in.D.t => tag
      PROVE  GoodWrite(c, Write(i, i \in in.D.v, i \in in.D.twin, tag), i)
  BY <1>3, <1>8, DataFacts DEF GoodWrite, Write
<1>9. c.register # "$sr" => in.D.t \in BOOLEAN
  BY <1>3, DataFacts
<1>10. ASSUME c.register \in {"$dffsre", "$dlatchsr"}
       PROVE  (in.D.t \/ in.EN.t) \in BOOLEAN
  BY <1>2, <1>9, <1>10 DEF Control
<1> DEFINE clear == Write(i, FALSE, FALSE, in.CLR.t)
           set(tag) == Write(i, TRUE, TRUE, tag)
           load(tag) == Write(i, i \in in.D.v, i \in in.D.twin, tag)
<1>11. CASE c.register = "$dffsr"
  <2>1. BitWrites(c.register, in, i) \in {{clear}, {set(SetTag(in))}, {load(in.D.t)}}
    BY <1>11 DEF BitWrites, DffsrBit, ClearBit, SetBit, LoadBit
  <2>2. /\ GoodWrite(c, clear, i)
        /\ GoodWrite(c, set(SetTag(in)), i)
        /\ GoodWrite(c, load(in.D.t), i)
    BY <1>4, <1>5, <1>6, <1>8, <1>9, <1>11
  <2> HIDE DEF clear, set, load
  <2> QED
    BY <2>1, <2>2
<1>12. CASE c.register = "$dffsre"
  <2>1. BitWrites(c.register, in, i)
          \in {{clear}, {set(SetTag(in))}, {load(in.D.t \/ in.EN.t)}, {}}
    BY <1>12 DEF BitWrites, DffsreBit, ClearBit, SetBit, LoadBit
  <2>2. /\ GoodWrite(c, clear, i)
        /\ GoodWrite(c, set(SetTag(in)), i)
        /\ GoodWrite(c, load(in.D.t \/ in.EN.t), i)
    BY <1>4, <1>5, <1>6, <1>8, <1>10, <1>12
  <2> HIDE DEF clear, set, load
  <2> QED
    BY <2>1, <2>2
<1>13. CASE c.register = "$dlatchsr"
  <2>1. BitWrites(c.register, in, i)
          \in {{clear}, {set(in.SET.t)}, {load(in.D.t \/ in.EN.t)}, {}}
    BY <1>13 DEF BitWrites, DlatchsrBit, ClearBit, SetBit, LoadBit
  <2>2. /\ GoodWrite(c, clear, i)
        /\ GoodWrite(c, set(in.SET.t), i)
        /\ GoodWrite(c, load(in.D.t \/ in.EN.t), i)
    BY <1>4, <1>5, <1>7, <1>8, <1>10, <1>13
  <2> HIDE DEF clear, set, load
  <2> QED
    BY <2>1, <2>2
<1>14. CASE c.register = "$sr"
  <2>1. BitWrites(c.register, in, i) \in {{clear}, {set(in.SET.t)}, {}}
    BY <1>14 DEF BitWrites, SrBit, ClearBit, SetBit
  <2>2. GoodWrite(c, clear, i) /\ GoodWrite(c, set(in.SET.t), i)
    BY <1>4, <1>5, <1>7
  <2> HIDE DEF clear, set, load
  <2> QED
    BY <2>1, <2>2
<1> QED
  BY <1>11, <1>12, <1>13, <1>14 DEF BitCells

(* After a set of writes at most one of which is to each bit, a bit has    *)
(* the value that was written to it.                                       *)
LEMMA WrittenFacts ==
  ASSUME NEW now, NEW writes, NEW s \in Written(now, writes), writes # {},
         \A x, y \in writes : x.bit = y.bit => x = y
  PROVE  \E last \in writes :
           /\ s.t = last.t /\ s.covers = {last.bit}
           /\ s.besideX \in BOOLEAN /\ ~s.besideX
           /\ \A w \in writes : (w.bit \in s.v <=> w.v) /\ (w.bit \in s.twin <=> w.twin)
           /\ \A bit : bit \notin {w.bit : w \in writes} =>
                (bit \in s.v <=> bit \in now.v) /\ (bit \in s.twin <=> bit \in now.twin)
           /\ s = [v |-> s.v, twin |-> s.twin, t |-> s.t, covers |-> s.covers,
                   besideX |-> s.besideX]
<1>1. PICK last \in writes :
        s = [v |-> (now.v \ {w.bit : w \in writes}) \cup {w.bit : w \in {x \in writes : x.v}},
             twin |-> (now.twin \ {w.bit : w \in writes})
                        \cup {w.bit : w \in {x \in writes : x.twin}},
             t |-> last.t, covers |-> {last.bit}, besideX |-> FALSE]
  BY DEF Written
<1> QED
  BY <1>1

AllWrites(c, in, bits) == UNION {BitWrites(c.register, in, i) : i \in bits}

LEMMA AllWritesFacts ==
  ASSUME NEW c \in Netlists, c.register \in BitCells, NEW now, GoodStored(c, now),
         NEW in \in Inputs(c, now), NEW bits
  PROVE  /\ \A w \in AllWrites(c, in, bits) : w.bit \in bits /\ GoodWrite(c, w, w.bit)
         /\ \A x, y \in AllWrites(c, in, bits) : x.bit = y.bit => x = y
<1>1. ASSUME NEW w \in AllWrites(c, in, bits)
      PROVE  /\ w.bit \in bits
             /\ GoodWrite(c, w, w.bit)
             /\ BitWrites(c.register, in, w.bit) = {w}
  <2>1. PICK i \in bits : w \in BitWrites(c.register, in, i)
    BY <1>1 DEF AllWrites
  <2>2. PICK x : BitWrites(c.register, in, i) = {x} /\ GoodWrite(c, x, i)
    <3>1. BitWrites(c.register, in, i) # {}
      BY <2>1
    <3> QED
      BY <3>1, BitWriteFacts
  <2>3. w = x /\ w.bit = i
    BY <2>1, <2>2 DEF GoodWrite
  <2> QED
    BY <2>1, <2>2, <2>3
<1> QED
  BY <1>1

LEMMA WrittenIsGood ==
  ASSUME NEW c \in Netlists, c.register \in BitCells, NEW now, GoodStored(c, now),
         NEW in \in Inputs(c, now), NEW bits \in SUBSET AllBits(c.width),
         NEW s \in Written(now, AllWrites(c, in, bits))
  PROVE  GoodStored(c, s)
<1> DEFINE writes == AllWrites(c, in, bits)
<1>1. CASE writes = {}
  BY <1>1 DEF Written
<1>2. CASE writes # {}
  <2>1. /\ \A w \in writes : w.bit \in bits /\ GoodWrite(c, w, w.bit)
        /\ \A x, y \in writes : x.bit = y.bit => x = y
    BY AllWritesFacts
  <2> HIDE DEF writes
  <2>2. PICK last \in writes :
          /\ s.t = last.t /\ s.covers = {last.bit}
          /\ s.besideX \in BOOLEAN /\ ~s.besideX
          /\ \A w \in writes : (w.bit \in s.v <=> w.v) /\ (w.bit \in s.twin <=> w.twin)
          /\ \A bit : bit \notin {w.bit : w \in writes} =>
               (bit \in s.v <=> bit \in now.v) /\ (bit \in s.twin <=> bit \in now.twin)
          /\ s = [v |-> s.v, twin |-> s.twin, t |-> s.t, covers |-> s.covers,
                  besideX |-> s.besideX]
    BY <1>2, <2>1, WrittenFacts DEF writes
  <2>3. now.v \in Words(c.width) /\ now.twin \in Words(c.width) /\ c.gate = NoGate
    BY NetlistFacts, NoGateIsNoKind
       DEF GoodStored, StoredWords, NeverUnknown, AnyWords, BitCells
  <2>4. s.v \in Words(c.width) /\ s.twin \in Words(c.width)
    BY <2>1, <2>2, <2>3 DEF Words, AllBits
  <2>5. last.bit \in AllBits(c.width) /\ last.t \in BOOLEAN
    BY <2>1, <2>2 DEF GoodWrite
  <2>6. Unknown \notin Words(c.width)
    BY NetlistFacts, WordFacts
  <2>7. Tracks(c) => Covered(s)
    BY <2>1, <2>2 DEF GoodWrite, Covered, Differs
  <2> QED
    BY <2>2, <2>3, <2>4, <2>5, <2>6, <2>7 DEF GoodStored, StoredWords, AnyWords
<1> QED
  BY <1>1, <1>2

LEMMA MemWriteIsGood ==
  ASSUME NEW c \in Netlists, c.register = "$mem_v2", NEW now, GoodStored(c, now),
         NEW in \in Inputs(c, now)
  PROVE  GoodStored(c, MemWrite(in, now))
<1> DEFINE s == MemWrite(in, now)
<1>1. in.WR_EN \in BitControl(c) /\ in.WR_ADDR \in [v : Addresses, t : BOOLEAN]
  BY InputFacts
<1>2. GoodData(c, in.D)
  BY InputFacts, DataIsGood
<1>3. NeverUnknown(c) /\ c.gate = NoGate
  BY NetlistFacts DEF NeverUnknown
<1>4. in.D.v \in Words(c.width) /\ in.D.twin \in Words(c.width) /\ in.D.t \in BOOLEAN
  BY <1>2, <1>3, DataFacts
<1>5. now.v \in Words(c.width) /\ now.twin \in Words(c.width)
  BY <1>3 DEF GoodStored, StoredWords, AnyWords
<1>6. in.WR_EN.v \in Words(c.width) /\ in.WR_EN.t \in BOOLEAN /\ in.WR_ADDR.t \in BOOLEAN
  BY <1>1 DEF BitControl
<1>7. /\ s.v = (now.v \ in.WR_EN.v) \cup (in.D.v \cap in.WR_EN.v)
      /\ s.twin = (now.twin \ in.WR_EN.v) \cup (in.D.twin \cap in.WR_EN.v)
      /\ s.t = (in.D.t \/ in.WR_EN.t \/ in.WR_ADDR.t)
      /\ s.covers = in.WR_EN.v /\ s.besideX = FALSE
      /\ s = [v |-> s.v, twin |-> s.twin, t |-> s.t, covers |-> s.covers,
              besideX |-> s.besideX]
  BY DEF MemWrite
<1> HIDE DEF s
<1>8. s.v \in Words(c.width) /\ s.twin \in Words(c.width)
  BY <1>4, <1>5, <1>6, <1>7 DEF Words
<1>9. s.t \in BOOLEAN /\ s.covers \in SUBSET AllBits(c.width)
  BY <1>4, <1>6, <1>7 DEF Words, AllBits
<1>10. Unknown \notin Words(c.width)
  BY NetlistFacts, WordFacts
<1>11. ASSUME Tracks(c)
       PROVE  Covered(s)
  <2>1. in.D.v # in.D.twin => s.t
    BY <1>2, <1>7, <1>11, DataFacts
  <2>2. ASSUME NEW bit \in s.covers
        PROVE  (bit \in s.v <=> bit \in in.D.v) /\ (bit \in s.twin <=> bit \in in.D.twin)
    BY <1>7, <2>2
  <2> QED
    BY <2>1, <2>2 DEF Covered, Differs
<1>12. GoodStored(c, s)
  BY <1>3, <1>7, <1>8, <1>9, <1>10, <1>11 DEF GoodStored, StoredWords, AnyWords
<1> QED
  BY <1>12 DEF s

(* Whatever the blocks of a register leave behind is good.                 *)
LEMMA StoredIsGood ==
  ASSUME NEW c \in Netlists, c.register # "$mem_v2", NEW now, GoodStored(c, now),
         NEW in \in Inputs(c, now), NEW bits \in SUBSET AllBits(c.width),
         NEW s \in Stored(c.register, in, c.reset, now, c.width, bits)
  PROVE  GoodStored(c, s)
<1>1. c.register \in Kinds
  BY NetlistFacts
<1>2. c.register # "$sr" => GoodData(c, in.D)
  BY InputFacts, DataIsGood
<1>3. CASE c.register = "$dff"
  <2>1. s = Load(in.D, in.D.t, c.width)
    BY <1>3 DEF Stored, Dff, BitCells
  <2>2. in.D.t \in BOOLEAN
    BY <1>2, <1>3, DataFacts
  <2> QED
    BY <1>2, <1>3, <2>1, <2>2, LoadIsGood
<1>4. CASE c.register \in {"$dffe", "$dlatch"}
  <2>1. s \in {Dffe(in, now, c.width), Dlatch(in, now, c.width)}
    BY <1>4 DEF Stored, BitCells
  <2> QED
    BY <1>2, <1>4, <2>1, InputFacts, EnabledLoadIsGood
<1>5. CASE c.register \in {"$adff", "$sdff"}
  <2>1. CASE c.register = "$adff"
    BY <1>2, <2>1, InputFacts, LoadOrResetIsGood DEF Stored, Adff, BitCells
  <2>2. CASE c.register = "$sdff"
    BY <1>2, <2>2, InputFacts, LoadOrResetIsGood DEF Stored, Sdff, BitCells
  <2> QED
    BY <1>5, <2>1, <2>2
<1>6. CASE c.register \in {"$adffe", "$sdffe", "$adlatch"}
  <2>1. CASE c.register = "$adffe"
    BY <1>2, <2>1, InputFacts, LoadHoldOrResetIsGood DEF Stored, Adffe, BitCells
  <2>2. CASE c.register = "$sdffe"
    BY <1>2, <2>2, InputFacts, LoadHoldOrResetIsGood DEF Stored, Sdffe, BitCells
  <2>3. CASE c.register = "$adlatch"
    BY <1>2, <2>3, InputFacts, LoadHoldOrResetIsGood DEF Stored, Adlatch, BitCells
  <2> QED
    BY <1>6, <2>1, <2>2, <2>3
<1>7. CASE c.register \in {"$aldff", "$aldffe"}
  <2>1. c.gate = NoGate
    BY <1>7, NetlistFacts
  <2>2. GoodData(c, in.AD) /\ in.ALOAD \in Control
    BY <1>7, InputFacts, DataIsGood
  <2>3. CASE c.register = "$aldff"
    BY <1>2, <2>1, <2>2, <2>3, AsyncLoadIsGood DEF Stored, BitCells
  <2>4. CASE c.register = "$aldffe"
    <3>1. in.EN \in Control
      BY <2>4, InputFacts
    <3> QED
      BY <1>2, <2>1, <2>2, <2>4, <3>1, AsyncLoadIsGood DEF Stored, BitCells
  <2> QED
    BY <1>7, <2>3, <2>4
<1>8. CASE c.register \in BitCells
  <2>1. s \in Written(now, AllWrites(c, in, bits))
    BY <1>8 DEF Stored, BitCells, AllWrites
  <2> QED
    BY <1>8, <2>1, WrittenIsGood
<1> QED
  BY <1>1, <1>3, <1>4, <1>5, <1>6, <1>7, <1>8 DEF Kinds, BitCells

-----------------------------------------------------------------------------
(* The inductive invariant: every word holds its type, is known where its  *)
(* cell cannot make it unknown, is tagged as a whole where a gate may read *)
(* it back, and its tag covers its bits.                                   *)
CellsInv ==
  /\ cell \in Netlists
  /\ DOMAIN store = WordsOf(cell)
  /\ \A a \in WordsOf(cell) : GoodStored(cell, store[a])

LEMMA InitIsGood == Init => CellsInv
<1> SUFFICES ASSUME Init
             PROVE  CellsInv
  OBVIOUS
<1>1. PICK initial \in [WordsOf(cell) -> Words(cell.width)] :
        store = [a \in WordsOf(cell) |->
                   [v |-> initial[a], twin |-> initial[a], t |-> FALSE,
                    covers |-> AllBits(cell.width), besideX |-> FALSE]]
  BY DEF Init
<1>2. cell \in Netlists
  BY DEF Init
<1>3. Unknown \notin Words(cell.width)
  BY <1>2, NetlistFacts, WordFacts
<1>4. ASSUME NEW a \in WordsOf(cell)
      PROVE  GoodStored(cell, store[a])
  <2>1. /\ store[a] = [v |-> initial[a], twin |-> initial[a], t |-> FALSE,
                       covers |-> AllBits(cell.width), besideX |-> FALSE]
        /\ initial[a] \in Words(cell.width)
    BY <1>1
  <2> QED
    BY <1>3, <2>1 DEF GoodStored, StoredWords, AnyWords, Covered, Differs
<1> QED
  BY <1>1, <1>2, <1>4 DEF CellsInv

LEMMA StoreIsGood ==
  ASSUME CellsInv, cell.register # "$mem_v2", NEW a \in WordsOf(cell),
         NEW in \in Inputs(cell, store[a]), NEW bits \in SUBSET AllBits(cell.width),
         Store(a, in, bits), UNCHANGED cell
  PROVE  CellsInv'
<1>1. PICK after \in Stored(cell.register, in, cell.reset, store[a], cell.width, bits) :
        store' = [store EXCEPT ![a] = after]
  BY DEF Store
<1>2. GoodStored(cell, after)
  BY <1>1, StoredIsGood DEF CellsInv
<1>3. /\ DOMAIN store' = WordsOf(cell)
      /\ \A b \in WordsOf(cell) : store'[b] = IF b = a THEN after ELSE store[b]
  BY <1>1 DEF CellsInv
<1> QED
  BY <1>2, <1>3 DEF CellsInv

LEMMA BitsOfAnEdge ==
  ASSUME NEW c \in Netlists, NEW now, NEW in \in Inputs(c, now), c.register \in AsyncCells,
         NEW bits \in Activations(c.register, in)
  PROVE  bits \in SUBSET AllBits(c.width)
<1>1. 0 \in AllBits(c.width)
  BY NetlistFacts DEF AllBits
<1>2. CASE c.register \in {"$dffsr", "$dffsre"}
  <2>1. in.SET \in BitControl(c) /\ in.CLR \in BitControl(c)
    BY <1>2, InputFacts DEF BitCells
  <2>2. bits \subseteq in.SET.v \cup in.CLR.v
    BY <1>2 DEF Activations
  <2> QED
    BY <2>1, <2>2 DEF BitControl, Words, AllBits
<1>3. CASE c.register \in {"$adff", "$adffe", "$aldff", "$aldffe"}
  <2>1. bits = {0}
    BY <1>3 DEF Activations
  <2> QED
    BY <1>1, <2>1
<1> QED
  BY <1>2, <1>3 DEF AsyncCells

LEMMA NextIsGood == CellsInv /\ [Next]_vars => CellsInv'
<1> SUFFICES ASSUME CellsInv, [Next]_vars
             PROVE  CellsInv'
  OBVIOUS
<1>1. CASE ClockEdge
  <2>1. PICK a \in WordsOf(cell) : \E in \in Inputs(cell, store[a]) :
          Store(a, in, AllBits(cell.width))
    BY <1>1 DEF ClockEdge
  <2> QED
    BY <1>1, <2>1, StoreIsGood DEF ClockEdge
<1>2. CASE ActivationEdge
  <2>1. PICK a \in WordsOf(cell) : \E in \in Inputs(cell, store[a]) :
          \E bits \in Activations(cell.register, in) : Store(a, in, bits)
    BY <1>2 DEF ActivationEdge
  <2>2. cell.register # "$mem_v2" /\ cell.register \in AsyncCells
    BY <1>2 DEF ActivationEdge, AsyncCells
  <2>3. cell \in Netlists
    BY DEF CellsInv
  <2> QED
    BY <1>2, <2>1, <2>2, <2>3, BitsOfAnEdge, StoreIsGood DEF ActivationEdge
<1>3. CASE LatchEvaluation
  <2>1. PICK a \in WordsOf(cell) : \E in \in Inputs(cell, store[a]) :
          Store(a, in, AllBits(cell.width))
    BY <1>3 DEF LatchEvaluation
  <2>2. cell.register # "$mem_v2"
    BY <1>3 DEF LatchEvaluation, Latches
  <2> QED
    BY <1>3, <2>1, <2>2, StoreIsGood DEF LatchEvaluation
<1>4. CASE MemoryClock
  <2>0. PICK a \in WordsOf(cell) : \E in \in Inputs(cell, store[a]) :
          store' = [store EXCEPT ![a] = MemWrite(in, @)]
    BY <1>4 DEF MemoryClock
  <2>1. PICK in \in Inputs(cell, store[a]) :
          store' = [store EXCEPT ![a] = MemWrite(in, @)]
    BY <2>0
  <2>2. GoodStored(cell, MemWrite(in, store[a]))
    BY <1>4, <2>1, MemWriteIsGood DEF CellsInv, MemoryClock
  <2>3. /\ DOMAIN store' = WordsOf(cell)
        /\ \A b \in WordsOf(cell) :
             store'[b] = IF b = a THEN MemWrite(in, store[a]) ELSE store[b]
    BY <2>1 DEF CellsInv
  <2> QED
    BY <1>4, <2>2, <2>3 DEF CellsInv, MemoryClock
<1>5. CASE UNCHANGED vars
  BY <1>5 DEF CellsInv, vars
<1> QED
  BY <1>1, <1>2, <1>3, <1>4, <1>5 DEF Next

(* The exported always blocks (cell/*.hpp) preserve the invariant, in       *)
(* whatever order clock edges and asynchronous edges come.                 *)
THEOREM CellsInvariant == Spec => []CellsInv
  BY InitIsGood, NextIsGood, PTL DEF Spec

(* A stored bit that tagged data has changed carries the tag, for all the  *)
(* storage cells, widths, reset values and orders of clock and             *)
(* asynchronous edges, on its own, behind a gate and in a feedback loop    *)
(* (the ift_tag registers of cell/*.hpp): unless its word was last tagged  *)
(* by a write to other bits, is an AD loaded while D was Unknown, or       *)
(* depends on words through $or or $mux.                                   *)
THEOREM TagsCoverData == Spec => []TagCoversData
<1>1. CellsInv => TagCoversData
  BY DEF CellsInv, TagCoversData, GateTracksWords, GoodStored, Tracks, Covered
<1> QED
  BY <1>1, CellsInvariant, PTL

(* The tag rule of every gate but $or and $mux lets a tag through whenever *)
(* the tagged operands can change the output, for words of every width;    *)
(* those of $or and $mux do so for single bits (export_verilog of          *)
(* cell/basic_gate.hpp and the gates').                                    *)
THEOREM GatesAreSound == Spec => []GateTagsAreSound
<1>1. CellsInv => GateTagsAreSound
  <2> SUFFICES ASSUME CellsInv, cell.gate # NoGate, GateTracksWords
               PROVE  TagsCoverInfluence(cell.gate, cell.width)
    BY DEF GateTagsAreSound
  <2>1. cell.gate \in GateKinds /\ cell.width \in Nat \ {0}
    BY NetlistFacts DEF CellsInv
  <2>2. cell.width = 1 \/ cell.gate \notin {"$or", "$mux"}
    BY DEF GateTracksWords
  <2> QED
    BY <2>1, <2>2, GateIsSound DEF TagsCoverInfluence, Influences
<1> QED
  BY <1>1, CellsInvariant, PTL

-----------------------------------------------------------------------------
(* The relation given to the solver.                                       *)

(* A bit of a cell with a block per bit holds what its block wrote, or     *)
(* what it held.                                                           *)
LEMMA BitAfter ==
  ASSUME NEW c \in Netlists, c.register \in BitCells, NEW now, GoodStored(c, now),
         NEW in \in Inputs(c, now), NEW bits, NEW i \in bits,
         NEW s \in Written(now, AllWrites(c, in, bits))
  PROVE  /\ BitWrites(c.register, in, i) = {} => (i \in s.v <=> i \in now.v)
         /\ \A w \in BitWrites(c.register, in, i) : i \in s.v <=> w.v
<1> DEFINE writes == AllWrites(c, in, bits)
<1>1. /\ \A w \in writes : w.bit \in bits /\ GoodWrite(c, w, w.bit)
      /\ \A x, y \in writes : x.bit = y.bit => x = y
  BY AllWritesFacts
<1>2. \A w \in BitWrites(c.register, in, i) : w \in writes /\ w.bit = i
  <2>1. ASSUME NEW w \in BitWrites(c.register, in, i)
        PROVE  w.bit = i
    <3>1. PICK x : BitWrites(c.register, in, i) = {x} /\ GoodWrite(c, x, i)
      BY <2>1, BitWriteFacts
    <3> QED
      BY <2>1, <3>1 DEF GoodWrite
  <2> QED
    BY <2>1 DEF AllWrites
<1>3. ASSUME BitWrites(c.register, in, i) = {}, NEW w \in writes
      PROVE  w.bit # i
  <2>1. PICK j \in bits : w \in BitWrites(c.register, in, j)
    BY <1>3 DEF AllWrites
  <2>2. w.bit = j
    BY <2>1, BitWriteFacts DEF GoodWrite
  <2> QED
    BY <1>3, <2>1, <2>2
<1> HIDE DEF writes
<1>4. CASE writes = {}
  <2>1. s = now
    BY <1>4 DEF Written, writes
  <2> QED
    BY <1>2, <1>4, <2>1
<1>5. CASE writes # {}
  <2>1. /\ \A w \in writes : w.bit \in s.v <=> w.v
        /\ \A bit : bit \notin {w.bit : w \in writes} => (bit \in s.v <=> bit \in now.v)
    BY <1>1, <1>5, WrittenFacts DEF writes
  <2> QED
    BY <1>2, <1>3, <2>1
<1> QED
  BY <1>4, <1>5

LEMMA BitCellAgrees ==
  ASSUME NEW c \in Netlists, c.register \in {"$dffsr", "$dffsre"},
         NEW now, GoodStored(c, now), NEW in \in Inputs(c, now),
         NEW s \in Written(now, AllWrites(c, in, AllBits(c.width)))
  PROVE  s.v = NextInSmt(c.register, in, c.reset, now.v, c.width)
<1> DEFINE said == NextInSmt(c.register, in, c.reset, now.v, c.width)
<1>1. c.register \in BitCells /\ NeverUnknown(c) /\ c.register # "$sr"
  BY DEF BitCells, NeverUnknown
<1>2. /\ in.SET.v \in Words(c.width) /\ in.CLR.v \in Words(c.width)
      /\ in.D.v \in Words(c.width) /\ now.v \in Words(c.width)
  BY <1>1, InputFacts, DataIsGood, DataFacts
     DEF BitControl, GoodStored, StoredWords, AnyWords
<1>3. s.v \in Words(c.width)
  BY <1>1, WrittenIsGood DEF GoodStored, StoredWords, AnyWords
<1>4. said = IF c.register = "$dffsr" THEN (in.SET.v \cup in.D.v) \ in.CLR.v
             ELSE (in.SET.v \cup IF in.EN.v THEN in.D.v ELSE now.v) \ in.CLR.v
  BY DEF NextInSmt, DffsrSmt, DffsreSmt
<1> HIDE DEF said
<1>5. said \in Words(c.width)
  BY <1>2, <1>4 DEF Words
<1>6. ASSUME NEW i \in AllBits(c.width)
      PROVE  i \in s.v <=> i \in said
  <2>1. /\ BitWrites(c.register, in, i) = {} => (i \in s.v <=> i \in now.v)
        /\ \A w \in BitWrites(c.register, in, i) : i \in s.v <=> w.v
    BY <1>1, BitAfter
  <2>2. CASE i \in in.CLR.v
    <3>1. BitWrites(c.register, in, i) = {Write(i, FALSE, FALSE, in.CLR.t)}
      BY <2>2 DEF BitWrites, DffsrBit, DffsreBit, ClearBit
    <3> QED
      BY <1>4, <2>1, <2>2, <3>1 DEF Write
  <2>3. CASE i \in in.SET.v \ in.CLR.v
    <3>1. BitWrites(c.register, in, i) = {Write(i, TRUE, TRUE, SetTag(in))}
      BY <2>3 DEF BitWrites, DffsrBit, DffsreBit, SetBit
    <3> QED
      BY <1>4, <2>1, <2>3, <3>1 DEF Write
  <2>4. CASE i \notin in.SET.v \cup in.CLR.v /\ (c.register = "$dffsr" \/ in.EN.v)
    <3>1. PICK tag : BitWrites(c.register, in, i)
                       = {Write(i, i \in in.D.v, i \in in.D.twin, tag)}
      BY <2>4 DEF BitWrites, DffsrBit, DffsreBit, LoadBit
    <3>2. i \in s.v <=> Write(i, i \in in.D.v, i \in in.D.twin, tag).v
      BY <2>1, <3>1
    <3>3. i \in s.v <=> i \in in.D.v
      BY <3>2 DEF Write
    <3>4. i \in said <=> i \in in.D.v
      BY <1>4, <2>4
    <3> QED
      BY <3>3, <3>4
  <2>5. CASE i \notin in.SET.v \cup in.CLR.v /\ c.register = "$dffsre" /\ ~in.EN.v
    <3>1. BitWrites(c.register, in, i) = {}
      BY <2>5 DEF BitWrites, DffsrBit, DffsreBit
    <3> QED
      BY <1>4, <2>1, <2>5, <3>1
  <2> QED
    BY <2>2, <2>3, <2>4, <2>5
<1>7. s.v = said
  BY <1>3, <1>5, <1>6 DEF Words, AllBits
<1> QED
  BY <1>7 DEF said

LEMMA RelationAgrees ==
  ASSUME NEW c \in Netlists, c.register \notin Latches \cup {"$mem_v2"},
         c.register \in {"$sdff", "$sdffe"} => DecimalReading(c.reset, c.width) = c.reset,
         NEW now, GoodStored(c, now), NEW in \in Inputs(c, now),
         NEW after \in Stored(c.register, in, c.reset, now, c.width, AllBits(c.width))
  PROVE  after.v = NextInSmt(c.register, in, c.reset, now.v, c.width)
<1>1. c.register \in Kinds
  BY NetlistFacts
<1>2. CASE c.register = "$dff"
  BY <1>2 DEF Stored, NextInSmt, Dff, DffSmt, Load, BitCells
<1>3. CASE c.register = "$dffe"
  BY <1>3 DEF Stored, NextInSmt, Dffe, DffeSmt, Load, BitCells
<1>4. CASE c.register = "$adff"
  BY <1>4 DEF Stored, NextInSmt, Adff, AdffSmt, LoadOrReset, ResetTo, Load, Signal, BitCells
<1>5. CASE c.register = "$adffe"
  BY <1>5 DEF Stored, NextInSmt, Adffe, AdffeSmt, LoadHoldOrReset, ResetTo, Load, Signal,
              BitCells
<1>6. CASE c.register = "$aldff"
  <2>1. LoadAD(in, c.width).v = in.AD.v
    BY DEF LoadAD, Load
  <2> QED
    BY <1>6, <2>1 DEF Stored, NextInSmt, Aldff, AldffSmt, Load, BitCells
<1>7. CASE c.register = "$aldffe"
  <2>1. LoadAD(in, c.width).v = in.AD.v
    BY DEF LoadAD, Load
  <2> QED
    BY <1>7, <2>1 DEF Stored, NextInSmt, Aldffe, AldffeSmt, Load, BitCells
<1>8. CASE c.register \in {"$dffsr", "$dffsre"}
  <2>1. after \in Written(now, AllWrites(c, in, AllBits(c.width)))
    BY <1>8 DEF Stored, BitCells, AllWrites
  <2> QED
    BY <1>8, <2>1, BitCellAgrees
<1>9. CASE c.register = "$sdff"
  BY <1>9 DEF Stored, NextInSmt, Sdff, SdffSmt, LoadOrReset, ResetTo, Load, Signal, BitCells
<1>10. CASE c.register = "$sdffe"
  BY <1>10 DEF Stored, NextInSmt, Sdffe, SdffeSmt, LoadHoldOrReset, ResetTo, Load, Signal,
               BitCells
<1> QED
  BY <1>1, <1>2, <1>3, <1>4, <1>5, <1>6, <1>7, <1>8, <1>9, <1>10 DEF Kinds, Latches, BitCells

(* The relation export_smt2 gives to the solver admits the value the       *)
(* exported Verilog stores at a clock edge, and no other, for words of     *)
(* every width and all clocked cells: those with a synchronous reset if    *)
(* their reset value, read in base ten, is what it is in base two.         *)
THEOREM RelationsAgree == Spec => []SmtAgreesWithSimulation
<1>1. CellsInv => SmtAgreesWithSimulation
  BY RelationAgrees DEF CellsInv, SmtAgreesWithSimulation, ResetIsReadAsMeant
<1> QED
  BY <1>1, CellsInvariant, PTL

-----------------------------------------------------------------------------
(* Gates of single bits let no other tag through.                          *)

Bits == {{}, {0}}
Ports(kind, a, b, sel) ==
  [p \in InputPorts(kind) |-> IF p = "A" THEN a ELSE IF p = "B" THEN b ELSE sel]

LEMMA OneBitValuations ==
  ASSUME NEW kind \in GateKinds, kind # "$pmux"
  PROVE  Valuations(kind, 1) = [InputPorts(kind) -> Bits]
<1>1. \A p \in InputPorts(kind) : PortValues(kind, 1, p) = Words(1)
  BY DEF PortValues, PortWidth, GateKinds, InputPorts, UnaryGates, BinaryGates
<1>2. Words(1) = Bits
  <2>1. 0 .. 1 - 1 = {0}
    OBVIOUS
  <2> QED
    BY <2>1 DEF Words, Bits
<1> QED
  BY <1>1, <1>2 DEF Valuations

(* Other values of the tagged operands that change the output are an       *)
(* influence of theirs.                                                    *)
LEMMA ChangeIsInfluence ==
  ASSUME NEW kind \in GateKinds, kind # "$pmux", NEW in \in Valuations(kind, 1), NEW t,
         NEW a \in Bits, NEW b \in Bits, NEW sel \in Bits,
         ~t.A => a = in.A,
         kind \notin UnaryGates /\ ~t.B => b = in.B,
         kind = "$mux" /\ ~t.S => sel = in.S,
         Output(kind, 1, Ports(kind, a, b, sel)) # Output(kind, 1, in)
  PROVE  Influences(kind, 1, in, t)
<1> DEFINE other == Ports(kind, a, b, sel)
<1>1. other \in Valuations(kind, 1)
  BY OneBitValuations DEF Ports
<1>2. \A p \in InputPorts(kind) : ~t[p] => other[p] = in[p]
  BY DEF Ports, InputPorts, GateKinds
<1> QED
  BY <1>1, <1>2 DEF Influences

LEMMA BinaryGateNeedsInfluence ==
  ASSUME NEW kind \in {"$and", "$or", "$logic_and", "$logic_or", "$xor"},
         NEW in \in Valuations(kind, 1), NEW t, OutputTag(kind, in, t)
  PROVE  Influences(kind, 1, in, t)
<1>1. kind \in GateKinds /\ kind # "$pmux" /\ kind # "$mux" /\ kind \notin UnaryGates
  BY DEF GateKinds, BinaryGates, UnaryGates
<1>2. in.A \in Bits /\ in.B \in Bits
  <2>1. "A" \in InputPorts(kind) /\ "B" \in InputPorts(kind)
    BY DEF InputPorts, BinaryGates, UnaryGates
  <2> QED
    BY <1>1, <2>1, OneBitValuations
<1> DEFINE Flipped(word) == IF word = {} THEN {0} ELSE {}
           Changes(a, b) == /\ ~t.A => a = in.A
                            /\ ~t.B => b = in.B
                            /\ Output(kind, 1, Ports(kind, a, b, {}))
                                 # Output(kind, 1, in)
<1>3. ASSUME NEW a \in Bits, NEW b \in Bits, Changes(a, b)
      PROVE  Influences(kind, 1, in, t)
  BY <1>1, <1>3, ChangeIsInfluence DEF Bits
<1>4. ASSUME NEW a \in Bits, NEW b \in Bits
      PROVE  Ports(kind, a, b, {}).A = a /\ Ports(kind, a, b, {}).B = b
  BY <1>1 DEF Ports, InputPorts, GateKinds, BinaryGates, UnaryGates
<1>5. Flipped(in.A) \in Bits /\ Flipped(in.B) \in Bits /\ {} \in Bits /\ {0} \in Bits
  BY DEF Bits
<1>6. {} # {0} /\ Unknown \notin Bits
  <2>1. -1 \in Unknown /\ -1 # 0
    BY DEF Unknown
  <2> QED
    BY <2>1 DEF Bits
<1>7. CASE kind \in {"$and", "$logic_and"}
  <2>1. AndTag(in, t)
    BY <1>7 DEF OutputTag, UnaryGates
  <2>2. ASSUME NEW x, x.A \in Bits, x.B \in Bits
        PROVE  Output(kind, 1, x) = IF x.A = {0} /\ x.B = {0} THEN {0} ELSE {}
    BY <1>7, <2>2 DEF Output, Flag, Bits
  <2>3. CASE t.A /\ t.B
    <3>1. CASE Output(kind, 1, in) = {0}
      <4>1. Changes({}, {})
        BY <1>4, <1>5, <1>6, <2>2, <2>3, <3>1
      <4> QED
        BY <1>3, <1>5, <4>1
    <3>2. CASE Output(kind, 1, in) # {0}
      <4>1. Changes({0}, {0})
        BY <1>4, <1>5, <1>6, <2>2, <2>3, <3>2
      <4> QED
        BY <1>3, <1>5, <4>1
    <3> QED
      BY <3>1, <3>2
  <2>4. CASE t.A /\ ~t.B
    <3>1. in.B = {0}
      BY <1>2, <2>1, <2>4 DEF AndTag, Bits
    <3>2. Changes(Flipped(in.A), in.B)
      BY <1>2, <1>4, <1>5, <1>6, <2>2, <2>4, <3>1 DEF Bits
    <3> QED
      BY <1>2, <1>3, <1>5, <3>2
  <2>5. CASE ~t.A /\ t.B
    <3>1. in.A = {0}
      BY <1>2, <2>1, <2>5 DEF AndTag, Bits
    <3>2. Changes(in.A, Flipped(in.B))
      BY <1>2, <1>4, <1>5, <1>6, <2>2, <2>5, <3>1 DEF Bits
    <3> QED
      BY <1>2, <1>3, <1>5, <3>2
  <2> QED
    BY <2>1, <2>3, <2>4, <2>5 DEF AndTag
<1>8. CASE kind \in {"$or", "$logic_or"}
  <2>1. OrTag(in, t)
    BY <1>8 DEF OutputTag, UnaryGates
  <2>2. ASSUME NEW x, x.A \in Bits, x.B \in Bits
        PROVE  Output(kind, 1, x) = IF x.A = {} /\ x.B = {} THEN {} ELSE {0}
    BY <1>8, <2>2 DEF Output, Flag, Bits
  <2>3. CASE t.A /\ t.B
    <3>1. CASE Output(kind, 1, in) = {0}
      <4>1. Changes({}, {})
        BY <1>4, <1>5, <1>6, <2>2, <2>3, <3>1
      <4> QED
        BY <1>3, <1>5, <4>1
    <3>2. CASE Output(kind, 1, in) # {0}
      <4>1. Changes({0}, {0})
        BY <1>4, <1>5, <1>6, <2>2, <2>3, <3>2
      <4> QED
        BY <1>3, <1>5, <4>1
    <3> QED
      BY <3>1, <3>2
  <2>4. CASE t.A /\ ~t.B
    <3>1. in.B = {}
      BY <2>1, <2>4 DEF OrTag
    <3>2. Changes(Flipped(in.A), in.B)
      BY <1>2, <1>4, <1>5, <1>6, <2>2, <2>4, <3>1 DEF Bits
    <3> QED
      BY <1>2, <1>3, <1>5, <3>2
  <2>5. CASE ~t.A /\ t.B
    <3>1. in.A = {}
      BY <2>1, <2>5 DEF OrTag
    <3>2. Changes(in.A, Flipped(in.B))
      BY <1>2, <1>4, <1>5, <1>6, <2>2, <2>5, <3>1 DEF Bits
    <3> QED
      BY <1>2, <1>3, <1>5, <3>2
  <2> QED
    BY <2>1, <2>3, <2>4, <2>5 DEF OrTag
<1>9. CASE kind = "$xor"
  <2>1. t.A \/ t.B
    BY <1>9 DEF OutputTag, UnionTag, UnaryGates
  <2>2. ASSUME NEW x, x.A \in Bits, x.B \in Bits
        PROVE  Output(kind, 1, x) = IF x.A = x.B THEN {} ELSE {0}
    BY <1>9, <2>2 DEF Output, Bits
  <2>3. Output(kind, 1, in) = IF in.A = in.B THEN {} ELSE {0}
    BY <1>2, <2>2
  <2>4. ASSUME NEW a \in Bits, NEW b \in Bits
        PROVE  Output(kind, 1, Ports(kind, a, b, {})) = IF a = b THEN {} ELSE {0}
    BY <1>4, <2>2
  <2>5. CASE t.A
    <3>1. Flipped(in.A) = in.B <=> in.A # in.B
      BY <1>2, <1>6 DEF Bits
    <3>2. Output(kind, 1, Ports(kind, Flipped(in.A), in.B, {}))
            = IF Flipped(in.A) = in.B THEN {} ELSE {0}
      BY <1>2, <1>5, <2>4
    <3>3. Changes(Flipped(in.A), in.B)
      BY <1>6, <2>3, <2>5, <3>1, <3>2
    <3> QED
      BY <1>2, <1>3, <1>5, <3>3
  <2>6. CASE t.B
    <3>1. in.A = Flipped(in.B) <=> in.A # in.B
      BY <1>2, <1>6 DEF Bits
    <3>2. Output(kind, 1, Ports(kind, in.A, Flipped(in.B), {}))
            = IF in.A = Flipped(in.B) THEN {} ELSE {0}
      BY <1>2, <1>5, <2>4
    <3>3. Changes(in.A, Flipped(in.B))
      BY <1>6, <2>3, <2>6, <3>1, <3>2
    <3> QED
      BY <1>2, <1>3, <1>5, <3>3
  <2> QED
    BY <2>1, <2>5, <2>6
<1> QED
  BY <1>7, <1>8, <1>9

LEMMA UnaryGateNeedsInfluence ==
  ASSUME NEW kind \in UnaryGates, NEW in \in Valuations(kind, 1), NEW t,
         OutputTag(kind, in, t)
  PROVE  Influences(kind, 1, in, t)
<1>1. kind \in GateKinds /\ kind # "$pmux" /\ kind # "$mux"
  BY DEF GateKinds, UnaryGates
<1>2. in.A \in Bits
  BY <1>1, OneBitValuations DEF InputPorts
<1>3. t.A
  BY DEF OutputTag, CopiedTag, UnaryGates
<1> DEFINE a == IF in.A = {} THEN {0} ELSE {}
<1>4. Ports(kind, a, {}, {}).A = a
  BY DEF Ports, InputPorts
<1>5. a \in Bits /\ {} \in Bits /\ a # in.A
  BY <1>2 DEF Bits
<1> HIDE DEF a
<1>6. 0 .. 1 - 1 = {0}
  OBVIOUS
<1>7. Output(kind, 1, Ports(kind, a, {}, {})) # Output(kind, 1, in)
  BY <1>2, <1>4, <1>5, <1>6 DEF Output, Flag, UnaryGates, Bits
<1> QED
  BY <1>1, <1>3, <1>5, <1>7, ChangeIsInfluence

LEMMA MuxNeedsInfluence ==
  ASSUME NEW in \in Valuations("$mux", 1), NEW t, OutputTag("$mux", in, t)
  PROVE  Influences("$mux", 1, in, t)
<1>1. "$mux" \in GateKinds /\ "$mux" \notin UnaryGates
  BY DEF GateKinds, UnaryGates
<1>2. in.A \in Bits /\ in.B \in Bits /\ in.S \in Bits
  <2>1. {"A", "B", "S"} \subseteq InputPorts("$mux")
    BY DEF InputPorts, BinaryGates, UnaryGates
  <2> QED
    BY <1>1, <2>1, OneBitValuations
<1> DEFINE Flipped(word) == IF word = {} THEN {0} ELSE {}
           Picked(a, b, sel) == IF sel # {} THEN b ELSE a
<1>3. ASSUME NEW a \in Bits, NEW b \in Bits, NEW sel \in Bits,
             ~t.A => a = in.A, ~t.B => b = in.B, ~t.S => sel = in.S,
             Picked(a, b, sel) # Picked(in.A, in.B, in.S)
      PROVE  Influences("$mux", 1, in, t)
  <2>1. /\ Ports("$mux", a, b, sel).A = a
        /\ Ports("$mux", a, b, sel).B = b
        /\ Ports("$mux", a, b, sel).S = sel
    BY DEF Ports, InputPorts, BinaryGates, UnaryGates
  <2>2. \A x : Output("$mux", 1, x) = Picked(x.A, x.B, x.S)
    BY DEF Output, MuxOutput
  <2>3. Output("$mux", 1, Ports("$mux", a, b, sel)) # Output("$mux", 1, in)
    BY <1>3, <2>1, <2>2
  <2> QED
    BY <1>1, <1>3, <2>3, ChangeIsInfluence
<1>4. \A word \in Bits : Flipped(word) \in Bits /\ Flipped(word) # word
  BY DEF Bits
<1>5. {} \in Bits /\ {0} \in Bits /\ {} # {0}
  BY DEF Bits
<1>6. MuxTag(in, t)
  BY DEF OutputTag, UnaryGates
<1>7. CASE in.S = {} /\ t.A
  BY <1>2, <1>3, <1>4, <1>7
<1>8. CASE in.S # {} /\ t.B
  BY <1>2, <1>3, <1>4, <1>8
<1>9. CASE in.S = {} /\ ~t.A /\ t.B /\ t.S
  BY <1>2, <1>3, <1>4, <1>5, <1>9
<1>10. CASE in.S # {} /\ t.A /\ ~t.B /\ t.S
  BY <1>2, <1>3, <1>4, <1>5, <1>10
<1>11. CASE t.S /\ in.A # in.B
  BY <1>2, <1>3, <1>5, <1>11
<1>12. in.A = in.B => ~(Cardinality((in.A \ in.B) \cup (in.B \ in.A)) % 2 = 1)
  <2>1. in.A = in.B => (in.A \ in.B) \cup (in.B \ in.A) = {}
    OBVIOUS
  <2>2. Cardinality({}) = 0
    BY FS_EmptySet
  <2> QED
    BY <2>1, <2>2
<1> QED
  BY <1>6, <1>7, <1>8, <1>9, <1>10, <1>11, <1>12 DEF MuxTag

(* Gates whose operands are single bits let a tag through only if the      *)
(* tagged operands can change the output: the rules are the boolean        *)
(* difference of doc/Definitions/text.tex.                                 *)
THEOREM GatesAreExact == Spec => []GateTagsAreExact
<1>1. GateTagsAreExact
  <2> SUFFICES ASSUME cell.gate \in {"$and", "$or", "$logic_and", "$logic_or", "$xor", "$not",
                                     "$reduce_or", "$mux"}
               PROVE  TagsNeedInfluence(cell.gate, 1)
    BY DEF GateTagsAreExact
  <2> QED
    BY BinaryGateNeedsInfluence, UnaryGateNeedsInfluence, MuxNeedsInfluence
       DEF TagsNeedInfluence, UnaryGates
<1> QED
  BY <1>1, PTL

=============================================================================
