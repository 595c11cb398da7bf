------------------------- MODULE TagAnalysis_proofs -------------------------
(***************************************************************************)
(* Theorems about every tag injection campaign and about the answers of    *)
(* the analysis of its dumps.                                              *)
(*                                                                         *)
(* The schedule and the lines come first. The theorems about the campaign  *)
(* follow: those of the tag files hold for all parameters, the others for  *)
(* those of DelaysFit. The analysis is last. It rests on what the campaign *)
(* says of the dumps of the inputs, and on one more fact: at the end of    *)
(* every time step the tag of the observed signal is exactly the set of    *)
(* the bits of the run's injections that influence its value then (TagAt). *)
(* Counting needs a last one, about the time step that $finish cuts off    *)
(* (EndInv).                                                               *)
(***************************************************************************)
EXTENDS TagAnalysis, Induction

-----------------------------------------------------------------------------
(* The schedule and the lines.                                             *)

(* Integer division by a positive divisor.                                 *)
LEMMA DivFacts ==
  ASSUME NEW a \in Nat, NEW b \in Nat \ {0}
  PROVE  /\ a \div b \in Nat
         /\ (a \div b) * b <= a
         /\ a < (a \div b) * b + b
         /\ a % b \in 0 .. b - 1
         /\ a = (a \div b) * b + (a % b)
  OBVIOUS

(* The quotient and remainder of a number given as such.                   *)
LEMMA DivUnique ==
  ASSUME NEW b \in Nat \ {0}, NEW q \in Nat, NEW m \in 0 .. b - 1
  PROVE  (m + q * b) \div b = q /\ (m + q * b) % b = m
  OBVIOUS

LEMMA TimesMonotone ==
  ASSUME NEW a \in Nat, NEW b \in Nat, NEW c \in Nat, a <= b
  PROVE  a * c <= b * c /\ c * a <= c * b
  OBVIOUS

(* A line of a batch has room for a tag of every port and for its delay.   *)
LEMMA ScheduleFacts ==
  /\ TimestepsPerRun \in Nat /\ TimestepsPerRun >= 2
  /\ TimestepsPerRun * NumInputs <= TagSize
  /\ ItemsPerBatch \in Nat \ {0}
  /\ NumTagTimes \in Nat \ {0}
  /\ NumberOfRuns \in Nat \ {0}
<1> USE ScheduleAssumption
<1>1. /\ TagSize \div NumInputs \in Nat
      /\ (TagSize \div NumInputs) * NumInputs <= TagSize
      /\ TagSize < (TagSize \div NumInputs) * NumInputs + NumInputs
  BY DivFacts
<1>2. TagSize \div NumInputs >= 2
  BY <1>1, SMTT(30)
<1>3. TimestepsPerRun = TagSize \div NumInputs
  BY <1>1, <1>2 DEF TimestepsPerRun
<1>4. NumTagTimes \in Nat \ {0}
  BY DivFacts DEF NumTagTimes
<1>5. Stepsize * TimestepsPerRun \in Nat \ {0}
  BY <1>1, <1>2, <1>3
<1>6. NumberOfRuns \in Nat \ {0}
  <2> DEFINE P == Stepsize * TimestepsPerRun
  <2> SUFFICES (LastTime + P - 1) \div P \in Nat \ {0}
    BY DEF NumberOfRuns
  <2>1. P \in Nat \ {0}
    BY <1>5
  <2> HIDE DEF P
  <2>2. LastTime + P - 1 \in Nat
    BY <2>1
  <2>3. /\ (LastTime + P - 1) \div P \in Nat
        /\ LastTime + P - 1 < ((LastTime + P - 1) \div P) * P + P
    BY <2>1, <2>2, DivFacts
  <2>4. (LastTime + P - 1) \div P # 0
    BY <2>1, <2>3
  <2> QED
    BY <2>3, <2>4
<1> QED
  BY <1>1, <1>2, <1>3, <1>4, <1>6 DEF ItemsPerBatch

(* Every run has time steps of its own before the end of the stimulus.     *)
LEMMA RunsStartInTime ==
  ASSUME NEW r \in Runs
  PROVE  (r * TimestepsPerRun) * Stepsize < LastTime
<1> USE ScheduleAssumption
<1> DEFINE T == TimestepsPerRun
           P == Stepsize * TimestepsPerRun
<1>1. T \in Nat /\ T >= 2 /\ NumberOfRuns \in Nat \ {0}
  BY ScheduleFacts
<1>2. r \in Nat /\ r + 1 <= NumberOfRuns
  BY <1>1 DEF Runs
<1>3. P \in Nat \ {0} /\ LastTime + P - 1 \in Nat
  BY <1>1
<1>4. NumberOfRuns * P <= LastTime + P - 1
  BY <1>3, DivFacts DEF NumberOfRuns
<1>5. r * P < LastTime
  <2>1. (r + 1) * P <= NumberOfRuns * P
    BY <1>1, <1>2, <1>3, TimesMonotone
  <2>2. (r + 1) * P = r * P + P
    BY <1>2, <1>3
  <2> HIDE DEF P
  <2> QED
    BY <2>1, <2>2, <1>1, <1>2, <1>3, <1>4
<1> QED
  BY <1>1, <1>2, <1>5

(* Every run has a batch of at least one and at most ItemsPerBatch items.   *)
LEMMA BatchFacts ==
  ASSUME NEW r \in Runs
  PROVE  /\ r \in Nat
         /\ BatchStart(r) \in Nat
         /\ BatchEnd(r) \in Nat
         /\ BatchEnd(r) <= NumTagTimes
         /\ BatchSize(r) \in 1 .. ItemsPerBatch
<1> USE ScheduleAssumption
<1> DEFINE T == TimestepsPerRun
<1>1. T \in Nat /\ T >= 2 /\ NumTagTimes \in Nat \ {0} /\ NumberOfRuns \in Nat \ {0}
  BY ScheduleFacts
<1>2. r \in Nat /\ r + 1 <= NumberOfRuns
  BY <1>1 DEF Runs
<1>3. (r * T) * Stepsize < LastTime
  BY RunsStartInTime
<1>4. r * T < NumTagTimes
  <2>1. LastTime < (LastTime \div Stepsize) * Stepsize + Stepsize
    BY DivFacts
  <2>2. LastTime \div Stepsize \in Nat
    BY DivFacts
  <2>3. SUFFICES ASSUME NumTagTimes <= r * T PROVE FALSE
    BY <1>1, <1>2
  <2>4. NumTagTimes * Stepsize <= (r * T) * Stepsize
    BY <2>3, <1>1, <1>2, TimesMonotone
  <2>5. NumTagTimes * Stepsize = (LastTime \div Stepsize) * Stepsize + Stepsize
    BY <2>2 DEF NumTagTimes
  <2> QED
    BY <2>1, <2>2, <2>4, <2>5, <1>1, <1>2, <1>3
<1>5. r * (T - 1) <= r * T
  BY <1>1, <1>2
<1>6. (r + 1) * (T - 1) = r * (T - 1) + (T - 1)
  BY <1>1, <1>2
<1>7. r * (T - 1) \in Nat
  BY <1>1, <1>2
<1> QED
  BY <1>1, <1>2, <1>4, <1>5, <1>6, <1>7
  DEF BatchStart, BatchEnd, BatchSize, ItemsPerBatch

(* The items of a batch are tag times of the stimulus, one step apart.     *)
LEMMA ItemTimeFacts ==
  ASSUME NEW r \in Runs, NEW idx \in 0 .. BatchSize(r) - 1
  PROVE  /\ ItemTime(r, idx) \in 0 .. LastTime
         /\ ItemTime(r, idx + 1) = ItemTime(r, idx) + Stepsize
<1> USE ScheduleAssumption
<1> DEFINE k == BatchStart(r) + idx
<1>1. k \in Nat /\ k <= LastTime \div Stepsize /\ LastTime \div Stepsize \in Nat
  <2>1. BatchStart(r) \in Nat /\ BatchEnd(r) \in Nat /\ BatchEnd(r) <= NumTagTimes
    BY BatchFacts
  <2>2. idx \in Nat /\ idx + 1 <= BatchEnd(r) - BatchStart(r)
    BY <2>1 DEF BatchSize
  <2>3. LastTime \div Stepsize \in Nat
    BY DivFacts
  <2> QED
    BY <2>1, <2>2, <2>3 DEF NumTagTimes
<1>2. k * Stepsize <= (LastTime \div Stepsize) * Stepsize
  BY <1>1, TimesMonotone
<1>3. (LastTime \div Stepsize) * Stepsize <= LastTime
  BY DivFacts
<1>4. k * Stepsize \in Nat /\ (LastTime \div Stepsize) * Stepsize \in Nat
  BY <1>1
<1>5. (k + 1) * Stepsize = k * Stepsize + Stepsize
  BY <1>1
<1>6. ItemTime(r, idx) = k * Stepsize
  BY DEF ItemTime, TagTime
<1>7. ItemTime(r, idx + 1) = (k + 1) * Stepsize
  BY BatchFacts DEF ItemTime, TagTime
<1> HIDE DEF k
<1> QED
  BY <1>1, <1>2, <1>3, <1>4, <1>5, <1>6, <1>7

(* A batch that has fewer items than a full one ends with the stimulus.    *)
LEMMA ShortBatchEndsLate ==
  ASSUME NEW r \in Runs, BatchSize(r) < ItemsPerBatch
  PROVE  ItemTime(r, BatchSize(r) - 1) + Stepsize > LastTime
<1> USE ScheduleAssumption
<1>1. BatchEnd(r) = NumTagTimes
  <2>1. (r + 1) * ItemsPerBatch = r * ItemsPerBatch + ItemsPerBatch
    BY BatchFacts, ScheduleFacts
  <2> QED
    BY <2>1, BatchFacts, ScheduleFacts DEF BatchSize, BatchEnd, BatchStart
<1>2. BatchStart(r) + (BatchSize(r) - 1) = LastTime \div Stepsize
  BY <1>1, BatchFacts, DivFacts DEF BatchSize, NumTagTimes
<1> QED
  BY <1>2, DivFacts DEF ItemTime, TagTime

(* The field of a port is TagSize bits wide, within the line, above the    *)
(* delay, and the fields of two ports have no bit in common.               *)
LEMMA FieldFacts ==
  ASSUME NEW p \in Ports
  PROVE  /\ PortLow(p) \in Nat
         /\ TagSize <= PortLow(p)
         /\ PortHigh(p) = PortLow(p) + TagSize - 1
         /\ PortHigh(p) < LineBits
<1> USE ScheduleAssumption
<1>1. p \in Nat /\ p + 1 <= NumInputs
  BY DEF Ports
<1>2. (p + 1) * TagSize <= NumInputs * TagSize /\ (p + 1) * TagSize = p * TagSize + TagSize
  BY <1>1, TimesMonotone
<1>3. TagSize * (NumInputs + 1) = NumInputs * TagSize + TagSize
  OBVIOUS
<1>4. TagSize * p = p * TagSize /\ p * TagSize \in Nat /\ NumInputs * TagSize \in Nat
  BY <1>1
<1> QED
  BY <1>1, <1>2, <1>3, <1>4 DEF PortLow, PortHigh, LineBits

LEMMA FieldsDisjoint ==
  ASSUME NEW p \in Ports, NEW q \in Ports, q < p
  PROVE  PortHigh(p) < PortLow(q)
<1> USE ScheduleAssumption
<1>1. p \in Nat /\ q \in Nat /\ q + 1 <= p
  BY DEF Ports
<1>2. (q + 1) * TagSize <= p * TagSize /\ (q + 1) * TagSize = q * TagSize + TagSize
  BY <1>1, TimesMonotone
<1>3. /\ TagSize * p = p * TagSize /\ p * TagSize \in Nat
      /\ TagSize * q = q * TagSize /\ q * TagSize \in Nat
      /\ TagSize * (NumInputs + 1) \in Nat
  BY <1>1
<1> QED
  BY <1>1, <1>2, <1>3 DEF PortLow, PortHigh

(* The bit that export_tags sets lies in the field of its port, and stands *)
(* there for one item and one port only.                                   *)
LEMMA TagBitFacts ==
  ASSUME NEW p \in Ports, NEW idx \in 0 .. ItemsPerBatch - 1
  PROVE  /\ TagBit(idx, p) \in Bits
         /\ BitPosition(idx, p) = PortLow(p) + TagBit(idx, p)
         /\ TagBit(idx, p) \div NumInputs = idx
         /\ TagBit(idx, p) % NumInputs = p
<1> USE ScheduleAssumption
<1>1. p \in Nat /\ p + 1 <= NumInputs /\ idx \in Nat /\ idx + 1 <= ItemsPerBatch
  BY ScheduleFacts DEF Ports
<1>2. ItemsPerBatch = TimestepsPerRun - 1
  BY DEF ItemsPerBatch
<1>3. (idx + 1) * NumInputs <= TimestepsPerRun * NumInputs
  BY <1>1, <1>2, ScheduleFacts, TimesMonotone
<1>4. (idx + 1) * NumInputs = idx * NumInputs + NumInputs /\ idx * NumInputs \in Nat
  BY <1>1
<1>5. TimestepsPerRun * NumInputs <= TagSize /\ TimestepsPerRun * NumInputs \in Nat
  BY ScheduleFacts
<1>6. TagBit(idx, p) \in Bits
  BY <1>1, <1>3, <1>4, <1>5 DEF TagBit, Bits
<1>7. BitPosition(idx, p) = PortLow(p) + TagBit(idx, p)
  <2>1. TagSize * (NumInputs + 1) = NumInputs * TagSize + TagSize
    OBVIOUS
  <2>2. TagSize * p = p * TagSize /\ p * TagSize \in Nat /\ NumInputs * TagSize \in Nat
    BY <1>1
  <2> QED
    BY <1>1, <1>4, <2>1, <2>2
    DEF BitPosition, PortLow, PortHigh, LineBits, TagBit
<1>8. p \in 0 .. NumInputs - 1
  BY <1>1
<1>9. (p + idx * NumInputs) \div NumInputs = idx /\ (p + idx * NumInputs) % NumInputs = p
  BY <1>1, <1>8, DivUnique
<1> QED
  BY <1>6, <1>7, <1>9 DEF TagBit

(* The bit of a port is in the field of no other port.                     *)
LEMMA BitInOneField ==
  ASSUME NEW p \in Ports, NEW q \in Ports, NEW idx \in 0 .. ItemsPerBatch - 1,
         PortLow(p) <= BitPosition(idx, q), BitPosition(idx, q) <= PortHigh(p)
  PROVE  q = p
<1> USE ScheduleAssumption
<1>1. /\ PortLow(q) <= BitPosition(idx, q)
      /\ BitPosition(idx, q) <= PortHigh(q)
      /\ BitPosition(idx, q) \in Nat
  BY FieldFacts, TagBitFacts DEF Bits
<1>2. /\ PortLow(p) \in Nat /\ PortHigh(p) \in Nat
      /\ PortLow(q) \in Nat /\ PortHigh(q) \in Nat
  BY FieldFacts
<1>3. CASE q < p
  BY <1>1, <1>2, <1>3, FieldsDisjoint
<1>4. CASE p < q
  BY <1>1, <1>2, <1>4, FieldsDisjoint
<1> QED
  BY <1>3, <1>4 DEF Ports

(* A tag line has the bit of a port if and only if it tags the port.       *)
LEMMA TaggedBitsExact ==
  ASSUME NEW p \in Ports, NEW idx \in 0 .. ItemsPerBatch - 1, NEW tagged \in SUBSET Ports
  PROVE  BitPosition(idx, p) \in TaggedBits(idx, tagged) <=> p \in tagged
<1>1. ASSUME NEW q \in Ports, BitPosition(idx, q) = BitPosition(idx, p)
      PROVE  q = p
  <2>1. PortLow(p) <= BitPosition(idx, p) /\ BitPosition(idx, p) <= PortHigh(p)
    BY FieldFacts, TagBitFacts, ScheduleAssumption DEF Bits
  <2> QED
    BY <2>1, <1>1, BitInOneField
<1> QED
  BY <1>1 DEF TaggedBits

(* What the generated reader slices out of a tag line for port p.          *)
LEMMA SliceOfTags ==
  ASSUME NEW p \in Ports, NEW idx \in 0 .. ItemsPerBatch - 1, NEW tagged \in SUBSET Ports
  PROVE  Slice(TaggedBits(idx, tagged), p) =
           IF p \in tagged THEN {TagBit(idx, p)} ELSE {}
<1> USE ScheduleAssumption
<1>1. /\ PortLow(p) <= BitPosition(idx, p)
      /\ BitPosition(idx, p) <= PortHigh(p)
      /\ BitPosition(idx, p) - PortLow(p) = TagBit(idx, p)
  BY FieldFacts, TagBitFacts DEF Bits
<1> DEFINE inField == {c \in TaggedBits(idx, tagged) : PortLow(p) <= c /\ c <= PortHigh(p)}
<1>2. \A c \in inField : c = BitPosition(idx, p)
  BY BitInOneField DEF TaggedBits
<1>3. CASE p \in tagged
  <2>1. inField = {BitPosition(idx, p)}
    BY <1>1, <1>2, <1>3 DEF TaggedBits
  <2> QED
    BY <2>1, <1>1, <1>3 DEF Slice
<1>4. CASE p \notin tagged
  <2>1. inField = {}
    BY <1>2, <1>4, TaggedBitsExact
  <2> QED
    BY <2>1, <1>4 DEF Slice
<1> QED
  BY <1>3, <1>4

(* A delay that fits its field arrives as it is and sets no port's bits.   *)
LEMMA NewLineThatFits ==
  ASSUME NEW value \in Nat, value < DelayRange
  PROVE  NewLine(value) = [delay |-> value, bits |-> {}]
<1>1. DelayRange \in Nat \ {0}
  BY ScheduleAssumption DEF DelayRange
<1>2. value \div DelayRange = 0 /\ value % DelayRange = value
  BY <1>1
<1>3. BinaryOnes(0) = {}
  BY DEF BinaryOnes
<1> QED
  BY <1>2, <1>3 DEF NewLine

(* Any line, with a delay that fits or not, keeps within its bits.         *)
LEMMA NewLineType ==
  ASSUME NEW value \in Nat
  PROVE  NewLine(value) \in [delay : Nat, bits : SUBSET (TagSize .. LineBits - 1)]
<1> USE ScheduleAssumption
<1>1. DelayRange \in Nat \ {0}
  BY DEF DelayRange
<1>2. value % DelayRange \in Nat
  BY <1>1, DivFacts
<1>3. value \div DelayRange \in Nat
  BY <1>1, DivFacts
<1>4. BinaryOnes(value \div DelayRange) \subseteq Nat
  BY <1>3 DEF BinaryOnes
<1>5. LineBits \in Nat
  BY DEF LineBits
<1> QED
  BY <1>2, <1>4, <1>5 DEF NewLine

(* Two items of a batch are at least a step apart.                         *)
LEMMA ItemTimesApart ==
  ASSUME NEW r \in Runs, NEW i \in 0 .. BatchSize(r) - 1, NEW j \in 0 .. BatchSize(r) - 1,
         i < j
  PROVE  ItemTime(r, i) + Stepsize <= ItemTime(r, j)
<1> USE ScheduleAssumption
<1> DEFINE k == BatchStart(r) + i
           m == BatchStart(r) + j
<1>1. k \in Nat /\ m \in Nat /\ k + 1 <= m
  BY BatchFacts, ScheduleFacts
<1>2. (k + 1) * Stepsize <= m * Stepsize /\ (k + 1) * Stepsize = k * Stepsize + Stepsize
  BY <1>1, TimesMonotone
<1> QED
  BY <1>2 DEF ItemTime, TagTime

(* An item time occurs in one batch only.                                  *)
LEMMA ItemTimeUnique ==
  ASSUME NEW r \in Runs, NEW i \in 0 .. BatchSize(r) - 1,
         NEW s \in Runs, NEW j \in 0 .. BatchSize(s) - 1,
         ItemTime(r, i) = ItemTime(s, j)
  PROVE  r = s /\ i = j
<1> USE ScheduleAssumption
<1> DEFINE k == BatchStart(r) + i
           m == BatchStart(s) + j
<1>1. k \in Nat /\ m \in Nat
  BY BatchFacts, ScheduleFacts
<1>2. k * Stepsize = m * Stepsize
  BY DEF ItemTime, TagTime
<1>3. k = m
  <2>1. (0 + k * Stepsize) \div Stepsize = k
    BY <1>1, DivUnique
  <2>2. (0 + m * Stepsize) \div Stepsize = m
    BY <1>1, DivUnique
  <2>3. k * Stepsize \in Nat /\ m * Stepsize \in Nat
    BY <1>1
  <2> HIDE DEF k, m
  <2> QED
    BY <2>1, <2>2, <2>3, <1>2
<1>4. /\ ItemsPerBatch \in Nat \ {0} /\ r \in Nat /\ s \in Nat
      /\ i \in 0 .. ItemsPerBatch - 1 /\ j \in 0 .. ItemsPerBatch - 1
  BY BatchFacts, ScheduleFacts
<1>5. i + r * ItemsPerBatch = j + s * ItemsPerBatch
  BY <1>3, <1>4 DEF BatchStart
<1>6. (i + r * ItemsPerBatch) \div ItemsPerBatch = r /\ (i + r * ItemsPerBatch) % ItemsPerBatch = i
  BY <1>4, DivUnique
<1>7. (j + s * ItemsPerBatch) \div ItemsPerBatch = s /\ (j + s * ItemsPerBatch) % ItemsPerBatch = j
  BY <1>4, DivUnique
<1> QED
  BY <1>5, <1>6, <1>7

-----------------------------------------------------------------------------
(* The tag files.                                                          *)

LEMMA DeltaFacts ==
  ASSUME NEW r \in Runs, NEW idx \in 0 .. BatchSize(r) - 1
  PROVE  Delta(r, idx) \in {0, Stepsize}
<1>1. BatchSize(r) \in Nat
  BY BatchFacts, ScheduleFacts
<1>2. CASE idx < BatchSize(r) - 1
  BY <1>1, <1>2, ItemTimeFacts, ScheduleAssumption DEF Delta
<1>3. CASE ~(idx < BatchSize(r) - 1) /\ idx > 0
  <2>1. idx - 1 \in 0 .. BatchSize(r) - 1
    BY <1>1, <1>3
  <2>2. ItemTime(r, idx - 1) \in Nat /\ ItemTime(r, (idx - 1) + 1) = ItemTime(r, idx - 1) + Stepsize
    BY <2>1, ItemTimeFacts, ScheduleAssumption
  <2>3. (idx - 1) + 1 = idx
    BY <1>1
  <2> QED
    BY <1>3, <2>2, <2>3, ScheduleAssumption DEF Delta
<1>4. CASE ~(idx < BatchSize(r) - 1) /\ ~(idx > 0)
  BY <1>4 DEF Delta
<1> QED
  BY <1>2, <1>3, <1>4

LEMMA TagLineType ==
  ASSUME NEW r \in Runs, NEW idx \in 0 .. BatchSize(r) - 1, NEW tagged \in SUBSET Ports
  PROVE  TagLine(r, idx, tagged) \in Lines
<1>1. Hold(r, idx) \in Nat
  BY DeltaFacts, ScheduleAssumption, InjectionAssumption DEF Hold
<1>2. NewLine(Hold(r, idx)) \in Lines
  BY <1>1, NewLineType DEF Lines
<1>3. idx \in 0 .. ItemsPerBatch - 1
  BY BatchFacts, ScheduleFacts
<1>4. ASSUME NEW p \in Ports
      PROVE  BitPosition(idx, p) \in TagSize .. LineBits - 1
  <2>1. TagBit(idx, p) \in 0 .. TagSize - 1 /\ BitPosition(idx, p) = PortLow(p) + TagBit(idx, p)
    BY <1>3, TagBitFacts DEF Bits
  <2>2. LineBits \in Nat
    BY ScheduleAssumption DEF LineBits
  <2> QED
    BY <2>1, <2>2, FieldFacts, ScheduleAssumption
<1>5. TaggedBits(idx, tagged) \subseteq TagSize .. LineBits - 1
  BY <1>4 DEF TaggedBits
<1> QED
  BY <1>2, <1>5 DEF TagLine, Lines

(* A tag file is a prefix of: the line with the initial delay, then one     *)
(* line for each item of the batch.                                        *)
IsFileOf(r, file) ==
  /\ Len(file) <= BatchSize(r) + 1
  /\ Len(file) >= 1 => file[1] = NewLine(ItemTime(r, 0))
  /\ \A i \in 2 .. Len(file) :
       \E tagged \in SUBSET Ports : file[i] = TagLine(r, i - 2, tagged)

(* The files are written in order and none is simulated before all of them *)
(* are complete.                                                           *)
FilesInv ==
  /\ \A r \in Runs : IsFileOf(r, files[r])
  /\ \A r \in Runs : stage # "export" \/ r < run => Len(files[r]) = BatchSize(r) + 1

FileInv == TypeOK /\ FilesInv

LEMMA FileInvInit == Init => FileInv
<1> SUFFICES ASSUME Init PROVE FileInv
  OBVIOUS
<1>1. Runs = 0 .. NumberOfRuns - 1 /\ 0 \in Runs /\ NumLines \in Nat
  BY ScheduleFacts DEF Runs, NumLines
<1>2. TypeOK
  BY <1>1, ScheduleAssumption DEF Init, TypeOK, NoTags, TagValues
<1>3. FilesInv
  <2>1. ASSUME NEW r \in Runs
        PROVE  files[r] = <<>> /\ BatchSize(r) \in Nat
    <3>1. files[r] = <<>>
      BY <2>1 DEF Init
    <3>2. BatchSize(r) \in 1 .. ItemsPerBatch
      BY <2>1, BatchFacts
    <3> QED
      BY <3>1, <3>2
  <2>2. stage = "export" /\ run = 0
    BY DEF Init
  <2>3. ASSUME NEW r \in Runs
        PROVE  r \in Nat /\ ~(r < 0)
    BY <1>1, <2>3
  <2> QED
    BY <2>1, <2>2, <2>3 DEF FilesInv, IsFileOf
<1> QED
  BY <1>2, <1>3 DEF FileInv

(* Starting the simulator on a complete file.                              *)
LEMMA StartSimulationType ==
  ASSUME FileInv, NEW r \in Runs, files[r] # <<>>, StartSimulation(r)
  PROVE  /\ run' \in Runs /\ now' \in 0 .. LastTime /\ tags' \in [Ports -> TagValues]
         /\ line' \in 0 .. NumLines /\ wake' \in Nat
<1>1. files[r][1] \in Lines
  BY DEF FileInv, TypeOK
<1> QED
  BY <1>1, ScheduleFacts, ScheduleAssumption
  DEF StartSimulation, Lines, NoTags, TagValues, NumLines

(* Writing a line to the current file leaves the other files alone.        *)
LEMMA WriteKeepsFilesInv ==
  ASSUME FilesInv, TypeOK, stage = "export", UNCHANGED <<stage, run>>,
         NEW new, IsFileOf(run, new), files' = [files EXCEPT ![run] = new]
  PROVE  FilesInv'
<1>1. run \in Runs /\ Runs \subseteq Nat /\ run' = run /\ stage' = "export"
  BY ScheduleFacts DEF TypeOK, Runs
<1>2. \A r \in Runs : files'[r] = IF r = run THEN new ELSE files[r]
  BY DEF TypeOK
<1>3. ASSUME NEW r \in Runs
      PROVE  IsFileOf(r, files'[r])
  BY <1>2 DEF FilesInv
<1>4. ASSUME NEW r \in Runs, r < run
      PROVE  Len(files'[r]) = BatchSize(r) + 1
  BY <1>1, <1>2, <1>4 DEF FilesInv
<1> QED
  BY <1>1, <1>3, <1>4 DEF FilesInv, IsFileOf

LEMMA FileInvExport == FileInv /\ Export => FileInv'
<1> SUFFICES ASSUME FileInv, Export PROVE FileInv'
  OBVIOUS
<1> USE DEF FileInv
<1>1. /\ run \in Runs /\ files \in [Runs -> Seq(Lines)]
      /\ BatchSize(run) \in 1 .. ItemsPerBatch /\ ItemsPerBatch \in Nat
  BY BatchFacts, ScheduleFacts DEF TypeOK
<1>2. CASE ExportDelayLine
  <2>1. ItemTime(run, 0) \in Nat
    BY <1>1, ItemTimeFacts, ScheduleAssumption
  <2>2. NewLine(ItemTime(run, 0)) \in Lines
    BY <2>1, NewLineType DEF Lines
  <2> DEFINE new == <<NewLine(ItemTime(run, 0))>>
  <2>3. new \in Seq(Lines) /\ Len(new) = 1 /\ new[1] = NewLine(ItemTime(run, 0))
    BY <2>2
  <2> HIDE DEF new
  <2>4. files' = [files EXCEPT ![run] = new]
    BY <1>2 DEF ExportDelayLine, new
  <2>5. IsFileOf(run, new)
    BY <1>1, <2>3 DEF IsFileOf
  <2>6. TypeOK'
    BY <1>1, <1>2, <2>3, <2>4 DEF TypeOK, ExportDelayLine, simVars
  <2>7. FilesInv'
    BY <1>2, <2>4, <2>5, WriteKeepsFilesInv DEF ExportDelayLine
  <2> QED
    BY <2>6, <2>7
<1>3. ASSUME NEW tagged \in TagChoices, ExportTagLine(tagged)
      PROVE  FileInv'
  <2> DEFINE old == files[run]
             new == Append(old, TagLine(run, Len(old) - 1, tagged))
  <2>1. old \in Seq(Lines) /\ Len(old) \in 1 .. BatchSize(run)
    BY <1>1, <1>3 DEF ExportTagLine
  <2>2. tagged \in SUBSET Ports
    BY <1>3 DEF TagChoices
  <2>3. TagLine(run, Len(old) - 1, tagged) \in Lines
    BY <1>1, <2>1, <2>2, TagLineType
  <2>4. /\ new \in Seq(Lines) /\ Len(new) = Len(old) + 1
        /\ \A i \in 1 .. Len(old) : new[i] = old[i]
        /\ new[Len(old) + 1] = TagLine(run, Len(old) - 1, tagged)
    BY <2>1, <2>3
  <2>5. files' = [files EXCEPT ![run] = new]
    BY <1>1, <1>3 DEF ExportTagLine
  <2>6. IsFileOf(run, old)
    BY <1>1 DEF FilesInv
  <2> HIDE DEF new, old
  <2>7. IsFileOf(run, new)
    <3>1. \A i \in 2 .. Len(new) : \E t \in SUBSET Ports : new[i] = TagLine(run, i - 2, t)
      <4> SUFFICES ASSUME NEW i \in 2 .. Len(new)
                   PROVE  \E t \in SUBSET Ports : new[i] = TagLine(run, i - 2, t)
        OBVIOUS
      <4>1. CASE i <= Len(old)
        BY <4>1, <2>1, <2>4, <2>6 DEF IsFileOf
      <4>2. CASE i = Len(old) + 1
        <5>1. i - 2 = Len(old) - 1
          BY <4>2, <2>1, <1>1
        <5> QED
          BY <4>2, <5>1, <2>2, <2>4
      <4> QED
        BY <4>1, <4>2, <2>1, <2>4, <1>1
    <3> QED
      BY <3>1, <1>1, <2>1, <2>4, <2>6 DEF IsFileOf
  <2>8. TypeOK'
    BY <1>1, <1>3, <2>4, <2>5 DEF TypeOK, ExportTagLine, simVars
  <2>9. FilesInv'
    BY <1>3, <2>5, <2>7, WriteKeepsFilesInv DEF ExportTagLine
  <2> QED
    BY <2>8, <2>9
<1>4. CASE NextFile
  <2>1. stage = "export" /\ Len(files[run]) = BatchSize(run) + 1 /\ files' = files /\ dump' = dump
    BY <1>4 DEF NextFile
  <2>2. \A r \in Runs : r <= run => Len(files[r]) = BatchSize(r) + 1
    BY <1>1, <2>1, ScheduleFacts DEF FilesInv, Runs
  <2>3. CASE run + 1 \in Runs
    <3>1. run' = run + 1 /\ stage' = stage /\ UNCHANGED simVars
      BY <1>4, <2>3 DEF NextFile
    <3>2. TypeOK'
      BY <2>1, <2>3, <3>1 DEF TypeOK, simVars
    <3>3. FilesInv'
      BY <1>1, <2>1, <2>2, <3>1, ScheduleFacts DEF FilesInv, Runs, IsFileOf
    <3> QED
      BY <3>2, <3>3
  <2>4. CASE run + 1 \notin Runs
    <3>1. stage' = "simulate" /\ StartSimulation(0)
      BY <1>4, <2>4 DEF NextFile
    <3>2. \A r \in Runs : Len(files[r]) = BatchSize(r) + 1
      BY <1>1, <2>2, <2>4, ScheduleFacts DEF Runs
    <3>3. 0 \in Runs /\ files[0] # <<>>
      <4>1. 0 \in Runs
        BY ScheduleFacts DEF Runs
      <4>2. Len(files[0]) # 0
        BY <4>1, <3>2, BatchFacts, ScheduleFacts
      <4> QED
        BY <4>1, <4>2
    <3>4. TypeOK'
      BY <2>1, <3>1, <3>3, StartSimulationType DEF TypeOK
    <3>5. FilesInv'
      BY <2>1, <3>1, <3>2 DEF FilesInv, IsFileOf
    <3> QED
      BY <3>4, <3>5
  <2> QED
    BY <2>3, <2>4
<1> QED
  BY <1>2, <1>3, <1>4 DEF Export

(* What the reader slices into a tag register is a set of tag bits.        *)
LEMMA SliceType ==
  ASSUME NEW p \in Ports, NEW bits \in SUBSET (TagSize .. LineBits - 1)
  PROVE  Slice(bits, p) \in SUBSET Bits
<1>1. PortLow(p) \in Nat /\ PortHigh(p) = PortLow(p) + TagSize - 1
  BY FieldFacts
<1>2. ASSUME NEW b \in bits, PortLow(p) <= b, b <= PortHigh(p)
      PROVE  b - PortLow(p) \in Bits
  <2>1. b \in Int
    BY ScheduleAssumption DEF LineBits
  <2> QED
    BY <1>1, <1>2, <2>1, ScheduleAssumption DEF Bits
<1> QED
  BY <1>2 DEF Slice

LEMMA FileInvReader == FileInv /\ Reader => FileInv'
<1> SUFFICES ASSUME FileInv, Reader PROVE FileInv'
  OBVIOUS
<1> USE DEF FileInv
<1>1. UNCHANGED <<stage, run, files, now, dump>>
  BY DEF Reader, ReadLine, EndReader
<1>2. FilesInv'
  BY <1>1 DEF FilesInv, IsFileOf
<1>3. /\ line \in 0 .. NumLines /\ NumLines \in Nat /\ now \in Nat /\ run \in Runs
      /\ files[run] \in Seq(Lines)
  BY ScheduleFacts, ScheduleAssumption DEF TypeOK, NumLines
<1>4. CASE ReadLine
  <2>1. tags' \in [Ports -> TagValues] /\ DelayOfLine(line + 1) \in Nat
    <3>1. CASE line + 1 < Len(files[run])
      <4>1. files[run][line + 1 + 1] \in Lines
        BY <1>3, <3>1
      <4> QED
        BY <1>3, <1>4, <3>1, <4>1, SliceType
        DEF ReadLine, TagsOfLine, DelayOfLine, TagValues, Lines
    <3>2. CASE ~(line + 1 < Len(files[run]))
      BY <1>4, <3>2 DEF ReadLine, TagsOfLine, DelayOfLine, TagValues
    <3> QED
      BY <3>1, <3>2
  <2>2. line' \in 0 .. NumLines /\ wake' \in Nat
    BY <1>3, <1>4, <2>1 DEF ReadLine
  <2> QED
    BY <1>1, <1>2, <2>1, <2>2 DEF TypeOK
<1>5. CASE EndReader
  <2>1. tags' = NoTags /\ line' = NumLines /\ wake' = wake
    BY <1>5 DEF EndReader
  <2> QED
    BY <1>1, <1>2, <1>3, <2>1 DEF TypeOK, NoTags, TagValues
<1> QED
  BY <1>4, <1>5 DEF Reader

LEMMA SampleType ==
  TypeOK => Sample \in [Runs -> [Ports -> SUBSET [time : 0 .. LastTime, value : TagValues]]]
<1> SUFFICES ASSUME TypeOK
             PROVE  Sample \in [Runs -> [Ports -> SUBSET [time : 0 .. LastTime, value : TagValues]]]
  OBVIOUS
<1>1. ASSUME NEW p \in Ports
      PROVE  Record(dump[run][p], now, tags[p]) \in SUBSET [time : 0 .. LastTime, value : TagValues]
  <2>1. /\ dump[run][p] \in SUBSET [time : 0 .. LastTime, value : TagValues]
        /\ [time |-> now, value |-> tags[p]] \in [time : 0 .. LastTime, value : TagValues]
    BY DEF TypeOK
  <2> QED
    BY <2>1 DEF Record
<1> QED
  BY <1>1 DEF TypeOK, Sample

LEMMA FileInvSimulator ==
  FileInv /\ (Tick \/ \E flushed \in BOOLEAN : Finish(flushed)) => FileInv'
<1> SUFFICES ASSUME FileInv, Tick \/ \E flushed \in BOOLEAN : Finish(flushed)
             PROVE  FileInv'
  OBVIOUS
<1> USE DEF FileInv
<1>1. CASE Tick
  <2>1. FilesInv'
    BY <1>1 DEF Tick, FilesInv, IsFileOf
  <2>2. now' \in 0 .. LastTime
    BY <1>1, ScheduleAssumption DEF Tick, TypeOK
  <2>3. dump' \in [Runs -> [Ports -> SUBSET [time : 0 .. LastTime, value : TagValues]]]
    BY <1>1, SampleType DEF Tick
  <2> QED
    BY <1>1, <2>1, <2>2, <2>3 DEF Tick, TypeOK
<1>2. ASSUME NEW flushed \in BOOLEAN, Finish(flushed)
      PROVE  FileInv'
  <2>1. dump' \in [Runs -> [Ports -> SUBSET [time : 0 .. LastTime, value : TagValues]]]
    BY <1>2, SampleType DEF Finish, TypeOK
  <2>2. stage = "simulate" /\ files' = files /\ stage' # "export"
    BY <1>2 DEF Finish
  <2>3. FilesInv'
    BY <2>2 DEF FilesInv, IsFileOf
  <2>4. CASE run + 1 \in Runs
    <3>1. StartSimulation(run + 1) /\ stage' = stage
      BY <1>2, <2>4 DEF Finish
    <3>2. files[run + 1] # <<>>
      <4>1. Len(files[run + 1]) # 0
        BY <2>2, <2>4, BatchFacts, ScheduleFacts DEF FilesInv
      <4> QED
        BY <4>1
    <3> QED
      BY <2>1, <2>2, <2>3, <2>4, <3>1, <3>2, StartSimulationType DEF TypeOK
  <2>5. CASE run + 1 \notin Runs
    BY <1>2, <2>1, <2>2, <2>3, <2>5 DEF Finish, TypeOK, simVars
  <2> QED
    BY <2>4, <2>5
<1> QED
  BY <1>1, <1>2

LEMMA FileInvStep == FileInv /\ [Next]_vars => FileInv'
<1> SUFFICES ASSUME FileInv, [Next]_vars PROVE FileInv'
  OBVIOUS
<1>1. CASE UNCHANGED vars
  BY <1>1 DEF FileInv, TypeOK, FilesInv, IsFileOf, vars
<1> QED
  BY <1>1, FileInvExport, FileInvReader, FileInvSimulator DEF Next, Over

(* At every moment of write_tags each file has the lines of its batch that *)
(* have been written so far, for all parameters.                           *)
THEOREM FilesInvariant == Spec => []FileInv
  BY FileInvInit, FileInvStep, PTL DEF Spec

(* Every register, file and dump keeps its type; a bit that export_tags     *)
(* sets is inside its line and above the delay, whatever the parameters.   *)
THEOREM TypeCorrect == Spec => []TypeOK
<1>1. FileInv => TypeOK
  BY DEF FileInv
<1> QED
  BY <1>1, FilesInvariant, PTL

-----------------------------------------------------------------------------
(* The simulation, for parameters of DelaysFit.                            *)

(* The tag that the file of run r puts on port p for item idx              *)
Injected(r, idx, p) == IF Exported(r, idx, p) THEN {TagBit(idx, p)} ELSE {}

(* Where the reader is in time: before the first item, within the step of  *)
(* the item whose tags it holds, or past the last item.                    *)
ReaderInv ==
  stage = "simulate" =>
    \/ /\ line = 0
       /\ tags = NoTags
       /\ now <= wake
       /\ wake = ItemTime(run, 0)
    \/ /\ line \in 1 .. BatchSize(run)
       /\ \A p \in Ports : tags[p] = Injected(run, line - 1, p)
       /\ ItemTime(run, line - 1) <= now
       /\ now <= wake
       /\ wake = ItemTime(run, line - 1) + Stepsize
    \/ /\ line = NumLines
       /\ tags = NoTags
       /\ ItemTime(run, BatchSize(run) - 1) + Stepsize <= now

(* A dump entry is an untagged port or one scheduled tag at its time.      *)
ScheduledEntry(r, p, e) ==
  \/ e.value = {}
  \/ \E idx \in 0 .. BatchSize(r) - 1 :
       e.value = {TagBit(idx, p)} /\ e.time = ItemTime(r, idx)

EntriesOK(r, p, changes) ==
  /\ \A e \in changes : ScheduledEntry(r, p, e)
  /\ \A e, f \in changes : e.time = f.time => e = f
  /\ changes = {} \/ LastEntry(changes) \in changes
  /\ \A e, f \in changes : e.value # {} /\ e.time < f.time => e.time + Stepsize <= f.time

EntriesInv == \A r \in Runs, p \in Ports : EntriesOK(r, p, dump[r][p])

(* The dump of the current run ends before now, later ones are empty, and  *)
(* once a step of an item has begun its tags are the last thing dumped.    *)
ProgressInv ==
  /\ \A r \in Runs, p \in Ports :
       stage = "export" \/ (stage = "simulate" /\ run < r) => dump[r][p] = {}
  /\ stage = "simulate" => \A p \in Ports :
       /\ \A e \in dump[run][p] : e.time < now
       /\ line \in 1 .. BatchSize(run) /\ ItemTime(run, line - 1) < now =>
            dump[run][p] # {} /\ LastEntry(dump[run][p]).value = tags[p]

(* The items whose time the dump of run r includes                         *)
Past(r, t) ==
  \/ stage = "done" /\ t < LastTime
  \/ stage = "simulate" /\ r < run /\ t < LastTime
  \/ stage = "simulate" /\ r = run /\ t < now

CoverageInv ==
  \A r \in Runs, p \in Ports : \A idx \in 0 .. BatchSize(r) - 1 :
    Exported(r, idx, p) /\ Past(r, ItemTime(r, idx)) =>
      [time |-> ItemTime(r, idx), value |-> {TagBit(idx, p)}] \in dump[r][p]

CampaignInv == FileInv /\ ReaderInv /\ EntriesInv /\ ProgressInv /\ CoverageInv

LEMMA FirstLine ==
  ASSUME DelaysFit, FilesInv, NEW r \in Runs, files[r] # <<>>, TypeOK
  PROVE  files[r][1].delay = ItemTime(r, 0)
<1>1. Len(files[r]) >= 1
  BY DEF TypeOK
<1>2. files[r][1] = NewLine(ItemTime(r, 0))
  BY <1>1 DEF FilesInv, IsFileOf
<1>3. ItemTime(r, 0) \in Nat /\ ItemTime(r, 0) < DelayRange
  BY ItemTimeFacts, BatchFacts, ScheduleFacts, ScheduleAssumption DEF DelaysFit, DelayRange
<1> QED
  BY <1>2, <1>3, NewLineThatFits

(* The lines of a complete file hold each tag for exactly one step.        *)
LEMMA CompleteFile ==
  ASSUME DelaysFit, FileInv, stage # "export",
         NEW r \in Runs, NEW idx \in 0 .. BatchSize(r) - 1
  PROVE  /\ Len(files[r]) = BatchSize(r) + 1
         /\ files[r][idx + 2].delay = Stepsize
         /\ \A p \in Ports : Slice(files[r][idx + 2].bits, p) = Injected(r, idx, p)
<1> USE ScheduleAssumption
<1>1. Len(files[r]) = BatchSize(r) + 1 /\ BatchSize(r) \in 1 .. ItemsPerBatch
      /\ ItemsPerBatch \in Nat
  BY BatchFacts, ScheduleFacts DEF FileInv, FilesInv
<1>2. PICK tagged \in SUBSET Ports : files[r][idx + 2] = TagLine(r, idx, tagged)
  <2>1. idx + 2 \in 2 .. Len(files[r]) /\ (idx + 2) - 2 = idx
    BY <1>1
  <2> QED
    BY <2>1 DEF FileInv, FilesInv, IsFileOf
<1>3. Hold(r, idx) = Stepsize
  BY DeltaFacts DEF Hold, DelaysFit
<1>4. NewLine(Hold(r, idx)) = [delay |-> Stepsize, bits |-> {}]
  BY <1>3, NewLineThatFits DEF DelaysFit
<1>5. /\ files[r][idx + 2].delay = Stepsize
      /\ files[r][idx + 2].bits = TaggedBits(idx, tagged)
  BY <1>2, <1>4 DEF TagLine
<1>6. idx \in 0 .. ItemsPerBatch - 1
  BY <1>1
<1>7. ASSUME NEW p \in Ports
      PROVE  Slice(files[r][idx + 2].bits, p) = Injected(r, idx, p)
  <2>1. Slice(files[r][idx + 2].bits, p) = IF p \in tagged THEN {TagBit(idx, p)} ELSE {}
    BY <1>5, <1>6, SliceOfTags
  <2>2. Exported(r, idx, p) <=> BitPosition(idx, p) \in TaggedBits(idx, tagged)
    BY <1>1, <1>5 DEF Exported
  <2>3. BitPosition(idx, p) \in TaggedBits(idx, tagged) <=> p \in tagged
    BY <1>6, TaggedBitsExact
  <2> QED
    BY <2>1, <2>2, <2>3 DEF Injected
<1> QED
  BY <1>1, <1>5, <1>7

(* What happens to the dump of one signal at the end of a time step.       *)
LEMMA RecordFacts ==
  ASSUME NEW changes, NEW t \in Nat, NEW value, NEW new, new = Record(changes, t, value),
         \A e \in changes : e.time \in Nat /\ e.time < t,
         changes = {} \/ LastEntry(changes) \in changes
  PROVE  /\ changes \subseteq new
         /\ \A e \in new : e \in changes \/ (/\ e = [time |-> t, value |-> value]
                                             /\ changes = {} \/ LastEntry(changes).value # value)
         /\ changes = {} \/ LastEntry(changes).value # value =>
              [time |-> t, value |-> value] \in new
         /\ new # {}
         /\ LastEntry(new) \in new
         /\ LastEntry(new).value = value
<1> DEFINE entry == [time |-> t, value |-> value]
<1>1. CASE changes = {} \/ LastEntry(changes).value # value
  <2>1. new = changes \cup {entry}
    BY <1>1 DEF Record
  <2>2. \A f \in new : f.time <= entry.time
    BY <2>1
  <2>3. \A e \in new : (\A f \in new : f.time <= e.time) => e = entry
    <3> SUFFICES ASSUME NEW e \in new, \A f \in new : f.time <= e.time, e # entry
                 PROVE  FALSE
      OBVIOUS
    <3>1. e \in changes /\ entry \in new
      BY <2>1
    <3>2. e.time \in Nat /\ e.time < t /\ entry.time = t
      BY <3>1
    <3>3. entry.time <= e.time
      BY <3>1
    <3> QED
      BY <3>2, <3>3
  <2>4. LastEntry(new) = entry
    BY <2>1, <2>2, <2>3 DEF LastEntry
  <2> QED
    BY <1>1, <2>1, <2>4
<1>2. CASE ~(changes = {} \/ LastEntry(changes).value # value)
  BY <1>2 DEF Record
<1> QED
  BY <1>1, <1>2

LEMMA CampaignInvInit == Init => CampaignInv
<1> SUFFICES ASSUME Init PROVE CampaignInv
  OBVIOUS
<1>1. FileInv
  BY FileInvInit
<1>2. stage = "export" /\ \A r \in Runs, p \in Ports : dump[r][p] = {}
  BY DEF Init
<1> QED
  BY <1>1, <1>2
  DEF CampaignInv, ReaderInv, EntriesInv, EntriesOK, ProgressInv, CoverageInv, Past

LEMMA StartSimulationReader ==
  ASSUME DelaysFit, FileInv, NEW r \in Runs, files[r] # <<>>, StartSimulation(r)
  PROVE  ReaderInv' /\ now' = 0 /\ line' = 0 /\ run' = r
<1>1. wake' = ItemTime(r, 0) /\ run' = r
  BY FirstLine DEF StartSimulation, FileInv
<1>2. ItemTime(r, 0) \in Nat
  <2>1. 0 \in 0 .. BatchSize(r) - 1
    BY BatchFacts, ScheduleFacts
  <2>2. ItemTime(r, 0) \in 0 .. LastTime
    BY <2>1, ItemTimeFacts
  <2> QED
    BY <2>2, ScheduleAssumption
<1>3. line' = 0 /\ tags' = NoTags /\ now' = 0
  BY DEF StartSimulation
<1> QED
  BY <1>1, <1>2, <1>3 DEF ReaderInv

LEMMA CampaignInvExport == DelaysFit /\ CampaignInv /\ Export => CampaignInv'
<1> SUFFICES ASSUME DelaysFit, CampaignInv, Export PROVE CampaignInv'
  OBVIOUS
<1> USE DEF CampaignInv
<1>1. FileInv'
  BY FileInvExport
<1>2. stage = "export" /\ dump' = dump
  BY DEF Export, ExportDelayLine, ExportTagLine, NextFile
<1>3. EntriesInv'
  BY <1>2 DEF EntriesInv, EntriesOK
<1>4. \A r \in Runs, p \in Ports : dump'[r][p] = {}
  BY <1>2 DEF ProgressInv
<1>5. CASE stage' = "export"
  BY <1>1, <1>3, <1>4, <1>5 DEF ReaderInv, ProgressInv, CoverageInv, Past
<1>6. CASE stage' # "export"
  <2>1. stage' = "simulate" /\ StartSimulation(0) /\ files' = files
    BY <1>2, <1>6 DEF Export, ExportDelayLine, ExportTagLine, NextFile
  <2>2. 0 \in Runs
    BY ScheduleFacts DEF Runs
  <2>3. files[0] # <<>>
    <3>1. Len(files'[0]) = BatchSize(0) + 1
      BY <1>1, <2>1, <2>2 DEF FileInv, FilesInv
    <3> QED
      BY <2>1, <2>2, <3>1, BatchFacts, ScheduleFacts
  <2>4. ReaderInv' /\ now' = 0 /\ line' = 0 /\ run' = 0
    BY <2>1, <2>2, <2>3, StartSimulationReader
  <2>5. ProgressInv'
    BY <1>4, <2>1, <2>2, <2>4 DEF ProgressInv
  <2>6. CoverageInv'
    <3>1. ASSUME NEW r \in Runs, NEW idx \in 0 .. BatchSize(r) - 1
          PROVE  ~Past(r, ItemTime(r, idx))'
      <4>1. ItemTime(r, idx) \in Nat /\ r \in Nat
        BY ItemTimeFacts, ScheduleAssumption, BatchFacts
      <4> QED
        BY <4>1, <2>1, <2>4 DEF Past
    <3> QED
      BY <3>1 DEF CoverageInv
  <2> QED
    BY <1>1, <1>3, <2>4, <2>5, <2>6
<1> QED
  BY <1>5, <1>6

(* The reader moves on only when a step is over, and after the last item   *)
(* of the file only when the loop is over or the stimulus is.              *)
LEMMA CampaignInvReader == DelaysFit /\ CampaignInv /\ Reader => CampaignInv'
<1> SUFFICES ASSUME DelaysFit, CampaignInv, Reader PROVE CampaignInv'
  OBVIOUS
<1> USE DEF CampaignInv
<1> DEFINE B == BatchSize(run)
<1>1. UNCHANGED <<stage, run, files, now, dump>> /\ ReaderDue
  BY DEF Reader, ReadLine, EndReader
<1>2. FileInv' /\ FileInv
  BY FileInvReader
<1>3. EntriesInv'
  BY <1>1 DEF EntriesInv, EntriesOK
<1>4. CoverageInv'
  BY <1>1 DEF CoverageInv, Past, Exported
<1>5. /\ run \in Runs /\ B \in 1 .. ItemsPerBatch /\ ItemsPerBatch \in Nat
      /\ NumLines = ItemsPerBatch + 1 /\ now \in 0 .. LastTime /\ line \in 0 .. NumLines
      /\ stage = "simulate" /\ line < NumLines /\ wake = now
  BY <1>1, BatchFacts, ScheduleFacts
  DEF FileInv, TypeOK, NumLines, ItemsPerBatch, ReaderDue
<1>6. \A i \in 0 .. B - 1 : /\ ItemTime(run, i) \in Nat
                            /\ ItemTime(run, i + 1) = ItemTime(run, i) + Stepsize
  BY <1>5, ItemTimeFacts, ScheduleAssumption
<1>7. \/ line = 0 /\ now = ItemTime(run, 0)
      \/ line \in 1 .. B /\ now = ItemTime(run, line - 1) + Stepsize
  BY <1>5 DEF ReaderInv
<1>8. CASE ReadLine
  <2>1. line + 1 <= B
    <3>1. CASE line = 0
      BY <3>1, <1>5
    <3>2. CASE line \in 1 .. B /\ now = ItemTime(run, line - 1) + Stepsize /\ line = B
      <4>1. B < ItemsPerBatch
        BY <3>2, <1>5, <1>8 DEF ReadLine
      <4>2. ItemTime(run, B - 1) + Stepsize > LastTime
        BY <4>1, <1>5, ShortBatchEndsLate
      <4>3. now <= LastTime /\ LastTime \in Nat /\ now \in Nat
        BY <1>5, ScheduleAssumption
      <4>4. now = ItemTime(run, B - 1) + Stepsize
        BY <3>2
      <4> QED
        BY <4>2, <4>3, <4>4
    <3> QED
      BY <3>1, <3>2, <1>5, <1>7
  <2>2. now = ItemTime(run, line)
    <3>1. CASE line = 0
      BY <3>1, <1>5, <1>7
    <3>2. CASE line \in 1 .. B /\ now = ItemTime(run, line - 1) + Stepsize
      <4>1. line - 1 \in 0 .. B - 1 /\ (line - 1) + 1 = line
        BY <3>2, <1>5
      <4> QED
        BY <4>1, <3>2, <1>6
    <3> QED
      BY <3>1, <3>2, <1>7
  <2>3. /\ line \in 0 .. B - 1
        /\ Len(files[run]) = B + 1
        /\ files[run][line + 2].delay = Stepsize
        /\ \A p \in Ports : Slice(files[run][line + 2].bits, p) = Injected(run, line, p)
    <3>1. line \in 0 .. B - 1
      BY <2>1, <1>5
    <3> QED
      BY <3>1, <1>2, <1>5, CompleteFile
  <2>4. /\ line' = line + 1
        /\ wake' = now + Stepsize
        /\ \A p \in Ports : tags'[p] = Injected(run, line, p)
    <3>1. line + 1 < Len(files[run]) /\ (line + 1) + 1 = line + 2
      BY <2>3, <1>5
    <3> QED
      BY <3>1, <2>3, <1>8 DEF ReadLine, TagsOfLine, DelayOfLine
  <2>5. line' - 1 = line
    BY <2>4, <1>5
  <2>6. \A p \in Ports : tags'[p] = Injected(run, line - 1, p)'
    BY <2>4, <2>5, <1>1 DEF Injected, Exported
  <2>7. ReaderInv'
    <3>1. line' \in 1 .. BatchSize(run')
      BY <1>1, <1>5, <2>1, <2>4
    <3>2. ItemTime(run', line' - 1) = now
      BY <1>1, <2>2, <2>5, <2>4, <1>5
    <3> QED
      BY <1>1, <1>5, <2>4, <2>6, <3>1, <3>2, ScheduleAssumption DEF ReaderInv
  <2>8. ProgressInv'
    <3>1. ItemTime(run', line' - 1) = now /\ now \in Nat
      BY <1>1, <2>2, <2>5, <2>4, <1>5
    <3> QED
      BY <3>1, <1>1, <1>5 DEF ProgressInv
  <2> QED
    BY <1>2, <1>3, <1>4, <2>7, <2>8
<1>9. CASE EndReader
  <2>1. tags' = NoTags /\ line' = NumLines /\ line + 1 = NumLines
    BY <1>9 DEF EndReader
  <2>2. line = B /\ now = ItemTime(run, B - 1) + Stepsize
    BY <2>1, <1>5, <1>7
  <2>3. ReaderInv'
    BY <1>1, <1>5, <1>6, <2>1, <2>2, ScheduleAssumption DEF ReaderInv
  <2>4. ProgressInv'
    BY <1>1, <1>5, <2>1 DEF ProgressInv
  <2> QED
    BY <1>2, <1>3, <1>4, <2>3, <2>4
<1> QED
  BY <1>8, <1>9 DEF Reader

(* When a time step of a run ends, the tag on a port is none or the one of *)
(* the current item, and if the item's step began earlier it is dumped.    *)
LEMMA TagAtStepEnd ==
  ASSUME DelaysFit, CampaignInv, stage = "simulate", NEW p \in Ports, tags[p] # {}
  PROVE  \E idx \in 0 .. BatchSize(run) - 1 :
           /\ idx = line - 1
           /\ tags[p] = {TagBit(idx, p)}
           /\ ItemTime(run, idx) <= now
           /\ ItemTime(run, idx) < now =>
                dump[run][p] # {} /\ LastEntry(dump[run][p]).value = tags[p]
<1> USE DEF CampaignInv
<1>1. run \in Runs /\ BatchSize(run) \in Nat
  BY BatchFacts, ScheduleFacts DEF FileInv, TypeOK
<1>2. /\ line \in 1 .. BatchSize(run)
      /\ tags[p] = Injected(run, line - 1, p)
      /\ ItemTime(run, line - 1) <= now
  BY DEF ReaderInv, NoTags
<1>3. line - 1 \in 0 .. BatchSize(run) - 1
  BY <1>1, <1>2
<1>4. tags[p] = {TagBit(line - 1, p)}
  BY <1>2 DEF Injected
<1>5. ItemTime(run, line - 1) < now =>
        dump[run][p] # {} /\ LastEntry(dump[run][p]).value = tags[p]
  BY <1>2 DEF ProgressInv
<1> WITNESS line - 1 \in 0 .. BatchSize(run) - 1
<1> QED
  BY <1>2, <1>4, <1>5

(* A tag that was dumped earlier and is not the current one lasted a step. *)
LEMMA DumpedTagLasted ==
  ASSUME DelaysFit, CampaignInv, stage = "simulate", NEW p \in Ports,
         NEW e \in dump[run][p], e.value # {},
         dump[run][p] = {} \/ LastEntry(dump[run][p]).value # tags[p]
  PROVE  e.time + Stepsize <= now
<1> USE DEF CampaignInv
<1> DEFINE B == BatchSize(run)
<1>1. run \in Runs /\ B \in Nat /\ now \in Nat /\ line \in Nat /\ Stepsize \in Nat \ {0}
  BY BatchFacts, ScheduleFacts, ScheduleAssumption DEF FileInv, TypeOK, NumLines
<1>2. PICK idx \in 0 .. B - 1 : e.time = ItemTime(run, idx)
  BY <1>1 DEF EntriesInv, EntriesOK, ScheduledEntry
<1>3. e.time < now
  BY DEF ProgressInv
<1>4. \A i \in 0 .. B - 1 : ItemTime(run, i) \in Nat
  BY <1>1, ItemTimeFacts, ScheduleAssumption
<1>5. \A i, j \in 0 .. B - 1 : i < j => ItemTime(run, i) + Stepsize <= ItemTime(run, j)
  BY <1>1, ItemTimesApart
<1>6. CASE line = 0 /\ now <= ItemTime(run, 0)
  <2>1. 0 \in 0 .. B - 1
    BY <1>1, <1>2
  <2>2. ItemTime(run, 0) <= ItemTime(run, idx)
    BY <2>1, <1>1, <1>2, <1>4, <1>5
  <2> QED
    BY <2>1, <2>2, <1>1, <1>2, <1>3, <1>4, <1>6
<1>7. CASE /\ line \in 1 .. B
           /\ ItemTime(run, line - 1) <= now
           /\ now <= ItemTime(run, line - 1) + Stepsize
  <2> DEFINE j == line - 1
  <2>1. j \in 0 .. B - 1
    BY <1>1, <1>7
  <2>2. j # idx
    BY <1>2, <1>3, <1>7 DEF ProgressInv
  <2>3. CASE j < idx
    <3>1. ItemTime(run, j) + Stepsize <= ItemTime(run, idx)
      BY <1>5, <2>1, <2>3
    <3> QED
      BY <3>1, <2>1, <1>1, <1>2, <1>3, <1>4, <1>7
  <2>4. CASE idx < j
    <3>1. ItemTime(run, idx) + Stepsize <= ItemTime(run, j)
      BY <1>5, <2>1, <2>4
    <3> QED
      BY <3>1, <2>1, <1>1, <1>2, <1>4, <1>7
  <2> QED
    BY <2>1, <2>2, <2>3, <2>4
<1>8. CASE ItemTime(run, B - 1) + Stepsize <= now
  <2>1. B - 1 \in 0 .. B - 1
    BY <1>1, <1>2
  <2>2. ItemTime(run, idx) <= ItemTime(run, B - 1)
    BY <2>1, <1>1, <1>2, <1>4, <1>5
  <2> QED
    BY <2>1, <2>2, <1>1, <1>2, <1>4, <1>8
<1> QED
  BY <1>6, <1>7, <1>8 DEF ReaderInv

(* The end of a time step keeps the dump in order.                         *)
LEMMA SampleFacts ==
  ASSUME DelaysFit, CampaignInv, stage = "simulate"
  PROVE  /\ \A r \in Runs, p \in Ports : EntriesOK(r, p, Sample[r][p])
         /\ \A r \in Runs, p \in Ports : r # run => Sample[r][p] = dump[r][p]
         /\ \A p \in Ports :
              /\ dump[run][p] \subseteq Sample[run][p]
              /\ \A e \in Sample[run][p] : e.time <= now
              /\ Sample[run][p] # {}
              /\ LastEntry(Sample[run][p]).value = tags[p]
              /\ \A idx \in 0 .. BatchSize(run) - 1 :
                   ItemTime(run, idx) = now /\ tags[p] = {TagBit(idx, p)} =>
                     [time |-> now, value |-> tags[p]] \in Sample[run][p]
<1> USE DEF CampaignInv
<1>1. run \in Runs /\ now \in Nat /\ Stepsize \in Nat
  BY ScheduleAssumption DEF FileInv, TypeOK
<1>2. ASSUME NEW r \in Runs, NEW p \in Ports, r # run
      PROVE  Sample[r][p] = dump[r][p]
  BY <1>2 DEF Sample, FileInv, TypeOK
<1>3. ASSUME NEW p \in Ports
      PROVE  /\ EntriesOK(run, p, Sample[run][p])
             /\ dump[run][p] \subseteq Sample[run][p]
             /\ \A e \in Sample[run][p] : e.time <= now
             /\ Sample[run][p] # {}
             /\ LastEntry(Sample[run][p]).value = tags[p]
             /\ \A idx \in 0 .. BatchSize(run) - 1 :
                  ItemTime(run, idx) = now /\ tags[p] = {TagBit(idx, p)} =>
                    [time |-> now, value |-> tags[p]] \in Sample[run][p]
  <2> DEFINE old == dump[run][p]
             new == Sample[run][p]
             entry == [time |-> now, value |-> tags[p]]
             fresh == old = {} \/ LastEntry(old).value # tags[p]
  <2>1. new = Record(old, now, tags[p])
    BY <1>1 DEF Sample, FileInv, TypeOK
  <2>2. \A e \in old : e.time \in Nat /\ e.time < now
    <3>1. old \subseteq [time : 0 .. LastTime, value : TagValues]
      BY <1>1 DEF FileInv, TypeOK
    <3> QED
      BY <3>1, ScheduleAssumption DEF ProgressInv
  <2>3. EntriesOK(run, p, old)
    BY <1>1 DEF EntriesInv
  <2>4. /\ old \subseteq new
        /\ \A e \in new : e \in old \/ (e = entry /\ fresh)
        /\ fresh => entry \in new
        /\ new # {}
        /\ LastEntry(new) \in new
        /\ LastEntry(new).value = tags[p]
    BY <1>1, <2>1, <2>2, <2>3, RecordFacts DEF EntriesOK
  <2>5. entry.time = now /\ entry.value = tags[p]
    OBVIOUS
  <2>6. fresh => ScheduledEntry(run, p, entry)
    BY <2>5, <1>1, TagAtStepEnd, ItemTimeFacts, ScheduleAssumption DEF ScheduledEntry
  <2>7. \A e \in new : ScheduledEntry(run, p, e)
    BY <2>3, <2>4, <2>6 DEF EntriesOK
  <2>8. \A e, f \in new : e.time = f.time => e = f
    BY <2>2, <2>3, <2>4, <2>5 DEF EntriesOK
  <2>9. \A e, f \in new : e.value # {} /\ e.time < f.time => e.time + Stepsize <= f.time
    <3> SUFFICES ASSUME NEW e \in new, NEW f \in new, e.value # {}, e.time < f.time
                 PROVE  e.time + Stepsize <= f.time
      OBVIOUS
    <3>1. CASE f \in old
      <4>1. e \in old
        BY <3>1, <2>2, <2>4, <2>5, <1>1
      <4> QED
        BY <3>1, <4>1, <2>3 DEF EntriesOK
    <3>2. CASE f = entry /\ fresh
      <4>1. e \in old
        BY <3>2, <2>4, <2>5, <1>1
      <4> QED
        BY <3>2, <4>1, <2>5, DumpedTagLasted
    <3> QED
      BY <3>1, <3>2, <2>4
  <2>10. \A e \in new : e.time <= now
    BY <2>2, <2>4, <2>5, <1>1
  <2>11. ASSUME NEW idx \in 0 .. BatchSize(run) - 1,
                ItemTime(run, idx) = now, tags[p] = {TagBit(idx, p)}
         PROVE  entry \in new
    <3>1. SUFFICES ASSUME ~fresh PROVE FALSE
      BY <2>4
    <3>2. LastEntry(old) \in old /\ LastEntry(old).value = {TagBit(idx, p)}
      BY <3>1, <2>3, <2>11 DEF EntriesOK
    <3>3. PICK i \in 0 .. BatchSize(run) - 1 :
            {TagBit(idx, p)} = {TagBit(i, p)} /\ LastEntry(old).time = ItemTime(run, i)
      BY <3>2, <2>3 DEF EntriesOK, ScheduledEntry
    <3>4. i \in 0 .. ItemsPerBatch - 1 /\ idx \in 0 .. ItemsPerBatch - 1
      BY <1>1, BatchFacts, ScheduleFacts
    <3>5. i = idx
      BY <3>3, <3>4, TagBitFacts
    <3> QED
      BY <3>2, <3>3, <3>5, <2>2, <2>11, <1>1
  <2> HIDE DEF new, old, entry
  <2>12. EntriesOK(run, p, new)
    BY <2>4, <2>7, <2>8, <2>9 DEF EntriesOK
  <2> QED
    BY <2>4, <2>10, <2>11, <2>12 DEF new, old, entry
<1>4. ASSUME NEW r \in Runs, NEW p \in Ports
      PROVE  EntriesOK(r, p, Sample[r][p])
  <2>1. CASE r = run
    BY <2>1, <1>3
  <2>2. CASE r # run
    BY <2>2, <1>2 DEF EntriesInv
  <2> QED
    BY <2>1, <2>2
<1> QED
  BY <1>2, <1>3, <1>4

(* When nothing is due any more at this time, the reader holds the item    *)
(* whose step this time belongs to, if there is one.                       *)
LEMMA ItemOfNow ==
  ASSUME DelaysFit, CampaignInv, stage = "simulate", ~ReaderDue,
         NEW idx \in 0 .. BatchSize(run) - 1, ItemTime(run, idx) = now
  PROVE  line - 1 = idx /\ \A p \in Ports : tags[p] = Injected(run, idx, p)
<1> USE DEF CampaignInv
<1> DEFINE B == BatchSize(run)
<1>1. /\ run \in Runs /\ B \in 1 .. ItemsPerBatch /\ ItemsPerBatch \in Nat
      /\ NumLines = ItemsPerBatch + 1
      /\ now \in Nat /\ line \in Nat /\ Stepsize \in Nat \ {0}
  BY BatchFacts, ScheduleFacts, ScheduleAssumption
  DEF FileInv, TypeOK, NumLines, ItemsPerBatch
<1>2. \A i \in 0 .. B - 1 : ItemTime(run, i) \in Nat
  BY <1>1, ItemTimeFacts, ScheduleAssumption
<1>3. \A i, j \in 0 .. B - 1 : i < j => ItemTime(run, i) + Stepsize <= ItemTime(run, j)
  BY <1>1, ItemTimesApart
<1>4. CASE line = 0 /\ now <= wake /\ wake = ItemTime(run, 0)
  <2>1. now < ItemTime(run, 0) /\ 0 \in 0 .. B - 1
    BY <1>1, <1>2, <1>4 DEF ReaderDue
  <2>2. CASE idx = 0
    BY <2>1, <2>2, <1>1
  <2>3. CASE 0 < idx
    <3>1. ItemTime(run, 0) + Stepsize <= ItemTime(run, idx)
      BY <2>1, <2>3, <1>3
    <3> QED
      BY <3>1, <2>1, <1>1, <1>2
  <2> QED
    BY <2>2, <2>3
<1>5. CASE /\ line \in 1 .. B
           /\ \A p \in Ports : tags[p] = Injected(run, line - 1, p)
           /\ ItemTime(run, line - 1) <= now
           /\ now <= wake
           /\ wake = ItemTime(run, line - 1) + Stepsize
  <2> DEFINE j == line - 1
  <2>1. j \in 0 .. B - 1 /\ line < NumLines
    BY <1>1, <1>5
  <2>2. now < ItemTime(run, j) + Stepsize
    BY <2>1, <1>1, <1>2, <1>5 DEF ReaderDue
  <2>3. CASE j < idx
    <3>1. ItemTime(run, j) + Stepsize <= ItemTime(run, idx)
      BY <2>1, <2>3, <1>3
    <3> QED
      BY <3>1, <2>1, <2>2, <1>1, <1>2
  <2>4. CASE idx < j
    <3>1. ItemTime(run, idx) + Stepsize <= ItemTime(run, j)
      BY <2>1, <2>4, <1>3
    <3> QED
      BY <3>1, <2>1, <1>1, <1>2, <1>5
  <2>5. CASE j = idx
    BY <2>5, <1>5
  <2> QED
    BY <2>1, <2>3, <2>4, <2>5
<1>6. CASE ItemTime(run, B - 1) + Stepsize <= now
  <2>1. B - 1 \in 0 .. B - 1
    BY <1>1
  <2>2. ItemTime(run, idx) <= ItemTime(run, B - 1)
    <3>1. CASE idx = B - 1
      BY <3>1, <1>2, <2>1
    <3>2. CASE idx < B - 1
      <4>1. ItemTime(run, idx) + Stepsize <= ItemTime(run, B - 1)
        BY <2>1, <3>2, <1>3
      <4> QED
        BY <4>1, <2>1, <1>1, <1>2
    <3> QED
      BY <3>1, <3>2, <1>1
  <2> QED
    BY <2>1, <2>2, <1>1, <1>2, <1>6
<1> QED
  BY <1>4, <1>5, <1>6 DEF ReaderInv

LEMMA CampaignInvTick == DelaysFit /\ CampaignInv /\ Tick => CampaignInv'
<1> SUFFICES ASSUME DelaysFit, CampaignInv, Tick PROVE CampaignInv'
  OBVIOUS
<1>1. /\ stage = "simulate" /\ ~ReaderDue /\ now' = now + 1 /\ dump' = Sample
      /\ UNCHANGED <<stage, run, files, tags, line, wake>>
  BY DEF Tick
<1>2. FileInv' /\ FileInv
  BY FileInvSimulator DEF CampaignInv
<1>3. /\ run \in Runs /\ now \in Nat /\ wake \in Nat
      /\ BatchSize(run) \in 1 .. ItemsPerBatch
      /\ ItemsPerBatch \in Nat /\ NumLines = ItemsPerBatch + 1 /\ Stepsize \in Nat
      /\ Runs \subseteq Nat
  <2>1. run \in Runs /\ now \in Nat /\ wake \in Nat /\ Stepsize \in Nat
    BY <1>2, ScheduleAssumption DEF FileInv, TypeOK
  <2>2. Runs \subseteq Nat
    BY ScheduleFacts DEF Runs
  <2> QED
    BY <2>1, <2>2, BatchFacts, ScheduleFacts DEF NumLines, ItemsPerBatch
<1>4. \A r \in Runs, idx \in Nat : idx \in 0 .. BatchSize(r) - 1 => ItemTime(r, idx) \in Nat
  BY ItemTimeFacts, ScheduleAssumption
<1>5. ReaderInv'
  <2>1. CASE line = 0 /\ tags = NoTags /\ now <= wake /\ wake = ItemTime(run, 0)
    BY <2>1, <1>1, <1>3 DEF ReaderInv, ReaderDue
  <2>2. CASE /\ line \in 1 .. BatchSize(run)
             /\ \A p \in Ports : tags[p] = Injected(run, line - 1, p)
             /\ ItemTime(run, line - 1) <= now
             /\ now <= wake
             /\ wake = ItemTime(run, line - 1) + Stepsize
    <3>1. ItemTime(run, line - 1) \in Nat
      BY <2>2, <1>3, <1>4
    <3>2. now + 1 <= wake
      BY <2>2, <1>1, <1>3 DEF ReaderDue
    <3>3. \A p \in Ports : tags'[p] = Injected(run, line - 1, p)'
      BY <2>2, <1>1 DEF Injected, Exported
    <3> QED
      BY <2>2, <3>1, <3>2, <3>3, <1>1, <1>3 DEF ReaderInv
  <2>3. CASE /\ line = NumLines /\ tags = NoTags
             /\ ItemTime(run, BatchSize(run) - 1) + Stepsize <= now
    <3>1. ItemTime(run, BatchSize(run) - 1) \in Nat
      BY <1>3, <1>4
    <3> QED
      BY <2>3, <3>1, <1>1, <1>3 DEF ReaderInv
  <2> QED
    BY <2>1, <2>2, <2>3, <1>1 DEF CampaignInv, ReaderInv
<1>6. EntriesInv'
  BY <1>1, SampleFacts DEF EntriesInv, EntriesOK
<1>7. ProgressInv'
  <2>1. ASSUME NEW r \in Runs, NEW p \in Ports, run < r
        PROVE  dump'[r][p] = {}
    BY <2>1, <1>1, <1>3, SampleFacts DEF CampaignInv, ProgressInv
  <2>2. ASSUME NEW p \in Ports
        PROVE  /\ \A e \in dump'[run][p] : e.time < now + 1
               /\ dump'[run][p] # {} /\ LastEntry(dump'[run][p]).value = tags[p]
    <3>1. \A e \in dump'[run][p] : e.time \in Nat
      BY <1>2, <1>1, <1>3, ScheduleAssumption DEF FileInv, TypeOK
    <3>2. /\ \A e \in Sample[run][p] : e.time <= now
          /\ Sample[run][p] # {}
          /\ LastEntry(Sample[run][p]).value = tags[p]
      BY <1>1, SampleFacts
    <3>3. dump'[run][p] = Sample[run][p]
      BY <1>1
    <3> QED
      BY <3>1, <3>2, <3>3, <1>3
  <2> QED
    BY <2>1, <2>2, <1>1 DEF ProgressInv
<1>8. CoverageInv'
  <2> SUFFICES ASSUME NEW r \in Runs, NEW p \in Ports, NEW idx \in 0 .. BatchSize(r) - 1,
                      Exported(r, idx, p), Past(r, ItemTime(r, idx))'
               PROVE  [time |-> ItemTime(r, idx), value |-> {TagBit(idx, p)}] \in dump'[r][p]
    BY <1>1 DEF CoverageInv, Exported
  <2>1. ItemTime(r, idx) \in Nat
    BY ItemTimeFacts, ScheduleAssumption
  <2>2. CASE Past(r, ItemTime(r, idx))
    <3>1. [time |-> ItemTime(r, idx), value |-> {TagBit(idx, p)}] \in dump[r][p]
      BY <2>2 DEF CampaignInv, CoverageInv
    <3>2. dump[r][p] \subseteq dump'[r][p]
      BY <1>1, SampleFacts
    <3> QED
      BY <3>1, <3>2
  <2>3. CASE ~Past(r, ItemTime(r, idx))
    <3>1. r = run /\ ItemTime(run, idx) = now
      BY <2>1, <2>3, <1>1, <1>3 DEF Past
    <3>2. tags[p] = {TagBit(idx, p)}
      BY <3>1, <1>1, ItemOfNow DEF Injected
    <3> QED
      BY <3>1, <3>2, <1>1, SampleFacts
  <2> QED
    BY <2>2, <2>3
<1> QED
  BY <1>2, <1>5, <1>6, <1>7, <1>8 DEF CampaignInv

LEMMA CampaignInvFinish ==
  ASSUME DelaysFit, CampaignInv, NEW flushed \in BOOLEAN, Finish(flushed)
  PROVE  CampaignInv'
<1>1. /\ stage = "simulate" /\ now = LastTime /\ files' = files
      /\ dump' = IF flushed THEN Sample ELSE dump
  BY DEF Finish
<1>2. FileInv' /\ FileInv
  BY FileInvSimulator DEF CampaignInv
<1>3. run \in Runs /\ Runs \subseteq Nat /\ LastTime \in Nat \ {0}
  BY <1>2, ScheduleFacts, ScheduleAssumption DEF FileInv, TypeOK, Runs
<1>4. EntriesInv'
  BY <1>1, SampleFacts DEF CampaignInv, EntriesInv, EntriesOK
<1>5. \A r \in Runs, p \in Ports : /\ dump[r][p] \subseteq dump'[r][p]
                                   /\ run < r => dump'[r][p] = {}
  <2> SUFFICES ASSUME NEW r \in Runs, NEW p \in Ports
               PROVE  dump[r][p] \subseteq dump'[r][p] /\ (run < r => dump'[r][p] = {})
    OBVIOUS
  <2>1. CASE r = run
    <3>1. dump[run][p] \subseteq Sample[run][p]
      BY <1>1, SampleFacts
    <3>2. ~(run < run)
      BY <1>3
    <3> QED
      BY <2>1, <3>1, <3>2, <1>1
  <2>2. CASE r # run
    <3>1. dump'[r][p] = dump[r][p]
      BY <2>2, <1>1, SampleFacts
    <3>2. run < r => dump[r][p] = {}
      BY <1>1 DEF CampaignInv, ProgressInv
    <3> QED
      BY <3>1, <3>2
  <2> QED
    BY <2>1, <2>2
<1>6. ASSUME NEW r \in Runs, NEW p \in Ports, NEW idx \in 0 .. BatchSize(r) - 1,
             Exported(r, idx, p), r <= run, ItemTime(r, idx) < LastTime
      PROVE  [time |-> ItemTime(r, idx), value |-> {TagBit(idx, p)}] \in dump'[r][p]
  <2>1. Past(r, ItemTime(r, idx))
    BY <1>1, <1>3, <1>6 DEF Past
  <2> QED
    BY <2>1, <1>5, <1>6 DEF CampaignInv, CoverageInv
<1>7. CASE run + 1 \in Runs
  <2>1. StartSimulation(run + 1) /\ stage' = "simulate"
    BY <1>1, <1>7 DEF Finish
  <2>2. files[run + 1] # <<>>
    <3>1. Len(files[run + 1]) # 0
      BY <1>1, <1>2, <1>7, BatchFacts, ScheduleFacts DEF FileInv, FilesInv
    <3> QED
      BY <3>1
  <2>3. ReaderInv' /\ now' = 0 /\ line' = 0 /\ run' = run + 1
    BY <1>2, <1>7, <2>1, <2>2, StartSimulationReader
  <2>4. ProgressInv'
    BY <1>3, <1>5, <1>7, <2>1, <2>3 DEF ProgressInv
  <2>5. CoverageInv'
    <3> SUFFICES ASSUME NEW r \in Runs, NEW p \in Ports, NEW idx \in 0 .. BatchSize(r) - 1,
                        Exported(r, idx, p), Past(r, ItemTime(r, idx))'
                 PROVE  [time |-> ItemTime(r, idx), value |-> {TagBit(idx, p)}] \in dump'[r][p]
      BY <1>1 DEF CoverageInv, Exported
    <3>1. ItemTime(r, idx) \in Nat
      BY ItemTimeFacts, ScheduleAssumption
    <3>2. r <= run /\ ItemTime(r, idx) < LastTime
      BY <3>1, <2>1, <2>3, <1>3 DEF Past
    <3> QED
      BY <3>2, <1>6
  <2> QED
    BY <1>2, <1>4, <2>3, <2>4, <2>5 DEF CampaignInv
<1>8. CASE run + 1 \notin Runs
  <2>1. stage' = "done" /\ run' = run
    BY <1>1, <1>8 DEF Finish
  <2>2. \A r \in Runs : r <= run
    BY <1>3, <1>8, ScheduleFacts DEF Runs
  <2>3. CoverageInv'
    BY <1>1, <1>6, <2>1, <2>2 DEF CoverageInv, Exported, Past
  <2> QED
    BY <1>2, <1>4, <2>1, <2>3 DEF CampaignInv, ReaderInv, ProgressInv
<1> QED
  BY <1>7, <1>8

LEMMA CampaignInvStep == DelaysFit /\ CampaignInv /\ [Next]_vars => CampaignInv'
<1> SUFFICES ASSUME DelaysFit, CampaignInv, [Next]_vars PROVE CampaignInv'
  OBVIOUS
<1>1. CASE UNCHANGED vars
  <2>1. FileInv'
    BY <1>1, FileInvStep DEF CampaignInv
  <2>2. UNCHANGED <<stage, run, files, now, line, wake, tags, dump>>
    BY <1>1 DEF vars
  <2>3. \A r, idx, p : Injected(r, idx, p)' = Injected(r, idx, p)
    BY <2>2 DEF Injected, Exported
  <2>4. ReaderInv'
    BY <2>2, <2>3 DEF CampaignInv, ReaderInv
  <2>5. EntriesInv'
    BY <2>2 DEF CampaignInv, EntriesInv, EntriesOK
  <2>6. ProgressInv'
    BY <2>2 DEF CampaignInv, ProgressInv
  <2>7. CoverageInv'
    BY <2>2 DEF CampaignInv, CoverageInv, Exported, Past
  <2> QED
    BY <2>1, <2>4, <2>5, <2>6, <2>7 DEF CampaignInv
<1> QED
  BY <1>1, CampaignInvExport, CampaignInvReader, CampaignInvTick, CampaignInvFinish
  DEF Next, Over

(* At every moment of a simulation the reader, the tag registers and the   *)
(* dumps are where the schedule puts them.                                 *)
THEOREM CampaignInvariant == ASSUME DelaysFit PROVE Spec => []CampaignInv
<1>1. CampaignInv /\ [Next]_vars => CampaignInv'
  BY CampaignInvStep
<1> QED
  BY <1>1, CampaignInvInit, PTL DEF Spec

-----------------------------------------------------------------------------
(* What the analysis relies on.                                            *)

(* A port carries its own tags, each within the step it was injected for:  *)
(* the delays of the file, the slices of the generated reader and the      *)
(* clearing between lines work together.                                   *)
THEOREM TagsInWindow == ASSUME DelaysFit PROVE Spec => []TagsInTheirWindow
<1>1. CampaignInv => TagsInTheirWindow
  <2> SUFFICES ASSUME CampaignInv, stage = "simulate", ~ReaderDue, NEW p \in Ports
               PROVE  /\ tags[p] # Unknown
                      /\ \A b \in tags[p] :
                           /\ b % NumInputs = p
                           /\ ItemTime(run, b \div NumInputs) <= now
                           /\ now < ItemTime(run, b \div NumInputs) + Stepsize
    BY DEF TagsInTheirWindow
  <2>1. CASE tags[p] = {}
    BY <2>1 DEF Unknown
  <2>2. CASE tags[p] # {}
    <3>1. PICK idx \in 0 .. BatchSize(run) - 1 : idx = line - 1 /\ tags[p] = {TagBit(idx, p)}
                                                 /\ ItemTime(run, idx) <= now
      BY <2>2, TagAtStepEnd
    <3>2. /\ run \in Runs /\ now \in Nat /\ wake \in Nat /\ Stepsize \in Nat
          /\ BatchSize(run) \in 1 .. ItemsPerBatch
          /\ ItemsPerBatch \in Nat /\ NumLines = ItemsPerBatch + 1
      BY BatchFacts, ScheduleFacts, ScheduleAssumption
      DEF CampaignInv, FileInv, TypeOK, NumLines, ItemsPerBatch
    <3>3. idx \in 0 .. ItemsPerBatch - 1
      BY <3>2
    <3>4. TagBit(idx, p) \in Nat /\ TagBit(idx, p) % NumInputs = p /\ TagBit(idx, p) \div NumInputs = idx
      BY <3>3, TagBitFacts, ScheduleAssumption DEF Bits
    <3>5. ItemTime(run, idx) \in Nat
      BY <3>2, ItemTimeFacts, ScheduleAssumption
    <3>6. now <= wake /\ wake = ItemTime(run, idx) + Stepsize /\ line < NumLines
      <4>1. line \in Nat /\ line # 0 /\ line # NumLines
        BY <3>1, <3>2, <3>3, ScheduleFacts DEF CampaignInv, FileInv, TypeOK
      <4> QED
        BY <4>1, <3>1, <3>2 DEF CampaignInv, ReaderInv
    <3>7. wake # now
      BY <3>6 DEF ReaderDue
    <3> QED
      BY <3>1, <3>2, <3>4, <3>5, <3>6, <3>7 DEF Unknown
  <2> QED
    BY <2>1, <2>2
<1> QED
  BY <1>1, CampaignInvariant, PTL

(* The time of a dump entry is the injection time of the tag in it.        *)
THEOREM TagsScheduled == ASSUME DelaysFit PROVE Spec => []TagsAtScheduledTime
<1>1. CampaignInv => TagsAtScheduledTime
  <2> SUFFICES ASSUME CampaignInv, NEW r \in Runs, NEW p \in Ports, NEW e \in dump[r][p]
               PROVE  /\ e.value # Unknown
                      /\ \A b \in e.value : b % NumInputs = p /\ e.time = ItemTime(r, b \div NumInputs)
    BY DEF TagsAtScheduledTime
  <2>1. ScheduledEntry(r, p, e)
    BY DEF CampaignInv, EntriesInv, EntriesOK
  <2>2. CASE e.value = {}
    BY <2>2 DEF Unknown
  <2>3. ASSUME NEW idx \in 0 .. BatchSize(r) - 1, e.value = {TagBit(idx, p)},
               e.time = ItemTime(r, idx)
        PROVE  e.value # Unknown
               /\ \A b \in e.value : b % NumInputs = p /\ e.time = ItemTime(r, b \div NumInputs)
    <3>1. idx \in 0 .. ItemsPerBatch - 1
      BY BatchFacts, ScheduleFacts
    <3>2. TagBit(idx, p) \in Nat
      BY <3>1, TagBitFacts, ScheduleAssumption DEF Bits
    <3> QED
      BY <2>3, <3>1, <3>2, TagBitFacts DEF Unknown
  <2> QED
    BY <2>1, <2>2, <2>3 DEF ScheduledEntry
<1> QED
  BY <1>1, CampaignInvariant, PTL

(* A bit found in a target's tag identifies one injection of the run.      *)
THEOREM BitsUnambiguous == ASSUME DelaysFit PROVE Spec => []BitNamesOneInjection
<1>1. CampaignInv => BitNamesOneInjection
  <2> SUFFICES ASSUME CampaignInv, NEW r \in Runs, NEW p \in Ports, NEW q \in Ports,
                      NEW e \in dump[r][p], NEW f \in dump[r][q],
                      NEW b \in Bits, b \in e.value, b \in f.value
               PROVE  p = q /\ e = f
    BY DEF BitNamesOneInjection
  <2>1. PICK i \in 0 .. BatchSize(r) - 1 : e.value = {TagBit(i, p)} /\ e.time = ItemTime(r, i)
    BY DEF CampaignInv, EntriesInv, EntriesOK, ScheduledEntry
  <2>2. PICK j \in 0 .. BatchSize(r) - 1 : f.value = {TagBit(j, q)} /\ f.time = ItemTime(r, j)
    BY DEF CampaignInv, EntriesInv, EntriesOK, ScheduledEntry
  <2>3. i \in 0 .. ItemsPerBatch - 1 /\ j \in 0 .. ItemsPerBatch - 1
    BY BatchFacts, ScheduleFacts
  <2>4. TagBit(i, p) = TagBit(j, q)
    BY <2>1, <2>2
  <2>5. i = j /\ p = q
    BY <2>3, <2>4, TagBitFacts
  <2> QED
    BY <2>1, <2>2, <2>5 DEF CampaignInv, EntriesInv, EntriesOK
<1> QED
  BY <1>1, CampaignInvariant, PTL

(* No two runs tag a port at the same time.                                *)
THEOREM InjectionsDisjoint == ASSUME DelaysFit PROVE Spec => []OneRunPerInjection
<1>1. CampaignInv => OneRunPerInjection
  <2> SUFFICES ASSUME CampaignInv, NEW r \in Runs, NEW s \in Runs, NEW p \in Ports,
                      NEW e \in dump[r][p], NEW f \in dump[s][p],
                      e.time = f.time, e.value # {}, f.value # {}
               PROVE  r = s
    BY DEF OneRunPerInjection
  <2>1. PICK i \in 0 .. BatchSize(r) - 1 : e.time = ItemTime(r, i)
    BY DEF CampaignInv, EntriesInv, EntriesOK, ScheduledEntry
  <2>2. PICK j \in 0 .. BatchSize(s) - 1 : f.time = ItemTime(s, j)
    BY DEF CampaignInv, EntriesInv, EntriesOK, ScheduledEntry
  <2> QED
    BY <2>1, <2>2, ItemTimeUnique
<1> QED
  BY <1>1, CampaignInvariant, PTL

(* The reader never gets to a line its file does not have.                 *)
THEOREM NoMissingLine == ASSUME DelaysFit PROVE Spec => []MissingLinesAreNotRead
<1>1. CampaignInv => MissingLinesAreNotRead
  <2> SUFFICES ASSUME CampaignInv, stage = "simulate", line < NumLines
               PROVE  line < Len(files[run])
    BY DEF MissingLinesAreNotRead
  <2>1. /\ run \in Runs /\ line \in 0 .. NumLines /\ NumLines \in Nat
        /\ BatchSize(run) \in 1 .. ItemsPerBatch /\ ItemsPerBatch \in Nat
        /\ Len(files[run]) = BatchSize(run) + 1
    BY BatchFacts, ScheduleFacts DEF CampaignInv, FileInv, TypeOK, FilesInv, NumLines
  <2> QED
    BY <2>1 DEF CampaignInv, ReaderInv
<1> QED
  BY <1>1, CampaignInvariant, PTL

(* No exported tag is lost on its way to the dump.                         *)
THEOREM ExportedTagsDumped == ASSUME DelaysFit PROVE Spec => []ExportedTagsAreDumped
<1>1. CampaignInv => ExportedTagsAreDumped
  BY DEF CampaignInv, CoverageInv, Past, ExportedTagsAreDumped
<1> QED
  BY <1>1, CampaignInvariant, PTL

(* A tag that was dumped stays on its port for a whole step.               *)
THEOREM TagsLast == ASSUME DelaysFit PROVE Spec => []TagLastsAStep
<1>1. CampaignInv => TagLastsAStep
  BY DEF CampaignInv, EntriesInv, EntriesOK, TagLastsAStep
<1> QED
  BY <1>1, CampaignInvariant, PTL

-----------------------------------------------------------------------------
(* The analysis.                                                           *)

(* The influence of the inputs is computed time step by time step.         *)
LEMMA InfluenceSteps ==
  ASSUME design \in [0 .. LastTime -> Behaviours]
  PROVE  \A t \in 0 .. LastTime :
           Influence[t] = IF design[t].load THEN {<<p, StepOf(t)>> : p \in design[t].from}
                          ELSE IF t = 0 THEN {} ELSE Influence[t - 1]
<1> DEFINE Loaded(t) == {<<p, StepOf(t)>> : p \in design[t].from}
           V == SUBSET (Ports \X Int)
           first == IF design[0].load THEN Loaded(0) ELSE {}
           Step == [i \in 1 .. LastTime |->
                      [S \in V |-> IF design[i].load THEN Loaded(i) ELSE S]]
<1>1. ASSUME NEW t \in 0 .. LastTime
      PROVE  Loaded(t) \in V
  <2>1. design[t].from \subseteq Ports
    BY DEF Behaviours
  <2>2. StepOf(t) \in Int
    BY ScheduleAssumption DEF StepOf
  <2> QED
    BY <2>1, <2>2
<1> HIDE DEF Loaded
<1>2. first \in V /\ LastTime \in Nat
  BY <1>1, ScheduleAssumption
<1>3. Step \in StepFunctions(LastTime, V)
  BY <1>1, <1>2 DEF StepFunctions
<1>4. PICK f \in [0 .. LastTime -> V] : Computes(f, LastTime, first, Step)
  <2> HIDE DEF V, first, Step
  <2> QED
    BY <1>2, <1>3, BoundedRecursion
<1>5. f = [t \in 0 .. LastTime |-> IF design[t].load THEN Loaded(t)
                                  ELSE IF t = 0 THEN {} ELSE f[t - 1]]
  <2>1. ASSUME NEW t \in 0 .. LastTime
        PROVE  f[t] = IF design[t].load THEN Loaded(t) ELSE IF t = 0 THEN {} ELSE f[t - 1]
    <3>1. CASE t = 0
      BY <1>4, <3>1 DEF Computes
    <3>2. CASE t \in 1 .. LastTime
      <4>1. f[t - 1] \in V
        BY <3>2, <1>2, <1>4
      <4> QED
        BY <1>4, <3>2, <4>1 DEF Computes
    <3> QED
      BY <3>1, <3>2, <1>2
  <2> HIDE DEF V, first, Step
  <2> QED
    BY <2>1, <1>4
<1>6. Influence = [t \in 0 .. LastTime |-> IF design[t].load THEN Loaded(t)
                                          ELSE IF t = 0 THEN {} ELSE Influence[t - 1]]
  BY <1>5 DEF Influence, Loaded
<1> QED
  BY <1>6 DEF Loaded

-----------------------------------------------------------------------------
(* The tag of the observed signal.                                         *)

(* Bit b of run r stands for an injection that influences the observed     *)
(* signal at the end of time step t.                                       *)
Carries(r, b, t) ==
  \E idx \in 0 .. BatchSize(r) - 1, p \in Ports :
    /\ b = TagBit(idx, p) /\ Exported(r, idx, p)
    /\ <<p, ItemTime(r, idx)>> \in Influence[t]

TagAt(r, t) == {b \in Bits : Carries(r, b, t)}

TargetOK ==
  /\ stage = "export" => target = {}
  /\ stage = "simulate" => target = IF now = 0 THEN {} ELSE TagAt(run, now - 1)

(* The dump of run r has the tag at its time in every entry (at LastTime   *)
(* whatever $finish left), and the tag at every earlier time of the run in *)
(* some entry that is not later.                                           *)
TargetEntriesOK(r, changes) ==
  /\ \A e \in changes : /\ e.time \in 0 .. LastTime
                        /\ e.time < LastTime => e.value = TagAt(r, e.time)
  /\ changes = {} \/ LastEntry(changes) \in changes

TargetEntriesInv == \A r \in Runs : TargetEntriesOK(r, targetDump[r])

TargetProgressInv ==
  /\ \A r \in Runs :
       stage = "export" \/ (stage = "simulate" /\ run < r) => targetDump[r] = {}
  /\ stage = "simulate" => \A e \in targetDump[run] : e.time < now

TargetCoverageInv ==
  \A r \in Runs, t \in 0 .. LastTime - 1 :
    Past(r, t) => \E e \in targetDump[r] : e.time <= t /\ e.value = TagAt(r, t)

DesignOK ==
  /\ design \in [0 .. LastTime -> Behaviours]
  /\ DOMAIN targetDump = Runs

TargetInv ==
  DesignOK /\ TargetOK /\ TargetEntriesInv /\ TargetProgressInv /\ TargetCoverageInv

AnalysisInv == CampaignInv /\ TargetInv

LEMMA TagAtUnchanged ==
  ASSUME files' = files, design' = design
  PROVE  \A r, t : TagAt(r, t)' = TagAt(r, t)
<1>1. Influence' = Influence
  BY DEF Influence
<1> QED
  BY <1>1 DEF TagAt, Carries, Exported

(* The step a time belongs to                                              *)
LEMMA StepOfItem ==
  ASSUME NEW r \in Runs, NEW idx \in 0 .. BatchSize(r) - 1, NEW t \in Nat,
         ItemTime(r, idx) <= t, t < ItemTime(r, idx) + Stepsize
  PROVE  StepOf(t) = ItemTime(r, idx)
<1> DEFINE k == BatchStart(r) + idx
           m == t - ItemTime(r, idx)
<1>1. k \in Nat /\ ItemTime(r, idx) = k * Stepsize /\ ItemTime(r, idx) \in Nat
  BY BatchFacts, ScheduleFacts, ItemTimeFacts, ScheduleAssumption DEF ItemTime, TagTime
<1>2. m \in 0 .. Stepsize - 1 /\ t = m + k * Stepsize
  BY <1>1, ScheduleAssumption
<1>3. t % Stepsize = m
  <2> HIDE DEF k, m
  <2> QED
    BY <1>1, <1>2, DivUnique, ScheduleAssumption
<1> QED
  BY <1>1, <1>2, <1>3 DEF StepOf

LEMMA StepOfBounds ==
  ASSUME NEW t \in Nat
  PROVE  StepOf(t) \in Nat /\ StepOf(t) <= t /\ t < StepOf(t) + Stepsize
<1>1. /\ t % Stepsize \in 0 .. Stepsize - 1
      /\ t = (t \div Stepsize) * Stepsize + (t % Stepsize)
      /\ (t \div Stepsize) * Stepsize \in Nat
  BY DivFacts, ScheduleAssumption
<1> QED
  BY <1>1, ScheduleAssumption DEF StepOf

(* When nothing is due any more, a port has exactly the tag of the item of *)
(* the step that this time belongs to.                                     *)
LEMMA TagsOfNow ==
  ASSUME DelaysFit, CampaignInv, stage = "simulate", ~ReaderDue, NEW p \in Ports
  PROVE  \A b : b \in tags[p] <=>
           \E idx \in 0 .. BatchSize(run) - 1 :
             /\ b = TagBit(idx, p) /\ Exported(run, idx, p)
             /\ ItemTime(run, idx) = StepOf(now)
<1> USE DEF CampaignInv
<1> DEFINE B == BatchSize(run)
<1>1. /\ run \in Runs /\ B \in 1 .. ItemsPerBatch /\ ItemsPerBatch \in Nat
      /\ NumLines = ItemsPerBatch + 1
      /\ now \in Nat /\ line \in Nat /\ Stepsize \in Nat \ {0}
  BY BatchFacts, ScheduleFacts, ScheduleAssumption
  DEF FileInv, TypeOK, NumLines, ItemsPerBatch
<1>2. \A i \in 0 .. B - 1 : ItemTime(run, i) \in Nat
  BY <1>1, ItemTimeFacts, ScheduleAssumption
<1>3. \A i, j \in 0 .. B - 1 : i < j => ItemTime(run, i) + Stepsize <= ItemTime(run, j)
  BY <1>1, ItemTimesApart
<1>4. StepOf(now) \in Nat /\ StepOf(now) <= now /\ now < StepOf(now) + Stepsize
  BY <1>1, StepOfBounds
<1>5. CASE line = 0 /\ tags = NoTags /\ now <= wake /\ wake = ItemTime(run, 0)
  <2>1. now < ItemTime(run, 0) /\ 0 \in 0 .. B - 1
    BY <1>1, <1>2, <1>5 DEF ReaderDue
  <2>2. ASSUME NEW idx \in 0 .. B - 1
        PROVE  ItemTime(run, idx) # StepOf(now)
    <3>1. idx = 0 \/ ItemTime(run, 0) + Stepsize <= ItemTime(run, idx)
      BY <2>1, <1>3
    <3> QED
      BY <3>1, <2>1, <1>1, <1>2, <1>4
  <2>3. tags[p] = {}
    BY <1>5 DEF NoTags
  <2> QED
    BY <2>2, <2>3
<1>6. CASE /\ line \in 1 .. B
           /\ \A q \in Ports : tags[q] = Injected(run, line - 1, q)
           /\ ItemTime(run, line - 1) <= now
           /\ now <= wake
           /\ wake = ItemTime(run, line - 1) + Stepsize
  <2> DEFINE j == line - 1
  <2>1. j \in 0 .. B - 1 /\ line < NumLines
    BY <1>1, <1>6
  <2>2. now < ItemTime(run, j) + Stepsize
    BY <2>1, <1>1, <1>2, <1>6 DEF ReaderDue
  <2>3. StepOf(now) = ItemTime(run, j)
    BY <2>1, <2>2, <1>1, <1>6, StepOfItem
  <2>4. ASSUME NEW idx \in 0 .. B - 1, ItemTime(run, idx) = StepOf(now)
        PROVE  idx = j
    BY <1>1, <2>1, <2>3, <2>4, ItemTimeUnique
  <2>5. tags[p] = IF Exported(run, j, p) THEN {TagBit(j, p)} ELSE {}
    BY <1>6 DEF Injected
  <2> HIDE DEF j
  <2> QED
    BY <2>1, <2>3, <2>4, <2>5
<1>7. CASE tags = NoTags /\ ItemTime(run, B - 1) + Stepsize <= now
  <2>1. ASSUME NEW idx \in 0 .. B - 1
        PROVE  ItemTime(run, idx) # StepOf(now)
    <3>1. B - 1 \in 0 .. B - 1
      BY <1>1
    <3>2. idx = B - 1 \/ ItemTime(run, idx) + Stepsize <= ItemTime(run, B - 1)
      BY <3>1, <1>1, <1>3
    <3> QED
      BY <3>1, <3>2, <1>1, <1>2, <1>4, <1>7
  <2>2. tags[p] = {}
    BY <1>7 DEF NoTags
  <2> QED
    BY <2>1, <2>2
<1> QED
  BY <1>5, <1>6, <1>7 DEF ReaderInv

(* What the observed signal settles on is the tag it should have.          *)
LEMMA SettledIsTagAt ==
  ASSUME DelaysFit, AnalysisInv, stage = "simulate", ~ReaderDue
  PROVE  Settled = TagAt(run, now)
<1> USE DEF AnalysisInv, TargetInv
<1>1. /\ run \in Runs /\ now \in 0 .. LastTime /\ LastTime \in Nat
      /\ design[now] \in Behaviours
  BY ScheduleAssumption DEF CampaignInv, FileInv, TypeOK, DesignOK
<1>2. Influence[now] = IF design[now].load THEN {<<p, StepOf(now)>> : p \in design[now].from}
                       ELSE IF now = 0 THEN {} ELSE Influence[now - 1]
  BY <1>1, InfluenceSteps DEF DesignOK
<1>3. CASE design[now].load
  <2>1. design[now].from \subseteq Ports
    BY <1>1 DEF Behaviours
  <2>2. ASSUME NEW b, NEW p \in design[now].from, b \in tags[p]
        PROVE  b \in TagAt(run, now)
    <3>1. p \in Ports
      BY <2>1
    <3>2. PICK idx \in 0 .. BatchSize(run) - 1 :
            b = TagBit(idx, p) /\ Exported(run, idx, p) /\ ItemTime(run, idx) = StepOf(now)
      BY <2>2, <3>1, TagsOfNow
    <3>3. idx \in 0 .. ItemsPerBatch - 1
      BY <1>1, BatchFacts, ScheduleFacts
    <3>4. b \in Bits
      BY <3>1, <3>2, <3>3, TagBitFacts
    <3>5. <<p, ItemTime(run, idx)>> \in Influence[now]
      BY <1>2, <1>3, <3>2
    <3> QED
      BY <3>1, <3>2, <3>4, <3>5 DEF TagAt, Carries
  <2>3. ASSUME NEW b \in TagAt(run, now)
        PROVE  \E p \in design[now].from : b \in tags[p]
    <3>1. PICK idx \in 0 .. BatchSize(run) - 1, p \in Ports :
            b = TagBit(idx, p) /\ Exported(run, idx, p) /\ <<p, ItemTime(run, idx)>> \in Influence[now]
      BY <2>3 DEF TagAt, Carries
    <3>2. p \in design[now].from /\ ItemTime(run, idx) = StepOf(now)
      BY <1>2, <1>3, <3>1
    <3> QED
      BY <3>1, <3>2, TagsOfNow
  <2>4. Settled = UNION {tags[p] : p \in design[now].from}
    BY <1>3 DEF Settled
  <2> QED
    BY <2>2, <2>3, <2>4
<1>4. CASE ~design[now].load /\ now = 0
  BY <1>2, <1>4 DEF Settled, TargetOK, TagAt, Carries
<1>5. CASE ~design[now].load /\ now # 0
  BY <1>2, <1>5 DEF Settled, TargetOK, TagAt, Carries
<1> QED
  BY <1>3, <1>4, <1>5

(* The end of a time step keeps the dump of the observed signal in order.  *)
LEMMA SampleTargetFacts ==
  ASSUME DelaysFit, AnalysisInv, stage = "simulate", now < LastTime => ~ReaderDue
  PROVE  /\ DOMAIN SampleTarget = Runs
         /\ \A r \in Runs : r # run => SampleTarget[r] = targetDump[r]
         /\ targetDump[run] \subseteq SampleTarget[run]
         /\ TargetEntriesOK(run, SampleTarget[run])
         /\ \A e \in SampleTarget[run] : e.time <= now
         /\ now < LastTime => \E e \in SampleTarget[run] : e.time <= now /\ e.value = TagAt(run, now)
<1> USE DEF AnalysisInv, TargetInv
<1>1. run \in Runs /\ now \in 0 .. LastTime /\ LastTime \in Nat /\ now \in Nat
  BY ScheduleAssumption DEF CampaignInv, FileInv, TypeOK
<1> DEFINE changes == targetDump[run]
           new == Record(changes, now, Settled)
<1>2. /\ DOMAIN SampleTarget = Runs
      /\ \A r \in Runs : r # run => SampleTarget[r] = targetDump[r]
      /\ SampleTarget[run] = new
  BY <1>1 DEF SampleTarget, DesignOK
<1>3. TargetEntriesOK(run, changes) /\ \A e \in changes : e.time < now
  BY <1>1 DEF TargetEntriesInv, TargetProgressInv
<1>4. /\ \A e \in changes : e.time \in Nat /\ e.time < now
      /\ changes = {} \/ LastEntry(changes) \in changes
  BY <1>1, <1>3 DEF TargetEntriesOK
<1>5. /\ changes \subseteq new
      /\ \A e \in new : e \in changes \/ e = [time |-> now, value |-> Settled]
      /\ LastEntry(new) \in new
      /\ LastEntry(new).value = Settled
  <2>1. new = Record(changes, now, Settled)
    OBVIOUS
  <2> HIDE DEF changes, new, AnalysisInv, TargetInv
  <2>2. /\ changes \subseteq new
        /\ \A e \in new : e \in changes \/ (/\ e = [time |-> now, value |-> Settled]
                                            /\ changes = {} \/ LastEntry(changes).value # Settled)
        /\ changes = {} \/ LastEntry(changes).value # Settled =>
             [time |-> now, value |-> Settled] \in new
        /\ new # {}
        /\ LastEntry(new) \in new
        /\ LastEntry(new).value = Settled
    BY <1>1, <1>4, <2>1, RecordFacts
  <2> QED
    BY <2>2
<1> HIDE DEF changes, new
<1>6. now < LastTime => Settled = TagAt(run, now)
  BY SettledIsTagAt
<1>7. \A e \in new : e.time \in 0 .. LastTime /\ e.time <= now
  BY <1>1, <1>3, <1>5 DEF TargetEntriesOK
<1>8. \A e \in new : e.time < LastTime => e.value = TagAt(run, e.time)
  BY <1>1, <1>3, <1>5, <1>6 DEF TargetEntriesOK
<1> QED
  BY <1>2, <1>5, <1>6, <1>7, <1>8 DEF TargetEntriesOK, changes

LEMMA AnalysisInvInit == AnalysisInit => AnalysisInv
<1> SUFFICES ASSUME AnalysisInit PROVE AnalysisInv
  OBVIOUS
<1>1. CampaignInv
  BY CampaignInvInit DEF AnalysisInit
<1>2. /\ stage = "export" /\ target = {} /\ design \in [0 .. LastTime -> Behaviours]
      /\ targetDump = [r \in Runs |-> {}]
  BY DEF AnalysisInit, Init
<1> QED
  BY <1>1, <1>2
  DEF AnalysisInv, TargetInv, DesignOK, TargetOK, TargetEntriesInv, TargetEntriesOK,
      TargetProgressInv, TargetCoverageInv, Past

(* Steps of the exporter and of the reader                                 *)
LEMMA TargetInvQuiet ==
  ASSUME DelaysFit, AnalysisInv, CampaignInv', Export \/ Reader,
         UNCHANGED <<design, target, targetDump>>
  PROVE  TargetInv'
<1> USE DEF AnalysisInv, TargetInv
<1>1. DesignOK'
  BY DEF DesignOK
<1>2. CASE Export
  <2>1. stage = "export" /\ \A r \in Runs : targetDump'[r] = {}
    BY <1>2 DEF Export, ExportDelayLine, ExportTagLine, NextFile, TargetProgressInv
  <2>2. stage' = "export" \/ (stage' = "simulate" /\ now' = 0 /\ run' \in Runs)
    BY <1>2, ScheduleFacts
    DEF Export, ExportDelayLine, ExportTagLine, NextFile, StartSimulation, Runs
  <2>3. target' = {}
    BY <2>1 DEF TargetOK
  <2>4. \A r \in Runs, t \in 0 .. LastTime - 1 : ~Past(r, t)'
    <3>1. \A r \in Runs : ~(stage' = "simulate" /\ r < run')
      BY <1>2, ScheduleFacts
      DEF Export, ExportDelayLine, ExportTagLine, NextFile, StartSimulation, Runs
    <3> QED
      BY <2>2, <3>1 DEF Past
  <2> QED
    BY <1>1, <2>1, <2>2, <2>3, <2>4
    DEF TargetOK, TargetEntriesInv, TargetEntriesOK, TargetProgressInv, TargetCoverageInv
<1>3. CASE Reader
  <2>1. UNCHANGED <<stage, run, files, now, dump>>
    BY <1>3 DEF Reader, ReadLine, EndReader
  <2>2. \A r, t : TagAt(r, t)' = TagAt(r, t)
    BY <2>1, TagAtUnchanged
  <2> QED
    BY <1>1, <2>1, <2>2
    DEF TargetOK, TargetEntriesInv, TargetEntriesOK, TargetProgressInv, TargetCoverageInv, Past
<1> QED
  BY <1>2, <1>3

LEMMA TargetInvTick ==
  ASSUME DelaysFit, AnalysisInv, Tick, target' = Settled, targetDump' = SampleTarget,
         UNCHANGED design
  PROVE  TargetInv'
<1> USE DEF AnalysisInv, TargetInv
<1>1. /\ stage = "simulate" /\ ~ReaderDue /\ now < LastTime /\ now' = now + 1
      /\ UNCHANGED <<stage, run, files>>
  BY DEF Tick
<1>2. run \in Runs /\ now \in Nat /\ LastTime \in Nat /\ Runs \subseteq Nat
  BY ScheduleFacts, ScheduleAssumption DEF CampaignInv, FileInv, TypeOK, Runs
<1>3. \A r, t : TagAt(r, t)' = TagAt(r, t)
  BY <1>1, TagAtUnchanged
<1>4. /\ DOMAIN targetDump' = Runs
      /\ \A r \in Runs : r # run => targetDump'[r] = targetDump[r]
      /\ targetDump[run] \subseteq targetDump'[run]
      /\ TargetEntriesOK(run, targetDump'[run])
      /\ \A e \in targetDump'[run] : e.time <= now
      /\ \E e \in targetDump'[run] : e.time <= now /\ e.value = TagAt(run, now)
  BY <1>1, SampleTargetFacts
<1>5. DesignOK'
  BY <1>4 DEF DesignOK
<1>6. TargetOK'
  <2>1. target' = TagAt(run, now)
    BY <1>1, SettledIsTagAt
  <2>2. now' # 0 /\ now' - 1 = now
    BY <1>1, <1>2
  <2> QED
    BY <2>1, <2>2, <1>1, <1>3 DEF TargetOK
<1>7. TargetEntriesInv'
  <2> SUFFICES ASSUME NEW r \in Runs PROVE TargetEntriesOK(r, targetDump'[r])
    BY <1>3 DEF TargetEntriesInv, TargetEntriesOK
  <2> QED
    BY <1>4 DEF TargetEntriesInv
<1>8. TargetProgressInv'
  <2>1. \A e \in targetDump'[run] : e.time < now'
    BY <1>1, <1>2, <1>4 DEF TargetEntriesOK
  <2>2. \A r \in Runs : run < r => targetDump'[r] = {}
    BY <1>1, <1>2, <1>4 DEF TargetProgressInv
  <2> QED
    BY <2>1, <2>2, <1>1 DEF TargetProgressInv
<1>9. TargetCoverageInv'
  <2> SUFFICES ASSUME NEW r \in Runs, NEW t \in 0 .. LastTime - 1, Past(r, t)'
               PROVE  \E e \in targetDump'[r] : e.time <= t /\ e.value = TagAt(r, t)
    BY <1>3 DEF TargetCoverageInv
  <2>1. CASE Past(r, t)
    <3>1. \E e \in targetDump[r] : e.time <= t /\ e.value = TagAt(r, t)
      BY <2>1 DEF TargetCoverageInv
    <3>2. targetDump[r] \subseteq targetDump'[r]
      BY <1>4
    <3> QED
      BY <3>1, <3>2
  <2>2. CASE ~Past(r, t)
    <3>1. r = run /\ t = now
      BY <2>2, <1>1, <1>2 DEF Past
    <3> QED
      BY <3>1, <1>4
  <2> QED
    BY <2>1, <2>2
<1> QED
  BY <1>5, <1>6, <1>7, <1>8, <1>9

LEMMA TargetInvFinish ==
  ASSUME DelaysFit, AnalysisInv, NEW flushed \in BOOLEAN, Finish(flushed), target' = {},
         targetDump' = IF flushed THEN SampleTarget ELSE targetDump, UNCHANGED design
  PROVE  TargetInv'
<1> USE DEF AnalysisInv, TargetInv
<1>1. stage = "simulate" /\ now = LastTime /\ files' = files
  BY DEF Finish
<1>2. run \in Runs /\ now \in Nat /\ LastTime \in Nat \ {0} /\ Runs \subseteq Nat
  BY ScheduleFacts, ScheduleAssumption DEF CampaignInv, FileInv, TypeOK, Runs
<1>3. \A r, t : TagAt(r, t)' = TagAt(r, t)
  BY <1>1, TagAtUnchanged
<1>4. /\ DOMAIN targetDump' = Runs
      /\ \A r \in Runs : r # run => targetDump'[r] = targetDump[r]
      /\ targetDump[run] \subseteq targetDump'[run]
      /\ TargetEntriesOK(run, targetDump'[run])
  <2>1. ~(now < LastTime)
    BY <1>1, <1>2
  <2>2. CASE flushed
    BY <1>1, <2>1, <2>2, SampleTargetFacts
  <2>3. CASE ~flushed
    BY <1>2, <2>3 DEF DesignOK, TargetEntriesInv
  <2> QED
    BY <2>2, <2>3
<1>5. DesignOK'
  BY <1>4 DEF DesignOK
<1>6. TargetEntriesInv'
  <2> SUFFICES ASSUME NEW r \in Runs PROVE TargetEntriesOK(r, targetDump'[r])
    BY <1>3 DEF TargetEntriesInv, TargetEntriesOK
  <2> QED
    BY <1>4 DEF TargetEntriesInv
<1>7. ASSUME NEW r \in Runs, NEW t \in 0 .. LastTime - 1, r <= run
      PROVE  \E e \in targetDump'[r] : e.time <= t /\ e.value = TagAt(r, t)
  <2>1. Past(r, t)
    BY <1>1, <1>2, <1>7 DEF Past
  <2>2. \E e \in targetDump[r] : e.time <= t /\ e.value = TagAt(r, t)
    BY <2>1 DEF TargetCoverageInv
  <2>3. targetDump[r] \subseteq targetDump'[r]
    BY <1>4
  <2> QED
    BY <2>2, <2>3
<1>8. CASE run + 1 \in Runs
  <2>1. stage' = "simulate" /\ run' = run + 1 /\ now' = 0
    BY <1>1, <1>8 DEF Finish, StartSimulation
  <2>2. TargetOK'
    BY <2>1 DEF TargetOK
  <2>3. \A r \in Runs : run < r => targetDump'[r] = {}
    BY <1>1, <1>2, <1>4 DEF TargetProgressInv
  <2>4. TargetProgressInv'
    BY <2>1, <2>3, <1>2, <1>8 DEF TargetProgressInv
  <2>5. TargetCoverageInv'
    <3> SUFFICES ASSUME NEW r \in Runs, NEW t \in 0 .. LastTime - 1, Past(r, t)'
                 PROVE  \E e \in targetDump'[r] : e.time <= t /\ e.value = TagAt(r, t)
      BY <1>3 DEF TargetCoverageInv
    <3>1. r <= run
      BY <2>1, <1>2 DEF Past
    <3> QED
      BY <3>1, <1>7
  <2> QED
    BY <1>5, <1>6, <2>2, <2>4, <2>5
<1>9. CASE run + 1 \notin Runs
  <2>1. stage' = "done"
    BY <1>1, <1>9 DEF Finish
  <2>2. \A r \in Runs : r <= run
    BY <1>2, <1>9, ScheduleFacts DEF Runs
  <2>3. TargetCoverageInv'
    BY <2>2, <1>3, <1>7 DEF TargetCoverageInv
  <2> QED
    BY <1>5, <1>6, <2>1, <2>3 DEF TargetOK, TargetProgressInv
<1> QED
  BY <1>8, <1>9

LEMMA AnalysisInvStep ==
  DelaysFit /\ AnalysisInv /\ [AnalysisNext]_analysisVars => AnalysisInv'
<1> SUFFICES ASSUME DelaysFit, AnalysisInv, [AnalysisNext]_analysisVars PROVE AnalysisInv'
  OBVIOUS
<1>1. [Next]_vars
  BY DEF AnalysisNext, analysisVars, Next
<1>2. CampaignInv'
  BY <1>1, CampaignInvStep DEF AnalysisInv
<1>3. CASE (Export \/ Reader) /\ UNCHANGED <<design, target, targetDump>>
  BY <1>2, <1>3, TargetInvQuiet DEF AnalysisInv
<1>4. CASE Tick /\ target' = Settled /\ targetDump' = SampleTarget /\ UNCHANGED design
  BY <1>2, <1>4, TargetInvTick DEF AnalysisInv
<1>5. ASSUME NEW flushed \in BOOLEAN, Finish(flushed), target' = {},
             targetDump' = IF flushed THEN SampleTarget ELSE targetDump, UNCHANGED design
      PROVE  AnalysisInv'
  BY <1>2, <1>5, TargetInvFinish DEF AnalysisInv
<1>6. CASE UNCHANGED analysisVars
  <2>1. UNCHANGED <<stage, run, files, now, design, target, targetDump>>
    BY <1>6 DEF analysisVars, vars
  <2>2. \A r, t : TagAt(r, t)' = TagAt(r, t)
    BY <2>1, TagAtUnchanged
  <2> QED
    BY <1>2, <2>1, <2>2
    DEF AnalysisInv, TargetInv, DesignOK, TargetOK, TargetEntriesInv, TargetEntriesOK,
        TargetProgressInv, TargetCoverageInv, Past
<1> QED
  BY <1>3, <1>4, <1>5, <1>6 DEF AnalysisNext, Over, analysisVars

(* The observed signal has the tags of what influences it, in every run and *)
(* at every time step, and its dump says so.                               *)
THEOREM AnalysisInvariant == ASSUME DelaysFit PROVE AnalysisSpec => []AnalysisInv
<1>1. AnalysisInv /\ [AnalysisNext]_analysisVars => AnalysisInv'
  BY AnalysisInvStep
<1> QED
  BY <1>1, AnalysisInvInit, PTL DEF AnalysisSpec

-----------------------------------------------------------------------------
(* The answers.                                                            *)

(* A bit that an input entry and a target entry of one run have in common  *)
(* is a flow from that input at the time of the one to the time of the     *)
(* other.                                                                  *)
LEMMA CommonBitIsAFlow ==
  ASSUME AnalysisInv, NEW r \in Runs, NEW p \in Ports, NEW e \in dump[r][p],
         NEW f \in targetDump[r], f.time < LastTime, e.value \cap f.value # {}
  PROVE  <<p, e.time>> \in Influence[f.time]
<1>1. PICK b : b \in e.value /\ b \in f.value
  OBVIOUS
<1>2. PICK i \in 0 .. BatchSize(r) - 1 : b = TagBit(i, p) /\ e.time = ItemTime(r, i)
  BY <1>1 DEF AnalysisInv, CampaignInv, EntriesInv, EntriesOK, ScheduledEntry
<1>3. b \in TagAt(r, f.time)
  BY <1>1 DEF AnalysisInv, TargetInv, TargetEntriesInv, TargetEntriesOK
<1>4. PICK j \in 0 .. BatchSize(r) - 1, q \in Ports :
        b = TagBit(j, q) /\ <<q, ItemTime(r, j)>> \in Influence[f.time]
  BY <1>3 DEF TagAt, Carries
<1>5. i \in 0 .. ItemsPerBatch - 1 /\ j \in 0 .. ItemsPerBatch - 1
  BY BatchFacts, ScheduleFacts
<1>6. i = j /\ p = q
  <2>1. TagBit(i, p) = TagBit(j, q)
    BY <1>2, <1>4
  <2> QED
    BY <1>5, <2>1, TagBitFacts
<1> QED
  BY <1>2, <1>4, <1>6

(* Every flow that get_information_flow_source_signals_for_target_signal   *)
(* reports is one of the design, whatever the design does.                 *)
THEOREM FlowsAreReal == ASSUME DelaysFit PROVE AnalysisSpec => []ReportedFlowsAreReal
<1>1. AnalysisInv => ReportedFlowsAreReal
  <2> SUFFICES ASSUME AnalysisInv, NEW f \in InformationFlows, f.observed < LastTime
               PROVE  <<f.input, f.injected>> \in Influence[f.observed]
    BY DEF ReportedFlowsAreReal
  <2>1. PICK r \in Runs, p \in Ports : \E x \in dump[r][p] \X targetDump[r] :
          /\ x[1].value \cap x[2].value # {}
          /\ f = [input |-> p, injected |-> x[1].time, observed |-> x[2].time]
    BY DEF InformationFlows, FlowsOfRun
  <2>2. PICK y \in dump[r][p] \X targetDump[r] :
          /\ y[1].value \cap y[2].value # {}
          /\ f = [input |-> p, injected |-> y[1].time, observed |-> y[2].time]
    BY <2>1
  <2>3. y[1] \in dump[r][p] /\ y[2] \in targetDump[r] /\ y[2].time < LastTime
    BY <2>2
  <2> QED
    BY <2>2, <2>3, CommonBitIsAFlow
<1> QED
  BY <1>1, AnalysisInvariant, PTL

(* Every influence of an injected input is reported by the time it is      *)
(* there.                                                                  *)
THEOREM InfluencesReported == ASSUME DelaysFit PROVE AnalysisSpec => []InfluencesAreReported
<1>1. AnalysisInv => InfluencesAreReported
  <2> SUFFICES ASSUME AnalysisInv, stage = "done", NEW t \in 0 .. LastTime - 1,
                      NEW x \in Influence[t] \cap Injections
               PROVE  \E f \in InformationFlows :
                        f.input = x[1] /\ f.injected = x[2] /\ f.observed <= t
    BY DEF InfluencesAreReported
  <2>1. PICK r \in Runs :
          \E i \in 0 .. BatchSize(r) - 1 : x[2] = ItemTime(r, i) /\ Exported(r, i, x[1])
    BY DEF Injections, InjectionsUntil
  <2>2. PICK idx \in 0 .. BatchSize(r) - 1 :
          x[2] = ItemTime(r, idx) /\ Exported(r, idx, x[1])
    BY <2>1
  <2> DEFINE p == x[1]
             e == [time |-> ItemTime(r, idx), value |-> {TagBit(idx, p)}]
  <2>3. p \in Ports /\ x[2] \in 0 .. LastTime - 1 /\ x = <<p, ItemTime(r, idx)>>
    BY <2>2 DEF Injections, InjectionsUntil
  <2>4. t \in Nat /\ LastTime \in Nat /\ t < LastTime /\ ItemTime(r, idx) < LastTime
    BY <2>2, <2>3, ScheduleAssumption
  <2>5. e \in dump[r][p]
    BY <2>2, <2>3, <2>4 DEF AnalysisInv, CampaignInv, CoverageInv, Past
  <2>6. PICK f \in targetDump[r] : f.time <= t /\ f.value = TagAt(r, t)
    BY <2>4 DEF AnalysisInv, TargetInv, TargetCoverageInv, Past
  <2>7. TagBit(idx, p) \in TagAt(r, t)
    <3>1. idx \in 0 .. ItemsPerBatch - 1
      BY BatchFacts, ScheduleFacts
    <3>2. TagBit(idx, p) \in Bits
      BY <2>3, <3>1, TagBitFacts
    <3> QED
      BY <2>2, <2>3, <3>2 DEF TagAt, Carries
  <2>8. e.value \cap f.value # {}
    BY <2>6, <2>7
  <2> DEFINE y == <<e, f>>
             flow == [input |-> p, injected |-> e.time, observed |-> f.time]
  <2>9. y \in dump[r][p] \X targetDump[r] /\ y[1] = e /\ y[2] = f
    BY <2>5
  <2>10. flow \in FlowsOfRun(r)
    <3> HIDE DEF e
    <3> QED
      BY <2>3, <2>8, <2>9 DEF FlowsOfRun
  <2>11. flow \in InformationFlows
    BY <2>10 DEF InformationFlows
  <2> QED
    BY <2>3, <2>6, <2>11
<1> QED
  BY <1>1, AnalysisInvariant, PTL

(* A "true" of is_tag_propagated is never wrong.                           *)
THEOREM PropagationIsReal == ASSUME DelaysFit PROVE AnalysisSpec => []PropagatedIsReal
<1>1. AnalysisInv => PropagatedIsReal
  <2> SUFFICES ASSUME AnalysisInv, NEW p \in Ports,
                      NEW ti \in 0 .. LastTime - 1, NEW tt \in 0 .. LastTime - 1,
                      IsTagPropagated(p, ti, tt) = "true"
               PROVE  <<p, ti>> \in Influence[tt]
    BY DEF PropagatedIsReal
  <2> DEFINE r == FirstRun(p, ti)
             e == EntryAt(dump[r][p], ti)
  <2>1. RunsWithEntry(p, ti) # {}
    BY DEF IsTagPropagated
  <2>2. \E f \in targetDump[r] : f.time = tt /\ f.value \cap e.value # {}
    BY <2>1 DEF IsTagPropagated
  <2>3. r \in RunsWithEntry(p, ti)
    <3>1. RunsWithEntry(p, ti) \in SUBSET Nat
      BY ScheduleFacts DEF RunsWithEntry, Runs
    <3>2. \E s \in RunsWithEntry(p, ti) : \A u \in RunsWithEntry(p, ti) : s <= u
      BY <2>1, <3>1, LeastElement
    <3> QED
      BY <3>2 DEF FirstRun
  <2> HIDE DEF r
  <2>4. r \in Runs /\ \E g \in dump[r][p] : g.time = ti
    BY <2>3 DEF RunsWithEntry
  <2>5. e \in dump[r][p] /\ e.time = ti
    BY <2>4 DEF EntryAt
  <2> HIDE DEF e
  <2>6. tt < LastTime
    BY ScheduleAssumption
  <2>7. PICK f \in targetDump[r] : f.time = tt /\ e.value \cap f.value # {}
    BY <2>2
  <2> QED
    BY <2>4, <2>5, <2>6, <2>7, CommonBitIsAFlow
<1> QED
  BY <1>1, AnalysisInvariant, PTL

-----------------------------------------------------------------------------
(* The end of the stimulus.                                                *)

(* An influence is a port in a step that has begun.                        *)
LEMMA InfluenceIsPast ==
  ASSUME design \in [0 .. LastTime -> Behaviours], NEW t \in 0 .. LastTime, NEW x \in Influence[t]
  PROVE  x = <<x[1], x[2]>> /\ x[1] \in Ports /\ x[2] \in 0 .. LastTime /\ x[2] <= t
<1> DEFINE Begun(n) == {<<p, m>> : p \in Ports, m \in 0 .. n}
           Good == {n \in 0 .. LastTime : Influence[n] \subseteq Begun(n)}
<1>1. LastTime \in Nat
  BY ScheduleAssumption
<1>2. ASSUME NEW n \in 0 .. LastTime
      PROVE  {<<p, StepOf(n)>> : p \in design[n].from} \subseteq Begun(n)
  <2>1. design[n].from \subseteq Ports
    BY DEF Behaviours
  <2>2. StepOf(n) \in 0 .. n
    BY <1>1, StepOfBounds
  <2> QED
    BY <2>1, <2>2
<1>3. 0 \in Good
  <2>1. Influence[0] = IF design[0].load THEN {<<p, StepOf(0)>> : p \in design[0].from} ELSE {}
    <3>1. 0 \in 0 .. LastTime
      BY <1>1
    <3>2. Influence[0] = IF design[0].load THEN {<<p, StepOf(0)>> : p \in design[0].from}
                         ELSE IF 0 = 0 THEN {} ELSE Influence[0 - 1]
      BY <3>1, InfluenceSteps, Zenon
    <3> QED
      BY <3>2
  <2> HIDE DEF Begun
  <2> QED
    BY <1>1, <1>2, <2>1
<1>4. ASSUME NEW n \in 0 .. LastTime - 1, n \in Good
      PROVE  n + 1 \in Good
  <2>1. n + 1 \in 0 .. LastTime /\ n + 1 # 0 /\ (n + 1) - 1 = n
    BY <1>1
  <2>2. Influence[n + 1] = IF design[n + 1].load
                           THEN {<<p, StepOf(n + 1)>> : p \in design[n + 1].from}
                           ELSE Influence[n]
    BY <2>1, InfluenceSteps
  <2>3. Begun(n) \subseteq Begun(n + 1)
    BY <1>1
  <2> HIDE DEF Begun
  <2> QED
    BY <1>2, <1>4, <2>1, <2>2, <2>3
<1>5. 0 .. LastTime \subseteq Good
  <2> HIDE DEF Good
  <2> QED
    BY <1>1, <1>3, <1>4, BoundedInduction
<1>6. PICK p \in Ports, m \in 0 .. t : x = <<p, m>>
  BY <1>5
<1> QED
  BY <1>1, <1>6

(* The last time step is cut off. If the dump has it, the observed signal  *)
(* has its tag or, should the reader have been due, loads inputs whose     *)
(* tags are those of the step before.                                      *)
AtTheEnd(r, b) == \E e \in targetDump[r] : e.time = LastTime /\ b \in e.value

OfTheStepBefore(r, b) ==
  \E idx \in 0 .. BatchSize(r) - 1, p \in design[LastTime].from :
    /\ b = TagBit(idx, p) /\ Exported(r, idx, p)
    /\ ItemTime(r, idx) + Stepsize = LastTime

EndOK(r) ==
  \/ \A b : AtTheEnd(r, b) => b \in TagAt(r, LastTime)
  \/ /\ design[LastTime].load
     /\ \A b : AtTheEnd(r, b) => OfTheStepBefore(r, b)

EndInv == \A r \in Runs : EndOK(r)

(* What a reader that is due has left on the inputs                        *)
LEMMA StaleTags ==
  ASSUME CampaignInv, stage = "simulate", ReaderDue, now = LastTime, NEW p \in Ports, NEW b \in tags[p]
  PROVE  \E idx \in 0 .. BatchSize(run) - 1 :
           /\ b = TagBit(idx, p) /\ Exported(run, idx, p)
           /\ ItemTime(run, idx) + Stepsize = LastTime
<1>1. tags # NoTags
  BY DEF NoTags
<1>2. /\ line \in 1 .. BatchSize(run)
      /\ \A q \in Ports : tags[q] = Injected(run, line - 1, q)
      /\ wake = ItemTime(run, line - 1) + Stepsize
  BY <1>1 DEF CampaignInv, ReaderInv
<1>3. BatchSize(run) \in Nat
  BY BatchFacts, ScheduleFacts DEF CampaignInv, FileInv, TypeOK
<1>4. line - 1 \in 0 .. BatchSize(run) - 1
  BY <1>2, <1>3
<1>5. b = TagBit(line - 1, p) /\ Exported(run, line - 1, p)
  <2>1. tags[p] = IF Exported(run, line - 1, p) THEN {TagBit(line - 1, p)} ELSE {}
    BY <1>2, Zenon DEF Injected
  <2> QED
    BY <2>1
<1>6. wake = LastTime
  BY DEF ReaderDue
<1> QED
  BY <1>2, <1>4, <1>5, <1>6

LEMMA SettledAtTheEnd ==
  ASSUME DelaysFit, AnalysisInv, stage = "simulate", now = LastTime
  PROVE  \/ Settled = TagAt(run, LastTime)
         \/ design[LastTime].load /\ \A b \in Settled : OfTheStepBefore(run, b)
<1> USE DEF AnalysisInv, TargetInv
<1>1. LastTime \in Nat \ {0} /\ run \in Runs /\ LastTime \in 0 .. LastTime
  BY ScheduleAssumption DEF CampaignInv, FileInv, TypeOK
<1>2. CASE ~ReaderDue
  BY <1>2, SettledIsTagAt
<1>3. CASE ReaderDue /\ ~design[LastTime].load
  <2>1. Influence[LastTime] = Influence[LastTime - 1]
    BY <1>1, <1>3, InfluenceSteps DEF DesignOK
  <2>2. TagAt(run, LastTime) = TagAt(run, LastTime - 1)
    BY <2>1 DEF TagAt, Carries
  <2> QED
    BY <1>1, <1>3, <2>2 DEF Settled, TargetOK
<1>4. CASE ReaderDue /\ design[LastTime].load
  <2>1. design[LastTime].from \subseteq Ports
    BY <1>1 DEF DesignOK, Behaviours
  <2>2. ASSUME NEW b \in Settled
        PROVE  OfTheStepBefore(run, b)
    <3>1. PICK p \in design[LastTime].from : b \in tags[p]
      BY <1>4 DEF Settled
    <3>2. p \in Ports
      BY <2>1
    <3>3. PICK idx \in 0 .. BatchSize(run) - 1 :
            /\ b = TagBit(idx, p) /\ Exported(run, idx, p)
            /\ ItemTime(run, idx) + Stepsize = LastTime
      BY <1>4, <3>1, <3>2, StaleTags
    <3> QED
      BY <3>1, <3>3 DEF OfTheStepBefore
  <2> QED
    BY <1>4, <2>2
<1> QED
  BY <1>2, <1>3, <1>4

LEMMA EndOKUnchanged ==
  ASSUME NEW r, EndOK(r), files' = files, design' = design,
         \A b : AtTheEnd(r, b)' => AtTheEnd(r, b)
  PROVE  EndOK(r)'
<1>1. TagAt(r, LastTime)' = TagAt(r, LastTime)
  BY TagAtUnchanged
<1>2. \A b : OfTheStepBefore(r, b)' <=> OfTheStepBefore(r, b)
  BY DEF OfTheStepBefore, Exported
<1> HIDE DEF AtTheEnd, OfTheStepBefore
<1> QED
  BY <1>1, <1>2 DEF EndOK

LEMMA EndInvStep ==
  ASSUME DelaysFit, AnalysisInv, EndInv, [AnalysisNext]_analysisVars
  PROVE  EndInv'
<1> SUFFICES ASSUME NEW r \in Runs
             PROVE  EndOK(r)'
  BY DEF EndInv
<1> USE DEF AnalysisInv, TargetInv
<1>1. LastTime \in Nat \ {0} /\ run \in Runs /\ now \in 0 .. LastTime /\ EndOK(r)
  BY ScheduleAssumption DEF CampaignInv, FileInv, TypeOK, EndInv
<1>2. CASE Export /\ UNCHANGED <<design, target, targetDump>>
  <2>1. targetDump'[r] = {}
    BY <1>2 DEF Export, ExportDelayLine, ExportTagLine, NextFile, TargetProgressInv
  <2> QED
    BY <2>1 DEF EndOK, AtTheEnd
<1>3. CASE (Reader \/ Over) /\ UNCHANGED <<design, target, targetDump>>
  <2>1. files' = files /\ design' = design /\ targetDump' = targetDump
    BY <1>3 DEF Reader, ReadLine, EndReader, Over, vars
  <2> QED
    BY <1>1, <2>1, EndOKUnchanged DEF AtTheEnd
<1>4. CASE Tick /\ targetDump' = SampleTarget /\ UNCHANGED design
  <2>1. stage = "simulate" /\ ~ReaderDue /\ now < LastTime /\ files' = files
    BY <1>4 DEF Tick
  <2>2. /\ r # run => targetDump'[r] = targetDump[r]
        /\ r = run => \A e \in targetDump'[r] : e.time <= now
    BY <1>4, <2>1, SampleTargetFacts
  <2>3. \A b : AtTheEnd(r, b)' => AtTheEnd(r, b)
    BY <1>1, <2>1, <2>2 DEF AtTheEnd
  <2> QED
    BY <1>1, <1>4, <2>1, <2>3, EndOKUnchanged
<1>5. ASSUME NEW flushed \in BOOLEAN, Finish(flushed),
             targetDump' = IF flushed THEN SampleTarget ELSE targetDump, UNCHANGED design
      PROVE  EndOK(r)'
  <2>1. stage = "simulate" /\ now = LastTime /\ files' = files
    BY <1>5 DEF Finish
  <2>2. CASE ~flushed \/ r # run
    <3>1. targetDump'[r] = targetDump[r]
      BY <1>1, <1>5, <2>2 DEF SampleTarget, DesignOK
    <3> QED
      BY <1>1, <1>5, <2>1, <3>1, EndOKUnchanged DEF AtTheEnd
  <2>3. CASE flushed /\ r = run
    <3>1. targetDump'[r] = Record(targetDump[r], now, Settled)
      BY <1>5, <2>3 DEF SampleTarget, DesignOK
    <3>2. ASSUME NEW b, AtTheEnd(r, b)'
          PROVE  b \in Settled
      <4>1. PICK e \in targetDump'[r] : e.time = LastTime /\ b \in e.value
        BY <3>2 DEF AtTheEnd
      <4>2. e \notin targetDump[r]
        BY <1>1, <2>1, <2>3, <4>1 DEF TargetProgressInv
      <4>3. e = [time |-> now, value |-> Settled]
        BY <3>1, <4>1, <4>2 DEF Record
      <4> QED
        BY <4>1, <4>3
    <3>3. TagAt(r, LastTime)' = TagAt(r, LastTime)
      BY <1>5, <2>1, TagAtUnchanged
    <3>4. \A b : OfTheStepBefore(r, b)' <=> OfTheStepBefore(r, b)
      BY <1>5, <2>1 DEF OfTheStepBefore, Exported
    <3>5. \/ Settled = TagAt(r, LastTime)
          \/ design[LastTime].load /\ \A b \in Settled : OfTheStepBefore(r, b)
      BY <2>1, <2>3, SettledAtTheEnd
    <3> HIDE DEF AtTheEnd, OfTheStepBefore, AnalysisInv
    <3> QED
      BY <1>5, <3>2, <3>3, <3>4, <3>5 DEF EndOK
  <2> QED
    BY <2>2, <2>3
<1>6. CASE UNCHANGED analysisVars
  <2>1. files' = files /\ design' = design /\ targetDump' = targetDump
    BY <1>6 DEF analysisVars, vars
  <2> QED
    BY <1>1, <2>1, EndOKUnchanged DEF AtTheEnd
<1> QED
  BY <1>2, <1>3, <1>4, <1>5, <1>6 DEF AnalysisNext

LEMMA EndInvInit == AnalysisInit => EndInv
BY DEF AnalysisInit, EndInv, EndOK, AtTheEnd

LEMMA EndInvariant == ASSUME DelaysFit PROVE AnalysisSpec => []EndInv
<1>1. AnalysisInv /\ EndInv /\ [AnalysisNext]_analysisVars => EndInv'
  BY EndInvStep
<1> QED
  BY <1>1, EndInvInit, AnalysisInvariant, PTL DEF AnalysisSpec

-----------------------------------------------------------------------------
(* How many injections of a port reach the observed signal.                *)

(* The bits of a port that a run finds at the observed signal              *)
Found(r, p) ==
  {b \in Bits : /\ \E e \in dump[r][p] : b \in e.value
                /\ \E f \in targetDump[r] : b \in f.value}

(* A bit and the injection it stands for                                   *)
StandsFor(y, p, x) ==
  \E idx \in 0 .. BatchSize(y[1]) - 1 :
    y[2] = TagBit(idx, p) /\ x = <<p, ItemTime(y[1], idx)>>

Arrivals(p) == PairsOf(Runs, Bits, [r \in Runs |-> Found(r, p)])

(* Within a word, getTagPattern tells all bits apart.                      *)
LEMMA PatternsAreBits ==
  ASSUME TagSize <= WordBits, AnalysisInv, EndInv, NEW r \in Runs, NEW p \in Ports
  PROVE  PatternsIn(dump[r][p]) \cap PatternsIn(targetDump[r]) = Found(r, p)
<1> USE DEF AnalysisInv, CampaignInv, TargetInv
<1>1. \A b \in Bits : TagPattern(b) = b
  BY AnalysisAssumption, ScheduleAssumption DEF TagPattern, Bits
<1>2. ASSUME NEW e \in dump[r][p], NEW b \in e.value
      PROVE  b \in Bits
  <2>1. PICK idx \in 0 .. BatchSize(r) - 1 : b = TagBit(idx, p)
    BY DEF EntriesInv, EntriesOK, ScheduledEntry
  <2>2. idx \in 0 .. ItemsPerBatch - 1
    BY BatchFacts, ScheduleFacts
  <2> QED
    BY <2>1, <2>2, TagBitFacts
<1>3. ASSUME NEW f \in targetDump[r], NEW b \in f.value
      PROVE  b \in Bits
  <2>1. LastTime \in Nat /\ f.time \in 0 .. LastTime
    BY ScheduleAssumption DEF TargetEntriesInv, TargetEntriesOK
  <2>2. CASE f.time < LastTime
    BY <2>2 DEF TargetEntriesInv, TargetEntriesOK, TagAt
  <2>3. CASE f.time = LastTime
    <3>1. AtTheEnd(r, b)
      BY <2>3 DEF AtTheEnd
    <3>2. CASE b \in TagAt(r, LastTime)
      BY <3>2 DEF TagAt
    <3>3. CASE OfTheStepBefore(r, b)
      <4>1. PICK idx \in 0 .. BatchSize(r) - 1, q \in design[LastTime].from : b = TagBit(idx, q)
        BY <3>3 DEF OfTheStepBefore
      <4>2. idx \in 0 .. ItemsPerBatch - 1
        BY BatchFacts, ScheduleFacts
      <4>3. q \in Ports
        BY <2>1 DEF DesignOK, Behaviours
      <4> QED
        BY <4>1, <4>2, <4>3, TagBitFacts
    <3> QED
      BY <3>1, <3>2, <3>3 DEF EndInv, EndOK
  <2> QED
    BY <2>1, <2>2, <2>3
<1>4. ASSUME NEW C, \A e \in C : \A b \in e.value : b \in Bits
      PROVE  PatternsIn(C) = {b \in Bits : \E e \in C : b \in e.value}
  BY <1>1, <1>4 DEF PatternsIn
<1>5. /\ PatternsIn(dump[r][p]) = {b \in Bits : \E e \in dump[r][p] : b \in e.value}
      /\ PatternsIn(targetDump[r]) = {b \in Bits : \E f \in targetDump[r] : b \in f.value}
  BY <1>2, <1>3, <1>4
<1> QED
  BY <1>5 DEF Found

LEMMA TagCountIsArrivals ==
  ASSUME TagSize <= WordBits, AnalysisInv, EndInv, NEW p \in Ports
  PROVE  TagCount(p) = Cardinality(Arrivals(p)) /\ IsFiniteSet(Arrivals(p))
<1> DEFINE D == [r \in Runs |-> Found(r, p)]
           N(r) == Cardinality(PatternsIn(dump[r][p]) \cap PatternsIn(targetDump[r]))
           P(h) == h = [s \in SUBSET Runs |->
                          IF s = {} THEN 0
                          ELSE N(CHOOSE x \in s : TRUE) + h[s \ {CHOOSE x \in s : TRUE}]]
<1>1. TagCount(p) = (CHOOSE h : P(h))[Runs]
  BY Zenon DEF TagCount, MapThenSumSet, MapThenFoldSet
<1>2. D \in [Runs -> SUBSET Bits] /\ \A r \in Runs : N(r) = Cardinality(D[r])
  BY PatternsAreBits DEF Found
<1>3. IsFiniteSet(Runs) /\ IsFiniteSet(Bits)
  BY FS_Interval, ScheduleFacts, ScheduleAssumption DEF Runs, Bits
<1>4. \A h : P(h) <=> IsSum(h, Runs, D)
  <2>1. ASSUME NEW h, NEW s \in SUBSET Runs
        PROVE  (IF s = {} THEN 0
                ELSE N(CHOOSE x \in s : TRUE) + h[s \ {CHOOSE x \in s : TRUE}])
             = (IF s = {} THEN 0 ELSE Cardinality(D[Picked(s)]) + h[s \ {Picked(s)}])
    <3>1. s # {} => Picked(s) \in Runs
      BY <1>3, PickedFacts
    <3> HIDE DEF N, D
    <3> QED
      BY <1>2, <3>1 DEF Picked
  <2> HIDE DEF N, D
  <2> QED
    BY <2>1 DEF IsSum
<1> HIDE DEF P, D
<1>5. \E h : P(h)
  BY <1>2, <1>3, <1>4, SumExists
<1> DEFINE f == CHOOSE h : P(h)
<1>6. IsSum(f, Runs, D)
  BY <1>4, <1>5
<1> HIDE DEF f
<1>7. f[Runs] = Cardinality(PairsOf(Runs, Bits, D)) /\ IsFiniteSet(PairsOf(Runs, Bits, D))
  BY <1>2, <1>3, <1>6, SumCountsPairs
<1> QED
  BY <1>1, <1>7 DEF Arrivals, D, f

(* An arrival stands for one injection, and no two stand for the same.     *)
LEMMA ArrivalFacts ==
  ASSUME AnalysisInv, NEW p \in Ports, NEW y \in Arrivals(p)
  PROVE  /\ y = <<y[1], y[2]>> /\ y[1] \in Runs /\ y[2] \in Found(y[1], p)
         /\ \E x : StandsFor(y, p, x)
<1>1. y = <<y[1], y[2]>> /\ y[1] \in Runs /\ y[2] \in Found(y[1], p)
  BY DEF Arrivals, PairsOf
<1>2. PICK e \in dump[y[1]][p] : y[2] \in e.value
  BY <1>1 DEF Found
<1>3. PICK idx \in 0 .. BatchSize(y[1]) - 1 : y[2] = TagBit(idx, p)
  BY <1>1, <1>2 DEF AnalysisInv, CampaignInv, EntriesInv, EntriesOK, ScheduledEntry
<1>4. StandsFor(y, p, <<p, ItemTime(y[1], idx)>>)
  BY <1>3 DEF StandsFor
<1> QED
  BY <1>1, <1>4

LEMMA StandsForOne ==
  ASSUME NEW p \in Ports, NEW r \in Runs, NEW b, NEW s \in Runs, NEW c, NEW x, NEW z,
         StandsFor(<<r, b>>, p, x), StandsFor(<<s, c>>, p, z)
  PROVE  /\ r = s /\ b = c => x = z
         /\ x = z => r = s /\ b = c
<1>1. PICK i \in 0 .. BatchSize(r) - 1 : b = TagBit(i, p) /\ x = <<p, ItemTime(r, i)>>
  BY DEF StandsFor
<1>2. PICK j \in 0 .. BatchSize(s) - 1 : c = TagBit(j, p) /\ z = <<p, ItemTime(s, j)>>
  BY DEF StandsFor
<1>3. i \in 0 .. ItemsPerBatch - 1 /\ j \in 0 .. ItemsPerBatch - 1
  BY BatchFacts, ScheduleFacts
<1>4. ASSUME r = s, b = c
      PROVE  x = z
  <2>1. i = j
    BY <1>1, <1>2, <1>3, <1>4, TagBitFacts
  <2> QED
    BY <1>1, <1>2, <1>4, <2>1
<1>5. ASSUME x = z
      PROVE  r = s /\ b = c
  <2>1. ItemTime(r, i) = ItemTime(s, j)
    BY <1>1, <1>2, <1>5
  <2>2. r = s /\ i = j
    BY <2>1, ItemTimeUnique
  <2> QED
    BY <1>1, <1>2, <2>2
<1> QED
  BY <1>4, <1>5

(* Every injection that reaches the signal before the end arrives.         *)
LEMMA InjectionArrives ==
  ASSUME AnalysisInv, stage = "done", NEW p \in Ports,
         NEW x \in Reached(p)
  PROVE  \E y \in Arrivals(p) : StandsFor(y, p, x)
<1> USE DEF AnalysisInv, CampaignInv, TargetInv
<1>1. PICK t \in 0 .. LastTime - 1 : x \in Influence[t]
  BY DEF Reached
<1>2. PICK r \in Runs : \E i \in 0 .. BatchSize(r) - 1 :
                          x[2] = ItemTime(r, i) /\ Exported(r, i, x[1])
  BY DEF Reached, Injections, InjectionsUntil
<1>3. PICK idx \in 0 .. BatchSize(r) - 1 : x[2] = ItemTime(r, idx) /\ Exported(r, idx, x[1])
  BY <1>2
<1>4. x = <<p, ItemTime(r, idx)>> /\ ItemTime(r, idx) < LastTime /\ t < LastTime
  BY <1>3, ScheduleAssumption DEF Reached, Injections, InjectionsUntil
<1>5. [time |-> ItemTime(r, idx), value |-> {TagBit(idx, p)}] \in dump[r][p]
  BY <1>3, <1>4 DEF CoverageInv, Past
<1>6. PICK f \in targetDump[r] : f.value = TagAt(r, t)
  BY <1>4 DEF TargetCoverageInv, Past
<1>7. TagBit(idx, p) \in Bits
  BY BatchFacts, ScheduleFacts, TagBitFacts
<1>8. TagBit(idx, p) \in TagAt(r, t)
  BY <1>1, <1>3, <1>4, <1>7 DEF TagAt, Carries
<1>9. TagBit(idx, p) \in Found(r, p)
  BY <1>5, <1>6, <1>7, <1>8 DEF Found
<1>10. <<r, TagBit(idx, p)>> \in Arrivals(p)
  BY <1>7, <1>9 DEF Arrivals, PairsOf
<1>11. StandsFor(<<r, TagBit(idx, p)>>, p, x)
  BY <1>4 DEF StandsFor
<1> QED
  BY <1>10, <1>11

LEMMA CountIsEnough ==
  ASSUME AnalysisInv, stage = "done", NEW p \in Ports, IsFiniteSet(Arrivals(p))
  PROVE  IsFiniteSet(Reached(p)) /\ Cardinality(Reached(p)) <= Cardinality(Arrivals(p))
<1> DEFINE X == Reached(p)
           f == [x \in X |-> CHOOSE y \in Arrivals(p) : StandsFor(y, p, x)]
<1>1. \A x \in X : f[x] \in Arrivals(p) /\ StandsFor(f[x], p, x)
  BY InjectionArrives
<1> HIDE DEF X
<1>2. f \in [X -> Arrivals(p)]
  BY <1>1
<1> HIDE DEF f
<1>3. ASSUME NEW x \in X, NEW z \in X, f[x] = f[z]
      PROVE  x = z
  <2> DEFINE y == f[x]
  <2>1. y \in Arrivals(p) /\ StandsFor(y, p, x) /\ StandsFor(y, p, z)
    BY <1>1, <1>3
  <2> HIDE DEF y
  <2>2. y = <<y[1], y[2]>> /\ y[1] \in Runs
    BY <2>1, ArrivalFacts
  <2>3. StandsFor(<<y[1], y[2]>>, p, x) /\ StandsFor(<<y[1], y[2]>>, p, z)
    BY <2>1, <2>2
  <2> QED
    BY <2>2, <2>3, StandsForOne
<1>4. f \in Injection(X, Arrivals(p))
  BY <1>2, <1>3 DEF Injection, IsInjective
<1> QED
  BY <1>4, FS_Injection DEF X

(* No run begins with an item at the end of the stimulus.                  *)
LEMMA FirstItemIsEarly ==
  ASSUME NEW r \in Runs
  PROVE  0 \in 0 .. BatchSize(r) - 1 /\ ItemTime(r, 0) < LastTime
<1> USE ScheduleAssumption
<1> DEFINE T == TimestepsPerRun
<1>1. T \in Nat /\ T >= 2 /\ r \in Nat /\ BatchSize(r) \in Nat \ {0}
  BY BatchFacts, ScheduleFacts
<1>2. (r * T) * Stepsize < LastTime
  BY <1>1, RunsStartInTime
<1>3. r * (T - 1) <= r * T /\ r * (T - 1) \in Nat /\ r * T \in Nat
  BY <1>1
<1>4. (r * (T - 1)) * Stepsize <= (r * T) * Stepsize
  BY <1>3, TimesMonotone
<1>5. ItemTime(r, 0) = (r * (T - 1)) * Stepsize
  BY <1>3 DEF ItemTime, TagTime, BatchStart, ItemsPerBatch
<1> HIDE DEF T
<1> QED
  BY <1>1, <1>2, <1>3, <1>4, <1>5

(* The tag of an item at the end of the stimulus is not found by a run in  *)
(* which the signal has loaded the tags of the step before.                *)
LEMMA EndIsOneStep ==
  ASSUME AnalysisInv, NEW p \in Ports, NEW z \in Arrivals(p), StandsFor(z, p, <<p, LastTime>>),
         \A b : AtTheEnd(z[1], b) => OfTheStepBefore(z[1], b)
  PROVE  FALSE
<1> USE DEF AnalysisInv, CampaignInv, TargetInv
<1> DEFINE s == z[1]
           c == z[2]
<1>1. s \in Runs /\ c \in Found(s, p)
  BY ArrivalFacts
<1>2. PICK j \in 0 .. BatchSize(s) - 1 : c = TagBit(j, p) /\ ItemTime(s, j) = LastTime
  BY DEF StandsFor
<1>3. PICK f \in targetDump[s] : c \in f.value
  BY <1>1 DEF Found
<1> HIDE DEF s, c
<1>4. LastTime \in Nat \ {0} /\ Stepsize \in Nat \ {0} /\ f.time \in 0 .. LastTime
  BY <1>1, ScheduleAssumption DEF TargetEntriesInv, TargetEntriesOK
<1>5. j \in 0 .. ItemsPerBatch - 1
  BY <1>1, BatchFacts, ScheduleFacts
<1>6. ASSUME NEW k \in 0 .. BatchSize(s) - 1, NEW q \in Ports, c = TagBit(k, q)
      PROVE  k = j /\ q = p
  <2>1. k \in 0 .. ItemsPerBatch - 1
    BY <1>1, BatchFacts, ScheduleFacts
  <2>2. TagBit(k, q) = TagBit(j, p)
    BY <1>2, <1>6
  <2> QED
    BY <1>5, <2>1, <2>2, TagBitFacts
<1>7. CASE f.time < LastTime
  <2>1. c \in TagAt(s, f.time)
    BY <1>1, <1>3, <1>7 DEF TargetEntriesInv, TargetEntriesOK
  <2>2. PICK k \in 0 .. BatchSize(s) - 1, q \in Ports :
          c = TagBit(k, q) /\ <<q, ItemTime(s, k)>> \in Influence[f.time]
    BY <2>1 DEF TagAt, Carries
  <2>3. <<p, LastTime>> \in Influence[f.time]
    BY <1>2, <1>6, <2>2
  <2>4. <<p, LastTime>>[2] <= f.time
    BY <1>4, <2>3, InfluenceIsPast DEF DesignOK
  <2> QED
    BY <1>4, <1>7, <2>4
<1>8. CASE f.time = LastTime
  <2>1. OfTheStepBefore(s, c)
    BY <1>3, <1>8 DEF AtTheEnd, s
  <2>2. design[LastTime].from \subseteq Ports
    BY <1>4 DEF DesignOK, Behaviours
  <2>3. PICK k \in 0 .. BatchSize(s) - 1, q \in design[LastTime].from :
          c = TagBit(k, q) /\ ItemTime(s, k) + Stepsize = LastTime
    BY <2>1 DEF OfTheStepBefore
  <2>4. k = j
    BY <1>6, <2>2, <2>3
  <2> QED
    BY <1>2, <1>4, <2>3, <2>4
<1> QED
  BY <1>4, <1>7, <1>8

(* An arrival reached the signal before the end, or its port is loaded in  *)
(* the last time step, which has the tag of this step or a stale one.      *)
Current(p, x) == x = <<p, StepOf(LastTime)>>
Stale(y, x) ==
  /\ x[2] + Stepsize = LastTime
  /\ StepOf(LastTime) = LastTime
  /\ \A b : AtTheEnd(y[1], b) => OfTheStepBefore(y[1], b)

LEMMA ArrivalReaches ==
  ASSUME AnalysisInv, EndInv, NEW p \in Ports, NEW y \in Arrivals(p), NEW x, StandsFor(y, p, x),
         x \notin Reached(p)
  PROVE  x \in Racing(p) /\ (Current(p, x) \/ Stale(y, x))
<1> USE DEF AnalysisInv, CampaignInv, TargetInv
<1> DEFINE r == y[1]
           b == y[2]
<1>1. r \in Runs /\ b \in Found(r, p)
  BY ArrivalFacts
<1>2. PICK i \in 0 .. BatchSize(r) - 1 : b = TagBit(i, p) /\ x = <<p, ItemTime(r, i)>>
  BY DEF StandsFor
<1>3. PICK f \in targetDump[r] : b \in f.value
  BY <1>1 DEF Found
<1> HIDE DEF r, b
<1>4. /\ LastTime \in Nat \ {0} /\ Stepsize \in Nat \ {0}
      /\ f.time \in 0 .. LastTime /\ LastTime \in 0 .. LastTime
      /\ ItemTime(r, i) \in 0 .. LastTime
  BY <1>1, ItemTimeFacts, ScheduleAssumption DEF TargetEntriesInv, TargetEntriesOK
<1>5. ASSUME NEW k \in 0 .. BatchSize(r) - 1, NEW q \in Ports, b = TagBit(k, q)
      PROVE  k = i /\ q = p
  <2>1. k \in 0 .. ItemsPerBatch - 1 /\ i \in 0 .. ItemsPerBatch - 1
    BY <1>1, BatchFacts, ScheduleFacts
  <2>2. TagBit(k, q) = TagBit(i, p)
    BY <1>2, <1>5
  <2> QED
    BY <2>1, <2>2, TagBitFacts
<1>6. ASSUME Exported(r, i, p)
      PROVE  /\ x \in InjectionsUntil(LastTime)
             /\ \A t \in 0 .. LastTime - 1 : x \notin Influence[t]
  <2>1. x[1] = p /\ x[2] = ItemTime(r, i)
    BY <1>2
  <2>2. x \in InjectionsUntil(LastTime)
    BY <1>1, <1>2, <1>4, <1>6, <2>1 DEF InjectionsUntil
  <2>3. ASSUME NEW t \in 0 .. LastTime - 1, x \in Influence[t]
        PROVE  FALSE
    <3>1. x[2] <= t /\ t \in 0 .. LastTime
      BY <1>4, <2>3, InfluenceIsPast DEF DesignOK
    <3>2. x \in InjectionsUntil(LastTime - 1)
      BY <1>1, <1>2, <1>4, <1>6, <2>1, <3>1 DEF InjectionsUntil
    <3> QED
      BY <2>1, <2>3, <3>2 DEF Reached, Injections
  <2> QED
    BY <2>2, <2>3
<1>7. ASSUME NEW t \in 0 .. LastTime, b \in TagAt(r, t)
      PROVE  Exported(r, i, p) /\ x \in Influence[t]
  <2>1. PICK k \in 0 .. BatchSize(r) - 1, q \in Ports :
          /\ b = TagBit(k, q) /\ Exported(r, k, q)
          /\ <<q, ItemTime(r, k)>> \in Influence[t]
    BY <1>7 DEF TagAt, Carries
  <2> QED
    BY <1>2, <1>5, <2>1
<1>8. f.time = LastTime
  <2> SUFFICES ASSUME f.time < LastTime PROVE FALSE
    BY <1>4
  <2>1. b \in TagAt(r, f.time)
    BY <1>1, <1>3 DEF TargetEntriesInv, TargetEntriesOK
  <2> QED
    BY <1>4, <1>6, <1>7, <2>1
<1>9. AtTheEnd(r, b)
  BY <1>3, <1>8 DEF AtTheEnd
<1>10. design[LastTime].load =>
         Influence[LastTime] = {<<u, StepOf(LastTime)>> : u \in design[LastTime].from}
  BY <1>4, InfluenceSteps DEF DesignOK
<1>11. CASE b \in TagAt(r, LastTime)
  <2>1. Exported(r, i, p) /\ x \in Influence[LastTime]
    BY <1>4, <1>7, <1>11
  <2>2. design[LastTime].load
    <3> SUFFICES ASSUME ~design[LastTime].load PROVE FALSE
      OBVIOUS
    <3>1. LastTime - 1 \in 0 .. LastTime - 1 /\ Influence[LastTime] = Influence[LastTime - 1]
      <4>1. design \in [0 .. LastTime -> Behaviours] /\ LastTime # 0
        BY <1>4 DEF DesignOK
      <4>2. Influence[LastTime] = Influence[LastTime - 1]
        BY <1>4, <4>1, InfluenceSteps
      <4> QED
        BY <1>4, <4>2
    <3>2. x \notin Influence[LastTime - 1]
      BY <1>6, <2>1, <3>1
    <3> QED
      BY <2>1, <3>1, <3>2
  <2>3. p \in design[LastTime].from /\ Current(p, x)
    BY <1>2, <1>10, <2>1, <2>2 DEF Current
  <2>4. x[1] = p /\ x[2] + Stepsize >= LastTime
    BY <1>4, <2>3, StepOfBounds DEF Current
  <2> QED
    BY <1>6, <2>1, <2>3, <2>4 DEF Racing
<1>12. CASE /\ design[LastTime].load
            /\ \A a : AtTheEnd(r, a) => OfTheStepBefore(r, a)
  <2>1. design[LastTime].from \subseteq Ports
    BY <1>4 DEF DesignOK, Behaviours
  <2>2. PICK k \in 0 .. BatchSize(r) - 1, q \in design[LastTime].from :
          /\ b = TagBit(k, q) /\ Exported(r, k, q)
          /\ ItemTime(r, k) + Stepsize = LastTime
    BY <1>9, <1>12 DEF OfTheStepBefore
  <2>3. k = i /\ q = p
    BY <1>5, <2>1, <2>2
  <2>4. StepOf(LastTime) = LastTime
    <3>1. ItemTime(r, i) = (BatchStart(r) + i) * Stepsize /\ BatchStart(r) + i \in Nat
      BY <1>1, BatchFacts, ScheduleFacts DEF ItemTime, TagTime
    <3> DEFINE m == BatchStart(r) + i
    <3>2. m + 1 \in Nat /\ LastTime = 0 + (m + 1) * Stepsize
      BY <1>4, <2>2, <2>3, <3>1
    <3> HIDE DEF m
    <3>3. LastTime % Stepsize = 0
      BY <1>4, <3>2, DivUnique
    <3> QED
      BY <1>4, <3>3 DEF StepOf
  <2>5. x[1] = p /\ x[2] + Stepsize = LastTime
    BY <1>2, <2>2, <2>3
  <2>6. Stale(y, x)
    BY <1>12, <2>4, <2>5 DEF Stale, r
  <2> QED
    BY <1>4, <1>6, <2>2, <2>3, <2>5, <2>6 DEF Racing
<1> QED
  BY <1>1, <1>9, <1>11, <1>12 DEF EndInv, EndOK

(* The two tags of the last step do not both arrive.                       *)
LEMMA NoArrivalTwice ==
  ASSUME AnalysisInv, NEW p \in Ports, NEW y \in Arrivals(p), NEW x, StandsFor(y, p, x),
         Stale(y, x), NEW z \in Arrivals(p), StandsFor(z, p, <<p, LastTime>>)
  PROVE  FALSE
<1> DEFINE r == y[1]
           s == z[1]
<1>1. r \in Runs /\ s \in Runs
  BY ArrivalFacts
<1>2. PICK i \in 0 .. BatchSize(r) - 1 : x = <<p, ItemTime(r, i)>>
  BY DEF StandsFor
<1>3. PICK j \in 0 .. BatchSize(s) - 1 : ItemTime(s, j) = LastTime
  BY DEF StandsFor
<1> HIDE DEF r, s
<1>4. ItemTime(r, i) + Stepsize = LastTime
  BY <1>2 DEF Stale
<1>5. j # 0 /\ BatchSize(s) \in Nat /\ LastTime \in Nat
  BY <1>1, <1>3, FirstItemIsEarly, BatchFacts, ScheduleFacts, ScheduleAssumption
<1>6. j - 1 \in 0 .. BatchSize(s) - 1 /\ (j - 1) + 1 = j
  BY <1>5
<1>7. ItemTime(s, j) = ItemTime(s, j - 1) + Stepsize /\ ItemTime(s, j - 1) \in 0 .. LastTime
  <2>1. ItemTime(s, (j - 1) + 1) = ItemTime(s, j - 1) + Stepsize
    BY <1>1, <1>6, ItemTimeFacts
  <2> QED
    BY <1>1, <1>6, <2>1, ItemTimeFacts
<1>8. ItemTime(r, i) = ItemTime(s, j - 1)
  BY <1>1, <1>3, <1>4, <1>7, ItemTimeFacts, ScheduleAssumption
<1>9. r = s
  BY <1>1, <1>6, <1>8, ItemTimeUnique
<1>10. \A b : AtTheEnd(z[1], b) => OfTheStepBefore(z[1], b)
  BY <1>9 DEF Stale, r, s
<1> QED
  BY <1>10, EndIsOneStep

LEMMA OneIsLate ==
  ASSUME AnalysisInv, EndInv, NEW p \in Ports,
         NEW y \in Arrivals(p), NEW x, StandsFor(y, p, x), x \notin Reached(p),
         NEW z \in Arrivals(p), NEW w, StandsFor(z, p, w), w \notin Reached(p)
  PROVE  y = z
<1>1. /\ Current(p, x) \/ Stale(y, x)
      /\ Current(p, w) \/ Stale(z, w)
  BY ArrivalReaches
<1>2. /\ y = <<y[1], y[2]>> /\ z = <<z[1], z[2]>> /\ y[1] \in Runs /\ z[1] \in Runs
  BY ArrivalFacts
<1>3. ASSUME x = w
      PROVE  y = z
  <2>1. StandsFor(<<y[1], y[2]>>, p, x) /\ StandsFor(<<z[1], z[2]>>, p, x)
    BY <1>2, <1>3
  <2> QED
    BY <1>2, <2>1, StandsForOne
<1>4. CASE Current(p, x) /\ Current(p, w)
  BY <1>3, <1>4 DEF Current
<1>5. CASE Stale(y, x) /\ Stale(z, w)
  <2>1. PICK i \in 0 .. BatchSize(y[1]) - 1 : x = <<p, ItemTime(y[1], i)>>
    BY DEF StandsFor
  <2>2. PICK j \in 0 .. BatchSize(z[1]) - 1 : w = <<p, ItemTime(z[1], j)>>
    BY DEF StandsFor
  <2>3. ItemTime(y[1], i) \in Int /\ ItemTime(z[1], j) \in Int
    BY <1>2, ItemTimeFacts
  <2>4. x = w
    BY <1>5, <2>1, <2>2, <2>3, ScheduleAssumption DEF Stale
  <2> QED
    BY <1>3, <2>4
<1>6. CASE Stale(y, x) /\ Current(p, w)
  <2>1. w = <<p, LastTime>>
    BY <1>6 DEF Stale, Current
  <2> QED
    BY <1>6, <2>1, NoArrivalTwice
<1>7. CASE Current(p, x) /\ Stale(z, w)
  <2>1. x = <<p, LastTime>>
    BY <1>7 DEF Stale, Current
  <2> QED
    BY <1>7, <2>1, NoArrivalTwice
<1> QED
  BY <1>1, <1>4, <1>5, <1>6, <1>7

(* So but for one arrival, arrivals stand for what reached the signal.     *)
LEMMA CountIsAtMost ==
  ASSUME AnalysisInv, EndInv, NEW p \in Ports, IsFiniteSet(Arrivals(p)), IsFiniteSet(Reached(p))
  PROVE  /\ Racing(p) \subseteq Reached(p) => Cardinality(Arrivals(p)) <= Cardinality(Reached(p))
         /\ Cardinality(Arrivals(p)) <= Cardinality(Reached(p)) + 1
<1> DEFINE R == Reached(p)
           Item(y) == CHOOSE x : StandsFor(y, p, x)
           Early == {y \in Arrivals(p) : Item(y) \in R}
           f == [y \in Early |-> Item(y)]
<1>1. ASSUME NEW y \in Arrivals(p)
      PROVE  StandsFor(y, p, Item(y))
  BY ArrivalFacts
<1> HIDE DEF Item
<1>2. f \in [Early -> R] /\ \A y \in Early : f[y] = Item(y) /\ y \in Arrivals(p)
  OBVIOUS
<1> HIDE DEF f, Early
<1>3. ASSUME NEW y \in Early, NEW z \in Early, f[y] = f[z]
      PROVE  y = z
  <2>1. y = <<y[1], y[2]>> /\ z = <<z[1], z[2]>> /\ y[1] \in Runs /\ z[1] \in Runs
    BY <1>2, ArrivalFacts
  <2>2. StandsFor(<<y[1], y[2]>>, p, Item(y)) /\ StandsFor(<<z[1], z[2]>>, p, Item(z))
    BY <1>1, <1>2, <2>1
  <2>3. Item(y) = Item(z)
    BY <1>2, <1>3
  <2>4. y[1] = z[1] /\ y[2] = z[2]
    BY <2>1, <2>2, <2>3, StandsForOne
  <2> QED
    BY <2>1, <2>4
<1>4. f \in Injection(Early, R)
  <2> HIDE DEF R
  <2> QED
    BY <1>2, <1>3 DEF Injection, IsInjective
<1>5. IsFiniteSet(Early) /\ Cardinality(Early) <= Cardinality(R)
  BY <1>4, FS_Injection
<1>6. CASE Arrivals(p) = Early
  BY <1>5, <1>6, FS_CardinalityType
<1>7. CASE Arrivals(p) # Early
  <2>1. PICK y \in Arrivals(p) : Item(y) \notin R
    BY <1>7 DEF Early
  <2>2. \A z \in Arrivals(p) : Item(z) \notin R => z = y
    BY <1>1, <2>1, OneIsLate
  <2>3. Arrivals(p) = Early \cup {y} /\ y \notin Early
    BY <2>1, <2>2 DEF Early
  <2>4. Cardinality(Arrivals(p)) = Cardinality(Early) + 1
    BY <1>5, <2>3, FS_AddElement
  <2>5. Item(y) \in Racing(p)
    BY <1>1, <2>1, ArrivalReaches
  <2> QED
    BY <1>5, <2>1, <2>4, <2>5, FS_CardinalityType
<1> QED
  BY <1>6, <1>7

(* get_tag_count_signal_to_signal counts every injection of a port that    *)
(* reaches the observed signal before the end, each once although runs use *)
(* the same bits again, and nothing else but at most one injection that    *)
(* meets $finish, if tags fit the word they are converted to.              *)
THEOREM TagCountExact ==
  ASSUME DelaysFit, TagSize <= WordBits
  PROVE  AnalysisSpec => []TagCountIsExact
<1>1. AnalysisInv /\ EndInv => TagCountIsExact
  <2> SUFFICES ASSUME AnalysisInv, EndInv, stage = "done", NEW p \in Ports
               PROVE  TagCount(p) - Cardinality(Reached(p)) \in
                        IF Racing(p) \subseteq Reached(p) THEN {0} ELSE {0, 1}
    BY DEF TagCountIsExact
  <2>1. TagCount(p) = Cardinality(Arrivals(p)) /\ IsFiniteSet(Arrivals(p))
    BY TagCountIsArrivals
  <2>2. IsFiniteSet(Reached(p)) /\ Cardinality(Reached(p)) <= Cardinality(Arrivals(p))
    BY <2>1, CountIsEnough
  <2>3. /\ Racing(p) \subseteq Reached(p) => Cardinality(Arrivals(p)) <= Cardinality(Reached(p))
        /\ Cardinality(Arrivals(p)) <= Cardinality(Reached(p)) + 1
    BY <2>1, <2>2, CountIsAtMost
  <2> QED
    BY <2>1, <2>2, <2>3, FS_CardinalityType
<1> QED
  BY <1>1, AnalysisInvariant, EndInvariant, PTL
=============================================================================
