------------------------- MODULE SmtValidation_proofs -------------------------
(***************************************************************************)
(* Proofs about SmtValidation, for every design, translation, stimulus and *)
(* number of unrolled steps: a right translation is never rejected, and    *)
(* what an accepted one vouches for.                                       *)
(***************************************************************************)
EXTENDS SmtValidation, Induction, FiniteSetTheorems

Stages == {"window", "constrain", "check", "returned", "threw"}

SimulationOK ==
  /\ design \in Designs /\ smt \in TranslatedDesigns(design)
  /\ clock \in {"none", "low", "high"} /\ firstEdge \in BOOLEAN
  /\ clock # "high" => firstEdge
  /\ unroll_factor \in IF Clocked THEN UnrollFactors ELSE {1}
  /\ last \in Nat
  /\ stimulus \in Seq((SUBSET Inputs) \ {{}}) /\ Len(stimulus) = EdgesUpTo(last)

TypeOK ==
  /\ SimulationOK
  /\ pc \in Stages
  /\ timestep \in Nat /\ unroll_step \in Nat
  /\ compare_result \in BOOLEAN

(* The time of edge k, counted from 0; windows begin at every edge whose   *)
(* number is a multiple of unroll_factor.                                  *)
EdgeTime(k) == Begin + k * stepsize
WindowTime(w) == EdgeTime(w * unroll_factor)
WindowsAreRegular == \E w \in Nat : timestep = WindowTime(w)

(* What the constraints of the scope say after unroll_step edges           *)
EdgeAt(u) == timestep + u * stepsize
InputFacts == [u \in 0 .. unroll_step - 1 |-> InputAt(EdgeAt(u))]
BeforeEdge(t) == IF t = 0 THEN PreviousEdge ELSE EdgeAt(t - 1)
StateFacts == [t \in 0 .. unroll_step |-> RegisterAt(BeforeEdge(t))]

FactsInv ==
  pc \in {"constrain", "check"} =>
    /\ timestep < last
    /\ unroll_step <= LoopCond
    /\ unroll_step < LoopCond <=> pc = "constrain"
    /\ \A u \in 0 .. unroll_step - 1 : EdgeAt(u) <= last
    /\ inFacts = InputFacts
    /\ stateFacts = IF Clocked /\ unroll_step > 0 THEN StateFacts ELSE <<>>
    /\ pc = "check" /\ ~Clocked => applied = InputAt(timestep)

(* The windows gone through; where there is no clock, the input applied    *)
(* last was found to agree.                                                *)
Checked(t) ==
  /\ t + (LoopCond - 1) * stepsize <= last
  /\ Clocked \/ Known(InputAt(t))
AgreedInv ==
  compare_result =>
    /\ \A t \in Windows : t < timestep /\ Checked(t) => AgreesWithSimulation(t)
    /\ pc = "window" /\ ~Clocked /\ applied # {} =>
         \E t \in Nat : applied = InputAt(t) /\ AgreesWithSimulation(t)

StopsAtFailure == ~compare_result => pc = "returned"

ValidationInv ==
  /\ TypeOK /\ WindowsAreRegular /\ FactsInv /\ StopsAtFailure
  /\ AgreedInv /\ AcceptedWindowsAgree /\ NoFalseAlarm

-------------------------------------------------------------------------------
(* Time                                                                    *)

LEMMA Periods ==
  ASSUME SimulationOK
  PROVE  /\ stepsize \in Nat \ {0}
         /\ Begin \in Nat /\ Begin < stepsize
         /\ clock = "high" \/ ~Clocked => Begin = 0
         /\ clock = "low" => Begin > 0
         /\ unroll_factor \in Nat \ {0} /\ LoopCond \in Nat \ {0}
         /\ ~Clocked => stepsize = 1 /\ unroll_factor = 1 /\ LoopCond = 1
         /\ Clocked => unroll_factor > 1 /\ LoopCond = unroll_factor - 1
<1>1. Period \in Nat \ {0} /\ Period = 2 * (Period \div 2) /\ Period \div 2 \in Nat
  BY ValidationAssumption
<1>2. Period \div 2 < Period /\ Period \div 2 > 0
  BY <1>1
<1>3. unroll_factor \in Nat \ {0} /\ (Clocked => unroll_factor > 1) /\ (~Clocked => unroll_factor = 1)
  BY ValidationAssumption DEF SimulationOK
<1>4. CASE Clocked
  <2>1. stepsize = Period
    BY <1>4 DEF stepsize
  <2>2. clock = "low" => Begin = Period \div 2
    BY <1>1, <2>1 DEF Begin, clockbegin
  <2>3. clock = "high" => Begin = 0
    BY <1>1, <2>1 DEF Begin, clockbegin
  <2>4. clock \in {"low", "high"}
    BY <1>4 DEF SimulationOK, Clocked
  <2> QED
    BY <1>1, <1>2, <1>3, <1>4, <2>1, <2>2, <2>3, <2>4 DEF LoopCond
<1>5. CASE ~Clocked
  <2>1. clock = "none" /\ stepsize = 1
    BY <1>5 DEF Clocked, stepsize
  <2>2. Begin = 0
    BY <2>1 DEF Begin, clockbegin
  <2> QED
    BY <1>3, <1>5, <2>1, <2>2 DEF LoopCond
<1> QED
  BY <1>4, <1>5

LEMMA EdgeTimes ==
  ASSUME SimulationOK, NEW k \in Nat
  PROVE  EdgeTime(k) \in Nat /\ EdgesUpTo(EdgeTime(k)) = k + 1
<1>1. stepsize \in Nat \ {0} /\ Begin \in Nat
  BY Periods
<1>2. k * stepsize \in Nat /\ (k * stepsize) \div stepsize = k
  BY <1>1
<1>3. EdgeTime(k) \in Nat /\ EdgeTime(k) >= Begin /\ EdgeTime(k) - Begin = k * stepsize
  BY <1>1, <1>2 DEF EdgeTime
<1> QED
  BY <1>1, <1>2, <1>3 DEF EdgesUpTo

(* An edge within the trace has its input.                                 *)
LEMMA EdgesOfTrace ==
  ASSUME SimulationOK, NEW k \in Nat, EdgeTime(k) <= last
  PROVE  k + 1 \in 1 .. Len(stimulus)
<1>1. stepsize \in Nat \ {0} /\ Begin \in Nat /\ last \in Nat
  BY Periods DEF SimulationOK
<1>2. k * stepsize \in Nat /\ Begin + k * stepsize <= last
  BY <1>1 DEF EdgeTime
<1> DEFINE x == last - Begin
<1>3. x \in Nat /\ k * stepsize <= x /\ ~(last < Begin)
  BY <1>1, <1>2
<1>4. x \div stepsize \in Nat /\ x < stepsize * (x \div stepsize) + stepsize
  BY <1>1, <1>3
<1> HIDE DEF x
<1>5. k * stepsize < (x \div stepsize + 1) * stepsize
  BY <1>1, <1>3, <1>4
<1>6. k <= x \div stepsize
  BY <1>1, <1>4, <1>5
<1>7. Len(stimulus) = x \div stepsize + 1
  BY <1>3 DEF x, EdgesUpTo, SimulationOK
<1> QED
  BY <1>4, <1>6, <1>7

LEMMA Later ==
  ASSUME SimulationOK, NEW k \in Nat, NEW u \in Nat
  PROVE  EdgeTime(k) + u * stepsize = EdgeTime(k + u)
BY Periods DEF EdgeTime

(* Windows follow each other without a gap.                                *)
LEMMA NextWindowTime ==
  ASSUME SimulationOK, NEW w \in Nat, timestep = WindowTime(w)
  PROVE  NextWindow = WindowTime(w + 1) /\ NextWindow \in Nat
<1>1. stepsize \in Nat /\ unroll_factor \in Nat /\ Begin \in Nat
  BY Periods
<1>2. (w + 1) * unroll_factor = w * unroll_factor + unroll_factor
  BY <1>1
<1>3. w * unroll_factor \in Nat
  BY <1>1
<1>4. (w * unroll_factor + unroll_factor) * stepsize
        = (w * unroll_factor) * stepsize + unroll_factor * stepsize
  BY <1>1, <1>3
<1>5. (w * unroll_factor) * stepsize \in Nat /\ unroll_factor * stepsize \in Nat
  BY <1>1, <1>3
<1> QED
  BY <1>1, <1>2, <1>4, <1>5 DEF NextWindow, WindowTime, EdgeTime

LEMMA WindowIndex ==
  ASSUME SimulationOK, NEW t \in Windows
  PROVE  \E w \in Nat : t = WindowTime(w)
<1>1. stepsize \in Nat \ {0} /\ unroll_factor \in Nat \ {0} /\ Begin \in Nat /\ last \in Nat
  BY Periods DEF SimulationOK
<1> DEFINE W == unroll_factor * stepsize
           x == t - Begin
<1>2. W \in Nat \ {0}
  BY <1>1
<1>3. x \in Nat /\ x % W = 0 /\ t = Begin + x
  BY <1>1 DEF Windows
<1>4. x \div W \in Nat /\ x = W * (x \div W)
  <2> HIDE DEF W, x
  <2> QED
    BY <1>2, <1>3
<1> DEFINE w == x \div W
<1>5. W * w = (w * unroll_factor) * stepsize
  <2>1. w \in Nat
    BY <1>4
  <2> HIDE DEF w, x
  <2> QED
    BY <1>1, <2>1
<1>6. t = WindowTime(w)
  BY <1>3, <1>4, <1>5 DEF WindowTime, EdgeTime
<1> QED
  BY <1>4, <1>6

(* A window before the next one is the current one or before it.           *)
LEMMA WindowBefore ==
  ASSUME SimulationOK, WindowsAreRegular, NEW t \in Windows, t < NextWindow
  PROVE  t = timestep \/ t < timestep
<1>1. PICK w \in Nat : timestep = WindowTime(w)
  BY DEF WindowsAreRegular
<1>2. PICK v \in Nat : t = WindowTime(v)
  BY WindowIndex
<1>3. stepsize \in Nat \ {0} /\ unroll_factor \in Nat \ {0} /\ Begin \in Nat
  BY Periods
<1> DEFINE W == unroll_factor * stepsize
<1>4. W \in Nat \ {0}
  BY <1>3
<1>5. \A n \in Nat : WindowTime(n) = Begin + n * W
  BY <1>3 DEF WindowTime, EdgeTime
<1>6. WindowTime(v) < WindowTime(w + 1)
  BY <1>1, <1>2, NextWindowTime
<1> HIDE DEF W
<1>7. v * W < (w + 1) * W
  BY <1>3, <1>4, <1>5, <1>6
<1>8. v <= w
  BY <1>4, <1>7
<1>9. v = w \/ (v < w /\ v * W < w * W)
  BY <1>4, <1>8
<1> QED
  BY <1>1, <1>2, <1>3, <1>4, <1>5, <1>9

-------------------------------------------------------------------------------
(* The simulation                                                          *)

LEMMA DesignFunctions ==
  ASSUME SimulationOK
  PROVE  design.next \in [Bit \X Inputs -> Bit] /\ design.out \in [Bit \X Inputs -> Bit]
BY DesignAssumption DEF SimulationOK, Designs

LEMMA ImageType ==
  ASSUME NEW f \in [Bit \X Inputs -> Bit], NEW Q \in SUBSET Bit, NEW I \in SUBSET Inputs,
         Q # {}, I # {}
  PROVE  Image(f, Q, I) \in (SUBSET Bit) \ {{}}
<1>1. PICK b \in Q, i \in I : TRUE
  OBVIOUS
<1>2. f[b, i] \in Image(f, Q, I)
  <2>1. <<b, i>> \in Q \X I
    BY <1>1
  <2> QED
    BY <2>1 DEF Image
<1>3. Image(f, Q, I) \subseteq Bit
  BY DEF Image
<1> QED
  BY <1>2, <1>3

LEMMA InputType ==
  ASSUME SimulationOK, NEW n \in 1 .. Len(stimulus)
  PROVE  stimulus[n] \in (SUBSET Inputs) \ {{}}
BY DEF SimulationOK

(* The first edge is not seen.                                             *)
Unseen(n) == n = 1 /\ clock = "high" /\ ~firstEdge
States == (SUBSET Bit) \ {{}}

LEMMA RegisterIsDefined ==
  ASSUME SimulationOK
  PROVE  /\ Register \in [0 .. Len(stimulus) -> States]
         /\ \A n \in 0 .. Len(stimulus) :
              Register[n] = IF n = 0 \/ Unseen(n) THEN Bit
                            ELSE Image(design.next, Register[n - 1], stimulus[n])
<1> DEFINE N == Len(stimulus)
           Step == [n \in 1 .. N |-> [S \in States |->
                      IF Unseen(n) THEN Bit ELSE Image(design.next, S, stimulus[n])]]
<1>1. N \in Nat
  BY DEF SimulationOK
<1>2. Bit \in States
  BY DEF States, Bit
<1>3. Step \in StepFunctions(N, States)
  <2> SUFFICES ASSUME NEW n \in 1 .. N, NEW S \in States
               PROVE  Image(design.next, S, stimulus[n]) \in States
    BY <1>2 DEF StepFunctions
  <2> QED
    BY ImageType, InputType, DesignFunctions DEF States
<1>4. PICK f \in [0 .. N -> States] : Computes(f, N, Bit, Step)
  <2> HIDE DEF N, Step
  <2> QED
    BY <1>1, <1>2, <1>3, BoundedRecursion
<1>5. ASSUME NEW n \in 0 .. N
      PROVE  f[n] = IF n = 0 \/ Unseen(n) THEN Bit
                    ELSE Image(design.next, f[n - 1], stimulus[n])
  <2>1. CASE n = 0
    BY <1>4, <2>1 DEF Computes
  <2>2. CASE n \in 1 .. N
    <3>1. f[n] = Step[n][f[n - 1]]
      BY <1>4, <2>2 DEF Computes
    <3>2. f[n - 1] \in States
      BY <1>4, <2>2
    <3> QED
      BY <2>2, <3>1, <3>2
  <2> QED
    BY <1>1, <2>1, <2>2
<1>6. f = [n \in 0 .. Len(stimulus) |->
             IF n = 0 \/ (n = 1 /\ clock = "high" /\ ~firstEdge)
             THEN Bit ELSE Image(design.next, f[n - 1], stimulus[n])]
  BY <1>4, <1>5 DEF Unseen
<1>7. Register = [n \in 0 .. Len(stimulus) |->
                    IF n = 0 \/ (n = 1 /\ clock = "high" /\ ~firstEdge)
                    THEN Bit ELSE Image(design.next, Register[n - 1], stimulus[n])]
  BY <1>6 DEF Register
<1>8. ASSUME NEW n \in 0 .. N
      PROVE  Register[n] = IF n = 0 \/ Unseen(n) THEN Bit
                           ELSE Image(design.next, Register[n - 1], stimulus[n])
  BY <1>7 DEF Unseen
<1>9. ASSUME NEW n \in 0 .. N
      PROVE  Register[n] \in States
  <2> DEFINE Typed == {k \in 0 .. N : Register[k] \in States}
  <2>1. 0 \in Typed
    BY <1>1, <1>2, <1>8
  <2>2. ASSUME NEW k \in 0 .. N - 1, k \in Typed
        PROVE  k + 1 \in Typed
    <3>1. k + 1 \in 1 .. N /\ k + 1 \in 0 .. N /\ (k + 1) - 1 = k /\ k + 1 # 0
      BY <1>1
    <3>2. Register[k + 1] = IF Unseen(k + 1) THEN Bit
                            ELSE Image(design.next, Register[k], stimulus[k + 1])
      BY <1>8, <3>1
    <3>3. Register[k] \in States
      BY <2>2
    <3>4. Image(design.next, Register[k], stimulus[k + 1]) \in States
      BY <3>1, <3>3, ImageType, InputType, DesignFunctions DEF States
    <3> QED
      BY <1>2, <3>1, <3>2, <3>4
  <2>3. 0 .. N \subseteq Typed
    <3> HIDE DEF Typed, N
    <3> QED
      BY <1>1, <2>1, <2>2, BoundedInduction
  <2> QED
    BY <2>3
<1> QED
  BY <1>7, <1>8, <1>9

(* One edge takes a possible state under a possible input to a possible    *)
(* state.                                                                  *)
LEMMA RegisterStep ==
  ASSUME SimulationOK, NEW n \in 1 .. Len(stimulus),
         NEW b \in Register[n - 1], NEW i \in stimulus[n]
  PROVE  design.next[b, i] \in Register[n]
<1>1. n \in 0 .. Len(stimulus) /\ n - 1 \in 0 .. Len(stimulus) /\ n # 0
  BY DEF SimulationOK
<1>2. Register[n - 1] \subseteq Bit /\ b \in Bit /\ i \in Inputs
  BY <1>1, RegisterIsDefined, InputType DEF States
<1>3. design.next[b, i] \in Bit
  BY <1>2, DesignFunctions
<1>4. design.next[b, i] \in Image(design.next, Register[n - 1], stimulus[n])
  <2>1. <<b, i>> \in Register[n - 1] \X stimulus[n]
    OBVIOUS
  <2> QED
    BY <2>1 DEF Image
<1> QED
  BY <1>1, <1>3, <1>4, RegisterIsDefined

-------------------------------------------------------------------------------
(* The simulation stays as it is.                                          *)

LEMMA SameTimes ==
  ASSUME UNCHANGED simulation
  PROVE  /\ Clocked' = Clocked /\ stepsize' = stepsize /\ Begin' = Begin
         /\ LoopCond' = LoopCond /\ Windows' = Windows
         /\ SimulationOK' = SimulationOK
         /\ \A t : EdgesUpTo(t)' = EdgesUpTo(t)
BY DEF simulation, Clocked, stepsize, Begin, clockbegin, LoopCond, Windows, SimulationOK, EdgesUpTo

LEMMA SameRegister ==
  ASSUME UNCHANGED simulation
  PROVE  Register' = Register
BY DEF simulation, Register

LEMMA SameValues ==
  ASSUME UNCHANGED simulation, NEW t
  PROVE  /\ InputAt(t)' = InputAt(t)
         /\ RegisterAt(t)' = RegisterAt(t)
         /\ OutputAt(t)' = OutputAt(t)
<1>1. stimulus' = stimulus /\ design' = design
  BY DEF simulation
<1>2. InputAt(t)' = InputAt(t)
  BY <1>1, SameTimes DEF InputAt
<1>3. RegisterAt(t)' = RegisterAt(t)
  BY SameRegister, SameTimes DEF RegisterAt
<1> QED
  BY <1>1, <1>2, <1>3, SameTimes DEF OutputAt

LEMMA SameAgreement ==
  ASSUME UNCHANGED simulation, NEW t
  PROVE  /\ AgreesWithSimulation(t)' = AgreesWithSimulation(t)
         /\ Checked(t)' = Checked(t)
<1>1. smt' = smt /\ unroll_factor' = unroll_factor /\ last' = last
  BY DEF simulation
<1>2. AgreesWithSimulation(t)' = AgreesWithSimulation(t)
  BY <1>1, SameTimes, SameValues DEF AgreesWithSimulation
<1> QED
  BY <1>1, <1>2, SameTimes, SameValues DEF Checked

-------------------------------------------------------------------------------
(* Types and windows                                                       *)

LEMMA InitTypes == Init => TypeOK /\ WindowsAreRegular
<1> SUFFICES ASSUME Init PROVE TypeOK /\ WindowsAreRegular
  OBVIOUS
<1>1. SimulationOK
  <2>1. firstEdge \in BOOLEAN /\ (clock # "high" => firstEdge)
    BY DEF Init
  <2>2. last \in Nat
    BY ValidationAssumption DEF Init
  <2>3. stimulus \in Seq((SUBSET Inputs) \ {{}}) /\ Len(stimulus) = EdgesUpTo(last)
    BY ValidationAssumption DEF Init
  <2> QED
    BY <2>1, <2>2, <2>3 DEF Init, SimulationOK
<1>2. timestep = WindowTime(0) /\ timestep \in Nat
  BY <1>1, Periods DEF Init, WindowTime, EdgeTime
<1> QED
  BY <1>1, <1>2 DEF Init, TypeOK, Stages, WindowsAreRegular

LEMMA NextTypes ==
  TypeOK /\ WindowsAreRegular /\ [Next]_vars => TypeOK' /\ WindowsAreRegular'
<1> SUFFICES ASSUME TypeOK, WindowsAreRegular, [Next]_vars
             PROVE  TypeOK' /\ WindowsAreRegular'
  OBVIOUS
<1>1. UNCHANGED simulation
  BY DEF Next, vars, OpenWindow, SkipWindow, EndOfTrace, Constrain, LeaveOpenWindow, Check,
         Unsatisfiable
<1>2. SimulationOK'
  BY <1>1, SameTimes DEF TypeOK
<1>3. \A w \in Nat : WindowTime(w)' = WindowTime(w)
  BY <1>1, SameTimes DEF WindowTime, EdgeTime, simulation
<1>4. PICK w \in Nat : timestep = WindowTime(w)
  BY DEF WindowsAreRegular
<1>5. timestep' \in {timestep, NextWindow}
  BY DEF Next, vars, OpenWindow, SkipWindow, EndOfTrace, Constrain, LeaveOpenWindow, Check,
         Unsatisfiable
<1>6. timestep' \in Nat /\ WindowsAreRegular'
  <2>1. NextWindow = WindowTime(w + 1) /\ NextWindow \in Nat
    BY <1>4, NextWindowTime DEF TypeOK
  <2> QED
    BY <1>3, <1>4, <1>5, <2>1 DEF WindowsAreRegular, TypeOK
<1>7. pc' \in Stages /\ unroll_step' \in Nat /\ compare_result' \in BOOLEAN
  <2>1. CASE OpenWindow \/ SkipWindow \/ EndOfTrace \/ LeaveOpenWindow \/ Unsatisfiable
    BY <2>1 DEF OpenWindow, SkipWindow, EndOfTrace, LeaveOpenWindow, Unsatisfiable, TypeOK, Stages
  <2>2. CASE Constrain
    BY <2>2 DEF Constrain, TypeOK, Stages
  <2>3. CASE Check
    <3>1. compare_result' \in BOOLEAN
      BY <2>3 DEF Check, Compared, Agrees, Matches
    <3> QED
      BY <2>3, <3>1 DEF Check, TypeOK, Stages
  <2>4. CASE UNCHANGED vars
    BY <2>4 DEF vars, TypeOK
  <2> QED
    BY <2>1, <2>2, <2>3, <2>4 DEF Next
<1> QED
  BY <1>2, <1>6, <1>7 DEF TypeOK

-------------------------------------------------------------------------------
(* The constraints of a window                                             *)

LEMMA InitFacts == Init => FactsInv
BY DEF Init, FactsInv

LEMMA NextFacts ==
  TypeOK /\ FactsInv /\ [Next]_vars => FactsInv'
<1> SUFFICES ASSUME TypeOK, FactsInv, [Next]_vars PROVE FactsInv'
  OBVIOUS
<1>1. UNCHANGED simulation
  BY DEF Next, vars, OpenWindow, SkipWindow, EndOfTrace, Constrain, LeaveOpenWindow, Check,
         Unsatisfiable
<1>2. stepsize' = stepsize /\ LoopCond' = LoopCond /\ last' = last /\ Clocked' = Clocked
  BY <1>1, SameTimes DEF simulation
<1>3. stepsize \in Nat \ {0} /\ LoopCond \in Nat \ {0} /\ timestep \in Nat
      /\ unroll_step \in Nat /\ (~Clocked => LoopCond = 1)
  BY Periods DEF TypeOK
<1>4. CASE OpenWindow
  <2>1. /\ pc' = "constrain" /\ unroll_step' = 0 /\ inFacts' = <<>> /\ stateFacts' = <<>>
        /\ timestep' = timestep /\ timestep < last
    BY <1>4 DEF OpenWindow
  <2>2. InputFacts' = <<>>
    BY <2>1 DEF InputFacts
  <2> QED
    BY <1>2, <1>3, <2>1, <2>2 DEF FactsInv
<1>5. CASE SkipWindow \/ EndOfTrace \/ LeaveOpenWindow \/ Unsatisfiable \/ Check
  <2>1. pc' \notin {"constrain", "check"}
    BY <1>5 DEF SkipWindow, EndOfTrace, LeaveOpenWindow, Unsatisfiable, Check
  <2> QED
    BY <2>1 DEF FactsInv
<1>6. CASE Constrain
  <2> DEFINE n == unroll_step
  <2>1. /\ timestep' = timestep /\ timestep < last
        /\ n' = n + 1 /\ n < LoopCond
        /\ pc' = IF n + 1 < LoopCond THEN "constrain" ELSE "check"
        /\ EdgeAt(n) <= last /\ Now = EdgeAt(n)
        /\ \A u \in 0 .. n - 1 : EdgeAt(u) <= last
        /\ inFacts = InputFacts
        /\ stateFacts = IF Clocked /\ n > 0 THEN StateFacts ELSE <<>>
    BY <1>6 DEF Constrain, FactsInv, EdgeAt, Now
  <2>2. \A u : EdgeAt(u)' = EdgeAt(u)
    BY <1>2, <2>1 DEF EdgeAt
  <2>3. \A u \in 0 .. n' - 1 : EdgeAt(u)' <= last'
    BY <1>2, <1>3, <2>1, <2>2
  <2>4. inFacts' = InputFacts'
    <3>1. inFacts' = [t \in 0 .. n |-> IF t = n THEN InputAt(EdgeAt(n)) ELSE inFacts[t]]
      <4>1. DOMAIN inFacts \cup {n} = 0 .. n
        BY <1>3, <2>1 DEF InputFacts
      <4> QED
        BY <1>6, <2>1, <4>1 DEF Constrain
    <3>2. \A t \in 0 .. n : inFacts'[t] = InputAt(EdgeAt(t))
      BY <1>3, <2>1, <3>1 DEF InputFacts
    <3>3. InputFacts' = [t \in 0 .. n |-> InputAt(EdgeAt(t))]
      BY <1>1, <1>3, <2>1, <2>2, SameValues DEF InputFacts
    <3> QED
      BY <3>1, <3>2, <3>3
  <2>5. \A t \in 0 .. n + 1 : BeforeEdge(t)' = BeforeEdge(t)
    BY <1>2, <2>1, <2>2 DEF BeforeEdge, PreviousEdge
  <2>6. ASSUME Clocked
        PROVE  stateFacts' = StateFacts'
    <3>1. StateFacts' = [t \in 0 .. n + 1 |-> RegisterAt(BeforeEdge(t))]
      BY <1>1, <2>1, <2>5, SameValues DEF StateFacts
    <3>2. stateFacts' = RegisterFacts
      BY <1>6, <2>6 DEF Constrain
    <3>3. CASE n = 0
      <4>1. stateFacts' = [t \in {0, 1} |-> RegisterAt(IF t = 0 THEN PreviousEdge ELSE EdgeAt(0))]
        BY <2>1, <3>2, <3>3 DEF RegisterFacts
      <4>2. {0, 1} = 0 .. n + 1
        BY <3>3
      <4> QED
        BY <3>1, <4>1, <4>2 DEF BeforeEdge
    <3>4. CASE n > 0
      <4>1. stateFacts = StateFacts
        BY <2>1, <2>6, <3>4
      <4>2. DOMAIN stateFacts \cup {n + 1} = 0 .. n + 1
        BY <1>3, <4>1 DEF StateFacts
      <4>3. stateFacts' = [t \in 0 .. n + 1 |->
                             IF t = n + 1 THEN RegisterAt(EdgeAt(n)) ELSE stateFacts[t]]
        <5>1. n # 0 /\ Now = EdgeAt(n)
          BY <2>1, <3>4
        <5>2. RegisterFacts = [t \in DOMAIN stateFacts \cup {n + 1} |->
                                 IF t = n + 1 THEN RegisterAt(Now) ELSE stateFacts[t]]
          BY <5>1 DEF RegisterFacts
        <5> QED
          BY <3>2, <4>2, <5>1, <5>2
      <4>4. \A t \in 0 .. n + 1 : stateFacts'[t] = RegisterAt(BeforeEdge(t))
        <5> SUFFICES ASSUME NEW t \in 0 .. n + 1
                     PROVE  stateFacts'[t] = RegisterAt(BeforeEdge(t))
          OBVIOUS
        <5>1. CASE t = n + 1
          <6>1. t # 0 /\ t - 1 = n
            BY <1>3, <5>1
          <6>2. BeforeEdge(t) = EdgeAt(n)
            BY <6>1 DEF BeforeEdge
          <6> QED
            BY <4>3, <5>1, <6>2
        <5>2. CASE t # n + 1
          <6>1. t \in 0 .. n
            BY <1>3, <5>2
          <6>2. stateFacts[t] = RegisterAt(BeforeEdge(t))
            BY <4>1, <6>1 DEF StateFacts
          <6> QED
            BY <4>3, <5>2, <6>2
        <5> QED
          BY <5>1, <5>2
      <4> QED
        BY <3>1, <4>3, <4>4
    <3> QED
      BY <1>3, <3>3, <3>4
  <2>7. ~Clocked => stateFacts' = <<>> /\ applied' = InputAt(timestep)
    <3>1. ~Clocked => Now = timestep
      BY <1>3, <2>1 DEF Now
    <3> QED
      BY <1>6, <3>1 DEF Constrain
  <2>8. ~Clocked => applied' = InputAt(timestep)'
    BY <1>1, <2>1, <2>7, SameValues
  <2> QED
    BY <1>2, <1>3, <2>1, <2>3, <2>4, <2>6, <2>7, <2>8 DEF FactsInv
<1>7. CASE UNCHANGED vars
  <2>1. UNCHANGED <<pc, timestep, unroll_step, applied, inFacts, stateFacts>>
    BY <1>7 DEF vars
  <2>2. \A u : EdgeAt(u)' = EdgeAt(u)
    BY <1>2, <2>1 DEF EdgeAt
  <2>3. InputFacts' = InputFacts
    BY <1>1, <2>1, <2>2, SameValues DEF InputFacts
  <2>4. StateFacts' = StateFacts
    BY <1>1, <1>2, <2>1, <2>2, SameValues DEF StateFacts, BeforeEdge, PreviousEdge
  <2>5. InputAt(timestep)' = InputAt(timestep)
    BY <1>1, <2>1, SameValues
  <2> QED
    BY <1>2, <2>1, <2>2, <2>3, <2>4, <2>5 DEF FactsInv
<1> QED
  BY <1>4, <1>5, <1>6, <1>7 DEF Next

-------------------------------------------------------------------------------
(* A right translation in one window                                       *)

(* The edges of a window that is about to be checked                       *)
LEMMA EdgesOfWindow ==
  ASSUME TypeOK, FactsInv, pc = "check",
         NEW k \in Nat, timestep = EdgeTime(k), NEW u \in 0 .. LoopCond - 1
  PROVE  /\ EdgeAt(u) = EdgeTime(k + u)
         /\ k + u + 1 \in 1 .. Len(stimulus)
         /\ InputAt(EdgeAt(u)) = stimulus[k + u + 1]
         /\ RegisterAt(EdgeAt(u)) = Register[k + u + 1]
<1>1. LoopCond \in Nat \ {0} /\ u \in Nat /\ k + u \in Nat /\ SimulationOK
  BY Periods DEF TypeOK
<1>2. EdgeAt(u) = EdgeTime(k + u)
  BY <1>1, Later DEF EdgeAt
<1>3. unroll_step = LoopCond
  BY <1>1 DEF FactsInv, TypeOK
<1>4. EdgeAt(u) <= last
  BY <1>3 DEF FactsInv
<1>5. EdgesUpTo(EdgeAt(u)) = k + u + 1
  BY <1>1, <1>2, EdgeTimes
<1> QED
  BY <1>1, <1>2, <1>4, <1>5, EdgesOfTrace DEF InputAt, RegisterAt

(* The previous edge of the first window: before it anything goes.         *)
LEMMA StateBeforeWindow ==
  ASSUME TypeOK, timestep < last, NEW k \in Nat, timestep = EdgeTime(k)
  PROVE  RegisterAt(PreviousEdge) # {} /\ RegisterAt(PreviousEdge) \subseteq Register[k]
<1>1. /\ SimulationOK /\ stepsize \in Nat \ {0} /\ Begin \in Nat /\ Begin < stepsize
      /\ last \in Nat
  BY Periods DEF TypeOK, SimulationOK
<1>2. k + 1 \in 1 .. Len(stimulus)
  BY <1>1, EdgesOfTrace, EdgeTimes
<1>3. Len(stimulus) \in Nat
  BY <1>1 DEF SimulationOK
<1>4. \A n \in 0 .. Len(stimulus) : Register[n] # {} /\ Register[n] \subseteq Bit
  BY <1>1, RegisterIsDefined DEF States
<1>5. CASE k = 0
  <2>1. timestep = Begin /\ PreviousEdge = 0
    BY <1>1, <1>5 DEF EdgeTime, PreviousEdge
  <2>2. EdgesUpTo(0) \in {0, 1}
    BY <1>1 DEF EdgesUpTo
  <2>3. EdgesUpTo(0) \in 0 .. Len(stimulus)
    BY <1>2, <1>3, <2>2
  <2>4. RegisterAt(0) # {} /\ RegisterAt(0) \subseteq Bit
    BY <1>4, <2>3 DEF RegisterAt
  <2>5. Register[0] = Bit
    BY <1>1, <1>3, RegisterIsDefined
  <2> QED
    BY <1>5, <2>1, <2>4, <2>5
<1>6. CASE k > 0
  <2>1. k - 1 \in Nat /\ EdgeTime(k - 1) + 1 * stepsize = EdgeTime((k - 1) + 1)
    <3>1. k - 1 \in Nat
      BY <1>6
    <3> QED
      BY <1>1, <3>1, Later
  <2>2. EdgeTime(k - 1) \in Nat /\ EdgesUpTo(EdgeTime(k - 1)) = (k - 1) + 1
    BY <1>1, <2>1, EdgeTimes
  <2>3. PreviousEdge = EdgeTime(k - 1)
    <3>1. timestep = EdgeTime(k - 1) + stepsize
      BY <1>1, <2>1
    <3> QED
      BY <1>1, <2>2, <3>1 DEF PreviousEdge
  <2>4. RegisterAt(PreviousEdge) = Register[k]
    BY <2>2, <2>3 DEF RegisterAt
  <2> QED
    BY <1>2, <1>3, <1>4, <2>4
<1> QED
  BY <1>5, <1>6

(* An output that is among the simulated ones is the simulated one, if     *)
(* that is known.                                                          *)
LEMMA PossibleMatches ==
  ASSUME NEW V \in SUBSET Bit, NEW x \in V
  PROVE  Matches(V, x)
<1>1. IsFiniteSet(V)
  <2>1. IsFiniteSet({0}) /\ IsFiniteSet({0} \cup {1})
    BY FS_Singleton, FS_Union
  <2>2. V \subseteq {0} \cup {1}
    BY DEF Bit
  <2> QED
    BY <2>1, <2>2, FS_Subset
<1>2. Cardinality(V) = 1 => \E y : V = {y}
  BY <1>1, FS_Singleton
<1> QED
  BY <1>2 DEF Matches, Known

MooreIfClocked == Clocked => IsMoore(design)

LEMMA ExactAgrees ==
  ASSUME TypeOK, WindowsAreRegular, FactsInv, pc = "check",
         IsExact(design, smt), MooreIfClocked, NEW m \in Models
  PROVE  Compared(m)
<1>1. PICK k \in Nat : timestep = EdgeTime(k)
  <2>1. \A w \in Nat : w * unroll_factor \in Nat
    BY Periods DEF TypeOK
  <2> QED
    BY <2>1 DEF WindowsAreRegular, WindowTime
<1>2. /\ SimulationOK /\ LoopCond \in Nat \ {0} /\ unroll_factor \in Nat \ {0}
      /\ unroll_step = LoopCond
      /\ Clocked => unroll_factor > 1 /\ LoopCond = unroll_factor - 1
      /\ ~Clocked => unroll_factor = 1 /\ LoopCond = 1
  BY Periods DEF TypeOK, FactsInv
<1> DEFINE u == LoopCond - 1
           v == IF unroll_factor = 1 THEN 0 ELSE u + 1
<1>3. u \in 0 .. LoopCond - 1 /\ v \in 0 .. unroll_factor - 1 /\ u \in Nat
  BY <1>2
<1>4. /\ m.q \in [0 .. unroll_factor - 1 -> Bit] /\ m.in \in [0 .. unroll_factor - 1 -> Inputs]
      /\ m.out[v] \in smt.out[m.q[v], m.in[v]]
      /\ ~Clocked => m.q[0] = 0
      /\ \A t \in DOMAIN inFacts : m.in[t] \in inFacts[t]
      /\ \A t \in DOMAIN stateFacts : m.q[t] \in stateFacts[t]
  BY <1>3 DEF Models, Assignments, IsModel, Allows
<1>5. m.q[v] \in Bit /\ m.in[v] \in Inputs
  BY <1>3, <1>4
<1>6. m.out[v] = design.out[m.q[v], m.in[v]]
  <2>1. smt.out[m.q[v], m.in[v]] = {design.out[m.q[v], m.in[v]]}
    <3>1. smt.out = Exact(design.out)
      BY DEF IsExact
    <3> HIDE DEF v
    <3> QED
      BY <1>2, <1>5, <3>1, DesignFunctions DEF Exact
  <2> QED
    BY <1>4, <2>1
<1>7. PICK n \in Nat : /\ n \in 1 .. Len(stimulus) /\ n \in 0 .. Len(stimulus)
                       /\ InputAt(EdgeAt(u)) = stimulus[n]
                       /\ RegisterAt(EdgeAt(u)) = Register[n]
  <2>1. k + u + 1 \in Nat
    BY <1>3
  <2> HIDE DEF u
  <2> QED
    BY <1>1, <1>3, <2>1, EdgesOfWindow
<1>8. InputAt(EdgeAt(u)) \in (SUBSET Inputs) \ {{}}
  BY <1>2, <1>7, InputType
<1>9. RegisterAt(EdgeAt(u)) \in (SUBSET Bit) \ {{}}
  BY <1>2, <1>7, RegisterIsDefined DEF States
<1> DEFINE Q == IF Clocked THEN RegisterAt(EdgeAt(u)) ELSE {0}
<1>10. m.q[v] \in Q
  <2>1. CASE Clocked
    <3>1. stateFacts = StateFacts
      BY <1>2, <2>1 DEF FactsInv
    <3>2. v \in 0 .. unroll_step /\ v = u + 1 /\ v # 0 /\ v - 1 = u
      BY <1>2, <2>1
    <3>3. stateFacts[v] = RegisterAt(EdgeAt(u))
      <4> HIDE DEF u, v
      <4> QED
        BY <3>1, <3>2 DEF StateFacts, BeforeEdge
    <3>4. v \in DOMAIN stateFacts
      BY <3>1, <3>2 DEF StateFacts
    <3> QED
      BY <1>4, <2>1, <3>3, <3>4
  <2>2. CASE ~Clocked
    BY <1>2, <1>4, <2>2
  <2> QED
    BY <2>1, <2>2
(* The input that explains the output: the model's own, or, if there is a  *)
(* clock, any simulated one.                                               *)
<1>11. PICK i \in InputAt(EdgeAt(u)) : design.out[m.q[v], i] = m.out[v]
  <2>1. CASE Clocked
    <3>1. PICK i \in InputAt(EdgeAt(u)) : TRUE
      BY <1>8
    <3>2. i \in Inputs
      BY <1>8
    <3> QED
      BY <1>5, <1>6, <2>1, <3>1, <3>2 DEF MooreIfClocked, IsMoore
  <2>2. CASE ~Clocked
    <3>1. u = 0 /\ v = 0
      BY <1>2, <2>2
    <3>2. inFacts = InputFacts
      BY DEF FactsInv
    <3>3. 0 \in DOMAIN inFacts /\ inFacts[0] = InputAt(EdgeAt(0))
      BY <1>2, <3>2 DEF InputFacts
    <3> QED
      BY <1>4, <1>6, <3>1, <3>3
  <2> QED
    BY <2>1, <2>2
<1>12. OutputAt(EdgeAt(u)) = Image(design.out, Q, InputAt(EdgeAt(u)))
  BY DEF OutputAt
<1>13. m.out[v] \in OutputAt(EdgeAt(u))
  <2>1. <<m.q[v], i>> \in Q \X InputAt(EdgeAt(u))
    BY <1>10, <1>11
  <2> HIDE DEF Q, u, v
  <2> QED
    BY <1>11, <1>12, <2>1 DEF Image
<1>14. OutputAt(EdgeAt(u)) \in SUBSET Bit
  <2>1. Q \in SUBSET Bit /\ Q # {}
    BY <1>9 DEF Bit
  <2> HIDE DEF Q, u
  <2> QED
    BY <1>2, <1>8, <1>12, <2>1, ImageType, DesignFunctions
<1>15. Matches(OutputAt(EdgeAt(u)), m.out[v])
  <2> HIDE DEF u, v
  <2> QED
    BY <1>13, <1>14, PossibleMatches
<1> QED
  BY <1>15 DEF Compared, Agrees, EdgeAt

(* The state after an edge                                                 *)
StateAfter(b, i) == design.next[b, i]

(* Along the edges of the window a run that starts in a possible state and *)
(* takes possible inputs stays in possible states.                         *)
LEMMA RunIsPossible ==
  ASSUME TypeOK, FactsInv, pc = "check", Clocked,
         NEW k \in Nat, timestep = EdgeTime(k),
         NEW f \in [0 .. LoopCond -> Bit], f[0] \in Register[k],
         NEW in \in [0 .. LoopCond -> Inputs],
         \A t \in 0 .. LoopCond - 1 : in[t] \in InputAt(EdgeAt(t)),
         \A t \in 1 .. LoopCond : f[t] = StateAfter(f[t - 1], in[t - 1])
  PROVE  \A t \in 0 .. LoopCond : f[t] \in Register[k + t]
<1> DEFINE Possible == {t \in 0 .. LoopCond : f[t] \in Register[k + t]}
<1>1. LoopCond \in Nat \ {0} /\ SimulationOK
  BY Periods DEF TypeOK
<1>2. 0 \in Possible
  <2>1. 0 \in 0 .. LoopCond /\ k + 0 = k
    BY <1>1
  <2> QED
    BY <2>1
<1>3. ASSUME NEW t \in 0 .. LoopCond - 1, t \in Possible
      PROVE  t + 1 \in Possible
  <2>1. k + t + 1 \in 1 .. Len(stimulus) /\ InputAt(EdgeAt(t)) = stimulus[k + t + 1]
    BY <1>3, EdgesOfWindow
  <2>2. /\ (k + t + 1) - 1 = k + t /\ k + (t + 1) = k + t + 1
        /\ t + 1 \in 1 .. LoopCond /\ t + 1 \in 0 .. LoopCond /\ (t + 1) - 1 = t
    <3>1. t \in Nat /\ t < LoopCond
      BY <1>1
    <3> QED
      BY <1>1, <3>1
  <2>3. f[t] \in Register[(k + t + 1) - 1] /\ in[t] \in stimulus[k + t + 1]
    BY <1>3, <2>1, <2>2
  <2>4. StateAfter(f[t], in[t]) \in Register[k + t + 1]
    BY <1>1, <2>1, <2>3, RegisterStep DEF StateAfter
  <2>5. f[t + 1] = StateAfter(f[t], in[t])
    BY <2>2
  <2> QED
    BY <2>2, <2>4, <2>5
<1>4. 0 .. LoopCond \subseteq Possible
  <2> HIDE DEF Possible
  <2> QED
    BY <1>1, <1>2, <1>3, BoundedInduction
<1> QED
  BY <1>4

LEMMA ExactHasModel ==
  ASSUME TypeOK, WindowsAreRegular, FactsInv, pc = "check", IsExact(design, smt)
  PROVE  Models # {}
<1>1. PICK k \in Nat : timestep = EdgeTime(k)
  <2>1. \A w \in Nat : w * unroll_factor \in Nat
    BY Periods DEF TypeOK
  <2> QED
    BY <2>1 DEF WindowsAreRegular, WindowTime
<1> DEFINE N == unroll_factor - 1
<1>2. /\ SimulationOK /\ LoopCond \in Nat \ {0} /\ N \in Nat
      /\ unroll_step = LoopCond /\ timestep < last
      /\ Clocked => LoopCond = N
      /\ ~Clocked => N = 0 /\ LoopCond = 1
  BY Periods DEF TypeOK, FactsInv
<1>3. PICK any \in Inputs : TRUE
  BY DesignAssumption
<1> DEFINE in == [t \in 0 .. N |-> IF t < LoopCond THEN CHOOSE i \in InputAt(EdgeAt(t)) : TRUE
                                   ELSE any]
<1>4. ASSUME NEW t \in 0 .. LoopCond - 1
      PROVE  t \in 0 .. N => in[t] \in InputAt(EdgeAt(t)) /\ in[t] \in Inputs
  <2>1. k + t + 1 \in 1 .. Len(stimulus) /\ InputAt(EdgeAt(t)) = stimulus[k + t + 1]
    BY <1>1, EdgesOfWindow
  <2>2. InputAt(EdgeAt(t)) \in (SUBSET Inputs) \ {{}}
    BY <1>2, <2>1, InputType
  <2> QED
    BY <1>2, <2>2
<1>5. in \in [0 .. N -> Inputs]
  <2> SUFFICES ASSUME NEW t \in 0 .. N PROVE in[t] \in Inputs
    OBVIOUS
  <2>1. CASE t < LoopCond
    BY <1>2, <1>4, <2>1
  <2>2. CASE ~(t < LoopCond)
    BY <2>2
  <2> QED
    BY <2>1, <2>2
<1>6. PICK q0 \in Bit : /\ Clocked => q0 \in RegisterAt(PreviousEdge) /\ q0 \in Register[k]
                        /\ ~Clocked => q0 = 0
  <2>1. CASE Clocked
    <3>1. RegisterAt(PreviousEdge) # {} /\ RegisterAt(PreviousEdge) \subseteq Register[k]
      BY <1>1, <1>2, StateBeforeWindow
    <3>2. k \in 0 .. Len(stimulus)
      <4>1. k + 0 + 1 \in 1 .. Len(stimulus)
        BY <1>1, <1>2, EdgesOfWindow
      <4> QED
        BY <1>2, <4>1 DEF SimulationOK
    <3>3. Register[k] \subseteq Bit
      BY <1>2, <3>2, RegisterIsDefined DEF States
    <3> QED
      BY <2>1, <3>1, <3>3
  <2>2. CASE ~Clocked
    BY <2>2 DEF Bit
  <2> QED
    BY <2>1, <2>2
<1> DEFINE Step == [t \in 1 .. N |-> [b \in Bit |-> StateAfter(b, in[t - 1])]]
<1>7. \A t \in 1 .. N : t - 1 \in 0 .. N /\ in[t - 1] \in Inputs
  <2> HIDE DEF in
  <2> QED
    BY <1>2, <1>5
<1> HIDE DEF in
<1>8. Step \in StepFunctions(N, Bit)
  <2>1. \A b \in Bit, i \in Inputs : StateAfter(b, i) \in Bit
    BY <1>2, DesignFunctions DEF StateAfter
  <2> QED
    BY <1>7, <2>1 DEF StepFunctions
<1>9. PICK f \in [0 .. N -> Bit] : Computes(f, N, q0, Step)
  <2> HIDE DEF Step, N
  <2> QED
    BY <1>2, <1>8, BoundedRecursion
<1>10. f[0] = q0 /\ \A t \in 1 .. N : f[t] = StateAfter(f[t - 1], in[t - 1])
  <2>1. f[0] = q0 /\ \A t \in 1 .. N : f[t] = Step[t][f[t - 1]]
    BY <1>9 DEF Computes
  <2>2. ASSUME NEW t \in 1 .. N
        PROVE  f[t] = StateAfter(f[t - 1], in[t - 1])
    <3>1. f[t - 1] \in Bit
      BY <1>7
    <3> QED
      BY <2>1, <3>1
  <2> QED
    BY <2>1, <2>2
<1> HIDE DEF Step
<1> DEFINE out == [t \in 0 .. N |-> design.out[f[t], in[t]]]
           m == [q |-> f, in |-> in, out |-> out]
<1>11. m \in Assignments(unroll_factor)
  <2>1. out \in [0 .. N -> Bit]
    BY <1>2, <1>5, DesignFunctions
  <2> QED
    BY <1>5, <2>1 DEF Assignments
<1>12. IsModel(smt, unroll_factor, m)
  <2>1. ASSUME NEW t \in 1 .. N
        PROVE  f[t] \in smt.next[f[t - 1], in[t - 1]]
    <3>1. f[t - 1] \in Bit /\ in[t - 1] \in Inputs
      BY <1>2, <1>7
    <3>2. smt.next = Exact(design.next)
      BY DEF IsExact
    <3> QED
      BY <1>2, <1>10, <3>1, <3>2, DesignFunctions DEF Exact, StateAfter
  <2>2. ASSUME NEW t \in 0 .. N
        PROVE  out[t] \in smt.out[f[t], in[t]]
    <3>1. f[t] \in Bit /\ in[t] \in Inputs
      BY <1>5
    <3>2. smt.out = Exact(design.out)
      BY DEF IsExact
    <3> QED
      BY <1>2, <3>1, <3>2, DesignFunctions DEF Exact
  <2> QED
    BY <2>1, <2>2 DEF IsModel
<1>13. ~Clocked => m.q[0] = 0
  BY <1>6, <1>10
<1>14. \A t \in DOMAIN inFacts : in[t] \in inFacts[t]
  <2>1. inFacts = [u \in 0 .. LoopCond - 1 |-> InputAt(EdgeAt(u))]
    BY <1>2 DEF FactsInv, InputFacts
  <2>2. \A t \in 0 .. LoopCond - 1 : t \in 0 .. N
    BY <1>2
  <2> QED
    BY <1>4, <2>1, <2>2
<1>15. \A t \in DOMAIN stateFacts : f[t] \in stateFacts[t]
  <2>1. CASE Clocked
    <3>1. stateFacts = [t \in 0 .. LoopCond |-> RegisterAt(BeforeEdge(t))]
      <4>1. stateFacts = StateFacts
        <5>1. unroll_step > 0
          BY <1>2
        <5> QED
          BY <2>1, <5>1 DEF FactsInv
      <4> QED
        BY <1>2, <4>1 DEF StateFacts
    <3>2. \A t \in 0 .. LoopCond : f[t] \in Register[k + t]
      <4>1. \A t \in 0 .. LoopCond - 1 : in[t] \in InputAt(EdgeAt(t))
        BY <1>2, <1>4, <2>1
      <4> QED
        BY <1>1, <1>2, <1>5, <1>6, <1>10, <2>1, <4>1, RunIsPossible
    <3> SUFFICES ASSUME NEW t \in 0 .. LoopCond PROVE f[t] \in RegisterAt(BeforeEdge(t))
      BY <3>1
    <3>3. CASE t = 0
      BY <1>6, <1>10, <2>1, <3>3 DEF BeforeEdge
    <3>4. CASE t # 0
      <4>1. t - 1 \in 0 .. LoopCond - 1 /\ k + (t - 1) + 1 = k + t
        BY <1>2, <3>4
      <4>2. RegisterAt(EdgeAt(t - 1)) = Register[k + t]
        BY <1>1, <4>1, EdgesOfWindow
      <4> QED
        BY <3>2, <3>4, <4>2 DEF BeforeEdge
    <3> QED
      BY <3>3, <3>4
  <2>2. CASE ~Clocked
    BY <2>2 DEF FactsInv
  <2> QED
    BY <2>1, <2>2
<1>16. m \in Models
  BY <1>11, <1>12, <1>13, <1>14, <1>15 DEF Models, Allows
<1> QED
  BY <1>16

-------------------------------------------------------------------------------
(* The results                                                             *)

LEMMA NextExact ==
  TypeOK /\ WindowsAreRegular /\ FactsInv /\ NoFalseAlarm /\ [Next]_vars => NoFalseAlarm'
<1> SUFFICES ASSUME TypeOK, WindowsAreRegular, FactsInv, NoFalseAlarm, [Next]_vars
             PROVE  NoFalseAlarm'
  OBVIOUS
<1>0. design' = design /\ smt' = smt /\ Clocked' = Clocked
  <2>1. UNCHANGED simulation
    BY DEF Next, vars, OpenWindow, SkipWindow, EndOfTrace, Constrain, LeaveOpenWindow, Check,
           Unsatisfiable
  <2> QED
    BY <2>1, SameTimes DEF simulation
<1> SUFFICES ASSUME IsExact(design, smt), MooreIfClocked
             PROVE  pc' # "threw" /\ compare_result'
  BY <1>0 DEF NoFalseAlarm, MooreIfClocked
<1>1. pc # "threw" /\ compare_result
  BY DEF NoFalseAlarm, MooreIfClocked
<1>2. CASE OpenWindow \/ SkipWindow \/ EndOfTrace \/ Constrain \/ LeaveOpenWindow
  BY <1>1, <1>2 DEF OpenWindow, SkipWindow, EndOfTrace, Constrain, LeaveOpenWindow
<1>3. CASE Check
  <2>1. pc = "check" /\ pc' # "threw"
    BY <1>3 DEF Check
  <2>2. PICK m \in Models : compare_result' = Compared(m)
    BY <1>3 DEF Check
  <2>3. Compared(m)
    BY <2>1, ExactAgrees
  <2> QED
    BY <2>1, <2>2, <2>3
<1>4. CASE Unsatisfiable
  BY <1>4, ExactHasModel DEF Unsatisfiable
<1>5. CASE UNCHANGED vars
  BY <1>1, <1>5 DEF vars
<1> QED
  BY <1>2, <1>3, <1>4, <1>5 DEF Next

(* The model that a successful check found                                 *)
LEMMA CheckedWindow ==
  ASSUME TypeOK, FactsInv, pc = "check", NEW m \in Models, Compared(m)
  PROVE  AgreesWithSimulation(timestep)
<1>1. /\ LoopCond \in Nat \ {0} /\ unroll_step = LoopCond /\ stepsize \in Nat \ {0}
      /\ Clocked <=> unroll_factor # 1
      /\ timestep \in Nat
  BY Periods DEF TypeOK, FactsInv
<1>2. /\ m \in Assignments(unroll_factor) /\ IsModel(smt, unroll_factor, m)
      /\ \A t \in DOMAIN inFacts : m.in[t] \in inFacts[t]
      /\ \A t \in DOMAIN stateFacts : m.q[t] \in stateFacts[t]
  BY DEF Models, Allows
<1>3. \A u \in 0 .. LoopCond - 1 : m.in[u] \in InputAt(EdgeAt(u))
  BY <1>1, <1>2 DEF FactsInv, InputFacts
<1>4. Clocked => \A t \in 0 .. LoopCond : m.q[t] \in RegisterAt(BeforeEdge(t))
  <2> SUFFICES ASSUME Clocked PROVE \A t \in 0 .. LoopCond : m.q[t] \in RegisterAt(BeforeEdge(t))
    OBVIOUS
  <2>1. unroll_step > 0
    BY <1>1
  <2>2. stateFacts = StateFacts
    BY <2>1 DEF FactsInv
  <2> QED
    BY <1>1, <1>2, <2>2 DEF StateFacts
<1>5. ASSUME Clocked, NEW u \in 0 .. LoopCond - 1
      PROVE  m.q[u + 1] \in RegisterAt(EdgeAt(u))
  <2>1. u + 1 \in 0 .. LoopCond /\ u + 1 # 0 /\ (u + 1) - 1 = u
    BY <1>1
  <2> QED
    BY <1>4, <1>5, <2>1 DEF BeforeEdge
<1>6. Clocked /\ timestep >= stepsize => m.q[0] \in RegisterAt(timestep - stepsize)
  <2> SUFFICES ASSUME Clocked, timestep >= stepsize
               PROVE  m.q[0] \in RegisterAt(timestep - stepsize)
    OBVIOUS
  <2>1. PreviousEdge = timestep - stepsize
    BY <1>1 DEF PreviousEdge
  <2>2. 0 \in 0 .. LoopCond /\ BeforeEdge(0) = PreviousEdge
    BY <1>1 DEF BeforeEdge
  <2> QED
    BY <1>4, <2>1, <2>2
<1>7. Matches(OutputAt(EdgeAt(LoopCond - 1)),
              m.out[IF Clocked THEN (LoopCond - 1) + 1 ELSE 0])
  BY <1>1 DEF Compared, Agrees, EdgeAt
<1> QED
  BY <1>2, <1>3, <1>5, <1>6, <1>7 DEF AgreesWithSimulation, EdgeAt

LEMMA NextAgreed ==
  /\ TypeOK /\ WindowsAreRegular /\ FactsInv /\ StopsAtFailure /\ AgreedInv
  /\ [Next]_vars
  => AgreedInv'
<1> SUFFICES ASSUME TypeOK, WindowsAreRegular, FactsInv, StopsAtFailure, AgreedInv, [Next]_vars,
                    compare_result'
             PROVE  /\ \A t \in Windows' :
                         t < timestep' /\ Checked(t)' => AgreesWithSimulation(t)'
                    /\ (pc = "window" /\ ~Clocked /\ applied # {} =>
                         \E t \in Nat : applied = InputAt(t) /\ AgreesWithSimulation(t))'
  BY DEF AgreedInv
<1>1. UNCHANGED simulation
  BY DEF Next, vars, OpenWindow, SkipWindow, EndOfTrace, Constrain, LeaveOpenWindow, Check,
         Unsatisfiable
<1> SUFFICES /\ \A t \in Windows : t < timestep' /\ Checked(t) => AgreesWithSimulation(t)
             /\ pc' = "window" /\ ~Clocked /\ applied' # {} =>
                  \E t \in Nat : applied' = InputAt(t) /\ AgreesWithSimulation(t)
  BY <1>1, SameTimes, SameAgreement, SameValues
<1>2. compare_result =>
        /\ \A t \in Windows : t < timestep /\ Checked(t) => AgreesWithSimulation(t)
        /\ pc = "window" /\ ~Clocked /\ applied # {} =>
             \E t \in Nat : applied = InputAt(t) /\ AgreesWithSimulation(t)
  BY DEF AgreedInv
<1>3. timestep \in Nat /\ SimulationOK
  BY DEF TypeOK
<1>4. CASE OpenWindow \/ EndOfTrace \/ LeaveOpenWindow \/ Unsatisfiable \/ Constrain
  <2>1. pc' # "window" /\ timestep' = timestep /\ compare_result' = compare_result
    BY <1>4 DEF OpenWindow, EndOfTrace, LeaveOpenWindow, Unsatisfiable, Constrain
  <2> QED
    BY <1>2, <2>1
<1>5. CASE SkipWindow
  <2>1. /\ pc = "window" /\ ~Clocked /\ ~ValueChange /\ compare_result
        /\ timestep' = NextWindow /\ applied' = applied
    BY <1>5 DEF SkipWindow
  <2>2. PICK s \in Nat : applied = InputAt(s) /\ AgreesWithSimulation(s)
    BY <1>2, <2>1 DEF ValueChange
  <2>3. ASSUME Known(InputAt(timestep))
        PROVE  AgreesWithSimulation(timestep)
    <3>1. InputAt(timestep) = InputAt(s)
      BY <2>1, <2>2, <2>3 DEF ValueChange
    <3>2. stepsize = 1 /\ LoopCond = 1
      BY <1>3, <2>1, Periods
    <3>3. timestep + 0 * 1 = timestep /\ s + 0 * 1 = s /\ 0 .. LoopCond - 1 = {0} /\ LoopCond - 1 = 0
      BY <1>3, <3>2
    <3>4. OutputAt(timestep) = OutputAt(s)
      BY <2>1, <3>1 DEF OutputAt
    <3> QED
      BY <2>1, <2>2, <3>1, <3>2, <3>3, <3>4 DEF AgreesWithSimulation
  <2>4. ASSUME NEW t \in Windows, t < NextWindow, Checked(t)
        PROVE  AgreesWithSimulation(t)
    <3>1. t = timestep \/ t < timestep
      BY <1>3, <2>4, WindowBefore
    <3> QED
      BY <1>2, <2>1, <2>3, <2>4, <3>1 DEF Checked
  <2> QED
    BY <1>2, <2>1, <2>4
<1>6. CASE Check
  <2>1. pc = "check" /\ timestep' = NextWindow /\ applied' = applied
    BY <1>6 DEF Check
  <2>2. PICK m \in Models : compare_result' = Compared(m)
    BY <1>6 DEF Check
  <2>3. AgreesWithSimulation(timestep)
    BY <2>1, <2>2, CheckedWindow
  <2>4. ~Clocked => applied = InputAt(timestep)
    BY <2>1 DEF FactsInv
  <2>5. compare_result
    BY <2>1 DEF StopsAtFailure
  <2> QED
    BY <1>2, <1>3, <2>1, <2>3, <2>4, <2>5, WindowBefore
<1>7. CASE UNCHANGED vars
  BY <1>2, <1>7 DEF vars
<1> QED
  BY <1>4, <1>5, <1>6, <1>7 DEF Next

LEMMA NextStops == StopsAtFailure /\ [Next]_vars => StopsAtFailure'
BY DEF StopsAtFailure, Next, vars, OpenWindow, SkipWindow, EndOfTrace, Constrain,
       LeaveOpenWindow, Check, Unsatisfiable

(* When the loop ends, no window that lies within the trace is left.       *)
LEMMA NextAccepted ==
  /\ TypeOK /\ WindowsAreRegular /\ FactsInv /\ AgreedInv /\ AcceptedWindowsAgree
  /\ [Next]_vars
  => AcceptedWindowsAgree'
<1> SUFFICES ASSUME TypeOK, WindowsAreRegular, FactsInv, AgreedInv, AcceptedWindowsAgree,
                    [Next]_vars, pc' = "returned", compare_result',
                    NEW t \in Windows', Checked(t)'
             PROVE  AgreesWithSimulation(t)'
  BY DEF AcceptedWindowsAgree, Checked
<1>1. UNCHANGED simulation
  BY DEF Next, vars, OpenWindow, SkipWindow, EndOfTrace, Constrain, LeaveOpenWindow, Check,
         Unsatisfiable
<1>2. t \in Windows /\ Checked(t)
  BY <1>1, SameTimes, SameAgreement
<1> SUFFICES AgreesWithSimulation(t)
  BY <1>1, SameAgreement
<1>3. /\ stepsize \in Nat \ {0} /\ LoopCond \in Nat \ {0} /\ timestep \in Nat
      /\ unroll_step \in Nat /\ Begin \in Nat /\ last \in Nat /\ SimulationOK
  BY Periods DEF TypeOK, SimulationOK
<1>4. t \in Nat /\ t < last /\ t + (LoopCond - 1) * stepsize <= last
  BY <1>2, <1>3 DEF Windows, Checked
<1>5. compare_result /\ t < timestep => AgreesWithSimulation(t)
  BY <1>2 DEF AgreedInv
<1>6. CASE EndOfTrace
  <2>1. compare_result /\ timestep >= last
    BY <1>6 DEF EndOfTrace
  <2> QED
    BY <1>3, <1>4, <1>5, <2>1
<1>7. CASE LeaveOpenWindow
  <2>1. compare_result /\ pc = "constrain" /\ timestep + unroll_step * stepsize > last
    BY <1>7 DEF LeaveOpenWindow, Now
  <2>2. unroll_step < LoopCond
    BY <2>1 DEF FactsInv
  <2>3. unroll_step * stepsize <= (LoopCond - 1) * stepsize
    <3>1. ASSUME NEW a \in Nat, NEW b \in Nat, NEW s \in Nat, a <= b
          PROVE  a * s <= b * s
      BY <3>1
    <3> QED
      BY <1>3, <2>2, <3>1
  <2>4. unroll_step * stepsize \in Nat /\ (LoopCond - 1) * stepsize \in Nat
    BY <1>3
  <2>5. t < timestep
    BY <1>3, <1>4, <2>1, <2>3, <2>4
  <2> QED
    BY <1>5, <2>1, <2>5
<1>8. CASE Check
  BY <1>8 DEF Check
<1>9. CASE OpenWindow \/ SkipWindow \/ Constrain \/ Unsatisfiable
  BY <1>9 DEF OpenWindow, SkipWindow, Constrain, Unsatisfiable
<1>10. CASE UNCHANGED vars
  <2>1. pc = "returned" /\ compare_result
    BY <1>10 DEF vars
  <2> QED
    BY <1>2, <2>1 DEF AcceptedWindowsAgree, Checked
<1> QED
  BY <1>6, <1>7, <1>8, <1>9, <1>10 DEF Next

-------------------------------------------------------------------------------
(* The theorems                                                            *)

(* The inductive invariant of smt_sim_validation: windows follow each other, *)
(* the solver knows what the simulation shows in the current one, and all   *)
(* windows passed have a model.                                             *)
THEOREM ValidationInvariant == Spec => []ValidationInv
<1>1. Init => ValidationInv
  <2> SUFFICES ASSUME Init PROVE ValidationInv
    OBVIOUS
  <2>1. pc = "window" /\ compare_result /\ applied = {} /\ timestep = Begin
    BY DEF Init
  <2>2. TypeOK /\ WindowsAreRegular /\ FactsInv
    BY InitTypes, InitFacts
  <2>3. \A t \in Windows : ~(t < timestep)
    BY <2>1, <2>2, Periods DEF Windows, TypeOK, SimulationOK
  <2>4. AgreedInv
    BY <2>1, <2>3 DEF AgreedInv
  <2>5. AcceptedWindowsAgree /\ NoFalseAlarm /\ StopsAtFailure
    BY <2>1 DEF AcceptedWindowsAgree, NoFalseAlarm, StopsAtFailure
  <2> QED
    BY <2>2, <2>4, <2>5 DEF ValidationInv
<1>2. ValidationInv /\ [Next]_vars => ValidationInv'
  BY NextTypes, NextFacts, NextStops, NextAgreed, NextAccepted, NextExact DEF ValidationInv
<1> QED
  BY <1>1, <1>2, PTL DEF Spec

(* smt_sim_validation never rejects a right translation: whatever the       *)
(* design with a state output, the simulation, its unknown bits, the clock  *)
(* and the number of unrolled steps.                                        *)
THEOREM RightIsNeverRejected == Spec => []NoFalseAlarm
BY ValidationInvariant, PTL DEF ValidationInv

(* What the result TRUE of smt_sim_validation vouches for, right translation *)
(* or not: every window within the trace has a model of the instance with   *)
(* the simulated inputs, states and last output.                            *)
THEOREM AcceptedAgree == Spec => []AcceptedWindowsAgree
BY ValidationInvariant, PTL DEF ValidationInv
=============================================================================
