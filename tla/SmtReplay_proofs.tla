--------------------------- MODULE SmtReplay_proofs ---------------------------
(***************************************************************************)
(* Proofs about SmtReplay, for every design, every translation and every   *)
(* number of time steps: the three blocks of the generated testbench never *)
(* race, the simulation passes through the states of the solver's model,   *)
(* and what the two checks of the validation say about the last output.    *)
(***************************************************************************)
EXTENDS SmtReplay, TLAPS

Blocks == {"clock", "inputs", "release"}
Stages == {"simulate", "compare", "unique", "done"}
Steps == 0 .. unroll_factor - 1

TypeOK ==
  /\ design \in Designs
  /\ smt \in TranslatedDesigns(design)
  /\ unroll_factor \in UnrollFactors
  /\ given \in [q : Bit, in : [Steps -> Inputs]]
  /\ pc \in Stages
  /\ now \in Nat /\ clk \in Bit /\ in \in Inputs /\ q \in Bit
  /\ forced \in BOOLEAN
  /\ step \in Steps
  /\ wake \in [Blocks -> Nat]
  /\ dump \in [0 .. now - 1 -> [q : Bit, in : Inputs]]
  /\ identical \in BOOLEAN /\ unique \in BOOLEAN

(* Within the inputs of a step the clock falls, rises and waits for the     *)
(* next inputs.                                                            *)
Falls == 4 * step + 2
Rises == 4 * step + 4
Waits == 4 * step + 6

(* When the blocks go on, and how far time has come                        *)
Timetable ==
  /\ wake["inputs"] = 4 * step + 5
  /\ wake["release"] = IF forced THEN 1 ELSE Never
  /\ wake["clock"] \in {Falls, Rises, Waits}
  /\ clk = IF wake["clock"] = Rises THEN 0 ELSE 1
  /\ forced => step = 0 /\ wake["clock"] = Falls
  /\ wake["clock"] = Falls => now = IF forced THEN 0 ELSE 4 * step + 1
  /\ wake["clock"] # Falls => now = wake["clock"] - 2

TimeInv ==
  /\ pc = "simulate" => Timetable
  /\ pc # "simulate" => now = 4 * unroll_factor + 1

(* The states of the design from the given one under the given inputs      *)
IsRun(R) ==
  /\ R \in [Steps -> Bit]
  /\ R[0] = given.q
  /\ \A t \in 1 .. unroll_factor - 1 : R[t] = design.next[R[t - 1], given.in[t - 1]]

(* The register before and after the edge of the current step              *)
RegisterFollows(R) ==
  /\ wake["clock"] # Waits => q = R[step]
  /\ wake["clock"] = Waits /\ step + 1 < unroll_factor => q = R[step + 1]

DumpFollows(R) ==
  \A u \in Steps : SampleTime(u) \in DOMAIN dump =>
    dump[SampleTime(u)] = [q |-> R[u], in |-> given.in[u]]

FollowsRun ==
  /\ pc = "simulate" => in = given.in[step]
  /\ \A R \in [Steps -> Bit] : IsRun(R) =>
       /\ pc = "simulate" => RegisterFollows(R)
       /\ DumpFollows(R)

(* What the results of the two checks were computed from                   *)
Last == unroll_factor - 1
LastOutput == SimulatedOutput(Last)
ResultsInv ==
  /\ pc \in {"unique", "done"} /\ identical =>
       \E m \in Models : m.out[Last] = LastOutput
  /\ pc = "done" /\ unique =>
       \E m \in Models : \A other \in Models : ~Differs(m, other)

ReplayInv == TypeOK /\ TimeInv /\ FollowsRun /\ ResultsInv /\ RightTranslationPasses

-------------------------------------------------------------------------------
(* Operators                                                               *)

LEMMA FactorIsPositive ==
  ASSUME TypeOK
  PROVE  /\ unroll_factor \in Nat \ {0}
         /\ 0 \in Steps /\ Last \in Steps
BY ReplayAssumption DEF TypeOK, Steps, Last

LEMMA DesignFunctions ==
  ASSUME TypeOK
  PROVE  design.next \in [Bit \X Inputs -> Bit] /\ design.out \in [Bit \X Inputs -> Bit]
BY DesignAssumption DEF TypeOK, Designs

(* With a right translation every model runs like the design.              *)
LEMMA ModelsAreRuns ==
  ASSUME TypeOK, IsExact(design, smt), NEW m \in Models
  PROVE  /\ m.in = given.in
         /\ IsRun(m.q)
         /\ \A t \in Steps : m.out[t] = design.out[m.q[t], m.in[t]]
<1>1. /\ m \in Assignments(unroll_factor)
      /\ IsModel(smt, unroll_factor, m)
      /\ m.q[0] = given.q /\ m.in = given.in
  BY DEF Models
<1>2. m.q \in [Steps -> Bit] /\ m.in \in [Steps -> Inputs]
  BY <1>1 DEF Assignments, Steps
<1>3. ASSUME NEW t \in 1 .. unroll_factor - 1
      PROVE  m.q[t] = design.next[m.q[t - 1], given.in[t - 1]]
  <2>1. t - 1 \in Steps
    BY <1>3, FactorIsPositive DEF Steps
  <2>2. m.q[t - 1] \in Bit /\ m.in[t - 1] \in Inputs
    BY <1>2, <2>1
  <2>3. m.q[t] \in smt.next[m.q[t - 1], m.in[t - 1]]
    BY <1>1 DEF IsModel
  <2>4. smt.next = Exact(design.next)
    BY DEF IsExact
  <2>5. smt.next[m.q[t - 1], m.in[t - 1]] = {design.next[m.q[t - 1], m.in[t - 1]]}
    BY <2>2, <2>4, DesignFunctions DEF Exact
  <2> QED
    BY <1>1, <2>3, <2>5
<1>4. ASSUME NEW t \in Steps
      PROVE  m.out[t] = design.out[m.q[t], m.in[t]]
  <2>1. m.q[t] \in Bit /\ m.in[t] \in Inputs
    BY <1>2
  <2>2. m.out[t] \in smt.out[m.q[t], m.in[t]]
    BY <1>1 DEF IsModel, Steps
  <2>3. smt.out = Exact(design.out)
    BY DEF IsExact
  <2>4. smt.out[m.q[t], m.in[t]] = {design.out[m.q[t], m.in[t]]}
    BY <2>1, <2>3, DesignFunctions DEF Exact
  <2> QED
    BY <2>2, <2>4
<1> QED
  BY <1>1, <1>2, <1>3, <1>4 DEF IsRun

(* If no model differs from m, they all have its outputs.                  *)
LEMMA SameOutputs ==
  ASSUME NEW m \in Models, \A other \in Models : ~Differs(m, other), TypeOK,
         NEW other \in Models, NEW t \in Steps
  PROVE  other.out[t] = m.out[t]
<1>1. DOMAIN m.out = Steps
  BY DEF Models, Assignments, Steps
<1> QED
  BY <1>1 DEF Differs

-------------------------------------------------------------------------------
(* Types                                                                   *)

LEMMA InitTypes == Init => TypeOK
<1> SUFFICES ASSUME Init PROVE TypeOK
  OBVIOUS
<1>1. unroll_factor \in Nat \ {0} /\ 0 \in Steps
  BY ReplayAssumption DEF Init, Steps
<1>2. in \in Inputs
  BY <1>1 DEF Init, InputOf, Steps
<1>3. wake \in [Blocks -> Nat]
  BY DEF Init, Blocks, constClockToggle, HoldFirst
<1>4. dump \in [0 .. now - 1 -> [q : Bit, in : Inputs]]
  BY DEF Init
<1> QED
  BY <1>1, <1>2, <1>3, <1>4 DEF Init, TypeOK, Stages, Steps, Bit

(* A block that wakes records the values up to now.                        *)
LEMMA WakesTypes ==
  ASSUME TypeOK, NEW p \in Blocks, Wakes(p)
  PROVE  /\ now' \in Nat
         /\ dump' \in [0 .. now' - 1 -> [q : Bit, in : Inputs]]
<1>1. now' \in Nat
  BY DEF Wakes, TypeOK
<1>2. [q |-> q, in |-> in] \in [q : Bit, in : Inputs]
  BY DEF TypeOK
<1>3. \A t \in DOMAIN dump : dump[t] \in [q : Bit, in : Inputs]
  BY DEF TypeOK
<1> QED
  BY <1>1, <1>2, <1>3 DEF Wakes

LEMMA NextTypes == TypeOK /\ TimeInv /\ [Next]_vars => TypeOK'
<1> SUFFICES ASSUME TypeOK, TimeInv, [Next]_vars PROVE TypeOK'
  OBVIOUS
<1>1. CASE ToggleClock
  <2>1. "clock" \in Blocks
    BY DEF Blocks
  <2>2. now' \in Nat /\ dump' \in [0 .. now' - 1 -> [q : Bit, in : Inputs]]
    BY <1>1, <2>1, WakesTypes DEF ToggleClock
  <2>3. wake' \in [Blocks -> Nat]
    <3>1. wake' = [wake EXCEPT !["clock"] = wake["clock"] + 2]
      BY <1>1 DEF ToggleClock, constClockToggle
    <3> QED
      BY <2>1, <3>1 DEF TypeOK
  <2>4. clk' \in Bit
    <3>1. clk' = 1 - clk /\ clk \in Bit
      BY <1>1 DEF ToggleClock, TypeOK
    <3> QED
      BY <3>1 DEF Bit
  <2>5. q' \in Bit
    <3>1. design.next[q, in] \in Bit
      BY DesignFunctions DEF TypeOK
    <3> QED
      BY <1>1, <3>1 DEF ToggleClock, TypeOK
  <2> QED
    BY <1>1, <2>2, <2>3, <2>4, <2>5 DEF ToggleClock, TypeOK, chosen, Steps
<1>2. CASE Release
  <2>1. "release" \in Blocks
    BY DEF Blocks
  <2>2. now' \in Nat /\ dump' \in [0 .. now' - 1 -> [q : Bit, in : Inputs]]
    BY <1>2, <2>1, WakesTypes DEF Release
  <2>3. wake' \in [Blocks -> Nat]
    BY <1>2, <2>1, FactorIsPositive DEF Release, TypeOK, Never
  <2> QED
    BY <1>2, <2>2, <2>3 DEF Release, TypeOK, chosen, Steps
<1>3. CASE SetInputs
  <2>1. "inputs" \in Blocks
    BY DEF Blocks
  <2>2. now' \in Nat /\ dump' \in [0 .. now' - 1 -> [q : Bit, in : Inputs]]
    BY <1>3, <2>1, WakesTypes DEF SetInputs
  <2>3. wake' \in [Blocks -> Nat]
    BY <1>3, <2>1 DEF SetInputs, TypeOK, Hold, constClockToggle
  <2>4. step' \in Steps
    BY <1>3, FactorIsPositive DEF SetInputs, TypeOK, Steps
  <2>5. in' \in Inputs
    BY <1>3, <2>4 DEF SetInputs, TypeOK, InputOf
  <2> QED
    BY <1>3, <2>2, <2>3, <2>4, <2>5 DEF SetInputs, TypeOK, chosen, Steps
<1>4. CASE Finish
  <2>1. now' \in Nat /\ dump' \in [0 .. now' - 1 -> [q : Bit, in : Inputs]]
    BY <1>4, WakesTypes DEF Finish, Blocks
  <2> QED
    BY <1>4, <2>1 DEF Finish, TypeOK, chosen, Steps, Stages
<1>5. CASE Compare
  <2>1. identical' \in BOOLEAN
    BY <1>5 DEF Compare
  <2> QED
    BY <1>5, <2>1 DEF Compare, TypeOK, chosen, testbench, Steps, Stages
<1>6. CASE UniqueAssignment
  <2>1. unique' \in BOOLEAN
    BY <1>6 DEF UniqueAssignment
  <2> QED
    BY <1>6, <2>1 DEF UniqueAssignment, TypeOK, chosen, testbench, Steps, Stages
<1>7. CASE UNCHANGED vars
  BY <1>7 DEF vars, chosen, testbench, TypeOK, Steps
<1> QED
  BY <1>1, <1>2, <1>3, <1>4, <1>5, <1>6, <1>7 DEF Next

-------------------------------------------------------------------------------
(* Time                                                                    *)

LEMMA InitTime == Init => TimeInv
BY DEF Init, TimeInv, Timetable, Falls, Rises, Waits, constClockToggle, HoldFirst

(* Which blocks may go on, given the timetable: the inputs wait for the    *)
(* clock to have risen and fallen, the release comes first of all.         *)
LEMMA WhoWakes ==
  ASSUME TypeOK, Timetable, NEW p \in Blocks, Wakes(p)
  PROVE  /\ p = "clock" => ~forced /\ wake["clock"] \in {Falls, Rises}
         /\ p = "release" => forced /\ now = 0
         /\ p = "inputs" => wake["clock"] = Waits /\ now = Rises
         /\ now' = wake[p]
<1>1. DOMAIN wake = Blocks /\ \A b \in Blocks : wake[p] <= wake[b] /\ wake[b] \in Nat
  BY DEF TypeOK, Wakes
<1>2. /\ wake[p] <= wake["clock"] /\ wake[p] <= wake["inputs"] /\ wake[p] <= wake["release"]
      /\ now' = wake[p]
  BY <1>1 DEF Blocks, Wakes
<1>3. step \in Nat /\ step < unroll_factor /\ unroll_factor \in Nat
  BY FactorIsPositive DEF TypeOK, Steps
<1> QED
  BY <1>2, <1>3 DEF Timetable, Falls, Rises, Waits, Never

LEMMA NextTime == TypeOK /\ TimeInv /\ [Next]_vars => TimeInv'
<1> SUFFICES ASSUME TypeOK, TimeInv, [Next]_vars PROVE TimeInv'
  OBVIOUS
<1> USE DEF TimeInv
<1>1. step \in Nat /\ step < unroll_factor /\ unroll_factor \in Nat
  BY FactorIsPositive DEF TypeOK, Steps
<1>2. CASE ToggleClock
  <2>1. "clock" \in Blocks /\ Wakes("clock") /\ pc = "simulate"
    BY <1>2 DEF Blocks, ToggleClock, Wakes
  <2>2. /\ ~forced /\ wake["clock"] \in {Falls, Rises}
        /\ now' = wake["clock"]
    BY <2>1, WhoWakes
  <2>3. /\ wake'["clock"] = wake["clock"] + 2
        /\ wake'["inputs"] = wake["inputs"] /\ wake'["release"] = wake["release"]
    BY <1>2 DEF ToggleClock, constClockToggle, TypeOK, Blocks
  <2>4. clk' = 1 - clk /\ step' = step /\ forced' = forced /\ pc' = pc
        /\ unroll_factor' = unroll_factor
    BY <1>2 DEF ToggleClock, chosen
  <2> QED
    BY <1>1, <2>1, <2>2, <2>3, <2>4 DEF Timetable, Falls, Rises, Waits, Never
<1>3. CASE Release
  <2>1. "release" \in Blocks /\ Wakes("release") /\ pc = "simulate"
    BY <1>3 DEF Blocks, Release, Wakes
  <2>2. forced /\ now' = wake["release"]
    BY <2>1, WhoWakes
  <2>3. /\ wake'["clock"] = wake["clock"] /\ wake'["inputs"] = wake["inputs"]
        /\ wake'["release"] = Never
    BY <1>3 DEF Release, TypeOK, Blocks
  <2>4. clk' = clk /\ step' = step /\ forced' = FALSE /\ pc' = pc
        /\ unroll_factor' = unroll_factor
    BY <1>3 DEF Release, chosen
  <2> QED
    BY <1>1, <2>1, <2>2, <2>3, <2>4 DEF Timetable, Falls, Rises, Waits, Never
<1>4. CASE SetInputs
  <2>1. "inputs" \in Blocks /\ Wakes("inputs") /\ pc = "simulate"
    BY <1>4 DEF Blocks, SetInputs, Wakes
  <2>2. wake["clock"] = Waits /\ now' = wake["inputs"]
    BY <2>1, WhoWakes
  <2>3. /\ wake'["clock"] = wake["clock"] /\ wake'["inputs"] = wake["inputs"] + 4
        /\ wake'["release"] = wake["release"]
    BY <1>4 DEF SetInputs, TypeOK, Blocks, Hold, constClockToggle
  <2>4. clk' = clk /\ step' = step + 1 /\ forced' = forced /\ pc' = pc
        /\ unroll_factor' = unroll_factor
    BY <1>4 DEF SetInputs, chosen
  <2> QED
    BY <1>1, <2>1, <2>2, <2>3, <2>4 DEF Timetable, Falls, Rises, Waits, Never
<1>5. CASE Finish
  <2>1. "inputs" \in Blocks /\ Wakes("inputs") /\ pc = "simulate"
    BY <1>5 DEF Blocks, Finish, Wakes
  <2>2. now' = wake["inputs"]
    BY <2>1, WhoWakes
  <2>3. step + 1 = unroll_factor /\ pc' = "compare" /\ unroll_factor' = unroll_factor
    BY <1>5 DEF Finish, chosen
  <2> QED
    BY <1>1, <2>1, <2>2, <2>3 DEF Timetable
<1>6. CASE Compare \/ UniqueAssignment
  BY <1>6 DEF Compare, UniqueAssignment, chosen, testbench
<1>7. CASE UNCHANGED vars
  BY <1>7 DEF vars, chosen, testbench, Timetable, Falls, Rises, Waits, Never
<1> QED
  BY <1>2, <1>3, <1>4, <1>5, <1>6, <1>7 DEF Next

LEMMA TimetableHasNoRace == TypeOK /\ TimeInv => BlocksDoNotRace
<1> SUFFICES ASSUME TypeOK, TimeInv, pc = "simulate",
                    NEW p \in DOMAIN wake, NEW r \in DOMAIN wake, p # r
             PROVE  wake[p] # wake[r]
  BY DEF BlocksDoNotRace
<1>1. p \in Blocks /\ r \in Blocks
  BY DEF TypeOK
<1>2. step \in Nat /\ step < unroll_factor /\ unroll_factor \in Nat
  BY FactorIsPositive DEF TypeOK, Steps
<1>3. /\ wake["clock"] # wake["inputs"]
      /\ wake["clock"] # wake["release"]
      /\ wake["inputs"] # wake["release"]
  BY <1>2 DEF TimeInv, Timetable, Falls, Rises, Waits, Never
<1> QED
  BY <1>1, <1>3 DEF Blocks

-------------------------------------------------------------------------------
(* The simulated states                                                    *)

LEMMA InitFollows == Init => FollowsRun
<1> SUFFICES ASSUME Init PROVE FollowsRun
  OBVIOUS
<1>1. DOMAIN dump = {} /\ step = 0 /\ wake["clock"] = 2
  BY DEF Init, constClockToggle
<1>2. in = given.in[step] /\ q = given.q
  BY <1>1 DEF Init, InputOf
<1>3. ASSUME NEW R, IsRun(R)
      PROVE  RegisterFollows(R) /\ DumpFollows(R)
  <2>1. wake["clock"] # Waits /\ R[step] = given.q
    <3>1. Waits = 6
      BY <1>1 DEF Waits
    <3>2. wake["clock"] # Waits
      BY <1>1, <3>1
    <3>3. R[0] = given.q
      BY <1>3 DEF IsRun
    <3> QED
      BY <1>1, <3>2, <3>3
  <2>2. RegisterFollows(R)
    BY <1>2, <2>1 DEF RegisterFollows
  <2>3. DumpFollows(R)
    BY <1>1 DEF DumpFollows
  <2> QED
    BY <2>2, <2>3
<1> QED
  BY <1>2, <1>3 DEF FollowsRun

(* The run does not depend on the testbench.                               *)
LEMMA SameRuns ==
  ASSUME UNCHANGED chosen, NEW R
  PROVE  IsRun(R)' <=> IsRun(R)
BY DEF chosen, IsRun, Steps

(* What a waking block records at the sample time of a step, if any.       *)
LEMMA WakesDump ==
  ASSUME TypeOK, Timetable, NEW p \in Blocks, Wakes(p), NEW u \in Steps,
         SampleTime(u) \in 0 .. now' - 1
  PROVE  \/ SampleTime(u) \in DOMAIN dump /\ dump'[SampleTime(u)] = dump[SampleTime(u)]
         \/ /\ p = "clock" /\ wake["clock"] = Rises /\ u = step
            /\ dump'[SampleTime(u)] = [q |-> q, in |-> in]
<1>1. /\ step \in Nat /\ step < unroll_factor /\ unroll_factor \in Nat
      /\ u \in Nat /\ u < unroll_factor
  BY FactorIsPositive DEF TypeOK, Steps
<1>2. DOMAIN dump = 0 .. now - 1 /\ now \in Nat
  BY DEF TypeOK
<1>3. dump'[SampleTime(u)] = IF SampleTime(u) \in DOMAIN dump
                              THEN dump[SampleTime(u)] ELSE [q |-> q, in |-> in]
  BY DEF Wakes
<1>4. CASE SampleTime(u) \notin DOMAIN dump
  <2>1. SampleTime(u) = 4 * u + 2 /\ now <= 4 * u + 2 /\ 4 * u + 2 < now'
    <3>1. now' \in Nat
      BY WakesTypes
    <3>2. SampleTime(u) = 4 * u + 2
      BY <1>1 DEF SampleTime
    <3>3. 4 * u + 2 \in 0 .. now' - 1 /\ 4 * u + 2 \notin 0 .. now - 1
      BY <1>2, <1>4, <3>2
    <3>4. ASSUME NEW s \in Nat, NEW a \in Nat, NEW b \in Nat,
                 s \in 0 .. b - 1, s \notin 0 .. a - 1
          PROVE  a <= s /\ s < b
      BY <3>4
    <3>5. 4 * u + 2 \in Nat
      BY <1>1
    <3>6. now <= 4 * u + 2 /\ 4 * u + 2 < now'
      BY <1>2, <3>1, <3>3, <3>4, <3>5
    <3> QED
      BY <3>2, <3>6
  <2>2. p = "clock" /\ wake["clock"] = Rises /\ u = step
    BY <1>1, <2>1, WhoWakes DEF Timetable, Falls, Rises, Waits, Blocks
  <2> QED
    BY <1>3, <1>4, <2>2
<1> QED
  BY <1>3, <1>4

LEMMA NextFollows == TypeOK /\ TimeInv /\ FollowsRun /\ [Next]_vars => FollowsRun'
<1> SUFFICES ASSUME TypeOK, TimeInv, FollowsRun, [Next]_vars PROVE FollowsRun'
  OBVIOUS
<1>1. step \in Nat /\ step < unroll_factor /\ unroll_factor \in Nat
  BY FactorIsPositive DEF TypeOK, Steps
<1>2. UNCHANGED chosen
  BY DEF Next, vars, ToggleClock, Release, SetInputs, Finish, Compare, UniqueAssignment
<1>3. Steps' = Steps /\ given' = given /\ unroll_factor' = unroll_factor
  BY <1>2 DEF chosen, Steps
<1>4. TypeOK'
  BY NextTypes
<1>5. (pc = "simulate" => in = given.in[step])'
  <2>1. CASE ToggleClock \/ Release \/ Finish
    BY <2>1, <1>3 DEF ToggleClock, Release, Finish, Wakes, FollowsRun
  <2>2. CASE SetInputs
    BY <2>2, <1>3 DEF SetInputs, InputOf
  <2>3. CASE Compare \/ UniqueAssignment \/ UNCHANGED vars
    BY <2>3, <1>3 DEF Compare, UniqueAssignment, vars, testbench, FollowsRun
  <2> QED
    BY <2>1, <2>2, <2>3 DEF Next
<1>6. ASSUME NEW R \in [Steps -> Bit], IsRun(R)
      PROVE  (pc = "simulate" => RegisterFollows(R))' /\ DumpFollows(R)'
  <2>1. pc = "simulate" => RegisterFollows(R) /\ Timetable /\ in = given.in[step]
    BY <1>6 DEF FollowsRun, TimeInv
  <2>2. DumpFollows(R)
    BY <1>6 DEF FollowsRun
  (* Only the rising edge adds a sample: the values of this step.          *)
  <2>3. ASSUME NEW p \in Blocks, Wakes(p)
        PROVE  DumpFollows(R)'
    <3>1. SUFFICES ASSUME NEW u \in Steps, SampleTime(u) \in 0 .. now' - 1
                   PROVE  dump'[SampleTime(u)] = [q |-> R[u], in |-> given.in[u]]
      BY <1>3, <1>4 DEF DumpFollows, TypeOK, SampleTime
    <3>2. pc = "simulate"
      BY <2>3 DEF Wakes
    <3>3. CASE SampleTime(u) \in DOMAIN dump /\ dump'[SampleTime(u)] = dump[SampleTime(u)]
      BY <2>2, <3>3 DEF DumpFollows
    <3>4. CASE /\ p = "clock" /\ wake["clock"] = Rises /\ u = step
               /\ dump'[SampleTime(u)] = [q |-> q, in |-> in]
      <4>1. q = R[u] /\ in = given.in[u]
        BY <1>1, <2>1, <3>2, <3>4 DEF RegisterFollows, Rises, Waits
      <4> QED
        BY <3>4, <4>1
    <3> QED
      BY <2>1, <2>3, <3>1, <3>2, <3>3, <3>4, WakesDump
  <2>4. CASE ToggleClock
    <3>1. "clock" \in Blocks /\ Wakes("clock") /\ pc = "simulate"
      BY <2>4 DEF Blocks, ToggleClock, Wakes
    <3>2. ~forced /\ wake["clock"] \in {Falls, Rises}
      BY <2>1, <3>1, WhoWakes
    <3>3. wake'["clock"] = wake["clock"] + 2 /\ step' = step
      BY <2>4, <3>1 DEF ToggleClock, constClockToggle, TypeOK
    <3>4. CASE wake["clock"] = Falls
      <4>1. clk = 1
        BY <1>1, <2>1, <3>1, <3>4 DEF Timetable, Falls, Rises
      <4>2. clk' # 1
        BY <2>4, <4>1 DEF ToggleClock
      <4>3. q' = q
        BY <2>4, <4>2 DEF ToggleClock
      <4> QED
        BY <1>1, <1>3, <2>1, <2>3, <3>1, <3>3, <3>4, <4>3
        DEF RegisterFollows, Falls, Rises, Waits
    <3>5. CASE wake["clock"] = Rises
      <4>1. clk = 0 /\ 1 - clk = 1
        BY <2>1, <3>1, <3>5 DEF Timetable
      <4>2. clk' = 1
        BY <2>4, <4>1 DEF ToggleClock
      <4>3. q' = design.next[q, in]
        BY <2>4, <3>2, <4>2 DEF ToggleClock
      <4>4. q = R[step] /\ in = given.in[step]
        BY <1>1, <2>1, <3>1, <3>5 DEF RegisterFollows, Rises, Waits
      <4>5. step + 1 < unroll_factor => R[step + 1] = design.next[R[step], given.in[step]]
        <5> SUFFICES ASSUME step + 1 < unroll_factor
                     PROVE  R[step + 1] = design.next[R[step], given.in[step]]
          OBVIOUS
        <5>1. step + 1 \in 1 .. unroll_factor - 1 /\ (step + 1) - 1 = step
          BY <1>1
        <5> QED
          BY <1>6, <5>1 DEF IsRun
      <4>6. wake'["clock"] = Waits
        BY <1>1, <3>3, <3>5 DEF Rises, Waits
      <4>7. RegisterFollows(R)'
        BY <1>3, <3>3, <4>3, <4>4, <4>5, <4>6 DEF RegisterFollows, Waits
      <4> QED
        BY <2>3, <3>1, <4>7
    <3> QED
      BY <3>2, <3>4, <3>5
  <2>5. CASE Release
    <3>1. "release" \in Blocks /\ Wakes("release") /\ pc = "simulate"
      BY <2>5 DEF Blocks, Release, Wakes
    <3>2. wake'["clock"] = wake["clock"] /\ q' = q /\ step' = step
      BY <2>5 DEF Release, TypeOK, Blocks
    <3> QED
      BY <1>3, <2>1, <2>3, <3>1, <3>2 DEF RegisterFollows, Waits
  <2>6. CASE SetInputs
    <3>1. "inputs" \in Blocks /\ Wakes("inputs") /\ pc = "simulate"
      BY <2>6 DEF Blocks, SetInputs, Wakes
    <3>2. wake["clock"] = Waits
      BY <2>1, <3>1, WhoWakes
    <3>3. /\ wake'["clock"] = wake["clock"] /\ q' = q /\ step' = step + 1
          /\ step + 1 < unroll_factor
      BY <2>6 DEF SetInputs, TypeOK, Blocks
    <3>4. q' = R[step']
      BY <2>1, <3>1, <3>2, <3>3 DEF RegisterFollows
    <3>5. wake'["clock"] # Waits'
      BY <1>1, <3>2, <3>3 DEF Waits
    <3> QED
      BY <2>3, <3>1, <3>4, <3>5 DEF RegisterFollows
  <2>7. CASE Finish
    <3>1. "inputs" \in Blocks /\ Wakes("inputs") /\ pc' = "compare"
      BY <2>7 DEF Blocks, Finish
    <3> QED
      BY <2>3, <3>1
  <2>8. CASE Compare \/ UniqueAssignment
    <3>1. dump' = dump /\ pc' # "simulate"
      BY <2>8 DEF Compare, UniqueAssignment, testbench
    <3> QED
      BY <1>3, <2>2, <3>1 DEF DumpFollows, SampleTime
  <2>9. CASE UNCHANGED vars
    BY <1>3, <2>1, <2>2, <2>9 DEF vars, testbench, DumpFollows, RegisterFollows, Waits, SampleTime
  <2> QED
    BY <2>4, <2>5, <2>6, <2>7, <2>8, <2>9 DEF Next
<1> QED
  BY <1>2, <1>3, <1>5, <1>6, SameRuns DEF FollowsRun

-------------------------------------------------------------------------------
(* The two checks                                                          *)

(* The sample times are recorded when the testbench ends.                  *)
LEMMA SamplesAreRecorded ==
  ASSUME TypeOK, TimeInv, pc # "simulate", NEW u \in Steps
  PROVE  SampleTime(u) \in DOMAIN dump
<1>1. unroll_factor \in Nat /\ u \in Nat /\ u < unroll_factor
  BY FactorIsPositive DEF Steps
<1>2. DOMAIN dump = 0 .. now - 1 /\ now = 4 * unroll_factor + 1
  BY DEF TypeOK, TimeInv
<1> QED
  BY <1>1, <1>2 DEF SampleTime

(* What a right translation's model says was simulated.                    *)
LEMMA FollowsModel == TypeOK /\ FollowsRun => SimulationFollowsModel
<1> SUFFICES ASSUME TypeOK, FollowsRun, IsExact(design, smt), NEW u \in Steps,
                    SampleTime(u) \in DOMAIN dump, NEW m \in Models
             PROVE  dump[SampleTime(u)] = [q |-> m.q[u], in |-> m.in[u]]
  BY DEF SimulationFollowsModel, Steps
<1>1. m.in = given.in /\ IsRun(m.q)
  BY ModelsAreRuns
<1>2. DumpFollows(m.q)
  BY <1>1 DEF FollowsRun, IsRun
<1> QED
  BY <1>1, <1>2 DEF DumpFollows

LEMMA ExactOutput ==
  ASSUME TypeOK, TimeInv, FollowsRun, IsExact(design, smt), pc # "simulate",
         NEW m \in Models, NEW u \in Steps
  PROVE  m.out[u] = SimulatedOutput(u)
<1>1. dump[SampleTime(u)] = [q |-> m.q[u], in |-> m.in[u]]
  BY FollowsModel, SamplesAreRecorded DEF SimulationFollowsModel, Steps
<1>2. m.out[u] = design.out[m.q[u], m.in[u]]
  BY ModelsAreRuns
<1> QED
  <2>1. SimulatedOutput(u) = design.out[dump[SampleTime(u)].q, dump[SampleTime(u)].in]
    BY DEF SimulatedOutput
  <2>2. dump[SampleTime(u)].q = m.q[u] /\ dump[SampleTime(u)].in = m.in[u]
    BY <1>1
  <2> QED
    BY <1>2, <2>1, <2>2

LEMMA SameModels ==
  ASSUME UNCHANGED chosen
  PROVE  Models' = Models
BY DEF chosen, Models

LEMMA NextResults ==
  ReplayInv /\ [Next]_vars => ResultsInv' /\ RightTranslationPasses'
<1> SUFFICES ASSUME ReplayInv, [Next]_vars PROVE ResultsInv' /\ RightTranslationPasses'
  OBVIOUS
<1> USE DEF ReplayInv
<1>1. UNCHANGED chosen
  BY DEF Next, vars, ToggleClock, Release, SetInputs, Finish, Compare, UniqueAssignment
<1>2. Models' = Models /\ Last' = Last
  BY <1>1, SameModels DEF chosen, Last
<1>3. CASE ToggleClock \/ Release \/ SetInputs \/ Finish
  <2>1. pc' \notin {"unique", "done"} /\ UNCHANGED <<identical, unique>>
    BY <1>3 DEF ToggleClock, Release, SetInputs, Finish, Wakes
  <2> QED
    BY <1>1, <2>1 DEF ResultsInv, RightTranslationPasses, chosen
<1>4. CASE Compare
  <2>1. pc = "compare" /\ pc' = "unique" /\ unique' = unique /\ dump' = dump
    BY <1>4 DEF Compare, testbench
  <2>2. PICK m \in Models : identical' = (m.out[Last] = LastOutput)
    BY <1>4 DEF Compare, Last, LastOutput
  <2>3. LastOutput' = LastOutput
    BY <1>1, <2>1 DEF LastOutput, SimulatedOutput, SampleTime, Last, chosen
  <2>4. ResultsInv'
    BY <1>2, <2>1, <2>2, <2>3 DEF ResultsInv
  <2>5. IsExact(design, smt) => identical'
    BY <2>1, <2>2, ExactOutput, FactorIsPositive DEF LastOutput
  <2> QED
    BY <1>1, <2>1, <2>4, <2>5 DEF RightTranslationPasses, chosen
<1>5. CASE UniqueAssignment
  <2>1. /\ pc = "unique" /\ pc' = "done" /\ identical' = identical
        /\ dump' = dump
    BY <1>5 DEF UniqueAssignment, testbench
  <2>2. PICK m \in Models : unique' = ~\E other \in Models : Differs(m, other)
    BY <1>5 DEF UniqueAssignment
  <2>3. LastOutput' = LastOutput
    BY <1>1, <2>1 DEF LastOutput, SimulatedOutput, SampleTime, Last, chosen
  <2>4. ResultsInv'
    BY <1>2, <2>1, <2>2, <2>3 DEF ResultsInv
  <2>5. ASSUME IsExact(design, smt), NEW other \in Models
        PROVE  ~Differs(m, other)
    <3>1. DOMAIN m.out = Steps
      BY DEF Models, Assignments, Steps
    <3>2. \A t \in Steps : m.out[t] = SimulatedOutput(t) /\ other.out[t] = SimulatedOutput(t)
      BY <2>1, <2>5, ExactOutput
    <3> QED
      BY <3>1, <3>2 DEF Differs
  <2> QED
    BY <1>1, <2>1, <2>2, <2>4, <2>5 DEF RightTranslationPasses, chosen
<1>6. CASE UNCHANGED vars
  <2>1. pc' = pc /\ UNCHANGED <<identical, unique, dump>>
    BY <1>6 DEF vars, testbench
  <2>2. LastOutput' = LastOutput
    BY <1>1, <2>1 DEF LastOutput, SimulatedOutput, SampleTime, Last, chosen
  <2> QED
    BY <1>1, <1>2, <2>1, <2>2 DEF ResultsInv, RightTranslationPasses, chosen
<1> QED
  BY <1>3, <1>4, <1>5, <1>6 DEF Next

(* Both checks together leave the last output no choice.                   *)
LEMMA ResultsForce == TypeOK /\ ResultsInv => AcceptedOutputIsForced
<1> SUFFICES ASSUME TypeOK, ResultsInv, pc = "done", identical, unique, NEW m \in Models
             PROVE  m.out[Last] = LastOutput
  BY DEF AcceptedOutputIsForced, Last, LastOutput
<1>1. PICK n \in Models : n.out[Last] = LastOutput
  BY DEF ResultsInv
<1>2. PICK o \in Models : \A other \in Models : ~Differs(o, other)
  BY DEF ResultsInv
<1>3. m.out[Last] = o.out[Last] /\ n.out[Last] = o.out[Last]
  BY <1>2, SameOutputs, FactorIsPositive
<1> QED
  BY <1>1, <1>3

-------------------------------------------------------------------------------
(* The theorems                                                            *)

(* The inductive invariant: which of TestbenchSMT's blocks have run by now, *)
(* the state they have left the simulation in, and the results of the       *)
(* comparisons, are functions of the model and of the time.                 *)
THEOREM ReplayInvariant == Spec => []ReplayInv
<1>1. Init => ReplayInv
  <2>1. Init => ResultsInv /\ RightTranslationPasses
    BY DEF Init, ResultsInv, RightTranslationPasses
  <2> QED
    BY <2>1, InitTypes, InitTime, InitFollows DEF ReplayInv
<1>2. ReplayInv /\ [Next]_vars => ReplayInv'
  BY NextTypes, NextTime, NextFollows, NextResults DEF ReplayInv
<1> QED
  BY <1>1, <1>2, PTL DEF Spec

(* No two blocks of the testbench (print_testbench of TestbenchSMT) wake at *)
(* the same time, whatever the number of unrolled time steps.              *)
THEOREM NoRace == Spec => []BlocksDoNotRace
BY ReplayInvariant, TimetableHasNoRace, PTL DEF ReplayInv

(* The simulation of the testbench passes through the states of the model  *)
(* it was generated from, for every design and number of time steps.       *)
THEOREM FollowsTheModel == Spec => []SimulationFollowsModel
BY ReplayInvariant, FollowsModel, PTL DEF ReplayInv

(* smt_to_simulation_validation and smt_to_simulation_unique_assignment    *)
(* both accept a right translation.                                        *)
THEOREM RightPasses == Spec => []RightTranslationPasses
BY ReplayInvariant, PTL DEF ReplayInv

(* Accepted by both, a translation, right or not, leaves the last output   *)
(* no value but the simulated one.                                         *)
THEOREM AcceptedIsForced == Spec => []AcceptedOutputIsForced
BY ReplayInvariant, ResultsForce, PTL DEF ReplayInv
=============================================================================
