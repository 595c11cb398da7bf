------------------------------ MODULE SmtReplay ------------------------------
(***************************************************************************)
(* The opposite direction of SmtValidation: a model of the unrolled design *)
(* becomes a testbench (TestbenchSMT), the testbench is simulated, and     *)
(* smt_to_simulation_validation compares the outputs with those of the     *)
(* solver; smt_to_simulation_unique_assignment asks whether initial state  *)
(* and inputs leave the outputs any choice.                                *)
(*                                                                         *)
(* The initial blocks of the testbench run concurrently: the clock, the    *)
(* inputs, and the release of the initial state. Blocks that wake at the   *)
(* same time run in any order.                                             *)
(***************************************************************************)
EXTENDS SmtDesign

CONSTANT UnrollFactors

ASSUME ReplayAssumption == UnrollFactors \subseteq Nat \ {0}

constClockToggle == 2

VARIABLES
  design, smt, unroll_factor,
  given,            (* initial state and inputs of the model               *)
  pc,               (* "simulate", "compare", "unique", "done"             *)
  now, clk, in, q,
  forced,           (* the register is held at the initial state           *)
  step,             (* of the inputs that are applied                      *)
  wake,             (* when each block goes on                             *)
  dump,             (* values at the end of each time unit                 *)
  identical, unique

chosen == <<design, smt, unroll_factor, given>>
testbench == <<now, clk, in, q, forced, step, wake, dump>>
vars == <<chosen, pc, testbench, identical, unique>>

Never == 4 * (unroll_factor + 1)

(* SMTSignalsDataManager::get_signal_value: the input in the solver's model *)
InputOf(t) == given.in[t]

HoldFirstWholeCycle == 2 * constClockToggle                               (* mutant *)
(* The first inputs pass the edge after time 0 by a quarter of a cycle.    *)
HoldFirst == 2 * constClockToggle + 1

(* What the blocks do at time 0. The force follows a #0, hence comes after *)
(* the other blocks and before a nonblocking assignment of the first edge, *)
(* which it overrides; the forced register keeps the value when released.  *)
Init ==
  /\ design \in Designs
  /\ smt \in TranslatedDesigns(design)
  /\ unroll_factor \in UnrollFactors
  /\ given \in [q : Bit, in : [0 .. unroll_factor - 1 -> Inputs]]
  /\ pc = "simulate"
  /\ now = 0 /\ clk = 1
  /\ in = InputOf(0) /\ q = given.q /\ forced = TRUE
  /\ step = 0
  /\ wake = [clock |-> constClockToggle, inputs |-> HoldFirst, release |-> 1]
  /\ dump = <<>>
  /\ identical = TRUE /\ unique = TRUE

(* Block p is next; time passes up to its wake time.                       *)
Wakes(p) ==
  /\ pc = "simulate"
  /\ \A r \in DOMAIN wake : wake[p] <= wake[r]
  /\ now' = wake[p]
  /\ dump' = [t \in 0 .. now' - 1 |->
                IF t \in DOMAIN dump THEN dump[t] ELSE [q |-> q, in |-> in]]

ToggleClock ==
  /\ Wakes("clock")
  /\ clk' = 1 - clk
  /\ q' = IF clk' = 1 /\ ~forced THEN design.next[q, in] ELSE q
  /\ wake' = [wake EXCEPT !["clock"] = @ + constClockToggle]
  /\ UNCHANGED <<chosen, pc, in, forced, step, identical, unique>>

Release ==
  /\ Wakes("release")
  /\ forced' = FALSE
  /\ wake' = [wake EXCEPT !["release"] = Never]
  /\ UNCHANGED <<chosen, pc, clk, in, q, step, identical, unique>>

Hold == 2 * constClockToggle

SetInputs ==
  /\ Wakes("inputs") /\ step + 1 < unroll_factor
  /\ step' = step + 1
  /\ in' = InputOf(step')
  /\ wake' = [wake EXCEPT !["inputs"] = @ + Hold]
  /\ UNCHANGED <<chosen, pc, clk, q, forced, identical, unique>>

(* $finish after the last inputs were held as long as the others           *)
Finish ==
  /\ Wakes("inputs") /\ step + 1 = unroll_factor
  /\ pc' = "compare"
  /\ UNCHANGED <<chosen, clk, in, q, forced, step, wake, identical, unique>>

-----------------------------------------------------------------------------
(* The validation.                                                         *)

(* Every check of the solver may return another model of the same initial  *)
(* state and inputs.                                                       *)
Models ==
  {m \in Assignments(unroll_factor) :
     IsModel(smt, unroll_factor, m) /\ m.q[0] = given.q /\ m.in = given.in}

SampledAtEdge(u) == u * 4                                                 (* mutant *)
SampleTime(u) == u * 4 + 2

SimulatedOutput(u) ==
  LET d == dump[SampleTime(u)] IN design.out[d.q, d.in]

(* As in SmtValidation, the last comparison decides.                       *)
Compare ==
  /\ pc = "compare"
  /\ \E m \in Models :
       LET u == unroll_factor - 1 IN identical' = (m.out[u] = SimulatedOutput(u))
  /\ pc' = "unique"
  /\ UNCHANGED <<chosen, testbench, unique>>

DiffersEverywhere(m, other) ==                                            (* mutant *)
  \A t \in DOMAIN m.out : other.out[t] # m.out[t]
Differs(m, other) == \E t \in DOMAIN m.out : other.out[t] # m.out[t]

UniqueAssignment ==
  /\ pc = "unique"
  /\ \E m \in Models : unique' = ~\E other \in Models : Differs(m, other)
  /\ pc' = "done"
  /\ UNCHANGED <<chosen, testbench, identical>>

Next ==
  \/ ToggleClock \/ Release \/ SetInputs \/ Finish
  \/ Compare \/ UniqueAssignment

Spec == Init /\ [][Next]_vars

-----------------------------------------------------------------------------
(* The blocks of the testbench never race: no two of them act at the same  *)
(* time, so inputs are steady at every edge and the release is over before *)
(* the first edge that counts.                                             *)
BlocksDoNotRace ==
  pc = "simulate" => \A p, r \in DOMAIN wake : p # r => wake[p] # wake[r]

(* The simulation passes through the states of the model: at the time at   *)
(* which step u is sampled, a right translation has the simulated register *)
(* and input. Simulator and solver agree on what a clock cycle is.         *)
SimulationFollowsModel ==
  IsExact(design, smt) =>
    \A u \in 0 .. unroll_factor - 1 : SampleTime(u) \in DOMAIN dump =>
      \A m \in Models : dump[SampleTime(u)] = [q |-> m.q[u], in |-> m.in[u]]

(* A right translation passes both checks.                                 *)
RightTranslationPasses == IsExact(design, smt) => identical /\ unique

(* Together the two checks pin down the last output: whichever model of    *)
(* the initial state and the inputs, it is the simulated one.              *)
AcceptedOutputIsForced ==
  pc = "done" /\ identical /\ unique =>
    \A m \in Models : LET u == unroll_factor - 1 IN m.out[u] = SimulatedOutput(u)
=============================================================================
