---------------------------- MODULE SmtValidation ----------------------------
(***************************************************************************)
(* smt_sim_validation: a simulation is replayed on the SMT instance,       *)
(* window by window. A window asserts inputs and register values of        *)
(* consecutive rising edges, asks the solver for a model and compares its  *)
(* outputs with the simulated ones.                                        *)
(*                                                                         *)
(* Simulator, testbench and solver are external. The clock toggles every   *)
(* Stepsize / 2; inputs change at falling edges. Registers start unknown;  *)
(* whether a rising edge at time 0 is seen by the always block that waits  *)
(* for it is open in Verilog. The solver may return any model.             *)
(***************************************************************************)
EXTENDS SmtDesign, Sequences

CONSTANTS
  Stimuli,        (* the input at each rising edge, sequences of values    *)
  LastTimes,      (* get_timestamps().back()                               *)
  UnrollFactors,  (* of clocked designs, at least 2                        *)
  Period          (* stepsize of clocked designs                           *)

ASSUME ValidationAssumption ==
  /\ Stimuli \subseteq Seq((SUBSET Inputs) \ {{}})
  /\ LastTimes \subseteq Nat
  /\ UnrollFactors \subseteq Nat \ {0, 1}
  /\ Period \in Nat \ {0} /\ Period % 2 = 0

VARIABLES
  design, smt,
  clock,          (* none, or the value of the clock signal at time 0      *)
  firstEdge,      (* the edge at time 0 is seen                            *)
  stimulus, last, unroll_factor,
  pc,             (* "window", "constrain", "check", "returned", "threw"   *)
  timestep, unroll_step,
  applied,        (* input_value_map                                       *)
  inFacts,        (* constraints of the scope, by time step                *)
  stateFacts,
  compare_result,
  mismatch        (* some comparison failed; observes, not in the code     *)

simulation == <<design, smt, clock, firstEdge, stimulus, last, unroll_factor>>
vars == <<simulation, pc, timestep, unroll_step, applied, inFacts, stateFacts,
          compare_result, mismatch>>

Clocked == clock # "none"
stepsize == IF Clocked THEN Period ELSE 1
clockbegin == IF clock = "low" THEN 1 ELSE 0
Begin == clockbegin * (stepsize \div 2)

-----------------------------------------------------------------------------
(* The simulation. Edge c is at Begin + c * stepsize.                      *)

EdgesUpTo(t) == IF t < Begin THEN 0 ELSE (t - Begin) \div stepsize + 1

InputAt(t) == stimulus[EdgesUpTo(t)]

(* The register after n edges                                              *)
Register[n \in 0 .. Len(stimulus)] ==
  IF n = 0 \/ (n = 1 /\ clock = "high" /\ ~firstEdge)
  THEN Bit ELSE Image(design.next, Register[n - 1], stimulus[n])

RegisterAt(t) == Register[EdgesUpTo(t)]

OutputAt(t) ==
  Image(design.out, IF Clocked THEN RegisterAt(t) ELSE {0}, InputAt(t))

-----------------------------------------------------------------------------

(* A combinational design has no clock, is not unrolled, and its state is   *)
(* the constant 0.                                                         *)
Init ==
  /\ design \in Designs
  /\ smt \in TranslatedDesigns(design)
  /\ clock \in {"none", "low", "high"}
  /\ firstEdge \in IF clock = "high" THEN BOOLEAN ELSE {TRUE}
  /\ unroll_factor \in IF Clocked THEN UnrollFactors ELSE {1}
  /\ last \in LastTimes
  /\ stimulus \in {s \in Stimuli : EdgesUpTo(last) = Len(s)}
  /\ pc = "window"
  /\ timestep = Begin
  /\ unroll_step = 0
  /\ applied = {}
  /\ inFacts = <<>> /\ stateFacts = <<>>
  /\ compare_result = TRUE /\ mismatch = FALSE

(* value_change: anything counts in the first window, x never.             *)
ValueChange ==
  \/ applied = {}
  \/ Known(InputAt(timestep)) /\ applied # InputAt(timestep)

NextWindowWithoutGap == timestep + (unroll_factor - 1) * stepsize         (* mutant *)
NextWindow == timestep + unroll_factor * stepsize

OpenWindow ==
  /\ pc = "window" /\ timestep < last
  /\ Clocked \/ ValueChange
  /\ pc' = "constrain"
  /\ unroll_step' = 0
  /\ inFacts' = <<>> /\ stateFacts' = <<>>
  /\ UNCHANGED <<simulation, timestep, applied, compare_result, mismatch>>

(* Without a clock a window whose input did not change is left out.        *)
SkipWindow ==
  /\ pc = "window" /\ timestep < last
  /\ ~Clocked /\ ~ValueChange
  /\ timestep' = NextWindow
  /\ UNCHANGED <<simulation, pc, unroll_step, applied, inFacts, stateFacts,
                 compare_result, mismatch>>

EndOfTrace ==
  /\ pc = "window" /\ timestep >= last
  /\ pc' = "returned"
  /\ UNCHANGED <<simulation, timestep, unroll_step, applied, inFacts,
                 stateFacts, compare_result, mismatch>>

LoopCond == IF unroll_factor = 1 THEN 1 ELSE unroll_factor - 1
Now == timestep + unroll_step * stepsize

PreviousEdgeFromNow == timestep                                           (* mutant *)
PreviousEdge == IF timestep - stepsize >= 0 THEN timestep - stepsize ELSE 0

(* The value of a register at an edge is the one of the next time step; the *)
(* first one also needs the value before the edge.                         *)
RegisterFacts ==
  IF unroll_step = 0
  THEN [t \in {0, 1} |-> RegisterAt(IF t = 0 THEN PreviousEdge ELSE Now)]
  ELSE [t \in DOMAIN stateFacts \cup {unroll_step + 1} |->
          IF t = unroll_step + 1 THEN RegisterAt(Now) ELSE stateFacts[t]]

Constrain ==
  /\ pc = "constrain" /\ unroll_step < LoopCond
  /\ Now <= last
  /\ inFacts' = [t \in DOMAIN inFacts \cup {unroll_step} |->
                   IF t = unroll_step THEN InputAt(Now) ELSE inFacts[t]]
  /\ stateFacts' = IF Clocked THEN RegisterFacts ELSE <<>>
  /\ applied' = InputAt(Now)
  /\ unroll_step' = unroll_step + 1
  /\ pc' = IF unroll_step' < LoopCond THEN "constrain" ELSE "check"
  /\ UNCHANGED <<simulation, timestep, compare_result, mismatch>>

(* The trace ends inside the window, which is then not checked at all.     *)
LeaveOpenWindow ==
  /\ pc = "constrain" /\ Now > last
  /\ pc' = "returned"
  /\ UNCHANGED <<simulation, timestep, unroll_step, applied, inFacts,
                 stateFacts, compare_result, mismatch>>

Models ==
  {m \in Assignments(unroll_factor) :
     /\ IsModel(smt, unroll_factor, m)
     /\ Clocked \/ m.q[0] = 0
     /\ \A t \in DOMAIN inFacts : Allows(inFacts[t], m.in[t])
     /\ \A t \in DOMAIN stateFacts : Allows(stateFacts[t], m.q[t])}

(* compare_smt_signal_value_comb without unrolling; otherwise              *)
(* compare_smt_signal_value, for which the output at edge u is the one of  *)
(* time step u + 1.                                                        *)
Agrees(m, u) ==
  Matches(OutputAt(timestep + u * stepsize),
          m.out[IF unroll_factor = 1 THEN 0 ELSE u + 1])

ComparedFirst(m) == Agrees(m, 0)                                          (* mutant *)
(* Every comparison overwrites the result of the one before.               *)
Compared(m) == Agrees(m, LoopCond - 1)

Check ==
  /\ pc = "check"
  /\ \E m \in Models :
       /\ compare_result' = Compared(m)
       /\ mismatch' = (mismatch \/ \E u \in 0 .. LoopCond - 1 : ~Agrees(m, u))
  /\ IF compare_result'
     THEN pc' = "window" /\ timestep' = NextWindow
     ELSE pc' = "returned" /\ UNCHANGED timestep
  /\ UNCHANGED <<simulation, unroll_step, applied, inFacts, stateFacts>>

Unsatisfiable ==
  /\ pc = "check" /\ Models = {}
  /\ pc' = "threw"
  /\ UNCHANGED <<simulation, timestep, unroll_step, applied, inFacts,
                 stateFacts, compare_result, mismatch>>

Next ==
  \/ OpenWindow \/ SkipWindow \/ EndOfTrace
  \/ Constrain \/ LeaveOpenWindow
  \/ Check \/ Unsatisfiable

Spec == Init /\ [][Next]_vars /\ WF_vars(Next)

-----------------------------------------------------------------------------
(* A right translation is never rejected: if the SMT instance says of every *)
(* argument what the design does, and outputs depend on the state (or there *)
(* is no state), no window is unsatisfiable and no output differs, however  *)
(* many bits of the simulation are unknown.                                *)
NoFalseAlarm ==
  IsExact(design, smt) /\ (Clocked => IsMoore(design)) =>
    pc # "threw" /\ compare_result

(* What TRUE vouches for: in every window that lies within the trace, the   *)
(* simulated inputs, states and last output are a behaviour of the SMT      *)
(* instance, also in windows skipped because nothing changed.              *)
Windows == {t \in Begin .. last - 1 : (t - Begin) % (unroll_factor * stepsize) = 0}
AgreesWithSimulation(t) ==
  \E m \in Assignments(unroll_factor) :
    /\ IsModel(smt, unroll_factor, m)
    /\ \A u \in 0 .. LoopCond - 1 :
         /\ m.in[u] \in InputAt(t + u * stepsize)
         /\ Clocked => m.q[u + 1] \in RegisterAt(t + u * stepsize)
    /\ Clocked /\ t >= stepsize => m.q[0] \in RegisterAt(t - stepsize)
    /\ LET u == LoopCond - 1 IN
         Matches(OutputAt(t + u * stepsize), m.out[IF Clocked THEN u + 1 ELSE 0])
AcceptedWindowsAgree ==
  pc = "returned" /\ compare_result =>
    \A t \in Windows :
      /\ t + (LoopCond - 1) * stepsize <= last
      /\ Clocked \/ Known(InputAt(t))
      => AgreesWithSimulation(t)

(* The validation comes to an end.                                         *)
ValidationEnds == <>(pc \in {"returned", "threw"})

(* "compare the smt model with the output values from the simulation" (the  *)
(* comment of the function): a failed comparison makes the result FALSE.   *)
MismatchIsReported == pc = "returned" /\ mismatch => ~compare_result
=============================================================================
