------------------------------ MODULE SmtDesign ------------------------------
(***************************************************************************)
(* A small design, what a simulator shows of it and what the SMT instance  *)
(* built from it says: one register, one input and one output.             *)
(*                                                                         *)
(* A value in a simulation is the set of the values it may have: {v} when  *)
(* it is known, all of them for x. A constraint from such a value leaves   *)
(* the unknown ones open. A translated design maps state and input to the  *)
(* set of results that satisfy its constraints: one result for a           *)
(* translation that is right, several if a constraint is missing.          *)
(***************************************************************************)
EXTENDS Integers, FiniteSets

CONSTANTS
  Inputs,    (* values of the input                                        *)
  Nexts,     (* next-state functions of the designs: [Bit \X Inputs -> Bit] *)
  Outs       (* their output functions, of the same type                   *)

Bit == {0, 1}

ASSUME DesignAssumption ==
  /\ Inputs # {}
  /\ Nexts \subseteq [Bit \X Inputs -> Bit]
  /\ Outs \subseteq [Bit \X Inputs -> Bit]

Designs == [next : Nexts, out : Outs]

(* The values a simulator computes from values it may not know             *)
Image(f, Q, I) == {f[a] : a \in Q \X I}

Known(v) == Cardinality(v) = 1

(* get_signal_value_as_bitset with get_signal_value_bitmask: only known    *)
(* bits constrain the variable.                                            *)
Allows(v, x) == x \in v

(* compare_bits: bits the simulation does not know match anything.         *)
Matches(v, x) == Known(v) => v = {x}

Exact(f) == [a \in DOMAIN f |-> {f[a]}]

Translations(f) ==
  {[Exact(f) EXCEPT ![a] = R] : a \in DOMAIN f, R \in (SUBSET Bit) \ {{}}}

(* What export_smt2 may make of a design: a wrong or missing constraint    *)
(* for one combination of arguments at most.                               *)
TranslatedDesigns(d) ==
  [next : Translations(d.next), out : {Exact(d.out)}] \cup
  [next : {Exact(d.next)}, out : Translations(d.out)]

IsExact(d, smt) == smt.next = Exact(d.next) /\ smt.out = Exact(d.out)

(* The output depends on the state alone.                                  *)
IsMoore(d) == \A q \in Bit, i, j \in Inputs : d.out[q, i] = d.out[q, j]

(* The assignments of the instance with time steps 0 .. n - 1              *)
Assignments(n) ==
  [q : [0 .. n - 1 -> Bit], in : [0 .. n - 1 -> Inputs], out : [0 .. n - 1 -> Bit]]

IsModel(smt, n, m) ==
  /\ \A t \in 1 .. n - 1 : m.q[t] \in smt.next[m.q[t - 1], m.in[t - 1]]
  /\ \A t \in 0 .. n - 1 : m.out[t] \in smt.out[m.q[t], m.in[t]]
=============================================================================
