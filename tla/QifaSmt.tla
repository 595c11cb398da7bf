-------------------------------- MODULE QifaSmt --------------------------------
(***************************************************************************)
(* QifaSmt::find_equivalence_classes: the number of classes into which the *)
(* outputs of a design divide the values of its secrets.                   *)
(*                                                                         *)
(* The main solver holds copies of the unrolled design that share initial  *)
(* state and inputs; it is asked for one class more than were found. After *)
(* an answer, the optional intermediate solver fixes the situation found   *)
(* and looks for one more secret at a time. One object serves any number   *)
(* of calls and keeps both solvers in between.                             *)
(*                                                                         *)
(* The unrolled design is a function from situation (initial state and     *)
(* input sequence) and secret to the output sequence. A solver answers     *)
(* truthfully or "unknown", and a model is any that satisfies.             *)
(***************************************************************************)
EXTENDS Integers, Sequences, FiniteSets

CONSTANTS
  Situations,        (* initial states with input sequences                *)
  Components,        (* the signals listed as secrets                      *)
  Values,            (* of one of them                                     *)
  Outputs,           (* output sequences                                   *)
  Intermediate,      (* the parameter intermediate_step is present,        *)
                     (* whatever its value                                 *)
  Limits,            (* numMaxEquivalenceClasses of the calls              *)
  MaxCalls           (* bound: calls of one object                         *)

Secrets == [Components -> Values]

ASSUME QifaAssumption ==
  /\ Situations # {} /\ Outputs # {}
  /\ Components # {} /\ Values # {}
  /\ Intermediate \in BOOLEAN
  /\ Limits \subseteq Nat
  /\ MaxCalls \in Nat

VARIABLES
  out,          (* the unrolled design                                     *)
  pc,           (* "idle", "main", "intermediate"                          *)
  calls,
  limit,        (* numMaxEquivalenceClasses                                *)
  instance_id,
  copies,       (* instanceTimeIOExpr.size(): instances in the main solver *)
  z3result,
  situation,    (* initial state and inputs of instTimeIOvals              *)
  classes,      (* instTimeIOvals: the secret of each class                *)
  leaked,       (* scopes of the intermediate solver never popped          *)
  report        (* the message at the end of the call                      *)

vars == <<out, pc, calls, limit, instance_id, copies, z3result, situation,
          classes, leaked, report>>

NoReport == [kind |-> "none", n |-> 0]

TypeOK ==
  /\ out \in [Situations -> [Secrets -> Outputs]]
  /\ pc \in {"idle", "main", "intermediate"}
  /\ calls \in 0 .. MaxCalls
  /\ limit \in Nat /\ instance_id \in Nat /\ copies \in Nat
  /\ z3result \in {"unknown", "sat", "unsat"}
  /\ situation \in Situations
  /\ classes \in Seq(Secrets)
  /\ leaked \subseteq Situations \X Seq(Secrets)
  /\ report \in [kind : {"none", "exact", "open"}, n : Nat]

Init ==
  /\ out \in [Situations -> [Secrets -> Outputs]]
  /\ pc = "idle"
  /\ calls = 0
  /\ limit = 0
  /\ instance_id = 0
  /\ copies = 0
  /\ z3result = "unknown"
  /\ situation = CHOOSE s \in Situations : TRUE
  /\ classes = <<>>
  /\ leaked = {}
  /\ report = NoReport

(* Secrets count as different if every one of their components is.         *)
Differ(x, y) == \A c \in Components : x[c] # y[c]

Apart(s, x, y) == Differ(x, y) /\ out[s][x] # out[s][y]

(* The constraints of the main solver over its copies.                     *)
Model(s, w) == \A i, j \in DOMAIN w : i # j => Apart(s, w[i], w[j])

Satisfiable(n) == \E s \in Situations : \E w \in [1 .. n -> Secrets] : Model(s, w)

(* The constraints of one scope of the intermediate solver: the situation  *)
(* is fixed, the secret is new.                                            *)
NewIn(scope, s, x) ==
  s = scope[1] /\ \A i \in DOMAIN scope[2] : Apart(s, x, scope[2][i])

NewSecretsByFirst ==                                                      (* mutant *)
  {x \in Secrets : Apart(situation, x, classes[1])}

NewSecrets ==
  {x \in Secrets : \A scope \in leaked \cup {<<situation, classes>>} :
                     NewIn(scope, situation, x)}

Call ==
  /\ pc = "idle" /\ calls < MaxCalls
  /\ limit' \in Limits
  /\ calls' = calls + 1
  /\ pc' = "main"
  /\ report' = NoReport
  /\ UNCHANGED <<out, instance_id, copies, z3result, situation, classes, leaked>>

Looping == pc = "main" /\ instance_id < limit

(* The first iteration only creates the first instance.                    *)
FirstInstance ==
  /\ Looping /\ instance_id = 0
  /\ copies' = 1
  /\ instance_id' = 1
  /\ UNCHANGED <<out, pc, calls, limit, z3result, situation, classes, leaked, report>>

CopiesForOneClass == instance_id                                          (* mutant *)
CopiesNeeded == instance_id + 1

Checking == Looping /\ instance_id # 0 /\ copies' = CopiesNeeded

(* The values of all classes come from the new model. Without the          *)
(* intermediate step nothing else happens: the loop asks the same again.   *)
MainSat ==
  /\ Checking
  /\ situation' \in Situations
  /\ classes' \in [1 .. copies' -> Secrets]
  /\ Model(situation', classes')
  /\ z3result' = "sat"
  /\ pc' = IF Intermediate THEN "intermediate" ELSE "main"
  /\ UNCHANGED <<out, calls, limit, instance_id, leaked, report>>

ReportFromZero ==                                                         (* mutant *)
  [kind |-> IF z3result' = "unsat" THEN "exact" ELSE "open", n |-> instance_id' - 1]

(* "There are n equivalence classes", or "there may be more than n".       *)
Report == [kind |-> IF z3result' = "unsat" THEN "exact" ELSE "open", n |-> instance_id']

MainUnsat ==
  /\ Checking
  /\ ~Satisfiable(copies')
  /\ z3result' = "unsat"
  /\ pc' = "idle"
  /\ UNCHANGED <<out, calls, limit, instance_id, situation, classes, leaked>>
  /\ report' = Report

(* An undecided check throws out of the call.                              *)
MainUnknown ==
  /\ Checking
  /\ z3result' = "unknown"
  /\ pc' = "idle"
  /\ UNCHANGED <<out, calls, limit, instance_id, situation, classes, leaked, report>>

(* instance_id counts the check, not its success.                          *)
IntermediateCheck == pc = "intermediate" /\ instance_id' = instance_id + 1

IntermediateSat ==
  /\ IntermediateCheck
  /\ \E x \in NewSecrets : classes' = Append(classes, x)
  /\ z3result' = "sat"
  /\ pc' = IF instance_id' < limit THEN "intermediate" ELSE "main"
  /\ UNCHANGED <<out, calls, limit, copies, situation, leaked, report>>

IntermediateUnsatCounted ==                                               (* mutant *)
  /\ pc = "intermediate" /\ instance_id' = instance_id + 2
  /\ NewSecrets = {}
  /\ z3result' = "unsat"
  /\ pc' = "main"
  /\ UNCHANGED <<out, calls, limit, copies, situation, classes, leaked, report>>
IntermediateUnsatRetried ==                                               (* mutant *)
  /\ pc = "intermediate"
  /\ NewSecrets = {}
  /\ z3result' = "unsat"
  /\ pc' = "main"
  /\ UNCHANGED <<out, calls, limit, instance_id, copies, situation, classes, leaked, report>>

IntermediateUnsat ==
  /\ IntermediateCheck
  /\ NewSecrets = {}
  /\ z3result' = "unsat"
  /\ pc' = "main"
  /\ UNCHANGED <<out, calls, limit, copies, situation, classes, leaked, report>>

(* The exception leaves the scope of this situation pushed.                *)
IntermediateUnknown ==
  /\ IntermediateCheck
  /\ z3result' = "unknown"
  /\ pc' = "idle"
  /\ leaked' = leaked \cup {<<situation, classes>>}
  /\ UNCHANGED <<out, calls, limit, copies, situation, classes, report>>

(* The limit is reached, or was from the start: z3result is that of the    *)
(* last check, by whichever solver and in whichever call.                  *)
LimitReached ==
  /\ pc = "main" /\ instance_id >= limit
  /\ pc' = "idle"
  /\ UNCHANGED <<out, calls, limit, instance_id, copies, z3result, situation,
                 classes, leaked>>
  /\ report' = Report

Next ==
  \/ Call \/ FirstInstance
  \/ MainSat \/ MainUnsat \/ MainUnknown
  \/ IntermediateSat \/ IntermediateUnsat \/ IntermediateUnknown
  \/ LimitReached

(* Within a call the program runs on; nobody has to call.                  *)
Spec ==
  /\ Init /\ [][Next]_vars
  /\ WF_vars(FirstInstance)
  /\ WF_vars(MainSat \/ MainUnsat \/ MainUnknown)
  /\ WF_vars(IntermediateSat \/ IntermediateUnsat \/ IntermediateUnknown)
  /\ WF_vars(LimitReached)

-------------------------------------------------------------------------------

OneSecret == \A c, d \in Components : c = d

OutputsIn(s) == {out[s][x] : x \in Secrets}

(* A number of classes that is reported can be told apart in one           *)
(* situation, whatever was undecided before: the count of checks in        *)
(* instance_id never runs ahead of the classes.                            *)
ReportIsAchievable == report.kind # "none" => Satisfiable(report.n)

(* "There are n" below the limit is the truth: n outputs are the most that *)
(* one secret can cause in any situation. The answer is then the main      *)
(* solver's, and scopes left in the other solver do not matter.            *)
ExactBelowLimit ==
  report.kind = "exact" /\ report.n < limit /\ OneSecret =>
    /\ \A s \in Situations : Cardinality(OutputsIn(s)) <= report.n
    /\ \E s \in Situations : Cardinality(OutputsIn(s)) = report.n

(* The classes that the call returns are as many as it says there are; a   *)
(* single one is not returned at all, and one found at the limit exceeds   *)
(* the number.                                                             *)
ReportCountsClasses ==
  /\ report.kind = "exact" /\ report.n > 1 => Len(classes) = report.n
  /\ report.kind = "open" /\ classes # <<>> => Len(classes) \in {report.n, report.n + 1}

(* The search implements the abstract analysis: witnesses are pairwise     *)
(* distinguishable and never fewer, and "exact" means that none can be     *)
(* added in their situation, unless an undecided check left its scope in   *)
(* the intermediate solver. For more than one secret "exact" promises      *)
(* less; the mapping then gives "open".                                    *)
Promise == INSTANCE EquivalenceClasses WITH
  witnesses <- classes,
  verdict <- IF OneSecret THEN report.kind
             ELSE IF report.kind = "exact" THEN "open" ELSE report.kind,
  sound <- leaked = {}

RefinesEquivalenceClasses == Promise!Spec

(* Every call returns, if the intermediate step is on.                     *)
CallReturns == pc # "idle" ~> pc = "idle"
===============================================================================
