----------------------------- MODULE QifaSmt_proofs -----------------------------
(***************************************************************************)
(* Proofs about QifaSmt, for any number of situations, secrets, outputs    *)
(* and calls: what is reported is achievable, the report agrees with the   *)
(* classes returned, "exact" below the limit is the number of outputs of    *)
(* one secret, and the search implements EquivalenceClasses.               *)
(***************************************************************************)
EXTENDS QifaSmt, Induction, FiniteSetTheorems

(* The classes found are a model of the main solver's constraints.         *)
ClassesAreAModel == Model(situation, classes)

(* instance_id keeps step with the number of classes; before any are       *)
(* found it is at most one.                                                *)
CountsAgree ==
  /\ pc = "intermediate" =>
       instance_id \in Nat \ {0} /\ Len(classes) = instance_id + 1 /\ z3result = "sat"
  /\ pc # "intermediate" =>
       \/ Len(classes) \in {instance_id, instance_id + 1}
       \/ classes = <<>> /\ instance_id <= 1
  /\ z3result = "unsat" =>
       Len(classes) = instance_id \/ (classes = <<>> /\ instance_id = 1)

(* An unsatisfiable check means that no secret can be added.               *)
UnsatIsMaximal == z3result = "unsat" /\ OneSecret /\ leaked = {} => Promise!Maximal

ReportIsLast ==
  \/ report.kind = "none"
  \/ /\ pc = "idle"
     /\ report.n = instance_id
     /\ report.kind = "exact" <=> z3result = "unsat"

NoReportInACall == pc # "idle" => report.kind = "none"

Inv ==
  /\ TypeOK
  /\ ClassesAreAModel
  /\ CountsAgree
  /\ UnsatIsMaximal
  /\ ReportIsLast
  /\ NoReportInACall

USE QifaAssumption

-------------------------------------------------------------------------------
(* Operators                                                               *)

(* The first n classes of a model are a model.                             *)
LEMMA PrefixIsAModel ==
  ASSUME NEW s \in Situations, NEW w \in Seq(Secrets), Model(s, w),
         NEW n \in Nat, n <= Len(w)
  PROVE  Satisfiable(n)
<1> DEFINE v == [i \in 1 .. n |-> w[i]]
<1>1. v \in [1 .. n -> Secrets]
  OBVIOUS
<1>2. Model(s, v)
  BY DEF Model
<1> QED BY <1>1, <1>2 DEF Satisfiable

(* One instance is always satisfiable.                                     *)
LEMMA OneIsSatisfiable == ASSUME NEW n \in Nat, n <= 1 PROVE Satisfiable(n)
<1>1. PICK val \in Values : TRUE
  OBVIOUS
<1> DEFINE x == [c \in Components |-> val]
<1> DEFINE w == [i \in 1 .. n |-> x]
<1>2. PICK s \in Situations : TRUE
  OBVIOUS
<1>3. x \in Secrets
  BY DEF Secrets
<1>4. w \in [1 .. n -> Secrets]
  BY <1>3
<1>5. \A i, j \in DOMAIN w : i = j
  OBVIOUS
<1>6. Model(s, w)
  BY <1>5 DEF Model
<1> QED BY <1>4, <1>6 DEF Satisfiable

(* Different values of a single secret differ in every component.          *)
LEMMA OneSecretDiffers ==
  ASSUME OneSecret, NEW x \in Secrets, NEW y \in Secrets, x # y
  PROVE  Differ(x, y)
<1>1. PICK c \in Components : x[c] # y[c]
  BY DEF Secrets
<1> QED BY <1>1 DEF Differ, OneSecret

LEMMA OneSecretApart ==
  ASSUME OneSecret, NEW s \in Situations, NEW x \in Secrets, NEW y \in Secrets,
         out[s][x] # out[s][y]
  PROVE  Apart(s, x, y)
BY OneSecretDiffers DEF Apart

LEMMA ApartIsSymmetric ==
  ASSUME NEW s, NEW x, NEW y, Apart(s, x, y)
  PROVE  Apart(s, y, x)
BY DEF Apart, Differ

(* A secret apart from all classes of a model extends it.                  *)
LEMMA ExtendedModel ==
  ASSUME NEW s \in Situations, NEW w \in Seq(Secrets), Model(s, w),
         NEW x \in Secrets, \A i \in DOMAIN w : Apart(s, x, w[i])
  PROVE  Append(w, x) \in Seq(Secrets) /\ Model(s, Append(w, x))
<1> DEFINE v == Append(w, x)
<1>1. v \in Seq(Secrets) /\ Len(v) = Len(w) + 1 /\ v[Len(w) + 1] = x
  OBVIOUS
<1>2. \A i \in 1 .. Len(w) : v[i] = w[i]
  OBVIOUS
<1>3. ASSUME NEW i \in DOMAIN v, NEW j \in DOMAIN v, i # j
      PROVE  Apart(s, v[i], v[j])
  <2>1. i \in 1 .. Len(w) + 1 /\ j \in 1 .. Len(w) + 1
    BY <1>1, <1>3
  <2>2. CASE i \in 1 .. Len(w) /\ j \in 1 .. Len(w)
    BY <2>2, <1>2, <1>3 DEF Model
  <2>3. CASE i = Len(w) + 1
    <3>1. j \in 1 .. Len(w)
      BY <2>1, <2>3, <1>3
    <3> QED BY <3>1, <2>3, <1>1, <1>2
  <2>4. CASE j = Len(w) + 1
    <3>1. i \in 1 .. Len(w)
      BY <2>1, <2>4, <1>3
    <3>2. Apart(s, x, w[i])
      BY <3>1
    <3> QED BY <3>1, <3>2, <2>4, <1>1, <1>2, ApartIsSymmetric
  <2> QED BY <2>1, <2>2, <2>3, <2>4
<1> QED BY <1>1, <1>3 DEF Model

(* A model of the solver is distinguishable in the sense of the promise.   *)
LEMMA ModelDistinguishes ==
  ASSUME NEW s, NEW w, Model(s, w)
  PROVE  Promise!Distinguishable(s, w)
BY DEF Model, Apart, Promise!Distinguishable

(* A new secret is apart from every class.                                 *)
LEMMA NewSecretsAreApart ==
  ASSUME NEW x \in NewSecrets
  PROVE  x \in Secrets /\ \A i \in DOMAIN classes : Apart(situation, x, classes[i])
<1> DEFINE top == <<situation, classes>>
<1>1. NewIn(top, situation, x)
  BY DEF NewSecrets
<1>2. top[2] = classes
  OBVIOUS
<1> QED BY <1>1, <1>2 DEF NewIn, NewSecrets

(* What an unsatisfiable main check means.                                 *)
LEMMA MainUnsatIsMaximal ==
  ASSUME Inv, MainUnsat
  PROVE  /\ Len(classes) = instance_id \/ (classes = <<>> /\ instance_id = 1)
         /\ OneSecret => Promise!Maximal
<1> USE DEF Inv, TypeOK
<1>1. pc = "main" /\ instance_id \in Nat \ {0} /\ ~Satisfiable(instance_id + 1)
  BY DEF MainUnsat, Checking, Looping, CopiesNeeded
<1>2. Len(classes) # instance_id + 1
  BY <1>1, PrefixIsAModel DEF ClassesAreAModel
<1>3. Len(classes) = instance_id \/ (classes = <<>> /\ instance_id = 1)
  BY <1>1, <1>2 DEF CountsAgree
<1>4. ASSUME OneSecret PROVE Promise!Maximal
  <2>1. CASE classes = <<>>
    <3>1. instance_id = 1
      BY <1>1, <1>3, <2>1
    <3>2. ASSUME NEW s \in Situations, NEW x \in Secrets, NEW y \in Secrets,
                 out[s][x] # out[s][y]
          PROVE  FALSE
      <4> DEFINE w == [i \in 1 .. 2 |-> IF i = 1 THEN x ELSE y]
      <4>1. Apart(s, x, y) /\ Apart(s, y, x)
        BY <1>4, <3>2, OneSecretApart, ApartIsSymmetric
      <4>2. Model(s, w)
        BY <4>1 DEF Model
      <4>3. w \in [1 .. 2 -> Secrets]
        OBVIOUS
      <4> QED BY <4>2, <4>3, <3>1, <1>1 DEF Satisfiable
    <3> QED BY <2>1, <3>2 DEF Promise!Maximal, Promise!Indistinguishable
  <2>2. CASE classes # <<>>
    <3>1. Len(classes) = instance_id
      BY <1>3, <2>2
    <3>2. ASSUME NEW x \in Secrets,
                 \A i \in DOMAIN classes : out[situation][x] # out[situation][classes[i]]
          PROVE  FALSE
      <4>1. \A i \in DOMAIN classes : Apart(situation, x, classes[i])
        BY <1>4, <3>2, OneSecretApart
      <4>2. Append(classes, x) \in Seq(Secrets) /\ Model(situation, Append(classes, x))
        BY <4>1, ExtendedModel DEF ClassesAreAModel
      <4>3. Len(Append(classes, x)) = instance_id + 1
        BY <3>1
      <4> DEFINE v == Append(classes, x)
      <4>4. v \in Seq(Secrets) /\ Model(situation, v) /\ Len(v) = instance_id + 1
        BY <4>2, <4>3
      <4>5. instance_id + 1 \in Nat /\ instance_id + 1 <= Len(v)
        BY <4>4
      <4> HIDE DEF v
      <4>6. Satisfiable(instance_id + 1)
        BY <4>4, <4>5, PrefixIsAModel
      <4> QED BY <4>6, <1>1
    <3> QED BY <2>2, <3>2 DEF Promise!Maximal, Promise!Complete
  <2> QED BY <2>1, <2>2
<1> QED BY <1>3, <1>4

(* What an unsatisfiable intermediate check means.                         *)
LEMMA IntermediateUnsatIsMaximal ==
  ASSUME Inv, IntermediateUnsat, OneSecret, leaked = {}
  PROVE  Promise!Maximal
<1> USE DEF Inv, TypeOK
<1>1. NewSecrets = {} /\ classes # <<>>
  BY DEF IntermediateUnsat, IntermediateCheck, CountsAgree
<1>2. ASSUME NEW x \in Secrets
      PROVE  \E i \in DOMAIN classes : out[situation][x] = out[situation][classes[i]]
  <2>1. ~NewIn(<<situation, classes>>, situation, x)
    BY <1>1 DEF NewSecrets
  <2>2. PICK i \in DOMAIN classes : ~Apart(situation, x, classes[i])
    BY <2>1 DEF NewIn
  <2> QED BY <2>2, OneSecretApart
<1> QED BY <1>1, <1>2 DEF Promise!Maximal, Promise!Complete

-------------------------------------------------------------------------------
(* The inductive invariant                                                 *)

LEMMA InitInv == Init => Inv
<1> SUFFICES ASSUME Init PROVE Inv
  OBVIOUS
<1>1. TypeOK
  BY DEF Init, TypeOK, NoReport
<1>2. ClassesAreAModel
  BY DEF Init, ClassesAreAModel, Model
<1> QED BY <1>1, <1>2
    DEF Init, Inv, CountsAgree, UnsatIsMaximal, ReportIsLast, NoReportInACall, NoReport

LEMMA StepInv == Inv /\ [Next]_vars => Inv'
<1> SUFFICES ASSUME Inv, [Next]_vars PROVE Inv'
  OBVIOUS
<1> USE DEF Inv, TypeOK
<1>1. ASSUME Call PROVE Inv'
  <2>1. TypeOK' /\ ClassesAreAModel' /\ CountsAgree'
    BY <1>1 DEF Call, NoReport, ClassesAreAModel, Model, Apart, CountsAgree
  <2>2. UnsatIsMaximal' /\ ReportIsLast' /\ NoReportInACall'
    BY <1>1 DEF Call, NoReport, UnsatIsMaximal, ReportIsLast, NoReportInACall, OneSecret,
       Promise!Maximal, Promise!Complete, Promise!Indistinguishable
  <2> QED BY <2>1, <2>2
<1>2. ASSUME FirstInstance PROVE Inv'
  <2> USE <1>2 DEF FirstInstance, Looping
  <2>1. TypeOK' /\ ClassesAreAModel'
    BY DEF ClassesAreAModel, Model, Apart
  <2>2. CountsAgree'
    BY DEF CountsAgree
  <2>3. UnsatIsMaximal' /\ ReportIsLast' /\ NoReportInACall'
    BY DEF UnsatIsMaximal, ReportIsLast, NoReportInACall, OneSecret,
       Promise!Maximal, Promise!Complete, Promise!Indistinguishable
  <2> QED BY <2>1, <2>2, <2>3
<1>3. ASSUME MainSat PROVE Inv'
  <2> USE <1>3 DEF MainSat, Checking, Looping, CopiesNeeded
  <2>1. classes' \in Seq(Secrets) /\ Len(classes') = instance_id + 1
    <3>1. classes' \in [1 .. instance_id + 1 -> Secrets] /\ instance_id + 1 \in Nat
      OBVIOUS
    <3> QED BY <3>1
  <2>2. TypeOK'
    BY <2>1
  <2>3. ClassesAreAModel'
    BY DEF ClassesAreAModel, Model, Apart
  <2>4. CountsAgree'
    BY <2>1 DEF CountsAgree
  <2>5. UnsatIsMaximal' /\ ReportIsLast' /\ NoReportInACall'
    BY DEF UnsatIsMaximal, ReportIsLast, NoReportInACall
  <2> QED BY <2>2, <2>3, <2>4, <2>5
<1>4. ASSUME MainUnsat PROVE Inv'
  <2>1. TypeOK' /\ ClassesAreAModel'
    BY <1>4 DEF MainUnsat, Checking, Looping, CopiesNeeded, Report, ClassesAreAModel,
       Model, Apart
  <2>2. CountsAgree'
    <3>1. Len(classes) = instance_id \/ (classes = <<>> /\ instance_id = 1)
      BY <1>4, MainUnsatIsMaximal
    <3> QED BY <3>1, <1>4 DEF MainUnsat, Checking, Looping, CountsAgree
  <2>3. UnsatIsMaximal'
    <3>1. OneSecret => Promise!Maximal
      BY <1>4, MainUnsatIsMaximal
    <3> QED BY <3>1, <1>4 DEF MainUnsat, UnsatIsMaximal, OneSecret,
            Promise!Maximal, Promise!Complete, Promise!Indistinguishable
  <2>4. ReportIsLast' /\ NoReportInACall'
    BY <1>4 DEF MainUnsat, Report, ReportIsLast, NoReportInACall
  <2> QED BY <2>1, <2>2, <2>3, <2>4
<1>5. ASSUME MainUnknown PROVE Inv'
  <2> USE <1>5 DEF MainUnknown, Checking, Looping, CopiesNeeded
  <2>1. TypeOK' /\ ClassesAreAModel'
    BY DEF ClassesAreAModel, Model, Apart
  <2>2. CountsAgree'
    BY DEF CountsAgree
  <2>3. UnsatIsMaximal' /\ ReportIsLast' /\ NoReportInACall'
    BY DEF UnsatIsMaximal, ReportIsLast, NoReportInACall
  <2> QED BY <2>1, <2>2, <2>3
<1>6. ASSUME IntermediateSat PROVE Inv'
  <2> USE <1>6 DEF IntermediateSat, IntermediateCheck
  <2>1. PICK x \in Secrets : x \in NewSecrets /\ classes' = Append(classes, x)
    BY DEF NewSecrets
  <2>2. \A i \in DOMAIN classes : Apart(situation, x, classes[i])
    BY <2>1, NewSecretsAreApart
  <2>3. classes' \in Seq(Secrets) /\ Model(situation, classes')
    BY <2>1, <2>2, ExtendedModel DEF ClassesAreAModel
  <2>4. Len(classes') = Len(classes) + 1
    BY <2>1
  <2>5. TypeOK'
    BY <2>3
  <2>6. ClassesAreAModel'
    BY <2>3 DEF ClassesAreAModel, Model, Apart
  <2>7. CountsAgree'
    BY <2>4 DEF CountsAgree
  <2>8. UnsatIsMaximal' /\ ReportIsLast' /\ NoReportInACall'
    BY DEF UnsatIsMaximal, ReportIsLast, NoReportInACall
  <2> QED BY <2>5, <2>6, <2>7, <2>8
<1>7. ASSUME IntermediateUnsat PROVE Inv'
  <2>1. TypeOK' /\ ClassesAreAModel'
    BY <1>7 DEF IntermediateUnsat, IntermediateCheck, ClassesAreAModel, Model, Apart
  <2>2. CountsAgree'
    BY <1>7 DEF IntermediateUnsat, IntermediateCheck, CountsAgree
  <2>3. UnsatIsMaximal'
    <3>1. OneSecret /\ leaked = {} => Promise!Maximal
      BY <1>7, IntermediateUnsatIsMaximal
    <3> QED BY <3>1, <1>7 DEF IntermediateUnsat, UnsatIsMaximal, OneSecret,
            Promise!Maximal, Promise!Complete, Promise!Indistinguishable
  <2>4. ReportIsLast' /\ NoReportInACall'
    BY <1>7 DEF IntermediateUnsat, IntermediateCheck, ReportIsLast, NoReportInACall
  <2> QED BY <2>1, <2>2, <2>3, <2>4
<1>8. ASSUME IntermediateUnknown PROVE Inv'
  <2> USE <1>8 DEF IntermediateUnknown, IntermediateCheck
  <2>1. TypeOK' /\ ClassesAreAModel'
    BY DEF ClassesAreAModel, Model, Apart
  <2>2. CountsAgree'
    BY DEF CountsAgree
  <2>3. UnsatIsMaximal' /\ ReportIsLast' /\ NoReportInACall'
    BY DEF UnsatIsMaximal, ReportIsLast, NoReportInACall
  <2> QED BY <2>1, <2>2, <2>3
<1>9. ASSUME LimitReached PROVE Inv'
  <2> USE <1>9 DEF LimitReached
  <2>1. TypeOK' /\ ClassesAreAModel'
    BY DEF Report, ClassesAreAModel, Model, Apart
  <2>2. CountsAgree'
    BY DEF CountsAgree
  <2>3. UnsatIsMaximal'
    BY DEF UnsatIsMaximal, OneSecret,
       Promise!Maximal, Promise!Complete, Promise!Indistinguishable
  <2>4. ReportIsLast' /\ NoReportInACall'
    BY DEF Report, ReportIsLast, NoReportInACall
  <2> QED BY <2>1, <2>2, <2>3, <2>4
<1>10. CASE UNCHANGED vars
  <2>1. TypeOK' /\ ClassesAreAModel' /\ CountsAgree'
    BY <1>10 DEF vars, ClassesAreAModel, Model, Apart, CountsAgree
  <2>2. UnsatIsMaximal' /\ ReportIsLast' /\ NoReportInACall'
    BY <1>10 DEF vars, UnsatIsMaximal, ReportIsLast, NoReportInACall, OneSecret,
       Promise!Maximal, Promise!Complete, Promise!Indistinguishable
  <2> QED BY <2>1, <2>2
<1> QED BY <1>1, <1>2, <1>3, <1>4, <1>5, <1>6, <1>7, <1>8, <1>9, <1>10 DEF Next

(* The inductive invariant of the search: instance_id and the number of    *)
(* classes keep step over sat, unsat and undecided checks of any number of *)
(* calls (qifa_smt.hpp:325-540).                                           *)
THEOREM SearchOfClassesInvariant == Spec => []Inv
BY InitInv, StepInv, PTL DEF Spec

(* Type correctness.                                                       *)
THEOREM QifaTypeCorrect == Spec => []TypeOK
<1>1. Inv => TypeOK
  BY DEF Inv
<1> QED BY <1>1, SearchOfClassesInvariant, PTL

(* A reported number of classes can be told apart in one situation, even   *)
(* after undecided checks and for several secrets.                         *)
THEOREM ReportsAreAchievable == Spec => []ReportIsAchievable
<1>1. ASSUME Inv PROVE ReportIsAchievable
  <2> SUFFICES ASSUME report.kind # "none" PROVE Satisfiable(report.n)
    BY DEF ReportIsAchievable
  <2>1. report.n = instance_id /\ instance_id \in Nat /\ pc = "idle"
    BY <1>1 DEF Inv, ReportIsLast, TypeOK
  <2>2. instance_id <= Len(classes) \/ instance_id <= 1
    BY <1>1, <2>1 DEF Inv, CountsAgree, TypeOK
  <2>3. CASE instance_id <= Len(classes)
    BY <1>1, <2>1, <2>3, PrefixIsAModel DEF Inv, TypeOK, ClassesAreAModel
  <2>4. CASE instance_id <= 1
    BY <2>1, <2>4, OneIsSatisfiable
  <2> QED BY <2>2, <2>3, <2>4
<1> QED BY <1>1, SearchOfClassesInvariant, PTL

(* The number in the report and the number of classes returned agree.      *)
THEOREM ReportsCountClasses == Spec => []ReportCountsClasses
<1>1. Inv => ReportCountsClasses
  BY DEF Inv, TypeOK, CountsAgree, ReportIsLast, ReportCountsClasses
<1> QED BY <1>1, SearchOfClassesInvariant, PTL

-------------------------------------------------------------------------------
(* The exact number of classes                                             *)

(* An injective numbering counts its range.                                *)
FirstValues(f, k) == {f[i] : i \in 1 .. k}

LEMMA NumberedRange ==
  ASSUME NEW S, NEW k \in Nat, NEW f \in Injection(1 .. k, S)
  PROVE  /\ FirstValues(f, k) \subseteq S
         /\ IsFiniteSet(FirstValues(f, k)) /\ Cardinality(FirstValues(f, k)) = k
<1> DEFINE T == FirstValues(f, k)
<1> USE DEF FirstValues
<1>1. f \in [1 .. k -> S] /\ \A i, j \in 1 .. k : f[i] = f[j] => i = j
  BY DEF Injection, IsInjective
<1>2. f \in Bijection(1 .. k, T)
  BY <1>1 DEF Bijection, Injection, Surjection, IsInjective
<1>3. IsFiniteSet(1 .. k) /\ Cardinality(1 .. k) = k
  BY FS_Interval
<1>4. ExistsBijection(1 .. k, T)
  BY <1>2 DEF ExistsBijection
<1>5. IsFiniteSet(T) /\ Cardinality(T) = k
  <2> HIDE DEF T
  <2> QED
    BY <1>3, <1>4, FS_Bijection
<1> QED
  BY <1>1, <1>5

(* A set that is infinite or has more than n elements has n + 1 of them.   *)
LEMMA MoreElements ==
  ASSUME NEW S, NEW n \in Nat, ~(IsFiniteSet(S) /\ Cardinality(S) <= n)
  PROVE  \E f : f \in Injection(1 .. n + 1, S)
<1> DEFINE Numbered == {k \in 0 .. n + 1 : \E f : f \in Injection(1 .. k, S)}
<1>1. 0 \in Numbered
  <2>1. [i \in 1 .. 0 |-> i] \in Injection(1 .. 0, S)
    BY DEF Injection, IsInjective
  <2> QED
    BY <2>1
<1>2. ASSUME NEW k \in 0 .. n, k \in Numbered
      PROVE  k + 1 \in Numbered
  <2>1. PICK f : f \in Injection(1 .. k, S)
    BY <1>2
  <2> DEFINE T == FirstValues(f, k)
  <2>2. T \subseteq S /\ IsFiniteSet(T) /\ Cardinality(T) = k
    BY <2>1, NumberedRange
  <2>3. T # S
    BY <2>2
  <2>4. PICK x \in S : x \notin T
    BY <2>2, <2>3
  <2> DEFINE g == [i \in 1 .. k + 1 |-> IF i = k + 1 THEN x ELSE f[i]]
  <2>5. f \in [1 .. k -> S] /\ \A i, j \in 1 .. k : f[i] = f[j] => i = j
    BY <2>1 DEF Injection, IsInjective
  <2>6. g \in [1 .. k + 1 -> S]
    BY <2>5
  <2>7. ASSUME NEW i \in 1 .. k + 1, NEW j \in 1 .. k + 1, g[i] = g[j]
        PROVE  i = j
    <3>1. \A l \in 1 .. k : f[l] # x
      BY <2>4 DEF FirstValues
    <3> QED
      BY <2>5, <2>7, <3>1
  <2>8. g \in Injection(1 .. k + 1, S)
    BY <2>6, <2>7 DEF Injection, IsInjective
  <2> HIDE DEF g
  <2> QED
    BY <2>8
<1>3. 0 .. n + 1 \subseteq Numbered
  <2>1. n + 1 \in Nat /\ (n + 1) - 1 = n
    OBVIOUS
  <2> HIDE DEF Numbered
  <2> QED
    BY <1>1, <1>2, <2>1, BoundedInduction
<1> QED
  BY <1>3

(* If n + 1 secrets cannot be told apart in any situation, none has more   *)
(* than n outputs.                                                         *)
LEMMA UnsatBoundsOutputs ==
  ASSUME OneSecret, NEW n \in Nat, ~Satisfiable(n + 1), NEW s \in Situations
  PROVE  IsFiniteSet(OutputsIn(s)) /\ Cardinality(OutputsIn(s)) <= n
<1> SUFFICES ASSUME ~(IsFiniteSet(OutputsIn(s)) /\ Cardinality(OutputsIn(s)) <= n)
             PROVE  FALSE
  OBVIOUS
<1>1. PICK f : f \in Injection(1 .. n + 1, OutputsIn(s))
  BY MoreElements
<1>2. /\ f \in [1 .. n + 1 -> OutputsIn(s)]
      /\ \A i, j \in 1 .. n + 1 : f[i] = f[j] => i = j
  BY <1>1 DEF Injection, IsInjective
<1> DEFINE w == [i \in 1 .. n + 1 |-> CHOOSE x \in Secrets : out[s][x] = f[i]]
<1>3. \A i \in 1 .. n + 1 : w[i] \in Secrets /\ out[s][w[i]] = f[i]
  BY <1>2 DEF OutputsIn
<1>4. ASSUME NEW i \in 1 .. n + 1, NEW j \in 1 .. n + 1, i # j
      PROVE  Apart(s, w[i], w[j])
  <2>1. w[i] \in Secrets /\ w[j] \in Secrets
    BY <1>3
  <2>2. out[s][w[i]] # out[s][w[j]]
    BY <1>2, <1>3, <1>4
  <2> HIDE DEF w
  <2> QED
    BY <2>1, <2>2, OneSecretApart
<1>5. w \in [1 .. n + 1 -> Secrets] /\ Model(s, w)
  BY <1>3, <1>4 DEF Model
<1> QED
  BY <1>5 DEF Satisfiable

(* The outputs of n secrets that can be told apart are n outputs.          *)
LEMMA ModelBoundsOutputs ==
  ASSUME NEW n \in Nat, NEW s \in Situations, IsFiniteSet(OutputsIn(s)),
         NEW w \in [1 .. n -> Secrets], Model(s, w)
  PROVE  n <= Cardinality(OutputsIn(s))
<1> DEFINE f == [i \in 1 .. n |-> out[s][w[i]]]
<1>1. f \in [1 .. n -> OutputsIn(s)]
  BY DEF OutputsIn
<1>2. \A i, j \in 1 .. n : f[i] = f[j] => i = j
  BY DEF Model, Apart
<1>3. f \in Injection(1 .. n, OutputsIn(s))
  BY <1>1, <1>2 DEF Injection, IsInjective
<1> DEFINE T == FirstValues(f, n)
<1>4. T \subseteq OutputsIn(s) /\ Cardinality(T) = n
  <2> HIDE DEF f
  <2> QED
    BY <1>3, NumberedRange
<1> QED
  <2> HIDE DEF T
  <2> QED
    BY <1>4, FS_Subset

(* "Exact" below the limit was the main solver's answer.                   *)
ExactIsUnsat ==
  report.kind = "exact" /\ report.n < limit => ~Satisfiable(report.n + 1)

LEMMA StepUnsat == Inv /\ ExactIsUnsat /\ [Next]_vars => ExactIsUnsat'
<1> SUFFICES ASSUME Inv, ExactIsUnsat, [Next]_vars PROVE ExactIsUnsat'
  OBVIOUS
<1>1. out' = out
  BY DEF Next, vars, Call, FirstInstance, MainSat, MainUnsat, MainUnknown, IntermediateSat,
         IntermediateUnsat, IntermediateUnknown, LimitReached
<1>2. \A n : Satisfiable(n)' = Satisfiable(n)
  BY <1>1 DEF Satisfiable, Model, Apart
<1>3. CASE Call
  BY <1>3 DEF Call, ExactIsUnsat, NoReport
<1>4. CASE MainUnsat
  <2>1. report'.n = instance_id /\ instance_id' = instance_id /\ ~Satisfiable(instance_id + 1)
    BY <1>4 DEF MainUnsat, Checking, CopiesNeeded, Report
  <2> QED
    BY <1>2, <2>1 DEF ExactIsUnsat
<1>5. CASE LimitReached
  <2>1. report'.n = instance_id /\ limit' = limit /\ ~(instance_id < limit)
    BY <1>5 DEF LimitReached, Report, Inv, TypeOK
  <2> QED
    BY <2>1 DEF ExactIsUnsat
<1>6. CASE \/ FirstInstance \/ MainSat \/ MainUnknown \/ IntermediateSat
           \/ IntermediateUnsat \/ IntermediateUnknown \/ UNCHANGED vars
  <2>1. report' = report /\ limit' = limit
    BY <1>6 DEF vars, FirstInstance, MainSat, MainUnknown, IntermediateSat, IntermediateUnsat,
       IntermediateUnknown
  <2> QED
    BY <1>2, <2>1 DEF ExactIsUnsat
<1> QED
  BY <1>3, <1>4, <1>5, <1>6 DEF Next

(* "There are n equivalence classes", said below the limit, is the greatest *)
(* number of outputs that a single secret causes in a situation, for any    *)
(* design, finite or not (qifa_smt.hpp:325-540).                            *)
THEOREM ExactIsTrueBelowLimit == Spec => []ExactBelowLimit
<1>1. Init => ExactIsUnsat
  BY DEF Init, ExactIsUnsat, NoReport
<1>2. ASSUME Inv, ReportIsAchievable, ExactIsUnsat PROVE ExactBelowLimit
  <2> SUFFICES ASSUME report.kind = "exact", report.n < limit, OneSecret
               PROVE  /\ \A s \in Situations : Cardinality(OutputsIn(s)) <= report.n
                      /\ \E s \in Situations : Cardinality(OutputsIn(s)) = report.n
    BY DEF ExactBelowLimit
  <2> DEFINE n == report.n
  <2>1. n \in Nat /\ ~Satisfiable(n + 1) /\ Satisfiable(n)
    BY <1>2 DEF Inv, TypeOK, ReportIsAchievable, ExactIsUnsat
  <2> HIDE DEF n
  <2>2. \A s \in Situations : IsFiniteSet(OutputsIn(s)) /\ Cardinality(OutputsIn(s)) <= n
    BY <2>1, UnsatBoundsOutputs
  <2>3. PICK s \in Situations : \E w \in [1 .. n -> Secrets] : Model(s, w)
    BY <2>1 DEF Satisfiable
  <2>4. n <= Cardinality(OutputsIn(s)) /\ Cardinality(OutputsIn(s)) \in Nat
    BY <2>1, <2>2, <2>3, ModelBoundsOutputs, FS_CardinalityType
  <2>5. Cardinality(OutputsIn(s)) = n
    BY <2>1, <2>2, <2>4
  <2> QED
    BY <2>2, <2>5 DEF n
<1> QED
  BY <1>1, <1>2, StepUnsat, InitInv, StepInv, ReportsAreAchievable, PTL DEF Spec

-------------------------------------------------------------------------------
(* Refinement                                                              *)

LEMMA InitRefines == Init => Promise!Init
BY DEF Init, Promise!Init, NoReport, OneSecret

LEMMA StepRefines == Inv /\ [Next]_vars => [Promise!Next]_(Promise!vars)
<1> SUFFICES ASSUME Inv, [Next]_vars, ~UNCHANGED Promise!vars PROVE Promise!Next
  OBVIOUS
<1> USE DEF Inv, TypeOK
<1>1. Promise!Distinguishable(situation, classes)
  BY ModelDistinguishes DEF ClassesAreAModel
<1>2. CASE Call
  BY <1>1, <1>2 DEF Call, NoReport, Promise!Next, Promise!Search, Promise!Distinguishable
<1>3. CASE FirstInstance
  BY <1>3 DEF FirstInstance, Promise!vars
<1>4. CASE MainSat
  <2>1. /\ classes' \in [1 .. instance_id + 1 -> Secrets] /\ instance_id + 1 \in Nat
        /\ pc = "main"
    BY <1>4 DEF MainSat, Checking, Looping, CopiesNeeded
  <2>2. classes' \in Seq(Secrets) /\ Len(classes') = instance_id + 1
    BY <2>1
  <2>3. Len(classes') >= Len(classes)
    BY <2>1, <2>2 DEF CountsAgree
  <2>4. Promise!Distinguishable(situation', classes')
    BY <1>4, ModelDistinguishes DEF MainSat
  <2>5. report.kind = "none" /\ UNCHANGED <<report, out, leaked>> /\ situation' \in Situations
    BY <1>4, <2>1 DEF MainSat, NoReportInACall
  <2> QED BY <2>2, <2>3, <2>4, <2>5 DEF Promise!Next, Promise!Search
<1>5. CASE MainUnsat
  <2>1. OneSecret => Promise!Maximal
    BY <1>5, MainUnsatIsMaximal
  <2>2. UNCHANGED <<out, situation, classes, leaked>> /\ report'.kind = "exact"
    BY <1>5 DEF MainUnsat, Report
  <2> QED BY <2>1, <2>2 DEF Promise!Next, Promise!Answer
<1>6. CASE MainUnknown
  BY <1>6 DEF MainUnknown, Promise!vars
<1>7. CASE IntermediateSat
  <2>1. PICK x \in Secrets : x \in NewSecrets /\ classes' = Append(classes, x)
    BY <1>7 DEF IntermediateSat, NewSecrets
  <2>2. \A i \in DOMAIN classes : Apart(situation, x, classes[i])
    BY <2>1, NewSecretsAreApart
  <2>3. classes' \in Seq(Secrets) /\ Model(situation, classes') /\ Len(classes') >= Len(classes)
    BY <2>1, <2>2, ExtendedModel DEF ClassesAreAModel
  <2>4. Promise!Distinguishable(situation, classes')
    BY <2>3, ModelDistinguishes
  <2>5. report.kind = "none" /\ UNCHANGED <<report, out, leaked, situation>>
    BY <1>7 DEF IntermediateSat, IntermediateCheck, NoReportInACall
  <2> QED BY <2>3, <2>4, <2>5 DEF Promise!Next, Promise!Search, Promise!Distinguishable
<1>8. CASE IntermediateUnsat
  BY <1>8 DEF IntermediateUnsat, Promise!vars
<1>9. CASE IntermediateUnknown
  <2>1. report.kind = "none" /\ UNCHANGED <<report, out, situation, classes>> /\ leaked' # {}
    BY <1>9 DEF IntermediateUnknown, IntermediateCheck, NoReportInACall
  <2>2. (leaked' = {}) = FALSE
    BY <2>1
  <2>3. (leaked' = {}) \in {leaked = {}, FALSE}
    BY <2>2, Zenon
  <2>4. Promise!Distinguishable(situation', classes')
    BY <1>1, <2>1 DEF Promise!Distinguishable
  <2>5. situation' \in Situations /\ classes' \in Seq(Secrets) /\ Len(classes') >= Len(classes)
    BY <2>1
  <2>6. UNCHANGED out
    BY <2>1
  <2>7. report'.kind = "none"
    BY <2>1
  <2>8. Promise!Search
    BY <2>3, <2>4, <2>5, <2>6, <2>7, Zenon DEF Promise!Search
  <2> QED BY <2>8 DEF Promise!Next
<1>10. CASE LimitReached
  <2>1. UNCHANGED <<out, situation, classes, leaked, z3result>>
        /\ report'.kind = IF z3result = "unsat" THEN "exact" ELSE "open"
    BY <1>10 DEF LimitReached, Report
  <2> QED BY <2>1 DEF UnsatIsMaximal, Promise!Next, Promise!Answer
<1>11. CASE UNCHANGED vars
  BY <1>11 DEF vars, Promise!vars
<1> QED BY <1>2, <1>3, <1>4, <1>5, <1>6, <1>7, <1>8, <1>9, <1>10, <1>11 DEF Next

(* The search implements the abstract analysis, for every design, limit    *)
(* and number of calls: classes are never lost, always distinguishable,    *)
(* and "exact" is said only when none can be added to them.                *)
THEOREM Refinement == Spec => RefinesEquivalenceClasses
<1>1. Init /\ [][Next]_vars => Promise!Spec
  BY InitRefines, StepRefines, InitInv, StepInv, PTL DEF Promise!Spec
<1> QED BY <1>1, PTL DEF Spec, RefinesEquivalenceClasses
===============================================================================
