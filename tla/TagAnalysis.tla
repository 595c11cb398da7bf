----------------------------- MODULE TagAnalysis -----------------------------
(***************************************************************************)
(* The campaign of TagInjection on a design with one observed signal, and  *)
(* the queries VCDSignalsDataManager answers from the dumps it leaves.     *)
(*                                                                         *)
(* The design under test is not part of the repository: at every time step *)
(* the observed signal either takes a value computed from some inputs      *)
(* (its tag becomes the union of their tags) or, being stored, keeps its   *)
(* value and its tag. Which of the two happens is decided by the stimulus, *)
(* hence the same in every run.                                            *)
(***************************************************************************)
EXTENDS TagInjection, FiniteSetsExt

CONSTANT WordBits  (* bits of the integer tags are converted to: 32        *)

ASSUME AnalysisAssumption == WordBits \in Nat \ {0}

VARIABLES
  design,      (* what the observed signal does in every time step         *)
  target,      (* its tag                                                  *)
  targetDump   (* the value changes of its tag, per run                    *)

analysisVars == <<vars, design, target, targetDump>>

Behaviours == [load : BOOLEAN, from : SUBSET Ports]

AnalysisInit ==
  /\ Init
  /\ design \in [0 .. LastTime -> {b \in Behaviours : b.load \/ b.from = {}}]
  /\ target = {}
  /\ targetDump = [r \in Runs |-> {}]

(* The tag of the observed signal at the end of the time step              *)
Settled ==
  IF design[now].load THEN UNION {tags[p] : p \in design[now].from} ELSE target

SampleTarget == [targetDump EXCEPT ![run] = Record(@, now, Settled)]

AnalysisNext ==
  \/ (Export \/ Reader \/ Over) /\ UNCHANGED <<design, target, targetDump>>
  \/ Tick /\ target' = Settled /\ targetDump' = SampleTarget /\ UNCHANGED design
  \/ \E flushed \in BOOLEAN :
       /\ Finish(flushed)
       /\ target' = {}
       /\ targetDump' = IF flushed THEN SampleTarget ELSE targetDump
       /\ UNCHANGED design

AnalysisSpec ==
  AnalysisInit /\ [][AnalysisNext]_analysisVars /\ WF_analysisVars(AnalysisNext)

-----------------------------------------------------------------------------
(* The queries. A dumped tag is a vector without leading zeros.            *)

(* value_vector_to_uint32 throws for X and for more than WordBits bits      *)
FitsWord(value) == value \subseteq 0 .. WordBits - 1

FlowsOfRunWithFirstTarget(r) ==                                           (* mutant *)
  UNION {{[input |-> p, injected |-> x[1].time, observed |-> x[2].time] :
            x \in {y \in dump[r][p] \X targetDump[0] :
                    y[1].value \cap y[2].value # {}}} : p \in Ports}
FlowsOfRunOfEqualTags(r) ==                                               (* mutant *)
  UNION {{[input |-> p, injected |-> x[1].time, observed |-> x[2].time] :
            x \in {y \in dump[r][p] \X targetDump[r] :
                    y[1].value = y[2].value /\ y[1].value # {}}} : p \in Ports}

(* get_information_flow_source_signals_for_target_signal: every entry of   *)
(* an input and every entry of the target, of one run, that share a bit.   *)
(* All of these values are converted on the way.                           *)
FlowsOfRun(r) ==
  UNION {{[input |-> p, injected |-> x[1].time, observed |-> x[2].time] :
            x \in {y \in dump[r][p] \X targetDump[r] :
                    y[1].value \cap y[2].value # {}}} : p \in Ports}
InformationFlows == UNION {FlowsOfRun(r) : r \in Runs}

InformationFlowsThrows ==
  \E r \in Runs : \E t \in targetDump[r] :
    \/ ~FitsWord(t.value)
    \/ \E p \in Ports : \E s \in dump[r][p] : ~FitsWord(s.value)

(* getTagPattern: 1 << bit in WordBits bits. Beyond them the shift is      *)
(* undefined; the usual build takes the distance modulo WordBits.          *)
TagPattern(b) == b % WordBits

(* get_tag_count_signal_to_signal: per run, the distinct tags of the       *)
(* source that arrive at the target                                        *)
PatternsIn(changes) == UNION {{TagPattern(b) : b \in e.value} : e \in changes}
TagCountWithoutClear(p) ==                                                (* mutant *)
  Cardinality(UNION {PatternsIn(dump[r][p]) \cap PatternsIn(targetDump[r]) : r \in Runs})
TagCount(p) ==
  MapThenSumSet(LAMBDA r : Cardinality(PatternsIn(dump[r][p]) \cap
                                       PatternsIn(targetDump[r])), Runs)

(* is_tag_propagated. The search for the run takes the first dump with any *)
(* entry of the port at that time; an entry without exactly one tag makes  *)
(* it throw, and with no entry in any run it indexes past the last run.    *)
RunsWithEntry(p, t) == {r \in Runs : \E e \in dump[r][p] : e.time = t}

FirstRun(p, t) ==
  CHOOSE r \in RunsWithEntry(p, t) : \A s \in RunsWithEntry(p, t) : r <= s

EntryAt(changes, t) == CHOOSE e \in changes : e.time = t

IsTagPropagatedInAnyRun(p, inputTime, targetTime) ==                      (* mutant *)
  IF RunsWithEntry(p, inputTime) = {} THEN "undefined"
  ELSE LET injected == EntryAt(dump[FirstRun(p, inputTime)][p], inputTime).value
       IN  IF Cardinality(injected) # 1 THEN "throws"
           ELSE IF \E r \in Runs : \E e \in targetDump[r] :
                     e.time = targetTime /\ e.value \cap injected # {}
                THEN "true"
                ELSE "unknown"
IsTagPropagated(p, inputTime, targetTime) ==
  IF RunsWithEntry(p, inputTime) = {} THEN "undefined"
  ELSE LET r == FirstRun(p, inputTime)
           injected == EntryAt(dump[r][p], inputTime).value
       IN  IF Cardinality(injected) # 1 THEN "throws"
           ELSE IF \E e \in targetDump[r] : e.time = targetTime /\ e.value \cap injected # {}
                THEN "true"
                ELSE "unknown"
-----------------------------------------------------------------------------
(* What the design really does, without tags: the (port, step) pairs whose *)
(* value is in the observed signal at the end of each time step.           *)

StepOf(t) == t - (t % Stepsize)

Influence[t \in 0 .. LastTime] ==
  IF design[t].load THEN {<<p, StepOf(t)>> : p \in design[t].from}
  ELSE IF t = 0 THEN {} ELSE Influence[t - 1]

(* The injections that were exported for a time up to the given one        *)
InjectionsUntil(last) ==
  {x \in Ports \X (0 .. last) :
     \E r \in Runs : \E idx \in 0 .. BatchSize(r) - 1 :
       x[2] = ItemTime(r, idx) /\ Exported(r, idx, x[1])}

(* Those that took place: before the end of the stimulus, where the reader *)
(* races $finish                                                           *)
Injections == InjectionsUntil(LastTime - 1)

(* Every flow the query reports is one: at the time of observation the     *)
(* target held data the named input had in the step of the injection. (At  *)
(* LastTime the driver may end the simulation before the reader takes the  *)
(* previous tag off the inputs, so observations there are left out.)       *)
ReportedFlowsAreReal ==
  stage = "done" /\ ~InformationFlowsThrows =>
    \A f \in InformationFlows :
      f.observed < LastTime => <<f.input, f.injected>> \in Influence[f.observed]

(* Every influence of an injected input step is reported, no later than    *)
(* it is there, whichever run injected it.                                 *)
InfluencesAreReported ==
  stage = "done" /\ ~InformationFlowsThrows =>
    \A t \in 0 .. LastTime - 1 : \A x \in Influence[t] \cap Injections :
      \E f \in InformationFlows :
        f.input = x[1] /\ f.injected = x[2] /\ f.observed <= t

(* The injections of a port that are in the observed signal at some time   *)
(* before the end of the stimulus; and those whose tag may be on the port  *)
(* in its last time step, if that step reads the port: there the item of   *)
(* this step, or the one before it, meets $finish.                         *)
Reached(p) ==
  {x \in Injections : x[1] = p /\ \E t \in 0 .. LastTime - 1 : x \in Influence[t]}
Racing(p) ==
  {x \in InjectionsUntil(LastTime) :
     x[1] = p /\ p \in design[LastTime].from /\ x[2] + Stepsize >= LastTime}

(* The tag count of a source and the target is the number of injections of *)
(* the source that reach the target, each counted once although every run  *)
(* uses the same bits, and nothing else is counted. $finish decides about  *)
(* one more at most: an injection that could only reach the target in the  *)
(* last time step; without one the number is exact.                        *)
TagCountIsExact ==
  stage = "done" =>
    \A p \in Ports :
      TagCount(p) - Cardinality(Reached(p)) \in
        IF Racing(p) \subseteq Reached(p) THEN {0} ELSE {0, 1}

(* "true" from is_tag_propagated is never wrong.                           *)
PropagatedIsReal ==
  stage = "done" =>
    \A p \in Ports : \A ti, tt \in 0 .. LastTime - 1 :
      IsTagPropagated(p, ti, tt) = "true" => <<p, ti>> \in Influence[tt]
=============================================================================
