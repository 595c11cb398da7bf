---------------------------- MODULE TagInjection ----------------------------
(***************************************************************************)
(* One tag injection campaign, as ift() drives it:                         *)
(*                                                                         *)
(*  1. Testbench::write_tags writes one tag file per run, asking the tag   *)
(*     generator for every (port, time) whether to tag it;                 *)
(*  2. every run simulates the design under the generated testbench, whose *)
(*     two initial processes share the simulated time: the reader injects  *)
(*     the lines of the tag file, the driver replays the stimulus and ends *)
(*     the simulation with $finish;                                        *)
(*  3. every run leaves a VCD file with the value changes of the tag       *)
(*     inputs, which the analysis reads back.                              *)
(*                                                                         *)
(* The simulator (iverilog) is not part of the repository. Assumed of it:  *)
(* processes due at the same time run in any order, an unknown delay is a  *)
(* zero delay, and a dump records the value a signal has at the end of a   *)
(* time step if it differs from the recorded one. Whether the step that    *)
(* $finish cuts off is still dumped is left open.                          *)
(***************************************************************************)
EXTENDS TagSchedule, Sequences

CONSTANTS
  Generator,      (* "FullResolution" or "Random", the TagGenerator in use  *)
  ParamStepsize   (* params.value("stepsize", 1) as export_tags sees it     *)

ASSUME InjectionAssumption ==
  /\ Generator \in {"FullResolution", "Random"}
  /\ ParamStepsize \in Nat \ {0}

VARIABLES
  stage,   (* "export", "simulate" or "done"                               *)
  run,     (* the file being written or simulated                          *)
  files,   (* the lines of every tag file; line i is files[r][i + 1]       *)
  now,     (* simulated time                                               *)
  tags,    (* the tag register of every input port                         *)
  line,    (* the loop variable i of the reader; NumLines once it has ended*)
  wake,    (* when the reader's pending delay elapses                      *)
  dump     (* the value changes recorded in the VCD of every run           *)

vars == <<stage, run, files, now, tags, line, wake, dump>>
simVars == <<now, tags, line, wake>>

(* numLines of write_testbench_internals, from the same parameter that     *)
(* cuts the batches                                                        *)
NumLinesWithoutDelayLine == ItemsPerBatch                                 (* mutant *)
NumLines == TimestepsPerRun

Lines == [delay : Nat, bits : SUBSET (TagSize .. LineBits - 1)]

(* The value of a tag register is the set of its 1 bits; -1 stands for X.  *)
Unknown == {-1}
NoTags == [p \in Ports |-> {}]
TagValues == (SUBSET Bits) \cup {Unknown}

TypeOK ==
  /\ stage \in {"export", "simulate", "done"}
  /\ run \in Runs
  /\ files \in [Runs -> Seq(Lines)]
  /\ now \in 0 .. LastTime
  /\ tags \in [Ports -> TagValues]
  /\ line \in 0 .. NumLines
  /\ wake \in Nat
  /\ dump \in [Runs -> [Ports -> SUBSET [time : 0 .. LastTime, value : TagValues]]]

Init ==
  /\ stage = "export"
  /\ run = 0
  /\ files = [r \in Runs |-> <<>>]
  /\ now = 0
  /\ tags = NoTags
  /\ line = 0
  /\ wake = 0
  /\ dump = [r \in Runs |-> [p \in Ports |-> {}]]

-----------------------------------------------------------------------------
(* Testbench::write_tags and export_tags.                                  *)

(* TagGenerator::is_tagged for all ports at one time                       *)
TagChoices == IF Generator = "FullResolution" THEN {Ports} ELSE SUBSET Ports

(* The distance to the next item of the batch. The last item repeats the   *)
(* previous distance; a batch of one item has none and keeps 0.            *)
Delta(r, idx) ==
  IF idx < BatchSize(r) - 1 THEN ItemTime(r, idx + 1) - ItemTime(r, idx)
  ELSE IF idx > 0 THEN ItemTime(r, idx) - ItemTime(r, idx - 1)
  ELSE 0

HoldAtMostOneTick(r, idx) ==                                              (* mutant *)
  IF Delta(r, idx) <= 1 THEN Delta(r, idx) ELSE 1
Hold(r, idx) ==
  IF Delta(r, idx) >= ParamStepsize THEN Delta(r, idx) ELSE ParamStepsize

TagLine(r, idx, tagged) ==
  LET new == NewLine(Hold(r, idx))
  IN  [delay |-> new.delay, bits |-> new.bits \cup TaggedBits(idx, tagged)]

ExportDelayLineFromZero ==                                                (* mutant *)
  /\ stage = "export"
  /\ files[run] = <<>>
  /\ files' = [files EXCEPT ![run] = <<NewLine(0)>>]
  /\ UNCHANGED <<stage, run, simVars, dump>>

ExportDelayLine ==
  /\ stage = "export"
  /\ files[run] = <<>>
  /\ files' = [files EXCEPT ![run] = <<NewLine(ItemTime(run, 0))>>]
  /\ UNCHANGED <<stage, run, simVars, dump>>

ExportTagLine(tagged) ==
  /\ stage = "export"
  /\ Len(files[run]) \in 1 .. BatchSize(run)
  /\ files' = [files EXCEPT ![run] = Append(@, TagLine(run, Len(@) - 1, tagged))]
  /\ UNCHANGED <<stage, run, simVars, dump>>

(* Starting the simulator on file r: both initial processes begin at time  *)
(* 0, the reader clears the tag registers and waits for line 0's delay.    *)
StartSimulation(r) ==
  /\ run' = r
  /\ now' = 0
  /\ tags' = NoTags
  /\ line' = 0
  /\ wake' = files[r][1].delay

NextFilePastTheEnd ==                                                     (* mutant *)
  /\ stage = "export"
  /\ Len(files[run]) = BatchSize(run) + 1
  /\ IF run < NumberOfRuns
     THEN run' = run + 1 /\ UNCHANGED <<stage, simVars>>
     ELSE stage' = "simulate" /\ StartSimulation(0)
  /\ UNCHANGED <<files, dump>>

NextFile ==
  /\ stage = "export"
  /\ Len(files[run]) = BatchSize(run) + 1
  /\ IF run + 1 \in Runs
     THEN run' = run + 1 /\ UNCHANGED <<stage, simVars>>
     ELSE stage' = "simulate" /\ StartSimulation(0)
  /\ UNCHANGED <<files, dump>>

-----------------------------------------------------------------------------
(* The reader process of the generated testbench. When its delay elapses   *)
(* it clears the tag registers and, in the same time step, goes on to the  *)
(* next line, so a resumption is one action.                               *)

ReaderDue == stage = "simulate" /\ line < NumLines /\ wake = now

(* Line i of read_simulation_data. A line that the file of a short batch   *)
(* does not have stays X, and an X delay is none.                          *)
TagsOfLine(i) ==
  IF i < Len(files[run]) THEN [p \in Ports |-> Slice(files[run][i + 1].bits, p)]
                         ELSE [p \in Ports |-> Unknown]
DelayOfLine(i) == IF i < Len(files[run]) THEN files[run][i + 1].delay ELSE 0

ReadLine ==
  /\ ReaderDue
  /\ line + 1 < NumLines
  /\ tags' = TagsOfLine(line + 1)
  /\ wake' = now + DelayOfLine(line + 1)
  /\ line' = line + 1
  /\ UNCHANGED <<stage, run, files, now, dump>>

EndReader ==
  /\ ReaderDue
  /\ line + 1 = NumLines
  /\ tags' = NoTags
  /\ line' = NumLines
  /\ UNCHANGED <<stage, run, files, now, wake, dump>>

-----------------------------------------------------------------------------
(* The simulator's time and dump.                                          *)

LastEntry(changes) ==
  CHOOSE e \in changes : \A f \in changes : f.time <= e.time

(* $dumpvars: the value at the end of the time step, if it is the first    *)
(* one or a new one                                                        *)
Record(changes, t, value) ==
  IF changes = {} \/ LastEntry(changes).value # value
  THEN changes \cup {[time |-> t, value |-> value]}
  ELSE changes

Sample ==
  [dump EXCEPT ![run] = [p \in Ports |-> Record(dump[run][p], now, tags[p])]]

(* Nothing is due at this time any more                                    *)
Tick ==
  /\ stage = "simulate"
  /\ ~ReaderDue
  /\ now < LastTime
  /\ now' = now + 1
  /\ dump' = Sample
  /\ UNCHANGED <<stage, run, files, tags, line, wake>>

FinishAndRepeat(flushed) ==                                               (* mutant *)
  /\ stage = "simulate"
  /\ now = LastTime
  /\ dump' = IF flushed THEN Sample ELSE dump
  /\ StartSimulation(run)
  /\ UNCHANGED <<stage, files>>

(* The driver reaches the last timestamp. The reader may be due as well    *)
(* and may or may not have been resumed.                                   *)
Finish(flushed) ==
  /\ stage = "simulate"
  /\ now = LastTime
  /\ dump' = IF flushed THEN Sample ELSE dump
  /\ IF run + 1 \in Runs
     THEN StartSimulation(run + 1) /\ UNCHANGED stage
     ELSE stage' = "done" /\ UNCHANGED <<run, simVars>>
  /\ UNCHANGED files

Export ==
  \/ ExportDelayLine
  \/ \E tagged \in TagChoices : ExportTagLine(tagged)
  \/ NextFile

Reader == ReadLine \/ EndReader

(* The last VCD is there; the campaign is over                             *)
Over == stage = "done" /\ UNCHANGED vars

Next ==
  \/ Export
  \/ Reader
  \/ Tick
  \/ \E flushed \in BOOLEAN : Finish(flushed)
  \/ Over

(* The exporter is sequential code and the simulator never stops by itself *)
(* before $finish, so a campaign step that can be taken is taken.          *)
Spec == Init /\ [][Next]_vars /\ WF_vars(Next)

-----------------------------------------------------------------------------
(* Properties.                                                             *)

(* The parameters for which delays are what they are meant to be: they fit *)
(* their field of the line, and export_tags uses the step the tag times    *)
(* were generated with.                                                    *)
DelaysFit ==
  /\ ParamStepsize = Stepsize
  /\ Stepsize < DelayRange
  /\ LastTime < DelayRange

Exported(r, idx, p) ==
  /\ idx + 2 <= Len(files[r])
  /\ BitPosition(idx, p) \in files[r][idx + 2].bits

(* A tag sits on its own port and exactly during its own step: whenever a  *)
(* time step ends with bit b on port p, b belongs to p, and the injection  *)
(* time b stands for is at most one step old. (The delays of the file, the *)
(* slices of the generated reader and the clearing between two lines.)     *)
TagsInTheirWindow ==
  stage = "simulate" /\ ~ReaderDue =>
    \A p \in Ports :
      /\ tags[p] # Unknown
      /\ \A b \in tags[p] :
           /\ b % NumInputs = p
           /\ ItemTime(run, b \div NumInputs) <= now
           /\ now < ItemTime(run, b \div NumInputs) + Stepsize

(* What the analysis relies on when it takes the time of a dump entry for  *)
(* the injection time of the bit it finds there: a bit of a dumped value   *)
(* names its port, and the entry is at the time the tag was scheduled for. *)
TagsAtScheduledTime ==
  \A r \in Runs, p \in Ports : \A e \in dump[r][p] :
    /\ e.value # Unknown
    /\ \A b \in e.value :
         /\ b % NumInputs = p
         /\ e.time = ItemTime(r, b \div NumInputs)

(* What the analysis relies on when it intersects a target's tag with the  *)
(* dumped input tags of the same run: no bit occurs in two entries of one  *)
(* run, be they of the same or of different ports.                         *)
BitNamesOneInjection ==
  \A r \in Runs : \A p, q \in Ports : \A e \in dump[r][p], f \in dump[r][q] :
    (\E b \in Bits : b \in e.value /\ b \in f.value) => p = q /\ e = f

(* is_tag_propagated searches the runs for the one that injected a tag at  *)
(* a time, "should only be one vcd file": no two runs tag the same port at *)
(* the same time.                                                          *)
OneRunPerInjection ==
  \A r, s \in Runs : \A p \in Ports : \A e \in dump[r][p], f \in dump[s][p] :
    e.time = f.time /\ e.value # {} /\ f.value # {} => r = s

(* The generated reader loops over as many lines as a full batch has, also  *)
(* when the file of the last batch is shorter, and would inject X. It does *)
(* not get that far: the stimulus ends first.                              *)
MissingLinesAreNotRead ==
  stage = "simulate" /\ line < NumLines => line < Len(files[run])

(* No exported tag is lost: each one scheduled before the end of the       *)
(* stimulus shows up in its run's dump, alone in its entry. (At LastTime   *)
(* the reader races $finish.)                                              *)
ExportedTagsAreDumped ==
  stage = "done" =>
    \A r \in Runs : \A idx \in 0 .. BatchSize(r) - 1 : \A p \in Ports :
      Exported(r, idx, p) /\ ItemTime(r, idx) < LastTime =>
        [time |-> ItemTime(r, idx), value |-> {TagBit(idx, p)}] \in dump[r][p]

(* A tag stays on its port for a whole step: the next change of a port     *)
(* that carries a tag is at least one step away. testbench.cpp:455 says of *)
(* the delay that it "must never be smaller" than the stepsize.            *)
TagLastsAStep ==
  \A r \in Runs, p \in Ports : \A e, f \in dump[r][p] :
    e.value # {} /\ e.time < f.time => e.time + Stepsize <= f.time

(* simulation.hpp:147 rounds the number of runs up "to ensure complete     *)
(* coverage": once the files are written at full resolution, every tag     *)
(* time has its tag on every port in some file.                            *)
EveryTagTimeCovered ==
  stage # "export" /\ Generator = "FullResolution" =>
    \A k \in 0 .. NumTagTimes - 1 : \A p \in Ports :
      \E r \in Runs : \E idx \in 0 .. BatchSize(r) - 1 :
        ItemTime(r, idx) = TagTime(k) /\ Exported(r, idx, p)

(* Every run comes to its $finish and leaves a dump of every tag input.    *)
EveryRunIsDumped ==
  <>(stage = "done" /\ \A r \in Runs, p \in Ports : dump[r][p] # {})
=============================================================================
