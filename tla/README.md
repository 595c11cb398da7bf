# Verification of DuRTL

DuRTL reads a gate-level netlist (Yosys JSON), exports it as Verilog in which
every signal has a second vector, its *tag*, simulates that design under a
generated testbench which injects tags at the inputs, and answers questions
about information flow from the dumps. A second engine unrolls the netlist into
an SMT problem and asks Z3. This directory holds TLA+ models of the parts where
the program's own logic lies, the TLC configurations that check them on small
instances, and machine-checked proofs of what holds for every parameter.

## 1. The system

### Parts, state and interaction

| Part | State | Operations | Interaction |
|---|---|---|---|
| Design and module model (`design.cpp`, `module.cpp`, `net.hpp`, `port.hpp`) | modules with ports, nets, cells; a module graph rebuilt from them | `parse_json`, `populate_graph`, copies, `export_verilog`, clock checks | read by everything else |
| Cells (`cell/*.hpp`) | parameters of one cell | `export_verilog` (value and tag), `export_smt2` (next-state relation) | called by the module export and by the unrolling |
| Schedule (`utility/simulation.hpp`) | none | step size, steps per run, number of runs, tag times, batches | parameters of the tag files and of the testbench |
| Tag generators (`tag_generator.hpp`) | random engine, cache, counter | `is_tagged(port, time)` | asked by `export_tags` |
| Testbench (`testbench.cpp`) | design, stimulus, tag generator | `export_testbench`, `export_tags`, `write_tags` | writes what the simulator executes |
| Simulator (iverilog, external) | registers, time, VCD | processes of the generated testbench and of the exported design | reads tag files, writes one VCD per run |
| Signals data manager (`signals_data_manager.cpp`) | the VCD data of all runs, or SMT expressions | information flows, tag counts, `is_tag_propagated`, toggle counts | asked by the instance and the front end |
| Design instance (`instantiation_graph.*`) | the flattened graph | `populate_module`, paths (`get_path`), tag and toggle counts, `export_smt2` | uses the data manager for its edge weights |
| SMT helpers (`utility/smt.hpp`) | a solver with pushed scopes | `smt_sim_validation`, `smt_to_simulation_validation`, `smt_to_simulation_unique_assignment` | compare the unrolling with a simulation |
| QIFA (`qifa_smt.hpp`) | two Z3 solvers, unrolled instances, found classes | `find_equivalence_classes` | uses the unrolling |
| Front end (`ift.hpp`, `ift_analysis.hpp`, experiments, `main.cpp`) | parameters in a JSON object | drive the above in order | parameters are passed by name |
| Pipeline detection (`static_analysis/`) | none | heuristics over names and register chains | reads the module graph |

The C++ program is sequential. What it *generates* is not: testbenches with two
or three `initial` processes that share simulated time with `$finish`, and
storage cells with several `always` blocks over one register. It also takes
answers it does not control: any model a solver may return, or "unknown", and any
order in which a hash table hands out its elements. The hard behaviour is there
and in what connects distant pieces of code by arithmetic only: the batches of the
schedule, the bit positions of a tag line, the slices of the generated reader,
and the bit tricks of the analysis that undo them.

### What makes each part correct

* Schedule, tag files, testbench: a tag sits on its own port during its own
  step; the bit in the dump identifies the injection; every scheduled tag is
  injected; no line is read that does not exist.
* Analysis: exactly the flows there were are reported, over all runs; a tag
  found is the tag asked for; counts are counts of injections.
* Cells: differences caused by tagged data carry the tag, and the solver is told
  the same next state that the Verilog computes.
* Paths: a path is a path of the graph, the search ends, and it finds an output
  if there is one.
* Module graph: every bit of every net can be followed to what drives it, in
  whatever order the hash tables are read.
* Instantiation graph and unrolling: the flattened graph connects what the
  nested netlist connects, and the equations connect every reader to its driver
  at the right time step and no variable to two drivers.
* Validation: a right translation is never rejected, an accepted one is a
  behaviour of the SMT instance; simulator and solver agree on what a clock cycle
  is.
* QIFA: the search ends, and the number reported is a number of classes that
  there are, exact where it says so.

`PROJECT.json` lists the hazards at their lines, with the properties that would
catch each of them, or the reason why none does.

## 2. The modules

| Module | Models | Source |
|---|---|---|
| `TagSchedule` | arithmetic of the schedule and of a tag line | `simulation.hpp`, `testbench.cpp` |
| `TagInjection` | one campaign: export of the tag files, the generated testbench, the dumps | `testbench.cpp`, `testbench.hpp`, `ift.hpp` |
| `TagAnalysis` | extends `TagInjection` by a design with one observed signal and the queries over the dumps | `signals_data_manager.cpp` |
| `PathSearch`, `MCPathSearch` | `DesignInstance::get_path`; its instance for TLC | `instantiation_graph.hpp` |
| `Gates` | values and tag rules of the combinational cells | `cell/basic_gate.hpp`, `and.hpp`, `or.hpp`, `mux.hpp`, `pmux.hpp`, ... |
| `TaggedCells` | extends `Gates` by the storage cells: Verilog with tags, and SMT relation | `cell/*.hpp` |
| `ModuleGraph`, `MCModuleGraph` | `Module::populate_graph`; netlists for TLC | `module.cpp`, `graph.hpp` |
| `InstantiationGraph` | `DesignInstance::create_instance` | `instantiation_graph.*` |
| `SmtUnrolling`, `MCSmtUnrolling` | extends `InstantiationGraph` by `export_smt2`; nested designs for TLC | `instantiation_graph.cpp`, `cell_module.hpp` |
| `SmtDesign` | a design, its simulation and its SMT instance, as both validations see them | `smt.hpp` |
| `SmtValidation`, `MCSmtValidation` | `smt_sim_validation` | `smt.hpp` |
| `SmtReplay`, `MCSmtReplay` | `TestbenchSMT`, `smt_to_simulation_*` | `testbench.cpp`, `smt.hpp` |
| `EquivalenceClasses` | abstract: what a search for classes of secrets promises | |
| `QifaSmt` | `QifaSmt::find_equivalence_classes`, which implements it | `qifa_smt.hpp` |
| `TagAnalysis_proofs`, `InstantiationGraph_proofs` (with the unrolling and the path search), `TaggedCells_proofs`, `ModuleGraph_proofs`, `SmtReplay_proofs`, `SmtValidation_proofs`, `QifaSmt_proofs` | theorems about these modules and those they extend | |
| `Induction` | induction and folds over finite sets, as facts about sets of numbers and of sets | |

Definitions marked `(* mutant *)` are plausible mistakes; they are used to see
that each checked property notices one, and are no part of a model.

### TagSchedule and TagInjection

`Ports`, `TagSize`, `Stepsize` and `LastTime` are parameters. A line of a tag
file is a record of its delay field and the set of its 1 bits, so that
`BitPosition` (what `export_tags` sets) and `Slice` (what the generated
`read_simulation_data[i][hi:lo]` reads) meet only in bit numbers, as in the code.

| Code | Model |
|---|---|
| `write_tags`, loop over files | `NextFile` |
| `export_tags`, `tag_line_0` | `ExportDelayLine` |
| `export_tags`, loop over `tags_times`; the answers of `is_tagged` | `ExportTagLine(tagged)`, `tagged` from `TagChoices` |
| reader: `$readmemb`, line 0, `#t` | `StartSimulation`, `wake` |
| reader: end of `#t`, clear, next line, `#t` (one resumption, no time passes) | `ReadLine`, `EndReader` |
| driver: last timestamp, `$finish` | `Finish(flushed)` |
| simulator: time advances, `$dumpvars` | `Tick`, `Sample`, `Record` |

Assumptions about the simulator (not part of the repository): processes due at
the same time run in any order; `#t` with an unknown `t` waits zero time; a dump
records the value a signal has at the end of a time step if it differs from the
last recorded one. Whether the step that `$finish` cuts off is still dumped is
left open (`flushed`). The inputs' values are not modelled: the tags do not
depend on them.

With `TagSize < 2 * NumInputs` a batch holds no item and `export_tags` reads the
first element of an empty vector; `ScheduleAssumption` excludes that. The delay
is read into a Verilog `integer`, so delays are assumed below 2^31.

### TagAnalysis

The design under test is any function from time steps to behaviours of one
signal: compute it from a set of inputs, or hold it. The stimulus decides, so it
is the same in all runs. `Influence` says, without tags, which input steps are
in the signal; the queries are compared with it. Queries are operators over the
dumps, as the C++ functions are pure; those that can throw have an operator or a
result that says so. `WordBits` stands for the 32 bits of
`value_vector_to_uint32` and `getTagPattern`.

### PathSearch

A graph is a choice, for each pair of a fixed set, between no edge, an edge the
filter excludes, a plain edge and one that satisfies the search's condition. There
are three kinds of query. A selector with weights may pick any candidate
(`extremal`); a selector with a condition picks one that satisfies it, or returns
the end iterator, which `get_path` dereferences (`SelectNone`, phase
`undefined`). `x_tag_path` takes its initial edge by the condition, too
(`first`), `tag_path_from_input` by the name of its source and whatever its tag
(`from_input`), so that its first edge need not satisfy the condition of the
others; names are not modelled, any usable edge may be the one. Every caller passes direction
`both` and result type `path`. The loops over the forward direction are `Extend`,
`SelectNone`, `Backtrack` and `Stop`; the backward loop is one action because it
provably never extends the path (`BackwardNeverExtends`).

### Gates and TaggedCells

All bits of a tag are treated alike, so a tag is one bit: is the signal tagged
with the injection in question? A signal has a value, the value in a *twin* run
and a tag; the inputs of both runs differ in tagged data only. What a word
stores after any sequence of edges may then differ between the runs only if it
is tagged. The cells' always blocks are `ClockEdge`, `ActivationEdge` (rising
asynchronous control), `LatchEvaluation` and `MemoryClock`. The cells with
per-bit controls have one block per bit, each writing the tag of the whole word;
they run in any order (`Written`).

Two fields of a stored word are history that the code does not have: `covers`,
the bits the tag that remained was written with, and `besideX`, that the word
was loaded from AD while D was X. `TagCoversData` is about the bits of `covers`
of words without `besideX`, behind gates that track words (`GateTracksWords`:
not `$or` or `$mux` of several bits). Each of these exceptions is a loss of tags
in the code (section 3, deviations): without it the property is false, and TLC
finds the loss in one or two steps if the exception is taken out. As both runs
of a twin have the same controls, the property is silent about what a tagged
control decides by itself.

Bounds and abstractions: words of up to `MaxWidth` bits; controls are active
high, clocks rising, and equal in both runs (their tags are free); a word with
an X bit is one value, `Unknown`, and unknown in both runs; operands of gates
and data of per-bit cells and memories are known; a run starts when every word
has been written once, untagged; `$pmux` is one bit wide; gates stand in front
of `$dff` and `$dffe` only, with or without feedback; one memory write port, no
read ports. `SmtAgreesWithSimulation` is about reset values that read the same
in base two and in base ten, modulo 2^width (`ResetIsReadAsMeant`). At the
widths of the run all of them do; the theorem `RelationsAgree` is about every
width, and the hypothesis is there because from four bits on it matters. Latches
and memories are left out of the comparison with the SMT relation.

### ModuleGraph

A netlist is a sequence of nets and a sequence of cells, whose ports are vectors
of bits. `AddNet` and `AddCell` are the first two loops of `populate_graph`;
then the target vertices are visited in turn (`NextTarget`): a source of exactly
the same bits is taken first (`ConnectWhole`), otherwise sources that share bits
are collected until every bit has one (`ConnectPart`; ports, nets and cell ports
in this order, each group in any order). `Follow` is `source_reachable`.
`Origins` and `DrivenBits` say what `export_verilog` takes from the graph: a bit
is assigned from the vertices before it that have it. Signatures (hashes of
vectors) are taken to be the vectors. Ports are inputs or outputs. `DrivenOnce`
and `AllDriven` are what a netlist owes the tool: no two cells drive the same
vector of bits and none drives an input port; and every bit comes from an input
port or from a cell. `MCModuleGraph` assumes both of its netlists, and two theorems
have one each as a hypothesis.

### InstantiationGraph and SmtUnrolling

A vertex is its place in the hierarchy and its name; the list `todo` is the call
stack of `populate_module`.

| Code | Model |
|---|---|
| `create_instance`: top module or the design in a testbench | `TopType`, `GraphInit` |
| `populate_module`: vertices, `connect_port`, nets of the edges | `Populate`, with `Drivers`, `Readers`, `Connected`, `Label` |
| `create_module_ports_vertices` | `Moved` (`InMoved`, then `OutMoved`) |
| `clear_vertex`, `remove_vertex` | `Cleared` |
| loop over the cells that are modules | `Submodules` |
| `propagate_net_pointers` | `Propagate`, one edge at a time in any order it allows, from the top ports backwards (`Searched`): an edge that leads to none of them keeps no net, and `create_instance` throws |
| end of `create_instance` | `Finish` |
| `export_smt2` for one time step | `Export`; `Refuse` when a port of a module cannot be exported |
| `get_port_expr`, `sort_expr_vector` | `BitOfNets`, `BitByBit` |
| `set_smt_signal_cell_*`, `set_smt_signal_module_port_*` | `CellReads`, `KeptReads`, `CellDrives`, `PortReads`, `PortDrives` |

The hash table `signature_to_net` has one order per call (`orders`). An
expression lists, bit by bit, the variables that can stand there: more than one
where the order of the edges decides. A variable is level, net and time step;
the textual name, which could make two nets one variable, is abstracted.

What a front end's netlist is like is stated of a design and assumed, where it is
needed, by theorems; `MCSmtUnrolling` assumes all of it of its designs.
`WellFormed`: the names of ports, cells and nets are keys (they are in Yosys' JSON,
which has them as keys of an object), an instance has the ports of its module, a
module has something in it and does not contain itself. `DrivenOnce`: a wire is
driven by one bit of one port. `PortsAreNets`: a net named like a port of the top
module is that port's. `AllDriven`: a wire that is read is driven, and a register
has one output. None of them restricts how modules nest or feed one another, which
nets there are, which of them overlap or in which order a hash table has them.

### SmtDesign, SmtValidation and SmtReplay

One register, one input, one output, all of one bit. A simulated value is the
set of values it may have, so x is the set of all. A translated design may have
one wrong or missing constraint (`TranslatedDesigns`): what a validation is for
is to notice. `SmtValidation` follows the loop over windows (`OpenWindow`,
`SkipWindow`, `Constrain` for each step, `Check`, `Unsatisfiable`, and the two
ends of the trace); the solver returns any model. It is assumed to decide: an
"unknown" takes the branch of unsat in the code (`smt.hpp:516`) and throws
"SMT Instance is not SAT", which is not modelled, so that "never rejected" means
by a solver that decides. `SmtReplay` goes the other
way: the initial blocks of the generated testbench (`ToggleClock`, `Release`,
`SetInputs`, `Finish`) run in any order when due at the same time, and the two
functions of `smt.hpp` then compare and ask for uniqueness (`Compare`,
`UniqueAssignment`). Simulator, dump and solver are external.

### EquivalenceClasses and QifaSmt

The unrolled design is any function from a situation (initial state and inputs)
and a secret to an output sequence. `MainSat`, `MainUnsat` and `MainUnknown` are
the answers of the main solver, which holds one copy of the design more than
classes were found; `IntermediateSat`, `IntermediateUnsat` and
`IntermediateUnknown` those of the solver that looks for one more secret in the
situation found. An unknown answer throws out of the call; the object and both
solvers live on, so the next `Call` starts from what was left, including a scope
that was never popped (`leaked`).

`EquivalenceClasses` knows nothing of solvers, copies and counters. It has a set
of witnesses that are distinguishable and never get fewer, and a verdict that is
"exact" only if no witness can be added in their situation.
`RefinesEquivalenceClasses` maps `classes` to the witnesses and the report to the
verdict.

## 3. The runs

| Run | Instance | Shows |
|---|---|---|
| `TagInjectionCampaign` | 2 ports, 8 bits, step 2, times 0..9, any random choice; last batch shorter than the reader's loop | tags in their window and at their time, for a whole step, unambiguous bits, one run per injection, nothing exported is lost, the missing lines are not reached, the campaign ends |
| `TagAnalysis` | 2 ports, 4 bits, times 0..3, every behaviour | reported flows = influences, tag counts exact but for one injection that may meet `$finish`, positive propagation answers are true |
| `PathSearch` | 4 vertices, 7 possible edges, 4 kinds each | simple walks, completeness of the backtracking, termination |
| `TaggedCells` | all cells, all gates, width up to 2, 2 memory words | tags follow tagged data, SMT = Verilog, tag rules sound, each with the exceptions named in section 2; tag rules exact on bits |
| `ModuleGraph` | 3 bits, 3 ways to drive them, every triple of nets over 5 vectors | every bit leads to its driver, no loop of nets, no driven net is assigned |
| `SmtUnrolling` | 722 designs: a register and an instance wired in every way, submodules that compute, pass through, are constant or nest; 2 time steps | graph = connections of the netlist; equations connect readers with drivers; no variable has two drivers |
| `SmtValidation` | 3 registers, 2 outputs, one wrong constraint or none, both clock phases and none, windows of 2 and 3, three lengths of trace | no false alarm; what is accepted agrees; the loop ends |
| `SmtReplay` | 3 registers, 2 outputs, one wrong constraint or none, 1 to 3 steps | no race; same states in simulator and solver; right translations pass; accepted outputs are forced |
| `QifaSmt` | 2 situations, 3 secrets, 3 outputs, limits 0, 2, 4, 2 calls | refinement of the abstract analysis, reports achieved and exact, calls return |
| `TagInjectionCoverage` | full resolution | finding: tag times that no file contains |
| `QifaHangs` | as `QifaSmt`, without the intermediate step | finding: a call that never returns |
| `SmtMismatch` | as `SmtValidation` | finding: an earlier mismatch is overwritten |

Why the bounds are enough. A campaign needs several ports (stagger of the bits),
several runs (reuse of bits), several items in a batch (distances), a first line
with a delay, a last batch that is short and a step longer than a tick; the
campaign has all of these, and the theorems below remove the bounds. In
`TagAnalysis` a batch has one item, so the two runs use the same bits; a tag can
be loaded, held, overwritten and re-injected with the same bit in another run.
(`TagCountIsExact` leaves one injection open where the last time step reads the
port. That its tag is the one of the step before, not yet cleared, needs a longer
batch or a shorter stimulus; theorem `TagCountExact` covers it.) The seven pairs of
`MCPathSearch` allow a self-loop, a cycle of two, a branch that rejoins, a dead
end and an output with a successor; again the theorems remove the bound. Two bits
are the least width at which words and bits differ in tag rules, and at which
per-bit blocks race; the tag rules distinguish words only by zero, equality and
parity, and theorems cover every width. Three nets over three bits are the least
that can overlap in a circle;
among them are aliases, a net of all bits, and output ports that are nets.
The designs of `MCSmtUnrolling` have an instance that feeds itself, two instances
in a chain inside an instance, swapped and repeated bits, constants in nets and
at ports, a testbench around the design, an output without a net. Two time steps
show the first (without registers) and one with a predecessor. A window of three
is the least in which a result is overwritten; traces that end at, before and
inside a window are among the lengths. Two situations are needed for the main
solver to leave the situation of the intermediate one, three secrets for a
second class to be found by either, and the second call for what the first left
behind; the theorems remove these bounds.

Deadlock is checked in the runs of `TagInjection`, `TagAnalysis`, `PathSearch`
and `TaggedCells`: ended searches and campaigns stutter explicitly (`Over`). The
other systems end, or wait for a call that may not come: `CHECK_DEADLOCK FALSE`.

Fairness: `WF_vars(Next)` in `TagInjection`, `TagAnalysis`, `PathSearch` and
`SmtValidation`: exporter, search and validation are sequential code that takes
its next step; the simulator runs until `$finish`. `QifaSmt` has weak fairness of
every step within a call (each answer of a solver as one disjunction: that it
answers is assumed, what is not), none of `Call`. The liveness properties are
`EveryRunIsDumped`, `SearchEnds`, `ValidationEnds` and `CallReturns`.

### Findings

1. `simulation.hpp:147` rounds the number of runs up "to ensure complete
   coverage", for batches of T items, but a batch has T - 1
   (`TagInjectionCoverage`).
2. `find_equivalence_classes` without the intermediate step never increments
   `instance_id` after the first instance: a design with two classes keeps it
   asking the same question (`QifaHangs`).
3. `smt_sim_validation` looks only at the last comparison of an output in a
   window (`SmtMismatch`).

### Deviations without a run

Met while modelling; the models do what the code does here, and the properties
above are stated so that they hold.

* `is_tag_propagated` (`signals_data_manager.cpp:638`) takes the first dump with
  *any* entry at the injection time; an entry of value 0 (the end of another tag,
  or the initial value) makes it throw for a tag that exists. It sees a tag at
  the target only when it changes at that very time (line 682).
* Path searches with a condition dereference an end iterator
  (`instantiation_graph.hpp:685`, `SelectNone`); the backward part tests the wrong
  end of its edges (line 636; theorem `BackwardNeverExtends`).
* `$sdff` and `$sdffe` read their reset value in base ten for the solver
  (`sdffe.hpp:117`, `stoi`) and in base two for the simulator: 0010 resets to 10
  instead of 2. The tests that compare the two have registers of two bits, where the
  base makes no difference. For values too long for an `int`, `stoi` throws.
* Tags are lost, where `doc/Definitions/text.tex:5` wants a tag propagated whenever the
  boolean difference is not 0, in these cases:
  `$aldff` and `$aldffe` store AD with tag 0 while D is X, though D is not what is
  stored (`aldff.hpp:96`, `aldffe.hpp:106`; `besideX`);
  cells with a block per bit keep one tag for the word, so that the last block to run
  drops the tags of the other bits (`dffsr.hpp:99`; `covers`);
  the tag memory of `$mem_v2` is written at every clock edge, the data only when
  enabled (`mem_v2.hpp:157`; `covers`);
  the tag of an enable counts while it is on only (`dffe.hpp:78`; equal controls);
  on words, `$or` blocks an operand's tag if the other has any 1 bit, and `$mux` that
  of its select line if the operands differ in an even number of bits (`or.hpp:50`,
  `mux.hpp:85`; `GateTracksWords`).
* QIFA: at the limit "There are n" may rest on the intermediate solver, which
  speaks of one situation (`qifa_smt.hpp:534`; hence `ExactBelowLimit`); several
  secret signals must all differ (line 349; hence `OneSecret`); the parameter
  `intermediate_step` counts if it is present, also if it is false (line 256).
* Validation: the last step of every window and an incomplete last window are not
  compared; a combinational output of a clocked design is compared one step late
  and can be rejected (hence `IsMoore`); `unroll_factor` 1 with registers throws.
* Unrolling: where a driver has no net of exactly its bits, bits of its other
  nets can be left without an equation, and an instance output of constants only
  leaves its readers unconstrained (hence `DriversHaveNets`); an instance output
  nobody reads makes the export throw (`Refuse`).

One tag for a word makes some of these approximations hard to avoid, and some may be
deliberate. They lose tags all the same: `TagCoversData` and `GateTagsAreSound` name
them as exceptions and say what holds beside them.

## 4. What is proved

All theorems are checked by TLAPS, for every value of the constants that the
`ASSUME`s of the modules allow: `ScheduleAssumption`, `InjectionAssumption`,
`AnalysisAssumption`, `PathAssumption`, `CellsAssumption`, `RegistersAssumption`,
`ModulesAssumption`, `DesignsAssumption`, `DesignAssumption`, `UnrollingAssumption`,
`TypesAssumption`, `ValidationAssumption`,
`ReplayAssumption` and `QifaAssumption`. They say which type a constant has and
that numbers are positive (`DesignsAssumption`: of a design, what its records and
sequences contain); TLC evaluates each of them. (`2 ^ TagSize \in Nat \ {0}`
is part of `ScheduleAssumption` because the provers have no theory of powers.) The
other hypotheses are stated in the theorems that need them:

* `DelaysFit`, for the campaign: `export_tags` uses the step the tag times were
  made with, and step and last time fit the delay field;
* `TagSize <= WordBits`, for `TagCountExact`: `getTagPattern` shifts by the number
  of the bit, which tells wider tags apart only by accident;
* `ModulesAreDrivenOnce`, for `DriversStayUnassigned`, and `ModulesAreAllDriven`,
  for `EveryBitIsDriven`: every netlist is `DrivenOnce`, or `AllDriven`. A bit
  that nothing drives has no source to be found: the code then leaves it as it is;
* `DesignsAreWellFormed`, for all theorems about the instance graph and the
  unrolling but `EquationsAreExported`; with it, that every design is `DrivenOnce`
  and `PortsAreNets` for `DriversHaveTheirVariables`, and `DrivenOnce` and
  `AllDriven` for `EquationsFollowTheNetlist` (section 2).

### The argument, module by module

* `TagAnalysis_proofs`, about the chain `TagSchedule`, `TagInjection`,
  `TagAnalysis`, in this order.
  *Schedule*: the batches are consecutive and within the tag times, bit positions
  lie in their port's slice and slicing gives `TagBit`, distinct (port, item)
  pairs have distinct bits. Division is the only non-linear part and is reduced to
  a few lemmas.
  *Campaign*: `FilesInvariant` first: the content of every file at every stage (an
  exported line is `TagLine` of its index). With it `CampaignInvariant`: in a
  simulation, `line` and `wake` are determined by the schedule, the registers hold
  exactly the line's slice, and every dump entry is either empty or the tags of
  one item at that item's time, in order. None of the properties is inductive by
  itself: the window of a tag says nothing of the reader's pending delay, and the
  dump nothing of the registers it is sampled from. From the invariant follow
  `TypeCorrect`, `TagsInWindow`, `TagsScheduled`, `BitsUnambiguous`,
  `InjectionsDisjoint`, `NoMissingLine`, `ExportedTagsDumped` and `TagsLast`.
  *Analysis*: `AnalysisInvariant` adds what the tag of the observed signal is at
  every time of every run (`TagAt`: the bits of the exported items whose input
  step is in `Influence`), and that the dump of the target has these values,
  from the time on at which an entry was made. From it `FlowsAreReal`,
  `InfluencesReported` and `PropagationIsReal`, for every behaviour of the signal.
  *Counting*: `TagCountExact` also needs to know what `$finish` can leave in the
  dump (`EndInv`): the tag of the last time step or, if the reader was due, the
  tags of the step before, all of them on ports that the signal loads. The sum
  over the runs is the number of pairs of a run and a bit found there
  (`SumCountsPairs`). Injections that reach the signal before the end map into
  these pairs one to one, and every pair is an injection that was made. The pairs
  that no such injection accounts for are of one port's bits in the last time step,
  and there is at most one: the item of that step or a stale one, never both,
  since no run begins with an item at the end (`FirstItemIsEarly`), so that an
  item there would follow the stale one in its own run, which the signal did not
  load (`EndIsOneStep`); nor two of a kind, as no injection is made twice
  (`OneIsLate`, `NoArrivalTwice`).
* `InstantiationGraph_proofs`, about `InstantiationGraph`, `SmtUnrolling` and
  `PathSearch`.
  *Graph*: that the edges are the connections of the instances unfolded so far is
  not inductive: it says nothing of the calls to come. `BuildInv` does: a call to
  come is for an instance not yet populated, one for each, whose vertex is there
  (`PlanInv`); an instance is populated, planned, or waits for the one around it
  (`UnfoldInv`); every edge is a connection of a populated instance whose ends are
  where they are by now (`EndIn`), and every such connection has one (`EdgeInv`).
  The step is `Populate`: it moves the ends at the vertex of the call to the ports
  inside it, and adds the edges of the new instance, which touch no other. When
  it can do nothing more all instances are unfolded (`AllAreUnfolded`: an instance
  not populated would be below one that is, level by level). From it
  `GraphConnectsTheNetlist`; and `NamedNetlistsAreBuilt`, since a net of exactly
  the bits of an end, which exists for every edge, is found in whatever order the
  hash table has the nets.
  *Equations*: `EquationsAreExported`: they are `ReadsAt` and `DrivesAt` of the
  built graph for the steps exported. What remains is about a built graph, not
  about steps. Each end of a connection has one vertex in it
  (`Home`); vertex and port determine the driver, and likewise the reader
  (`SameDriver`, `SameReader`, `SameEnd`). Hence the edges there are the
  connections of that end, and their nets are the first with the driver's bits,
  or else the reader's, or one that touches both. A variable is a net of a level,
  so two drivers equated with one bit of it are two drivers of one wire of one
  instance, which `DrivenOnce` excludes (`DriversHaveTheirVariables`). A reader's
  bit is driven in its instance, by `AllDriven`; where each driver has a net of its
  bits, the edge between them bears that net, so that the reader's variable is the
  driver's, at the time step the driver was exported for
  (`EquationsFollowTheNetlist`).
  *Paths*: `SearchInvariant`: the path is a walk over visited vertices, and every
  visited vertex off the path has all its usable successors visited. From it
  `PathsAreSimpleWalks` (after the initial edge, which each caller picks in its own
  way, all edges satisfy the condition of a search that has one) and
  `SearchIsComplete` (the set of visited vertices is the
  enclosing set when the search stops without an output), and
  `BackwardNeverExtends`, for every graph.
* `TaggedCells_proofs`: `CellsInvariant`: every stored word has its type, differs
  between the runs at the bits it covers only if it is tagged, is known where its
  cell cannot make it unknown, and behind a gate its tag belongs to all of its
  bits. `TagCoversData` alone is not inductive: with a gate that reads the word
  back, a tag of some bits would be read as the tag of the word. Words loaded
  beside an X are in the invariant with their type only: behind a gate, where their
  missing tag would be read back, there are none (`$dff` and `$dffe` alone have one).
  From it `TagsCoverData`; the tag rules of every gate but `$or` and `$mux` are
  sound for words of every width, those of `$or` and `$mux` for single bits
  (`GatesAreSound`), and on single bits all but `$eq` and `$pmux`, which take the
  union, are exact (`GatesAreExact`);
  `RelationsAgree` compares every clocked cell with its SMT relation, `$sdff` and
  `$sdffe` for reset values that read the same in base ten.
* `ModuleGraph_proofs`: `FollowingFacts` first, about any graph: `Follow`, which
  takes as many steps as there are vertices, has reached everything there is to
  reach, since a step without a new vertex is the last that could have found one.
  Hence an edge is in no loop exactly if some set closed under edges has its end
  and not its beginning, and such sets are exhibited for each way to add a vertex
  or an edge. `GraphInvariant` (edges join vertices, nets form no loop) is
  inductive with these lemmas, and gives `NetsAreLoopFree` for every netlist,
  legal or not. `DriversStayUnassigned` needs more: the edges made while nets and
  cells are added are of three kinds (`AliasEdge`, `DriverEdge`, `ReaderEdge`), a
  cell in the graph comes before the next one, and a target with bits left to
  connect has no driver (`TargetHasNoDriver`). A net that a cell drives is found
  among the plain nets first, hence no alias leads to it. `EveryBitIsDriven` is about
  what the other vertices can supply when a target is visited (`SourceInv`): every
  input and every output of a cell has a vertex; the vertex that carries a cell's
  output has the cell as its source and no other, so it is never among what
  follows the target, and stays eligible as a source of it: no bit remains for want
  of one (`SourceIsLeft`). So every vertex that has had its turn gets each of its
  bits from a vertex that has it, and going back from there must end
  (`NetsHaveAFirst`, as nets form no loop) at an input or at what a cell drives.
* `SmtReplay_proofs`: `ReplayInvariant` says where in its period each block of the
  testbench is (`Timetable`), which run of the design the register follows
  (`FollowsRun`) and what the two comparisons have established. From it `NoRace`,
  `FollowsTheModel`, `RightPasses` and `AcceptedIsForced`, for every number of
  unrolled steps.
* `SmtValidation_proofs`: `ValidationInvariant`: windows begin at multiples of the
  window length (`WindowsAreRegular`), the facts asserted are the simulated values
  at the edges gone through (`FactsInv`), and the windows passed agree
  (`AgreedInv`, which for designs without a clock also has to say what the inputs
  applied last have been compared with). `RightIsNeverRejected` constructs a
  model of the instance from the simulation, time step by time step, from values
  the simulation does not know; `AcceptedAgree` takes the solver's.
* `QifaSmt_proofs`: `SearchOfClassesInvariant`: the classes are apart in the
  situation found, their number is tied to `instance_id`, `copies` and the last
  result in each control state, and a report is tied to all of these. None of the
  properties is inductive: that a report is achievable after an unsatisfiable
  intermediate check depends on the classes found before `instance_id` was
  incremented. From it follow `QifaTypeCorrect`, `ReportsAreAchievable`,
  `ReportsCountClasses`, `ExactIsTrueBelowLimit` (n + 1 secrets cannot be told
  apart in any situation, hence no situation has more than n outputs) and
  `Refinement`: each step of the search is a step of `EquivalenceClasses` or a
  stutter, for every design, set of secrets and limits and any number of calls.
* `Induction`: the provers cannot instantiate the library's induction theorems,
  which take an operator. Here induction is stated of sets (a set of numbers that
  has 0 and is closed under successors has all of them), and folds of functions
  of functions (`IsFold`), from the least element of a set of numbers; a sum of
  cardinalities is such a fold.

### Only model-checked

* The liveness properties and fairness: `EveryRunIsDumped`, `SearchEnds`,
  `ValidationEnds`, `CallReturns`.

Every invariant of every passing run is stated by a theorem. The liveness
properties stay with TLC because fairness speaks of enabled steps, for which there
is no decision procedure among the provers.

## 5. Not modelled

* Pure I/O and formatting: parsers, wrappers of external tools, tables, the
  writers of Verilog and dot files from the instantiation graph; the drivers of
  the experiments.
* Testbench: the modes that tag differences of port pairs (`tagged_ports`) or a
  module's inner signals (`tagged_module_name`, which names fixed signals of one
  design).
* Data managers: signal lookup by name, toggle counts, counts over SMT models.
  Tags wider than 32 bits, which the README allows and `value_vector_to_uint32`
  rejects, are in the model as `InformationFlowsThrows`, without a property.
* Modules: parsing, copies and assignment (`module.hpp:79` repopulates a graph it
  does not clear), inout ports, clock checks.
* Unrolling: memories, the relations of gates, names of variables.
* Validation: `smt_sim_validation_bfs` and its fan-in search.
* Instance: statistics over paths and edges (`count_element_occurrences` never
  resets its flag, line 641).
* Tag generators: cache, hash keys and counters.
* Pipeline detection: a heuristic over names.

## 6. Plan

Done, in this order because every answer of the tool rests on it: schedule and
injection, analysis, path search, cells; QIFA with its abstract specification;
module graph, instantiation graph, unrolling; the two validations; the proofs
of section 4.

Next modules: `TagGenerator` (cache, keys and counter, as an implementation of
the free choice in `TagInjection`); the life cycle of `Module`; memories in
`SmtUnrolling`; `Gates` against their SMT relations.

Next theorems: what a selector that is asked for candidates outside of the
condition can return (`instantiation_graph.hpp:685`), once the callers' filters
are part of `PathSearch`; that `TagGenerator` implements the free choice.
