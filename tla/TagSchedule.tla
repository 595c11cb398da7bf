----------------------------- MODULE TagSchedule -----------------------------
(***************************************************************************)
(* The arithmetic of a tag injection campaign: which tag times exist, how  *)
(* they are cut into simulation runs, and which bit of which line of a     *)
(* tag file stands for which (port, time) pair.                            *)
(*                                                                         *)
(* Sources: include/ducode/utility/simulation.hpp (the schedule) and       *)
(* src/ducode/testbench.cpp (the layout of a tag line, as export_tags      *)
(* writes it and as the generated testbench slices it).                    *)
(*                                                                         *)
(* Definitions marked "mutant", here and in the other modules, are no part *)
(* of the model: each is a plausible mistake in the definition after it,   *)
(* there to see that a property notices.                                   *)
(***************************************************************************)
EXTENDS Integers

CONSTANTS
  NumInputs,     (* number of input ports of the top module                *)
  TagSize,       (* params["tag_size"], the width of one tag in bits       *)
  Stepsize,      (* the step the tag times are generated with              *)
  LastTime       (* the last timestamp of the recorded stimulus            *)

(* With fewer than two tags per port a batch is empty, and export_tags      *)
(* reads the first element of an empty vector; such a configuration has no *)
(* defined behaviour and is excluded. (That a power of two is positive is   *)
(* stated because the provers have no theory of exponentiation.)           *)
ASSUME ScheduleAssumption ==
  /\ NumInputs \in Nat \ {0}
  /\ TagSize \in Nat \ {0}
  /\ Stepsize \in Nat \ {0}
  /\ LastTime \in Nat \ {0}
  /\ 2 * NumInputs <= TagSize
  /\ 2 ^ TagSize \in Nat \ {0}

Ports == 0 .. NumInputs - 1
Bits == 0 .. TagSize - 1

-----------------------------------------------------------------------------
(* The schedule.                                                           *)

(* get_timesteps_per_simulation_run                                        *)
TimestepsPerRun ==
  IF TagSize \div NumInputs >= 1 THEN TagSize \div NumInputs ELSE 1

(* get_number_of_simulation_runs: last / stepsize / timesteps, rounded up  *)
NumberOfRuns ==
  (LastTime + Stepsize * TimestepsPerRun - 1) \div (Stepsize * TimestepsPerRun)

Runs == 0 .. NumberOfRuns - 1

(* get_tags_times: 0, s, 2s, ... up to and including LastTime              *)
NumTagTimes == LastTime \div Stepsize + 1
TagTime(k) == k * Stepsize

(* get_exported_tags_vec: the r-th batch is the half-open index interval   *)
(* BatchStart(r) .. BatchEnd(r) - 1 of the tag times. One line of the file *)
(* holds the initial delay, so a batch has one item less than a run has    *)
(* timesteps.                                                              *)
ItemsPerBatch == TimestepsPerRun - 1
BatchStartRepeatingLast(r) == IF r = 0 THEN 0 ELSE r * ItemsPerBatch - 1  (* mutant *)
BatchStart(r) == r * ItemsPerBatch
BatchEnd(r) ==
  IF (r + 1) * ItemsPerBatch <= NumTagTimes THEN (r + 1) * ItemsPerBatch
                                            ELSE NumTagTimes
BatchSize(r) == BatchEnd(r) - BatchStart(r)
ItemTime(r, idx) == TagTime(BatchStart(r) + idx)

-----------------------------------------------------------------------------
(* The layout of a line: NumInputs port fields of TagSize bits, port 0 in  *)
(* the most significant one, above the delay field in the low TagSize bits.*)

LineBits == NumInputs * TagSize + TagSize
DelayRange == 2 ^ TagSize

BitPositionWithoutStagger(idx, p) ==                                      (* mutant *)
  (LineBits - TagSize) - p * TagSize + idx * NumInputs
BitPositionByLine(idx, p) ==                                              (* mutant *)
  (LineBits - TagSize) - (p * TagSize - p) + idx

(* export_tags: the bit that tags port p in the idx-th line of a batch     *)
BitPosition(idx, p) ==
  (LineBits - TagSize) - (p * TagSize - p) + idx * NumInputs

(* write_testbench_internals: the slice [PortHigh : PortLow] of port p     *)
PortHigh(p) == TagSize * (NumInputs + 1) - 1 - TagSize * p
PortLow(p) == PortHigh(p) - (TagSize - 1)
Slice(bits, p) ==
  {b - PortLow(p) : b \in {c \in bits : PortLow(p) <= c /\ c <= PortHigh(p)}}

TaggedBits(idx, tagged) == {BitPosition(idx, p) : p \in tagged}

(* The bit of the port's own tag that this is meant to be                  *)
TagBit(idx, p) == p + idx * NumInputs

(* boost::dynamic_bitset(LineBits, value): the binary digits of value from *)
(* bit 0 up. Digits beyond the delay field land in the port fields, digits *)
(* beyond the line are dropped.                                            *)
BinaryOnes(x) == {k \in 0 .. x - 1 : (x \div 2 ^ k) % 2 = 1}
NewLine(value) ==
  [delay |-> value % DelayRange,
   bits  |-> {b \in {TagSize + k : k \in BinaryOnes(value \div DelayRange)} :
                b < LineBits}]
=============================================================================
