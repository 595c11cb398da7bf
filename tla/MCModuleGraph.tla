--------------------------- MODULE MCModuleGraph ---------------------------
(* Netlists over three bits: who drives the bits, then a net of the input  *)
(* port if there is one, three nets of any overlap, and a cell that reads. *)
EXTENDS ModuleGraph

MCVectors == {<<1>>, <<1, 2>>, <<2, 3>>, <<3, 1>>, <<1, 2, 3>>}

Out(bits) == <<[bits |-> bits, dir |-> "output"]>>
In(bits) == [bits |-> bits, port |-> "input"]

MCDrivers ==
  {[inputs |-> <<>>,          cells |-> <<Out(<<1>>), Out(<<2>>), Out(<<3>>)>>],
   [inputs |-> <<>>,          cells |-> <<Out(<<1, 2>>), Out(<<3>>)>>],
   [inputs |-> <<In(<<1>>)>>, cells |-> <<Out(<<2, 3>>)>>]}

MCNets == [bits : MCVectors, port : {"none", "output"}]

MCReaders == {<<[bits |-> <<2>>, dir |-> "input"], [bits |-> <<3, 0, 1>>, dir |-> "input"]>>}

MCModules ==
  {[nets |-> d.inputs \o n, cells |-> Append(d.cells, r)] :
     d \in MCDrivers, n \in [1 .. 3 -> MCNets], r \in MCReaders} \cup
  {[nets |-> n \o d.inputs, cells |-> Append(d.cells, r)] :
     d \in MCDrivers, n \in [1 .. 3 -> MCNets], r \in MCReaders}

ASSUME MCModulesAreDriven == \A m \in MCModules : DrivenOnce(m) /\ AllDriven(m)
=============================================================================
