--------------------------- MODULE MCSmtUnrolling ---------------------------
(***************************************************************************)
(* Designs for SmtUnrolling: a register and an instance of S side by side, *)
(* wired in every way, with nets that overlap, lack or rename their bits.  *)
(* S passes its input through, computes, is constant, or holds another     *)
(* instance.                                                               *)
(***************************************************************************)
EXTENDS SmtUnrolling

Port(name, dir, bits) == [name |-> name, dir |-> dir, bits |-> bits]
Cell(name, type, ports) == [name |-> name, type |-> type, ports |-> ports]
Net(name, bits) == [name |-> name, bits |-> bits]
Module(ports, cells, nets) == [ports |-> ports, cells |-> cells, nets |-> nets]

Inner == Module(
  <<Port("x", "input", <<2>>), Port("y", "output", <<3>>)>>,
  <<Cell("n", "gate", <<Port("A", "input", <<2>>), Port("Y", "output", <<3>>)>>)>>,
  <<Net("x", <<2>>), Net("y", <<3>>)>>)

Ps == Port("p", "input", <<2, 3>>)
Subs == {
  Module(<<Ps, Port("q", "output", <<3>>)>>, <<>>, <<Net("p", <<2, 3>>), Net("q", <<3>>)>>),
  Module(<<Ps, Port("q", "output", <<4>>)>>,
         <<Cell("g", "gate", <<Port("A", "input", <<3, 2>>), Port("Y", "output", <<4>>)>>)>>,
         <<Net("p", <<2, 3>>), Net("h", <<4>>), Net("q", <<4>>)>>),
  Module(<<Ps, Port("q", "output", <<1>>)>>, <<>>, <<Net("p", <<2, 3>>), Net("q", <<1>>)>>),
  Module(<<Ps, Port("q", "output", <<5>>)>>,
         <<Cell("i", "L", <<Port("x", "input", <<3>>), Port("y", "output", <<4>>)>>),
           Cell("j", "L", <<Port("x", "input", <<4>>), Port("y", "output", <<5>>)>>)>>,
         <<Net("p", <<2, 3>>), Net("m", <<4>>), Net("q", <<5>>)>>)}

(* The register drives 4 and 5, the instance drives 6.                     *)
Own == <<Net("r", <<4, 5>>), Net("u", <<6>>)>>
NetChoices == {
  Own, <<Net("c", <<6>>), Net("m", <<5, 6>>)>> \o Own,
  <<Net("u", <<6>>), Net("s", <<4>>), Net("t", <<5>>)>>,
  <<Net("t", <<5>>), Net("m", <<4, 6>>)>>,
  <<Net("u", <<6>>), Net("s", <<4>>), Net("k", <<1>>), Net("t", <<5>>)>>,
  <<Net("r", <<4, 5>>)>>}

Design(sub, uIn, rIn, oBits, nets) ==
  [top |-> "T",
   modules |-> [T |-> Module(
       <<Port("a", "input", <<2, 3>>), Port("o", "output", oBits)>>,
       <<Cell("r", "reg", <<Port("D", "input", rIn), Port("Q", "output", <<4, 5>>)>>),
         Cell("u", "S", <<Port("p", "input", uIn), Port("q", "output", <<6>>)>>)>>,
       <<Net("a", <<2, 3>>)>> \o nets \o <<Net("o", oBits)>>),
     S |-> sub, L |-> Inner]]

(* The same under a testbench, or with an output that has no net           *)
UnderTestbench(d) ==
  [top |-> "TB",
   modules |-> [m \in DOMAIN d.modules \cup {"TB"} |->
     IF m = "TB" THEN Module(<<>>, <<Cell("dut", "T", <<>>)>>, <<>>) ELSE d.modules[m]]]

WithoutNets(d) == [d EXCEPT !.modules["T"].nets = <<Net("a", <<2, 3>>)>>]

Mixed == {Design(sub, uIn, rIn, oBits, nets) :
            sub \in Subs, uIn \in {<<4, 5>>, <<6, 2>>, <<6, 5>>, <<4, 0>>, <<4, 4>>},
            rIn \in {<<2, 3>>, <<6, 5>>}, oBits \in {<<4, 6>>, <<6>>, <<5, 3>>},
            nets \in NetChoices}
One == CHOOSE d \in Mixed : TRUE
MCDesigns == Mixed \cup {UnderTestbench(One), WithoutNets(One)}

(* The theorems assume it.                                                 *)
ASSUME MCDesignsAreWellFormed ==
  \A d \in MCDesigns : WellFormed(d) /\ DrivenOnce(d) /\ PortsAreNets(d) /\ AllDriven(d)
=============================================================================
