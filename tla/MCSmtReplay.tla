----------------------------- MODULE MCSmtReplay -----------------------------
(* Instances of SmtReplay: three registers, a state and a bypass output.   *)
EXTENDS SmtReplay

MCInputs == {0, 1}

(* load; set and hold; reset and toggle                                    *)
MCNexts ==
  {[a \in Bit \X MCInputs |-> a[2]],
   [a \in Bit \X MCInputs |-> IF a[2] = 1 THEN 1 ELSE a[1]],
   [a \in Bit \X MCInputs |-> IF a[2] = 1 THEN 0 ELSE 1 - a[1]]}

(* the register; the register and the input                                *)
MCOuts ==
  {[a \in Bit \X MCInputs |-> a[1]],
   [a \in Bit \X MCInputs |-> a[1] * a[2]]}
=============================================================================
