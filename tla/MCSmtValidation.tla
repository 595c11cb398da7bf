--------------------------- MODULE MCSmtValidation ---------------------------
(* Instances of SmtValidation: three registers with two outputs, inputs    *)
(* that are unknown at the first edge at most.                             *)
EXTENDS SmtValidation

MCInputs == {0, 1}

(* load; set and hold; reset and toggle                                    *)
MCNexts ==
  {[a \in Bit \X MCInputs |-> a[2]],
   [a \in Bit \X MCInputs |-> IF a[2] = 1 THEN 1 ELSE a[1]],
   [a \in Bit \X MCInputs |-> IF a[2] = 1 THEN 0 ELSE 1 - a[1]]}

(* the register; its inverse, overridden by the input                       *)
MCOuts ==
  {[a \in Bit \X MCInputs |-> a[1]],
   [a \in Bit \X MCInputs |-> IF a[2] = 1 THEN 1 ELSE 1 - a[1]]}

MCStimuli ==
  UNION {{s \in [1 .. n -> {{0}, {1}, MCInputs}] :
            \A c \in 2 .. n : s[c] # MCInputs} : n \in 2 .. 5}
=============================================================================
