-------------------------- MODULE EquivalenceClasses --------------------------
(***************************************************************************)
(* What a quantitative information flow analysis promises, however it      *)
(* searches. Two secrets are in different classes if some initial state    *)
(* and input sequence (a situation) makes the outputs differ. The analysis *)
(* holds witnesses: secrets that are pairwise distinguishable in one       *)
(* situation. It never returns fewer than before, and it answers "exact"   *)
(* only if no further secret is distinguishable from all its witnesses in  *)
(* their situation. A fresh object has no witness: there "exact" says that *)
(* no two secrets can be told apart at all.                                *)
(***************************************************************************)
EXTENDS Integers, Sequences

CONSTANTS Situations, Secrets, Outputs

VARIABLES
  out,       (* the design: out[situation][secret] is what is observed     *)
  situation, (* the situation of the witnesses                             *)
  witnesses,
  verdict,   (* "none", "exact" or "open"                                  *)
  sound      (* no call has been abandoned                                 *)

vars == <<out, situation, witnesses, verdict, sound>>

Distinguishable(s, w) ==
  \A i, j \in DOMAIN w : i # j => out[s][w[i]] # out[s][w[j]]

(* No secret can be added to w in situation s.                             *)
Complete(s, w) == \A x \in Secrets : \E i \in DOMAIN w : out[s][x] = out[s][w[i]]

Indistinguishable == \A s \in Situations : \A x, y \in Secrets : out[s][x] = out[s][y]

Maximal == IF witnesses = <<>> THEN Indistinguishable ELSE Complete(situation, witnesses)

Init ==
  /\ out \in [Situations -> [Secrets -> Outputs]]
  /\ situation \in Situations
  /\ witnesses = <<>>
  /\ verdict = "none"
  /\ sound = TRUE

Search ==
  /\ verdict' = "none"
  /\ situation' \in Situations
  /\ witnesses' \in Seq(Secrets)
  /\ Len(witnesses') >= Len(witnesses)
  /\ Distinguishable(situation', witnesses')
  /\ sound' \in {sound, FALSE}
  /\ UNCHANGED out

Answer ==
  /\ verdict' \in {"exact", "open"}
  /\ verdict' = "exact" /\ sound => Maximal
  /\ UNCHANGED <<out, situation, witnesses, sound>>

Next == Search \/ Answer

Spec == Init /\ [][Next]_vars
===============================================================================
