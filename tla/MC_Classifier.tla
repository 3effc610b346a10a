---------------------------- MODULE MC_Classifier ----------------------------
(* An instance of Classifier for TLC: an input without signals, one that      *)
(* matches rules, one with a picture; the model is sure, unsure or wrong.     *)
EXTENDS Classifier

MCPlain(text) ==
  [text |-> text, hint |-> "none", image |-> FALSE, tool |-> FALSE, matches |-> {}]

MCInputs ==
  {MCPlain(1), [MCPlain(2) EXCEPT !.matches = {"sql", "long"}],
   [MCPlain(3) EXCEPT !.image = TRUE]}

MCOutputs ==
  {[task |-> "coding", confidence |-> 120], [task |-> "coding", confidence |-> 40],
   [task |-> "junk", confidence |-> 90]}
==============================================================================
