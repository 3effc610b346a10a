-------------------------- MODULE MC_ConfigStore --------------------------
(* Instances of ConfigStore for TLC.                                       *)
EXTENDS ConfigStore, TLC

\* Every policy of the YAML file differs from what is there while rows are missing.
MCYaml == [p \in Policies |-> [f \in Fields |-> CHOOSE v \in Values : v # NoRows]]

\* Forms that save one field.
MCPatches == UNION {[{f} -> Values] : f \in Fields}

Symmetry == Permutations(Routes) \cup Permutations(Clients)
===========================================================================
