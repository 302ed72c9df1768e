---------------------------- MODULE MCSecretStore ----------------------------
(* SecretStore for TLC.                                                      *)
EXTENDS SecretStore, TLC

CONSTANT LargeNumber    \* an object with a number that float64 cannot hold

InFloat64(o) == IF o = LargeNumber THEN CHOOSE other \in Object : other # o ELSE o

Symmetry == Permutations(Call) \cup Permutations(Builder)
=============================================================================
