---------------------------- MODULE MCActiveRowTx ----------------------------
(* ActiveRowTx for TLC.                                                      *)
EXTENDS ActiveRowTx, TLC

\* Requests and keys are told apart only by equality.  Used in safety runs.
Symmetry == Permutations(Request) \cup Permutations(Key)
=============================================================================
