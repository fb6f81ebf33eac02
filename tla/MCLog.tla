------------------------------- MODULE MCLog -------------------------------
(***************************************************************************)
(* Log on small instances: processes and blocks are sets of model values,  *)
(* given in the configurations.                                            *)
(***************************************************************************)
EXTENDS Log, TLC

\* Processes and blocks are only compared for equality: the instances that
\* check safety alone, with no block in WriteThrough, may permute them.
LogSymmetry == Permutations(Ops) \cup Permutations(Blocks)
=============================================================================
