----------------------------- MODULE FileLayout -----------------------------
(***************************************************************************)
(* Where the blocks of a file are (fs.h): NDIRECT addresses in its inode,  *)
(* NINDIRECT more in the block that a last address leads to.               *)
(***************************************************************************)
EXTENDS Integers

CONSTANTS NDIRECT, NINDIRECT

ASSUME LayoutAssumption == NDIRECT \in Nat /\ NINDIRECT \in Nat

MAXFILE == NDIRECT + NINDIRECT
=============================================================================
