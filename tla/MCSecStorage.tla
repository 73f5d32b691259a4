---------------------------- MODULE MCSecStorage ----------------------------
(***************************************************************************)
(* SecStorage for TLC.  No definition tells one name or one value from     *)
(* another, so both sets are symmetric.                                    *)
(***************************************************************************)
EXTENDS SecStorage, TLC

Symmetry == Permutations(Names) \cup Permutations(Values)
=============================================================================
