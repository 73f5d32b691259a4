--------------------------- MODULE MCSpinandSecSto ---------------------------
(* Chips on which nothing fails, whose torn pages fail their checksum or are *)
(* at or beyond the limit of the ECC; one with a failing operation that      *)
(* spoils pages; and one with a failing operation and a power cut, which     *)
(* leave a block partly erased or partly programmed.                         *)
EXTENDS SpinandSecSto, TLC

MCChips == {[torn |-> {"sum"}, cuts |-> 2, fails |-> 0],
            [torn |-> {"bare"}, cuts |-> 2, fails |-> 0],
            [torn |-> {"ecc"}, cuts |-> 2, fails |-> 0],
            [torn |-> {"limit"}, cuts |-> 2, fails |-> 0],
            [torn |-> {"ecc", "limit"}, cuts |-> 1, fails |-> 0],
            [torn |-> {"ecc"}, cuts |-> 0, fails |-> 1],
            [torn |-> {}, cuts |-> 1, fails |-> 1]}

(* The values are told apart by nothing. *)
Symm == Permutations(Values)
=============================================================================
