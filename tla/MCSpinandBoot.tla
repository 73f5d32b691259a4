---------------------------- MODULE MCSpinandBoot ----------------------------
(* A small chip: two blocks for boot0, five for the boot package, of which a *)
(* package takes two: two copies and a spare block.                          *)
EXTENDS SpinandBoot, TLC

MCBlksOf == [v \in Images |-> IF v \in Uboots THEN 2 ELSE 1]
Symm == Permutations(Uboots)
=============================================================================
