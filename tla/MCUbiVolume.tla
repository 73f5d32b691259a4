----------------------------- MODULE MCUbiVolume -----------------------------
(* Two partitions: one that ends inside its second erase block, and one that *)
(* is smaller than an erase block.                                           *)
EXTENDS UbiVolume

CONSTANTS a, b

(* No MTD part in the MBR, and one before both. *)
MCLayouts == {[v \in Vol |-> v], [v \in Vol |-> IF v = a THEN NoVol ELSE a]}

MCSects == [v \in Vol |-> IF v = a THEN 4 ELSE 2]
=============================================================================
