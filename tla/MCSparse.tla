------------------------------ MODULE MCSparse ------------------------------
(* Images for Sparse: a sector is 2 bytes, 4K are 4, 8K are 8.              *)
EXTENDS Sparse, SequencesExt

C(t, n) == [type |-> t, blocks |-> n, good |-> 1]
Image(blk, chunks) ==
  LET img == [blk |-> blk, chunks |-> chunks]
      Ends(first, f(_, _)) ==
        [k \in 1 .. Len(chunks) + 1 |-> FoldLeft(LAMBDA n, c : n + f(img, c), first,
                                                 SubSeq(chunks, 1, k - 1))]
  IN  [blk |-> blk, chunks |-> chunks, at |-> Ends(HeadSize, Stored), to |-> Ends(0, Size)]

(* Long and short raw chunks before, between and after the other kinds. *)
GoodImages ==
  {Image(4, <<C("raw", 6), C("dont_care", 2), C("fill", 2), C("raw", 1)>>),
   Image(4, <<C("fill", 1), C("raw", 4), C("raw", 0), C("raw", 3), C("dont_care", 1)>>),
   Image(8, <<C("dont_care", 1), C("raw", 3), C("fill", 1), C("raw", 1), C("raw", 1)>>)}

(* Images the decoder gives up: blocks that are no multiple of a sector, and *)
(* a chunk whose size does not fit its type.                                 *)
BadImages ==
  {Image(3, <<C("raw", 1)>>), Image(3, <<C("raw", 5)>>), Image(3, <<C("fill", 1)>>),
   Image(3, <<C("dont_care", 1), C("raw", 2), C("fill", 4)>>),
   Image(4, <<C("raw", 2), [C("raw", 3) EXCEPT !.good = 0], C("fill", 1)>>)}

(* Blocks of one sector: a chunk need not be a multiple of 4K. *)
SmallBlocks == {Image(2, <<C("raw", 2), C("fill", 3), C("raw", 1)>>),
                Image(2, <<C("raw", 5), C("fill", 2), C("raw", 3)>>)}

AllImages == GoodImages \cup BadImages \cup SmallBlocks

MCPieces == 8 .. 13
=============================================================================
