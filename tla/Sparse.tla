------------------------------- MODULE Sparse -------------------------------
(***************************************************************************)
(* sprite/sparse/sparse.c: writes an Android sparse image to the flash     *)
(* while it arrives in pieces.  Bytes of a piece that cannot be dealt with *)
(* yet are copied in front of the buffer, and the next piece is put behind *)
(* them; the callers leave room there (SPRITE_CARD_HEAD_BUFF).             *)
(*                                                                         *)
(* A byte of the image is its offset in the image; what a sector of the    *)
(* flash holds is the offset of its first byte.  Every round of the loop   *)
(* in unsparse_direct_write is a step.                                     *)
(***************************************************************************)
EXTENDS Integers, Sequences

CONSTANTS Images,                         \* the images that may be downloaded
          HeadSize, ChunkHead, FillSize,  \* the two headers and a fill value
          Sector, Low, High,              \* 512 bytes, 4K and 8K
          Half,                           \* 2^31
          Pieces, Headroom,               \* sizes of a piece; room in front of it
          MaxImages                       \* bound: images

-----------------------------------------------------------------------------
(* Images: blk is the block size; a chunk has a type, a number of blocks and *)
(* total_sz as it should be (good = 1) or not; the k-th one is at at[k] of   *)
(* the image and stands for what is at to[k] of the partition, and the last  *)
(* elements of at and to are where these end.  A chunk without blocks has no *)
(* data either: the decoder does not look at its type.                       *)

Size(img, c) == c.blocks * img.blk                     \* of what it stands for
DataSize(img, c) == CASE c.type = "raw"  -> Size(img, c)
                      [] c.type = "fill" -> FillSize
                      [] OTHER           -> 0
Stored(img, c) == ChunkHead + DataSize(img, c)
Offset(img, k) == img.at[k]                            \* of the k-th chunk
Length(img)    == Offset(img, Len(img.chunks) + 1)

ChunkTypes == [type : {"raw", "fill", "dont_care"}, blocks : Nat, good : {0, 1}]

(* Chunks follow each other, in the image and on the partition.              *)
IsImage(img) ==
  LET n == Len(img.chunks)
      Ends(f) == /\ f \in [1 .. n + 1 -> Nat]
                 /\ \A j, k \in 1 .. n + 1 : j <= k => f[j] <= f[k]
  IN  /\ img.blk \in Nat /\ img.chunks \in Seq(ChunkTypes)
      /\ Ends(img.at) /\ img.at[1] = HeadSize
      /\ Ends(img.to) /\ img.to[1] = 0
      /\ \A k \in 1 .. n :
           LET c == img.chunks[k]
           IN  /\ img.at[k + 1] = img.at[k] + Stored(img, c)
               /\ img.to[k + 1] = img.to[k] + Size(img, c)
               /\ Size(img, c) < Half
               /\ c.type = "fill" => Size(img, c) > 0

ASSUME SparseAssumption ==
  /\ HeadSize \in Nat \ {0} /\ ChunkHead \in Nat \ {0} /\ FillSize \in Nat \ {0}
  /\ Sector \in Nat \ {0} /\ Low \in Nat \ {0} /\ Low % Sector = 0
  /\ High \in Nat /\ High >= Low /\ High >= ChunkHead /\ High >= FillSize
  /\ Headroom \in Nat /\ Headroom >= High
  /\ Pieces \subseteq Nat /\ \A n \in Pieces : n >= HeadSize /\ n >= High
  /\ \E n \in Pieces : \A m \in Pieces : m <= n
  /\ Half \in Nat \ {0} /\ MaxImages \in Nat
  /\ \A img \in Images : IsImage(img)

Erased == <<"erased">>
Junk   == <<"junk">>

(* What the flash has to hold: the reference the decoder is checked against. *)
SectorsOf(img) == 0 .. (img.to[Len(img.chunks) + 1] \div Sector)
Covers(img, k, a) == img.to[k] <= a /\ a < img.to[k + 1]
Content(img, k, a) ==
  CASE img.chunks[k].type = "raw"  -> <<"raw", img.at[k] + ChunkHead + a - img.to[k]>>
    [] img.chunks[k].type = "fill" -> <<"fill", img.at[k] + ChunkHead>>
    [] OTHER                       -> Erased
Expand(img) ==
  [s \in SectorsOf(img) |->
     IF \E k \in DOMAIN img.chunks : Covers(img, k, s * Sector)
     THEN Content(img, CHOOSE k \in DOMAIN img.chunks : Covers(img, k, s * Sector), s * Sector)
     ELSE Erased]

-----------------------------------------------------------------------------

VARIABLES
  image, reference,     \* the image being downloaded, and what it stands for
  received,             \* bytes of it handed to unsparse_direct_write
  flash,                \* the sectors from android_format_flash_start on
  sparse_format_type, chunk_length, flash_start, last_rest_size,
  buf,                  \* memory around pbuf, which is at 0
  length,               \* size of the last piece
  tmp_buf, this_rest_size,
  pc,                   \* "none", "idle", "loop" or "failed"
  images

decoder == <<sparse_format_type, chunk_length, flash_start>>
vars == <<image, reference, received, flash, decoder, last_rest_size, buf, length,
          tmp_buf, this_rest_size, pc, images>>

LongestPiece == CHOOSE n \in Pieces : \A m \in Pieces : m <= n
Room == (-Headroom) .. LongestPiece - 1
NoImage == [blk |-> 1, chunks |-> <<>>, at |-> <<HeadSize>>, to |-> <<0>>]

Init == /\ image = NoImage /\ reference = Expand(NoImage)
        /\ received = 0 /\ flash = Expand(NoImage)
        /\ sparse_format_type = "TOTAL_HEAD" /\ chunk_length = 0 /\ flash_start = 0
        /\ last_rest_size = 0
        /\ buf = [i \in Room |-> -1]
        /\ length = 0 /\ tmp_buf = 0 /\ this_rest_size = 0
        /\ pc = "none" /\ images = 0

(* Of a partition: the area starts erased.  The download before may have     *)
(* been completed, given up between two pieces, or failed.                   *)
unsparse_probe(img) ==
  /\ pc # "loop" /\ images < MaxImages
  /\ images' = images + 1
  /\ image' = img /\ reference' = Expand(img)
  /\ received' = 0
  /\ flash' = [s \in SectorsOf(img) |-> Erased]
  /\ sparse_format_type' = "TOTAL_HEAD" /\ chunk_length' = 0 /\ flash_start' = 0
  /\ last_rest_size' = 0
  /\ length' = 0 /\ tmp_buf' = 0 /\ this_rest_size' = 0
  /\ buf' = [i \in Room |-> -1]
  /\ pc' = "idle"

Left == Length(image) - received

(* The callers read pieces of one size, and what is left in the end. *)
PieceSizes == {n \in Pieces : n < Left} \cup
              (IF \E n \in Pieces : Left <= n THEN {Left} ELSE {})

(* The piece goes behind what the last call left over. *)
unsparse_direct_write(n) ==
  /\ pc = "idle" /\ Left > 0
  /\ buf' = [i \in Room |-> IF i \in 0 .. (n - 1) THEN received + i ELSE buf[i]]
  /\ received' = received + n
  /\ length' = n
  /\ this_rest_size' = last_rest_size + n
  /\ tmp_buf' = -last_rest_size
  /\ last_rest_size' = 0
  /\ pc' = "loop"
  /\ UNCHANGED <<image, reference, flash, decoder, images>>

(* Of the buffer only what is kept in front of it counts from now on. *)
Return == /\ pc = "loop" /\ this_rest_size <= 0
          /\ buf' = [i \in Room |-> IF i \in (-last_rest_size) .. (-1) THEN buf[i] ELSE -1]
          /\ pc' = "idle" /\ length' = 0 /\ tmp_buf' = 0
          /\ UNCHANGED <<image, reference, received, flash, decoder, last_rest_size,
                         this_rest_size, images>>

At(t) == pc = "loop" /\ this_rest_size > 0 /\ sparse_format_type = t

Fail == /\ pc' = "failed"
        /\ UNCHANGED <<image, reference, received, flash, decoder, last_rest_size,
                       buf, length, tmp_buf, this_rest_size, images>>

(* Mutant: the rest goes to the start of the room. *)
CarryToStart(from, n) ==
  /\ buf' = [i \in Room |-> IF i \in (-Headroom) .. (n - 1 - Headroom)
                            THEN buf[from + Headroom + i] ELSE buf[i]]
  /\ last_rest_size' = n

(* Put the n bytes at from in front of the buffer. *)
Carry(from, n) ==
  /\ buf' = [i \in Room |-> IF i \in (-n) .. (-1) THEN buf[from + n + i] ELSE buf[i]]
  /\ last_rest_size' = n

(* Nothing of this piece can be dealt with now. *)
Wait == /\ Carry(tmp_buf, this_rest_size)
        /\ this_rest_size' = 0
        /\ UNCHANGED <<image, reference, received, flash, decoder, length, tmp_buf,
                       pc, images>>

(* The bytes at i: one offset after the other, from the returned one on. *)
Whole(i, n) == \A k \in 0 .. (n - 1) : buf[i + k] = buf[i] + k

(* sunxi_sprite_write of n sectors at flash_start, from address a. *)
Burn(a, n) ==
  flash' = [s \in DOMAIN flash |->
              LET i == a + (s - flash_start) * Sector
              IN  IF s \notin flash_start .. (flash_start + n - 1) THEN flash[s]
                  ELSE IF Whole(i, Sector) THEN <<"raw", buf[i]>> ELSE Junk]

(* n bytes that are not whole sectors: the check comes after the write. *)
FailUnaligned(n) ==
  /\ Burn(tmp_buf, n \div Sector)
  /\ pc' = "failed"
  /\ UNCHANGED <<image, reference, received, decoder, last_rest_size, buf, length, tmp_buf,
                 this_rest_size, images>>

Advance(n) == tmp_buf' = tmp_buf + n /\ this_rest_size' = this_rest_size - n

(* Mutant: the pointer is not moved past the header. *)
TotalHeadLate == /\ At("TOTAL_HEAD")
                 /\ this_rest_size' = this_rest_size - HeadSize
                 /\ sparse_format_type' = "CHUNK_HEAD"
                 /\ UNCHANGED <<image, reference, received, flash, chunk_length, flash_start,
                                tmp_buf, last_rest_size, buf, length, pc, images>>

TotalHead == /\ At("TOTAL_HEAD")
             /\ Advance(HeadSize)
             /\ sparse_format_type' = "CHUNK_HEAD"
             /\ UNCHANGED <<image, reference, received, flash, chunk_length, flash_start,
                            last_rest_size, buf, length, pc, images>>

-----------------------------------------------------------------------------
(* CHUNK_HEAD *)

ShortHead == At("CHUNK_HEAD") /\ this_rest_size < ChunkHead /\ Wait

(* The chunk whose header is at tmp_buf. *)
AtHead(k) == /\ At("CHUNK_HEAD") /\ this_rest_size >= ChunkHead
             /\ k \in DOMAIN image.chunks
             /\ buf[tmp_buf] = Offset(image, k) /\ Whole(tmp_buf, ChunkHead)

BadChunk(k) == /\ AtHead(k)
               /\ image.chunks[k].good = 0 /\ Size(image, image.chunks[k]) # 0
               /\ Fail

(* What follows the header: an empty chunk is skipped before its type is     *)
(* looked at.                                                                *)
Behind(c) == IF Size(image, c) = 0 \/ c.type = "dont_care" THEN "CHUNK_HEAD"
             ELSE IF c.type = "raw" THEN "CHUNK_DATA" ELSE "CHUNK_FILL_DATA"

(* Mutant: the flash is not advanced past an area that is not cared for. *)
ChunkNotSkipped(k) ==
  /\ AtHead(k)
  /\ LET c == image.chunks[k]
     IN  /\ c.good = 1 \/ Size(image, c) = 0
         /\ chunk_length' = Size(image, c)
         /\ sparse_format_type' = Behind(c)
         /\ UNCHANGED flash_start
  /\ Advance(ChunkHead)
  /\ UNCHANGED <<image, reference, received, flash, last_rest_size, buf, length, pc, images>>

Chunk(k) ==
  /\ AtHead(k)
  /\ LET c == image.chunks[k]
     IN  /\ c.good = 1 \/ Size(image, c) = 0
         /\ chunk_length' = Size(image, c)
         /\ sparse_format_type' = Behind(c)
         /\ flash_start' = (IF c.type = "dont_care"
                            THEN flash_start + Size(image, c) \div Sector ELSE flash_start)
  /\ Advance(ChunkHead)
  /\ UNCHANGED <<image, reference, received, flash, last_rest_size, buf, length, pc, images>>

-----------------------------------------------------------------------------
(* CHUNK_DATA *)

AsInt(n) == ((n + Half) % (2 * Half)) - Half           \* an unsigned in an int
unenough_length == IF chunk_length >= this_rest_size
                   THEN AsInt(chunk_length - this_rest_size) ELSE 0

Complete == At("CHUNK_DATA") /\ unenough_length = 0
Partial  == At("CHUNK_DATA") /\ unenough_length # 0 /\ this_rest_size >= High
Aligned(n) == n % Sector = 0

WriteChunk == /\ Complete /\ Aligned(chunk_length)
              /\ Burn(tmp_buf, chunk_length \div Sector)
              /\ flash_start' = flash_start + chunk_length \div Sector
              /\ Advance(chunk_length)
              /\ chunk_length' = 0 /\ sparse_format_type' = "CHUNK_HEAD"
              /\ UNCHANGED <<image, reference, received, last_rest_size, buf, length, pc,
                             images>>

(* Mutant: everything is kept until the chunk is complete. *)
FewBytesAlways == /\ At("CHUNK_DATA") /\ unenough_length # 0
                  /\ Wait

FewBytes == /\ At("CHUNK_DATA") /\ unenough_length # 0 /\ this_rest_size < High
            /\ Wait

(* Mutant: what is left of the piece is not kept. *)
WritePartDropsRest(n) ==
  /\ Burn(tmp_buf, n \div Sector)
  /\ flash_start' = flash_start + n \div Sector
  /\ chunk_length' = chunk_length - n
  /\ tmp_buf' = tmp_buf + n /\ this_rest_size' = 0
  /\ UNCHANGED <<image, reference, received, sparse_format_type, last_rest_size, buf,
                 length, pc, images>>

(* Write n bytes of the chunk and keep what is left of the piece. *)
WritePart(n) ==
  /\ Burn(tmp_buf, n \div Sector)
  /\ flash_start' = flash_start + n \div Sector
  /\ chunk_length' = chunk_length - n
  /\ Carry(tmp_buf + n, this_rest_size - n)
  /\ tmp_buf' = tmp_buf + n /\ this_rest_size' = 0
  /\ UNCHANGED <<image, reference, received, sparse_format_type, length, pc, images>>

(* Less than 4K are missing: leave 4K for the next time.  With chunks of     *)
(* less than 2^31 bytes the size is positive.                                *)
SpliceSize == this_rest_size + unenough_length - Low
Splice == /\ Partial /\ unenough_length < Low
          /\ \/ Aligned(SpliceSize) /\ WritePart(SpliceSize)
             \/ ~Aligned(SpliceSize) /\ FailUnaligned(SpliceSize)

(* More are missing: write all whole sectors. *)
WriteSectors == /\ Partial /\ unenough_length >= Low
                /\ WritePart((this_rest_size \div Sector) * Sector)

Unaligned == Complete /\ ~Aligned(chunk_length) /\ FailUnaligned(chunk_length)

-----------------------------------------------------------------------------
(* CHUNK_FILL_DATA *)

FillHere == At("CHUNK_FILL_DATA") /\ this_rest_size >= FillSize
(* Mutant: the loop waits for the value where it is. *)
ShortFillSpins == At("CHUNK_FILL_DATA") /\ this_rest_size < FillSize /\ UNCHANGED vars

ShortFill == At("CHUNK_FILL_DATA") /\ this_rest_size < FillSize /\ Wait

(* In pieces of 4K. *)
FillSectors == (chunk_length \div Low) * (Low \div Sector)

Fill == /\ FillHere /\ Aligned(chunk_length)
        /\ flash' = [s \in DOMAIN flash |->
                       IF s \notin flash_start .. (flash_start + FillSectors - 1) THEN flash[s]
                       ELSE IF Whole(tmp_buf, FillSize) THEN <<"fill", buf[tmp_buf]>> ELSE Junk]
        /\ flash_start' = flash_start + FillSectors
        /\ Advance(FillSize)
        /\ sparse_format_type' = "CHUNK_HEAD"
        /\ UNCHANGED <<image, reference, received, chunk_length, last_rest_size, buf, length,
                       pc, images>>

UnalignedFill == FillHere /\ ~Aligned(chunk_length) /\ Fail

(* sunxi_sprite_write returns 0; the caller gives the image up. *)
WriteFails == (Complete \/ Partial \/ FillHere) /\ Fail

Loop == \/ TotalHead \/ ShortHead \/ WriteChunk \/ FewBytes \/ Splice
        \/ WriteSectors \/ Unaligned \/ Fill \/ ShortFill \/ UnalignedFill
        \/ \E k \in DOMAIN image.chunks : Chunk(k) \/ BadChunk(k)
        \/ Return

Next == \/ \E img \in Images : unsparse_probe(img)
        \/ \E n \in PieceSizes : unsparse_direct_write(n)
        \/ Loop \/ WriteFails

Spec == Init /\ [][Next]_vars /\ WF_vars(Loop)
-----------------------------------------------------------------------------
(* Properties *)

(* The variables have their types, and the bytes still to be dealt with are  *)
(* exactly those from tmp_buf to the end of the piece.                       *)
TypeOK ==
  /\ sparse_format_type \in {"TOTAL_HEAD", "CHUNK_HEAD", "CHUNK_DATA", "CHUNK_FILL_DATA"}
  /\ chunk_length \in 0 .. (2 * Half - 1) /\ flash_start \in DOMAIN flash
  /\ pc \in {"none", "idle", "loop", "failed"}
  /\ received \in 0 .. Length(image)
  /\ DOMAIN flash = DOMAIN reference
  /\ this_rest_size >= 0
  /\ pc = "loop" /\ this_rest_size > 0 => /\ tmp_buf \in Room
                                         /\ tmp_buf + this_rest_size = length

Finished == pc = "idle" /\ received = Length(image)

(* However the image was cut into pieces, the flash holds what it stands for *)
(* when the last call has returned 0: unless a fill chunk is no multiple of  *)
(* 4K, or a chunk that is not cared for no multiple of a sector.  The end of *)
(* such a chunk is not passed on the flash, and all that comes after it goes *)
(* to the wrong place.                                                       *)
WholeAreas == \A k \in DOMAIN image.chunks :
  LET c == image.chunks[k]
  IN  /\ c.type = "fill" => Size(image, c) % Low = 0
      /\ c.type = "dont_care" => Aligned(Size(image, c))
ImageIsWritten == Finished /\ WholeAreas => flash = reference

(* Before that no sector ever gets bytes that do not belong there. *)
OnlyItsData == pc # "failed" /\ WholeAreas =>
                 \A s \in DOMAIN flash : flash[s] \in {Erased, reference[s]}

(* The decoder never takes data for a header: where it expects a header there *)
(* is one.                                                                   *)
InStep == At("CHUNK_HEAD") /\ this_rest_size >= ChunkHead
            => \E k \in DOMAIN image.chunks : AtHead(k)

(* What is left over fits in front of the buffer the callers provide, and    *)
(* nothing is left over from a complete image.                               *)
RestFits == last_rest_size <= Headroom /\ (Finished => last_rest_size = 0)

(* Every call returns. *)
CallReturns == pc = "loop" ~> pc # "loop"
=============================================================================
