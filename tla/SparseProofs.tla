---------------------------- MODULE SparseProofs ----------------------------
(***************************************************************************)
(* Theorems about Sparse, for all images with chunks of less than 2^31     *)
(* bytes, every way to cut them into pieces, all sizes of the headers and  *)
(* of a sector, and every number of images.                                *)
(***************************************************************************)
EXTENDS Sparse, TLAPS

NChunks == Len(image.chunks)

(* The offset in the image of the next byte to be dealt with. *)
Pos == received - last_rest_size - this_rest_size

Types ==
  /\ IsImage(image) /\ reference = Expand(image)
  /\ flash = [s \in SectorsOf(image) |-> flash[s]]
  /\ received \in 0 .. Length(image) /\ length \in 0 .. LongestPiece
  /\ tmp_buf \in Int /\ this_rest_size \in Nat /\ last_rest_size \in 0 .. Headroom
  /\ chunk_length \in 0 .. Half - 1 /\ flash_start \in SectorsOf(image)
  /\ sparse_format_type \in {"TOTAL_HEAD", "CHUNK_HEAD", "CHUNK_DATA", "CHUNK_FILL_DATA"}
  /\ pc \in {"none", "idle", "loop", "failed"}

(* The bytes from tmp_buf on are those that follow in the image, and so are  *)
(* those put in front of the buffer.  Something is put there only if more of *)
(* the image is to come.                                                     *)
Bytes ==
  /\ pc = "loop" /\ this_rest_size > 0 =>
       /\ last_rest_size = 0 /\ -Headroom <= tmp_buf /\ tmp_buf + this_rest_size = length
       /\ \A j \in tmp_buf .. (length - 1) : buf[j] = received - length + j
  /\ pc \in {"idle", "loop"} /\ this_rest_size = 0 =>
       \A j \in (-last_rest_size) .. (-1) : buf[j] = received + j
  /\ last_rest_size > 0 => received < Length(image)
  /\ pc \in {"none", "idle"} => this_rest_size = 0

(* The flash is written up to offset p of what the image stands for. *)
Placed(p) ==
  /\ flash_start * Sector <= p
  /\ WholeAreas => /\ flash_start * Sector = p
                   /\ \A s \in SectorsOf(image) :
                        flash[s] = IF s < flash_start THEN reference[s] ELSE Erased

(* The decoder expects what comes next in the image, and the flash is        *)
(* written as far as the image has been dealt with.                          *)
Heading == /\ Pos = 0 /\ Placed(0)
           /\ pc = "loop" => this_rest_size >= HeadSize
           /\ pc = "idle" => received = 0
AtChunk(k) == Pos = image.at[k] /\ Placed(image.to[k])
InData(k) == /\ image.chunks[k].type = "raw"
             /\ chunk_length > 0 /\ chunk_length <= Size(image, image.chunks[k])
             /\ Pos + chunk_length = image.at[k + 1]
             /\ Placed(image.to[k + 1] - chunk_length)
InFill(k) == /\ image.chunks[k].type = "fill"
             /\ chunk_length = Size(image, image.chunks[k])
             /\ Pos + FillSize = image.at[k + 1]
             /\ Placed(image.to[k])

Expected ==
  /\ sparse_format_type = "TOTAL_HEAD" => Heading
  /\ sparse_format_type = "CHUNK_HEAD" => \E k \in 1 .. NChunks + 1 : AtChunk(k)
  /\ sparse_format_type = "CHUNK_DATA" => \E k \in 1 .. NChunks : InData(k)
  /\ sparse_format_type = "CHUNK_FILL_DATA" => \E k \in 1 .. NChunks : InFill(k)

SparseInv == /\ Types /\ Bytes
             /\ pc \in {"idle", "loop"} => Expected
             /\ pc = "none" => flash = reference

-----------------------------------------------------------------------------
(* Arithmetic *)

LEMMA DivMod ==
  ASSUME NEW s \in Nat \ {0}, NEW a \in Nat
  PROVE  /\ a \div s \in Nat /\ a % s \in 0 .. s - 1 /\ a % s \in Nat
         /\ a = (a \div s) * s + (a % s)
OBVIOUS

LEMMA DivExact ==
  ASSUME NEW s \in Nat \ {0}, NEW a \in Nat, a % s = 0
  PROVE  a \div s \in Nat /\ (a \div s) * s = a
OBVIOUS

LEMMA DivBelow ==
  ASSUME NEW s \in Nat \ {0}, NEW a \in Nat, NEW q \in Nat, q * s <= a
  PROVE  q <= a \div s
<1> DEFINE d == a \div s
<1>1. d \in Nat /\ a < (d + 1) * s
  OBVIOUS
<1> HIDE DEF d
<1>2. q * s < (d + 1) * s
  BY <1>1
<1>3. q < d + 1
  BY <1>1, <1>2
<1> QED
  BY <1>1, <1>3 DEF d

LEMMA Below == \A a, b, c \in Nat : a = b + c => b <= a
OBVIOUS

LEMMA MultMono ==
  ASSUME NEW s \in Nat \ {0}, NEW p \in Nat, NEW q \in Nat
  PROVE  (p <= q <=> p * s <= q * s) /\ (p < q <=> p * s < q * s) /\ p * s \in Nat
OBVIOUS

LEMMA Distribute ==
  ASSUME NEW s \in Nat, NEW p \in Int, NEW q \in Int
  PROVE  (p - q) * s = p * s - q * s /\ (p + q) * s = p * s + q * s /\ p * s \in Int
OBVIOUS

(* An unsigned below 2^31 is the same number as an int. *)
LEMMA SmallInt ==
  ASSUME NEW x \in 0 .. Half - 1
  PROVE  AsInt(x) = x
<1>1. Half \in Nat \ {0}
  BY SparseAssumption
<1>2. x + Half \in 0 .. 2 * Half - 1
  BY <1>1
<1>3. \A m \in Nat \ {0} : \A y \in 0 .. m - 1 : y % m = y
  OBVIOUS
<1>4. 2 * Half \in Nat \ {0}
  BY <1>1
<1>5. (x + Half) % (2 * Half) = x + Half
  BY <1>2, <1>3, <1>4
<1> QED
  BY <1>1, <1>5 DEF AsInt

-----------------------------------------------------------------------------
(* Images *)

LEMMA ImageFacts ==
  ASSUME NEW img, IsImage(img)
  PROVE  LET n == Len(img.chunks)
         IN  /\ n \in Nat /\ DOMAIN img.chunks = 1 .. n
             /\ img.blk \in Nat
             /\ img.at \in [1 .. n + 1 -> Nat] /\ img.at[1] = HeadSize
             /\ img.to \in [1 .. n + 1 -> Nat] /\ img.to[1] = 0
             /\ \A j, k \in 1 .. n + 1 : j <= k => img.at[j] <= img.at[k] /\ img.to[j] <= img.to[k]
BY DEF IsImage

LEMMA ChunkFacts ==
  ASSUME NEW img, IsImage(img), NEW k \in 1 .. Len(img.chunks)
  PROVE  /\ k + 1 \in 1 .. Len(img.chunks) + 1 /\ k \in 1 .. Len(img.chunks) + 1
         /\ img.chunks[k].type \in {"raw", "fill", "dont_care"}
         /\ img.chunks[k].good \in {0, 1}
         /\ Size(img, img.chunks[k]) \in 0 .. Half - 1
         /\ img.at[k + 1] = img.at[k] + Stored(img, img.chunks[k])
         /\ img.to[k + 1] = img.to[k] + Size(img, img.chunks[k])
         /\ img.chunks[k].type = "fill" => Size(img, img.chunks[k]) > 0
         /\ img.chunks[k].type = "raw" => Stored(img, img.chunks[k]) = ChunkHead + Size(img, img.chunks[k])
         /\ img.chunks[k].type = "fill" => Stored(img, img.chunks[k]) = ChunkHead + FillSize
         /\ img.chunks[k].type = "dont_care" => Stored(img, img.chunks[k]) = ChunkHead
<1> DEFINE n == Len(img.chunks)
           c == img.chunks[k]
<1>1. n \in Nat /\ img.blk \in Nat /\ img.chunks \in Seq(ChunkTypes)
  BY DEF IsImage
<1>2. c \in ChunkTypes
  BY <1>1
<1>3. c.type \in {"raw", "fill", "dont_care"} /\ c.blocks \in Nat /\ c.good \in {0, 1}
  BY <1>2 DEF ChunkTypes
<1>4. /\ img.at[k + 1] = img.at[k] + Stored(img, c)
      /\ img.to[k + 1] = img.to[k] + Size(img, c)
      /\ Size(img, c) < Half
      /\ c.type = "fill" => Size(img, c) > 0
  BY Zenon DEF IsImage
<1>5. Size(img, c) \in Nat
  BY <1>1, <1>3 DEF Size
<1>6. Half \in Nat /\ ChunkHead \in Nat /\ FillSize \in Nat
  BY SparseAssumption
<1>7. k + 1 \in 1 .. n + 1 /\ k \in 1 .. n + 1
  BY <1>1
<1>8. /\ c.type = "raw" => Stored(img, c) = ChunkHead + Size(img, c)
      /\ c.type = "fill" => Stored(img, c) = ChunkHead + FillSize
      /\ c.type = "dont_care" => Stored(img, c) = ChunkHead
  BY <1>5, <1>6 DEF Stored, DataSize
<1>9. Size(img, c) \in 0 .. Half - 1
  BY <1>4, <1>5, <1>6
<1> QED
  BY <1>3, <1>4, <1>7, <1>8, <1>9, Zenon

(* Different chunks have their headers at different places. *)
LEMMA HeadsDiffer ==
  ASSUME NEW img, IsImage(img),
         NEW j \in 1 .. Len(img.chunks) + 1, NEW k \in 1 .. Len(img.chunks) + 1, j < k
  PROVE  img.at[j] + ChunkHead <= img.at[k]
<1> DEFINE n == Len(img.chunks)
<1>1. /\ n \in Nat /\ img.at \in [1 .. n + 1 -> Nat]
      /\ \A i, l \in 1 .. n + 1 : i <= l => img.at[i] <= img.at[l]
  BY ImageFacts, Zenon
<1>2. j \in 1 .. n /\ j + 1 \in 1 .. n + 1 /\ j + 1 <= k
  BY <1>1
<1>3. img.at[j + 1] <= img.at[k]
  BY <1>1, <1>2, Zenon
<1>4. img.at[j + 1] = img.at[j] + Stored(img, img.chunks[j])
  BY <1>2, ChunkFacts, Zenon
<1>5. ChunkHead \in Nat /\ FillSize \in Nat /\ Size(img, img.chunks[j]) \in Nat
  BY <1>2, ChunkFacts, SparseAssumption
<1>6. Stored(img, img.chunks[j]) \in Nat /\ Stored(img, img.chunks[j]) >= ChunkHead
  BY <1>5 DEF Stored, DataSize
<1>7. img.at[j] \in Nat /\ img.at[k] \in Nat /\ img.at[j + 1] \in Nat
  BY <1>1, <1>2, Zenon
<1>8. \A x, y, z, h, d \in Nat : z = x + d /\ d >= h /\ z <= y => x + h <= y
  OBVIOUS
<1> QED
  BY <1>3, <1>4, <1>5, <1>6, <1>7, <1>8, Zenon

(* What the reference has in a sector that lies in the k-th chunk, and behind *)
(* the last one.                                                             *)
LEMMA RefInChunk ==
  ASSUME NEW img, IsImage(img), NEW k \in 1 .. Len(img.chunks), NEW s \in SectorsOf(img),
         Covers(img, k, s * Sector)
  PROVE  Expand(img)[s] = Content(img, k, s * Sector)
<1> DEFINE n == Len(img.chunks)
           a == s * Sector
<1>1. /\ n \in Nat /\ DOMAIN img.chunks = 1 .. n /\ img.to \in [1 .. n + 1 -> Nat]
      /\ \A i, l \in 1 .. n + 1 : i <= l => img.to[i] <= img.to[l]
  BY ImageFacts, Zenon
<1>2. a \in Int
  BY <1>1, SparseAssumption DEF SectorsOf
<1> HIDE DEF a
<1>3. ASSUME NEW j \in 1 .. n, Covers(img, j, a) PROVE j = k
  <2>1. j + 1 \in 1 .. n + 1 /\ k + 1 \in 1 .. n + 1 /\ j \in 1 .. n + 1 /\ k \in 1 .. n + 1
    BY <1>1
  <2>2. /\ img.to[j] \in Nat /\ img.to[j + 1] \in Nat /\ img.to[k] \in Nat /\ img.to[k + 1] \in Nat
        /\ j + 1 <= k => img.to[j + 1] <= img.to[k]
        /\ k + 1 <= j => img.to[k + 1] <= img.to[j]
    BY <1>1, <2>1, Zenon
  <2>3. img.to[j] <= a /\ a < img.to[j + 1] /\ img.to[k] <= a /\ a < img.to[k + 1]
    BY <1>3, Zenon DEF Covers, a
  <2>4. \A x, y \in Int : x <= a /\ a < y => ~(y <= x)
    BY <1>2
  <2>5. Nat \subseteq Int /\ j \in Int /\ k \in Int
    BY <1>1
  <2>6. ~(j + 1 <= k) /\ ~(k + 1 <= j)
    BY <2>2, <2>3, <2>4, <2>5, Zenon
  <2> QED
    BY <2>5, <2>6
<1>4. Covers(img, k, a)
  BY Zenon DEF a
<1>5. (CHOOSE j \in DOMAIN img.chunks : Covers(img, j, a)) = k
  BY <1>1, <1>3, <1>4
<1>6. Expand(img)[s] = IF \E j \in DOMAIN img.chunks : Covers(img, j, a)
                       THEN Content(img, CHOOSE j \in DOMAIN img.chunks : Covers(img, j, a), a)
                       ELSE Erased
  BY Zenon DEF Expand, a
<1>7. \E j \in DOMAIN img.chunks : Covers(img, j, a)
  BY <1>1, <1>4, Zenon
<1>8. Expand(img)[s] = Content(img, k, a)
  BY <1>5, <1>6, <1>7, Zenon
<1> QED
  BY <1>8, Zenon DEF a

LEMMA RefBehind ==
  ASSUME NEW img, IsImage(img), NEW s \in SectorsOf(img),
         img.to[Len(img.chunks) + 1] <= s * Sector
  PROVE  Expand(img)[s] = Erased
<1> DEFINE n == Len(img.chunks)
           a == s * Sector
<1>1. /\ n \in Nat /\ DOMAIN img.chunks = 1 .. n /\ img.to \in [1 .. n + 1 -> Nat]
      /\ \A i, l \in 1 .. n + 1 : i <= l => img.to[i] <= img.to[l]
  BY ImageFacts, Zenon
<1>2. a \in Int
  BY <1>1, SparseAssumption DEF SectorsOf
<1>3. img.to[n + 1] <= a
  OBVIOUS
<1> HIDE DEF a
<1>4. ASSUME NEW j \in 1 .. n PROVE ~Covers(img, j, a)
  <2>1. j + 1 \in 1 .. n + 1 /\ n + 1 \in 1 .. n + 1 /\ j + 1 <= n + 1
    BY <1>1
  <2>2. img.to[j + 1] \in Nat /\ img.to[n + 1] \in Nat /\ img.to[j + 1] <= img.to[n + 1]
    BY <1>1, <2>1, Zenon
  <2> QED
    BY <1>2, <1>3, <2>2 DEF Covers
<1>5. Expand(img)[s] = IF \E j \in DOMAIN img.chunks : Covers(img, j, a)
                       THEN Content(img, CHOOSE j \in DOMAIN img.chunks : Covers(img, j, a), a)
                       ELSE Erased
  BY Zenon DEF Expand, a
<1> QED
  BY <1>1, <1>4, <1>5, Zenon

LEMMA NoImageIsOne == IsImage(NoImage) /\ NoImage.to[Len(NoImage.chunks) + 1] = 0
<1>1. HeadSize \in Nat
  BY SparseAssumption
<1>2. Len(NoImage.chunks) = 0 /\ NoImage.chunks \in Seq(ChunkTypes)
  BY DEF NoImage
<1>3. /\ NoImage.at \in [1 .. 1 -> Nat] /\ NoImage.at[1] = HeadSize
      /\ NoImage.to \in [1 .. 1 -> Nat] /\ NoImage.to[1] = 0 /\ NoImage.blk \in Nat
  BY <1>1 DEF NoImage
<1>4. \A j, k \in 1 .. 1 : j <= k => NoImage.at[j] <= NoImage.at[k] /\ NoImage.to[j] <= NoImage.to[k]
  BY <1>1, <1>3
<1> QED
  BY <1>2, <1>3, <1>4 DEF IsImage

-----------------------------------------------------------------------------
(* The flash *)

LEMMA Bounds ==
  ASSUME NEW img, IsImage(img), NEW k \in 1 .. Len(img.chunks) + 1
  PROVE  /\ img.at[k] \in Nat /\ img.to[k] \in Nat /\ Length(img) \in Nat
         /\ img.to[Len(img.chunks) + 1] \in Nat
         /\ img.at[k] <= Length(img) /\ img.to[k] <= img.to[Len(img.chunks) + 1]
<1> DEFINE n == Len(img.chunks)
<1>1. /\ n \in Nat /\ img.at \in [1 .. n + 1 -> Nat] /\ img.to \in [1 .. n + 1 -> Nat]
      /\ \A i, l \in 1 .. n + 1 : i <= l => img.at[i] <= img.at[l] /\ img.to[i] <= img.to[l]
  BY ImageFacts, Zenon
<1>2. n + 1 \in 1 .. n + 1 /\ k <= n + 1
  BY <1>1
<1>3. img.at[k] <= img.at[n + 1] /\ img.to[k] <= img.to[n + 1]
  BY <1>1, <1>2, Zenon
<1>4. img.at[k] \in Nat /\ img.to[k] \in Nat /\ img.at[n + 1] \in Nat /\ img.to[n + 1] \in Nat
  BY <1>1, <1>2, Zenon
<1> QED
  BY <1>3, <1>4, Zenon DEF Length, Offset

LEMMA OnFlash ==
  ASSUME NEW img, IsImage(img), NEW f \in Nat, f * Sector <= img.to[Len(img.chunks) + 1]
  PROVE  f \in SectorsOf(img)
<1>1. 1 \in 1 .. Len(img.chunks) + 1
  BY ImageFacts
<1>2. img.to[Len(img.chunks) + 1] \in Nat
  BY <1>1, Bounds, Zenon
<1>3. f <= img.to[Len(img.chunks) + 1] \div Sector
  BY <1>2, DivBelow, SparseAssumption, Zenon
<1>4. img.to[Len(img.chunks) + 1] \div Sector \in Nat
  BY <1>2, DivMod, SparseAssumption, Zenon
<1> QED
  BY <1>3, <1>4 DEF SectorsOf

LEMMA SectorIsNat == ASSUME NEW img, IsImage(img), NEW s \in SectorsOf(img) PROVE s \in Nat
BY DEF SectorsOf

LEMMA Longest == LongestPiece \in Pieces /\ LongestPiece \in Nat /\ \A m \in Pieces : m <= LongestPiece
<1>1. \E n \in Pieces : \A m \in Pieces : m <= n
  BY SparseAssumption
<1>2. LongestPiece \in Pieces /\ \A m \in Pieces : m <= LongestPiece
  BY <1>1 DEF LongestPiece
<1> QED
  BY <1>2, SparseAssumption

LEMMA Numbers ==
  /\ HeadSize \in Nat \ {0} /\ ChunkHead \in Nat \ {0} /\ FillSize \in Nat \ {0}
  /\ Sector \in Nat \ {0} /\ Low \in Nat \ {0} /\ High \in Nat /\ Headroom \in Nat
  /\ High >= Low /\ High >= ChunkHead /\ High >= FillSize /\ Headroom >= High
  /\ Half \in Nat \ {0} /\ LongestPiece \in Nat
BY SparseAssumption, Longest

LEMMA TypeFacts ==
  ASSUME Types
  PROVE  /\ IsImage(image) /\ NChunks \in Nat
         /\ received \in Nat /\ Length(image) \in Nat /\ received <= Length(image)
         /\ length \in Nat /\ tmp_buf \in Int /\ this_rest_size \in Nat
         /\ last_rest_size \in Nat /\ last_rest_size <= Headroom
         /\ chunk_length \in Nat /\ chunk_length < Half
         /\ flash_start \in Nat /\ DOMAIN flash = SectorsOf(image)
<1>1. IsImage(image) /\ flash_start \in SectorsOf(image)
  BY Zenon DEF Types
<1>2. NChunks \in Nat
  BY <1>1, ImageFacts, Zenon DEF NChunks
<1>3. 1 \in 1 .. Len(image.chunks) + 1
  BY <1>2 DEF NChunks
<1>4. Length(image) \in Nat
  BY <1>1, <1>3, Bounds, Zenon
<1>5. flash_start \in Nat
  BY <1>1, SectorIsNat, Zenon
<1>6. /\ received \in 0 .. Length(image) /\ length \in 0 .. LongestPiece /\ tmp_buf \in Int
      /\ this_rest_size \in Nat /\ last_rest_size \in 0 .. Headroom /\ chunk_length \in 0 .. Half - 1
  BY Zenon DEF Types
<1>7. /\ received \in Nat /\ received <= Length(image) /\ length \in Nat
      /\ last_rest_size \in Nat /\ last_rest_size <= Headroom
      /\ chunk_length \in Nat /\ chunk_length < Half
  BY <1>4, <1>6, Numbers
<1>8. DOMAIN flash = SectorsOf(image)
  BY Zenon DEF Types
<1> QED
  BY <1>1, <1>2, <1>4, <1>5, <1>6, <1>7, <1>8, Zenon

(* The flash is written on from where it was. *)
LEMMA GrowPlaced ==
  ASSUME Types, NEW p \in Nat, Placed(p), NEW m \in Nat, NEW q \in Nat,
         p + m * Sector <= q, WholeAreas => p + m * Sector = q,
         flash_start' = flash_start + m, image' = image, reference' = reference,
         \A s \in SectorsOf(image) :
            IF s \in flash_start .. (flash_start + m - 1)
            THEN WholeAreas => flash'[s] = reference[s] ELSE flash'[s] = flash[s]
  PROVE  Placed(q)'
<1>0. flash_start \in Nat /\ IsImage(image) /\ Sector \in Nat \ {0}
  BY SectorIsNat, SparseAssumption, Zenon DEF Types
<1>1. /\ (flash_start + m) * Sector = flash_start * Sector + m * Sector
      /\ flash_start * Sector \in Nat /\ m * Sector \in Nat
  BY <1>0, Distribute
<1>2. flash_start * Sector <= p
  BY Zenon DEF Placed
<1>3. (flash_start + m) * Sector <= q
  BY <1>1, <1>2
<1>4. ASSUME WholeAreas
      PROVE  /\ (flash_start + m) * Sector = q
             /\ \A s \in SectorsOf(image) :
                  flash'[s] = IF s < flash_start + m THEN reference[s] ELSE Erased
  <2>1. /\ flash_start * Sector = p
        /\ \A s \in SectorsOf(image) :
             flash[s] = IF s < flash_start THEN reference[s] ELSE Erased
    BY <1>4, Zenon DEF Placed
  <2>2. ASSUME NEW s \in SectorsOf(image)
        PROVE  flash'[s] = IF s < flash_start + m THEN reference[s] ELSE Erased
    <3>1. s \in Nat
      BY <1>0, SectorIsNat, Zenon
    <3>2. CASE s \in flash_start .. (flash_start + m - 1)
      BY <1>0, <1>4, <3>1, <3>2
    <3>3. CASE s \notin flash_start .. (flash_start + m - 1)
      BY <1>0, <2>1, <3>1, <3>3
    <3> QED
      BY <3>2, <3>3, Zenon
  <2> QED
    BY <1>1, <1>4, <2>1, <2>2
<1>5. WholeAreas' <=> WholeAreas
  BY DEF WholeAreas
<1> QED
  BY <1>3, <1>4, <1>5, Zenon DEF Placed

(* Where sector s of a write of m sectors at f is in the buffer. *)
LEMMA SectorInWrite ==
  ASSUME NEW z \in Nat \ {0}, NEW f \in Nat, NEW s \in Nat, NEW m \in Nat, f <= s, s + 1 <= f + m
  PROVE  /\ (s - f) * z \in Nat /\ s * z = f * z + (s - f) * z /\ (s - f) * z + z <= m * z
         /\ f * z \in Nat /\ s * z \in Nat /\ m * z \in Nat
<1>1. s - f \in Nat /\ (s - f) + 1 \in Nat /\ (s - f) + 1 <= m
  OBVIOUS
<1>2. (s - f) * z = s * z - f * z
  BY Distribute
<1>3. ((s - f) + 1) * z <= m * z
  BY <1>1, MultMono
<1>4. ((s - f) + 1) * z = (s - f) * z + z
  BY <1>1, Distribute
<1>5. f * z \in Nat /\ s * z \in Nat /\ m * z \in Nat /\ (s - f) * z \in Nat
  BY <1>1
<1> QED
  BY <1>2, <1>3, <1>4, <1>5

LEMMA InChunk ==
  \A p, d, w, z \in Nat : \A x \in Nat \ {0} : d + x <= w /\ w <= z => p <= p + d /\ p + d < p + z
OBVIOUS

LEMMA Between == \A f, m, s \in Nat : s \in f .. (f + m - 1) => f <= s /\ s + 1 <= f + m
OBVIOUS

(* m sectors of the k-th chunk are written from tmp_buf on. *)
Reads == /\ tmp_buf + this_rest_size = length
         /\ \A j \in tmp_buf .. (length - 1) : buf[j] = received - length + j
Inside(k, p, m) == /\ image.chunks[k].type = "raw"
                   /\ image.to[k] <= p /\ p + m * Sector <= image.to[k + 1]
                   /\ m * Sector <= this_rest_size
                   /\ received - this_rest_size = image.at[k] + ChunkHead + p - image.to[k]

LEMMA ReadsAt ==
  ASSUME Types, Reads, NEW i \in Int, NEW n \in Nat \ {0}, tmp_buf <= i, i + n <= length
  PROVE  Whole(i, n) /\ buf[i] = received - length + i
<1>0. received \in Nat /\ length \in Nat /\ tmp_buf \in Int
  BY TypeFacts, Zenon
<1>1. i \in tmp_buf .. (length - 1) /\ \A j \in 0 .. (n - 1) : i + j \in tmp_buf .. (length - 1)
  BY <1>0
<1>2. buf[i] = received - length + i
  BY <1>1, Zenon DEF Reads
<1>3. ASSUME NEW j \in 0 .. (n - 1) PROVE buf[i + j] = buf[i] + j
  <2>1. buf[i + j] = received - length + (i + j)
    BY <1>1, Zenon DEF Reads
  <2> QED
    BY <1>0, <1>2, <2>1
<1> QED
  BY <1>2, <1>3, Zenon DEF Whole

LEMMA ReadsWhole ==
  ASSUME Types, Reads, NEW n \in Nat \ {0}, n <= this_rest_size
  PROVE  Whole(tmp_buf, n) /\ buf[tmp_buf] = received - this_rest_size
<1>0. /\ received \in Nat /\ this_rest_size \in Nat /\ length \in Nat /\ tmp_buf \in Int
      /\ tmp_buf + this_rest_size = length
  BY TypeFacts, Zenon DEF Reads
<1>1. tmp_buf <= tmp_buf /\ tmp_buf + n <= length
  BY <1>0
<1>2. Whole(tmp_buf, n) /\ buf[tmp_buf] = received - length + tmp_buf
  BY <1>0, <1>1, ReadsAt, Zenon
<1>3. received - length + tmp_buf = received - this_rest_size
  BY <1>0
<1> QED
  BY <1>2, <1>3, Zenon

LEMMA BurnPlaced ==
  ASSUME Types, NEW k \in 1 .. NChunks, NEW p \in Nat, NEW m \in Nat,
         Reads, Inside(k, p, m), Placed(p), Burn(tmp_buf, m),
         flash_start' = flash_start + m, image' = image, reference' = reference
  PROVE  Placed(p + m * Sector)'
<1>0. /\ flash_start \in Nat /\ IsImage(image) /\ Sector \in Nat \ {0} /\ ChunkHead \in Nat
      /\ reference = Expand(image) /\ k \in 1 .. Len(image.chunks)
      /\ tmp_buf \in Int /\ this_rest_size \in Nat /\ length \in Nat /\ received \in Nat
  BY TypeFacts, SparseAssumption, Zenon DEF Types, NChunks
<1>1. m * Sector \in Nat
  BY <1>0
<1>2. DOMAIN flash = SectorsOf(image)
  BY Zenon DEF Types
<1>3. /\ image.to[k] \in Nat /\ image.to[k + 1] \in Nat /\ image.at[k] \in Nat
  <2>1. k \in 1 .. Len(image.chunks) + 1 /\ k + 1 \in 1 .. Len(image.chunks) + 1
    BY <1>0, ChunkFacts, Zenon
  <2> QED
    BY <1>0, <2>1, Bounds, Zenon
<1>4. ASSUME NEW s \in SectorsOf(image), s \in flash_start .. (flash_start + m - 1),
             WholeAreas
      PROVE  flash'[s] = reference[s]
  <2> DEFINE d == (s - flash_start) * Sector
             i == tmp_buf + d
  <2>1. s \in Nat /\ flash_start <= s /\ s + 1 <= flash_start + m
    <3>1. s \in Nat
      BY <1>0, SectorIsNat, Zenon
    <3> QED
      BY <1>0, <1>4, <3>1, Between, Zenon
  <2>2. /\ d \in Nat /\ s * Sector = flash_start * Sector + d /\ d + Sector <= m * Sector
        /\ s * Sector \in Nat
    BY <1>0, <2>1, SectorInWrite, Zenon
  <2>3. flash_start * Sector = p
    BY <1>4, Zenon DEF Placed
  <2> HIDE DEF d
  <2>4. i \in Int /\ tmp_buf <= i /\ i + Sector <= length
    <3>1. tmp_buf + this_rest_size = length /\ m * Sector <= this_rest_size
      BY Zenon DEF Reads, Inside
    <3> QED
      BY <1>0, <1>1, <2>2, <3>1
  <2>5. Whole(i, Sector) /\ buf[i] = received - length + i
    BY <1>0, <2>4, ReadsAt, Zenon
  <2>8. flash'[s] = <<"raw", buf[i]>>
    BY <1>2, <1>4, <2>5, Zenon DEF Burn, d
  <2>9. buf[i] = image.at[k] + ChunkHead + s * Sector - image.to[k]
    <3>1. tmp_buf + this_rest_size = length
      BY Zenon DEF Reads
    <3> DEFINE a == image.at[k]
               b == image.to[k]
               y == s * Sector
    <3>2. received - this_rest_size = a + ChunkHead + p - b
      BY Zenon DEF Inside
    <3>3. y = p + d /\ a \in Nat /\ b \in Nat
      BY <1>3, <2>2, <2>3, Zenon
    <3> HIDE DEF a, b, y
    <3>4. buf[i] = a + ChunkHead + y - b
      BY <1>0, <2>2, <2>5, <3>1, <3>2, <3>3
    <3> QED
      BY <3>4, Zenon DEF a, b, y
  <2>10. Covers(image, k, s * Sector)
    <3> DEFINE b == image.to[k]
               e == image.to[k + 1]
               w == m * Sector
    <3>1. b <= p /\ p + w <= e /\ b \in Nat /\ e \in Nat /\ w \in Nat /\ d + Sector <= w
      BY <1>1, <1>3, <2>2, Zenon DEF Inside
    <3>2. s * Sector = p + d
      BY <2>2, <2>3, Zenon
    <3> HIDE DEF b, e, w
    <3>3. b <= p + d /\ p + d < e
      BY <1>0, <2>2, <3>1
    <3> QED
      BY <3>2, <3>3, Zenon DEF Covers, b, e
  <2>11. reference[s] = Content(image, k, s * Sector)
    BY <1>0, <2>10, RefInChunk, Zenon
  <2>12. Content(image, k, s * Sector) = <<"raw", image.at[k] + ChunkHead + s * Sector - image.to[k]>>
    BY DEF Content, Inside
  <2> QED
    BY <2>8, <2>9, <2>11, <2>12, Zenon
<1>5. ASSUME NEW s \in SectorsOf(image), s \notin flash_start .. (flash_start + m - 1)
      PROVE  flash'[s] = flash[s]
  BY <1>2, <1>5 DEF Burn
<1>6. p + m * Sector \in Nat
  BY <1>1
<1>7. \A s \in SectorsOf(image) :
            IF s \in flash_start .. (flash_start + m - 1)
            THEN WholeAreas => flash'[s] = reference[s] ELSE flash'[s] = flash[s]
  BY <1>4, <1>5, Zenon
<1>8. p + m * Sector <= p + m * Sector
  BY <1>6
<1> QED
  BY <1>6, <1>7, <1>8, GrowPlaced, Zenon

-----------------------------------------------------------------------------
(* The steps that write nothing *)

(* The flash and what is expected stay as they are. *)
LEMMA PlacedSame ==
  ASSUME NEW p, Placed(p), UNCHANGED <<image, reference, flash, flash_start>>
  PROVE  Placed(p)'
<1>1. WholeAreas' <=> WholeAreas
  BY Zenon DEF WholeAreas
<1> QED
  BY <1>1, Zenon DEF Placed

LEMMA ExpectedSame ==
  ASSUME Expected, sparse_format_type # "TOTAL_HEAD", Pos' = Pos,
         UNCHANGED <<image, reference, flash, decoder>>
  PROVE  Expected'
<1>0. /\ image' = image /\ NChunks' = NChunks /\ sparse_format_type' = sparse_format_type
      /\ chunk_length' = chunk_length /\ UNCHANGED <<image, reference, flash, flash_start>>
  BY Zenon DEF decoder, NChunks
<1>1. ASSUME NEW k \in 1 .. NChunks + 1, AtChunk(k) PROVE AtChunk(k)'
  <2> PICK p : p = image.to[k]
    OBVIOUS
  <2>1. Placed(p)'
    BY <1>0, <1>1, PlacedSame, Zenon DEF AtChunk
  <2> QED
    BY <1>0, <1>1, <2>1, Zenon DEF AtChunk
<1>2. ASSUME NEW k \in 1 .. NChunks, InData(k) PROVE InData(k)'
  <2> PICK p : p = image.to[k + 1] - chunk_length
    OBVIOUS
  <2>1. Placed(p)'
    BY <1>0, <1>2, PlacedSame, Zenon DEF InData
  <2> QED
    BY <1>0, <1>2, <2>1, Zenon DEF InData
<1>3. ASSUME NEW k \in 1 .. NChunks, InFill(k) PROVE InFill(k)'
  <2> PICK p : p = image.to[k]
    OBVIOUS
  <2>1. Placed(p)'
    BY <1>0, <1>3, PlacedSame, Zenon DEF InFill
  <2> QED
    BY <1>0, <1>3, <2>1, Zenon DEF InFill
<1> QED
  BY <1>0, <1>1, <1>2, <1>3, Zenon DEF Expected

LEMMA InitInv == Init => SparseInv
<1> SUFFICES ASSUME Init PROVE SparseInv
  OBVIOUS
<1>1. /\ image = NoImage /\ reference = Expand(NoImage) /\ flash = Expand(NoImage)
      /\ received = 0 /\ sparse_format_type = "TOTAL_HEAD" /\ chunk_length = 0 /\ flash_start = 0
      /\ last_rest_size = 0 /\ length = 0 /\ tmp_buf = 0 /\ this_rest_size = 0 /\ pc = "none"
  BY Zenon DEF Init
<1>2. IsImage(image) /\ reference = Expand(image)
  BY <1>1, NoImageIsOne, Zenon
<1>3. 1 \in 1 .. Len(image.chunks) + 1
  BY <1>2, ImageFacts
<1>4. Length(image) \in Nat /\ image.to[Len(image.chunks) + 1] \in Nat
  BY <1>2, <1>3, Bounds, Zenon
<1>5. 0 \in SectorsOf(image)
  <2>1. 0 * Sector <= image.to[Len(image.chunks) + 1]
    BY <1>4, Numbers
  <2> QED
    BY <1>2, <2>1, OnFlash
<1>6. received \in 0 .. Length(image) /\ length \in 0 .. LongestPiece
      /\ last_rest_size \in 0 .. Headroom /\ chunk_length \in 0 .. Half - 1
  BY <1>1, <1>4, Numbers
<1>7. flash = [s \in SectorsOf(image) |-> flash[s]]
  BY <1>1 DEF Expand
<1>8. Types
  BY <1>1, <1>2, <1>5, <1>6, <1>7 DEF Types
<1>9. Bytes
  BY <1>1 DEF Bytes
<1> QED
  BY <1>1, <1>8, <1>9, Zenon DEF SparseInv

LEMMA ProbeKeeps == ASSUME NEW img \in Images, unsparse_probe(img) PROVE SparseInv'
<1>1. /\ image' = img /\ reference' = Expand(img) /\ flash' = [s \in SectorsOf(img) |-> Erased]
      /\ received' = 0 /\ sparse_format_type' = "TOTAL_HEAD" /\ chunk_length' = 0 /\ flash_start' = 0
      /\ last_rest_size' = 0 /\ length' = 0 /\ tmp_buf' = 0 /\ this_rest_size' = 0 /\ pc' = "idle"
  BY Zenon DEF unsparse_probe
<1>2. IsImage(img)
  BY SparseAssumption, Zenon
<1>3. 1 \in 1 .. Len(img.chunks) + 1
  BY <1>2, ImageFacts
<1>4. Length(img) \in Nat /\ img.to[Len(img.chunks) + 1] \in Nat
  BY <1>2, <1>3, Bounds, Zenon
<1>5. 0 \in SectorsOf(img)
  <2>1. 0 * Sector <= img.to[Len(img.chunks) + 1]
    BY <1>4, Numbers
  <2> QED
    BY <1>2, <2>1, OnFlash
<1>6. 0 \in 0 .. Length(img) /\ 0 \in 0 .. LongestPiece /\ 0 \in 0 .. Headroom /\ 0 \in 0 .. Half - 1
  BY <1>4, Numbers
<1>7. flash' = [s \in SectorsOf(img) |-> flash'[s]]
  BY <1>1
<1>8. Types'
  BY <1>1, <1>2, <1>5, <1>6, <1>7 DEF Types
<1>9. Bytes'
  BY <1>1 DEF Bytes
<1>10. Expected'
  <2>1. 0 * Sector = 0 /\ 0 <= 0
    BY Numbers
  <2>2. \A s \in SectorsOf(img) : ~(s < 0)
    BY <1>2, SectorIsNat
  <2>3. Placed(0)'
    BY <1>1, <2>1, <2>2, Zenon DEF Placed
  <2>4. Pos' = 0
    BY <1>1 DEF Pos
  <2> QED
    BY <1>1, <2>3, <2>4, Zenon DEF Expected, Heading
<1> QED
  BY <1>1, <1>8, <1>9, <1>10, Zenon DEF SparseInv

LEMMA FailKeeps == SparseInv /\ Fail => SparseInv'
<1> SUFFICES ASSUME SparseInv, Fail PROVE SparseInv'
  OBVIOUS
<1>1. Types'
  BY Zenon DEF SparseInv, Types, Fail, decoder
<1>2. Bytes'
  BY Zenon DEF SparseInv, Bytes, Fail
<1> QED
  BY <1>1, <1>2, Zenon DEF SparseInv, Fail

LEMMA FailUnalignedKeeps ==
  ASSUME NEW n, SparseInv, FailUnaligned(n)
  PROVE  SparseInv'
<1>1. Types'
  <2>1. flash' = [s \in SectorsOf(image) |-> flash'[s]]
    BY Zenon DEF SparseInv, Types, FailUnaligned, Burn
  <2> QED
    BY <2>1, Zenon DEF SparseInv, Types, FailUnaligned, decoder
<1>2. Bytes'
  BY Zenon DEF SparseInv, Bytes, FailUnaligned
<1> QED
  BY <1>1, <1>2, Zenon DEF SparseInv, FailUnaligned

(* A piece is put behind what is there. *)
LEMMA PieceFits ==
  ASSUME Types, NEW n \in PieceSizes, Left > 0
  PROVE  /\ n \in Nat \ {0} /\ n <= LongestPiece /\ received + n <= Length(image)
         /\ received = 0 => n >= HeadSize
<1>0. received \in Nat /\ Length(image) \in Nat /\ IsImage(image)
  BY TypeFacts, Zenon
<1>1. Length(image) >= HeadSize
  <2>1. 1 \in 1 .. Len(image.chunks) + 1
    BY <1>0, ImageFacts
  <2>2. image.at[1] = HeadSize /\ image.at[1] <= Length(image)
    BY <1>0, <2>1, ImageFacts, Bounds, Zenon
  <2> QED
    BY <1>0, <2>2, Numbers
<1>2. CASE n \in Pieces /\ n < Left
  <2>1. n \in Nat /\ n >= HeadSize
    BY <1>2, SparseAssumption
  <2>2. n <= LongestPiece
    BY <1>2, Longest
  <2> QED
    BY <1>0, <1>2, <2>1, <2>2, Numbers DEF Left
<1>3. CASE n = Left /\ \E m \in Pieces : Left <= m
  <2>1. PICK m \in Pieces : Left <= m
    BY <1>3
  <2>2. m \in Nat /\ m <= LongestPiece
    BY Longest, SparseAssumption
  <2> QED
    BY <1>0, <1>1, <1>3, <2>1, <2>2, Numbers DEF Left
<1> QED
  BY <1>2, <1>3 DEF PieceSizes

LEMMA WriteKeeps == ASSUME SparseInv, NEW n \in PieceSizes, unsparse_direct_write(n) PROVE SparseInv'
<1>0. Types /\ Bytes /\ pc = "idle" /\ Expected /\ Left > 0 /\ this_rest_size = 0
  BY Zenon DEF SparseInv, unsparse_direct_write, Bytes
<1>1. /\ buf' = [i \in Room |-> IF i \in 0 .. (n - 1) THEN received + i ELSE buf[i]]
      /\ received' = received + n /\ length' = n /\ this_rest_size' = last_rest_size + n
      /\ tmp_buf' = -last_rest_size /\ last_rest_size' = 0 /\ pc' = "loop"
      /\ UNCHANGED <<image, reference, flash, decoder>>
  BY Zenon DEF unsparse_direct_write
<1>2. /\ received \in Nat /\ Length(image) \in Nat /\ last_rest_size \in Nat
      /\ last_rest_size <= Headroom
  BY <1>0, TypeFacts, Zenon
<1>3. /\ n \in Nat \ {0} /\ n <= LongestPiece /\ received + n <= Length(image)
      /\ received = 0 => n >= HeadSize
  BY <1>0, PieceFits, Zenon
<1>4. Types'
  <2>1. /\ received' \in 0 .. Length(image) /\ length' \in 0 .. LongestPiece /\ tmp_buf' \in Int
        /\ this_rest_size' \in Nat /\ last_rest_size' \in 0 .. Headroom
    BY <1>1, <1>2, <1>3, Numbers
  <2> QED
    BY <1>0, <1>1, <2>1, Zenon DEF Types, decoder
<1>5. Bytes'
  <2>1. /\ -Headroom <= tmp_buf' /\ tmp_buf' + this_rest_size' = length' /\ this_rest_size' > 0
    BY <1>1, <1>2, <1>3, Numbers
  <2>2. ASSUME NEW j \in tmp_buf' .. (length' - 1) PROVE buf'[j] = received' - length' + j
    <3>1. j \in Int /\ -last_rest_size <= j /\ j <= n - 1
      BY <1>1, <1>2, <1>3
    <3>2. j \in Room
      BY <1>2, <1>3, <3>1, Numbers DEF Room
    <3>3. CASE j \in 0 .. (n - 1)
      BY <1>1, <1>2, <1>3, <3>1, <3>2, <3>3
    <3>4. CASE j \notin 0 .. (n - 1)
      <4>1. j \in (-last_rest_size) .. (-1)
        BY <1>2, <1>3, <3>1, <3>4
      <4>2. buf[j] = received + j
        BY <1>0, <4>1, Zenon DEF Bytes
      <4>3. buf'[j] = buf[j]
        BY <1>1, <3>2, <3>4, Zenon
      <4> QED
        BY <1>1, <1>2, <1>3, <3>1, <4>2, <4>3
    <3> QED
      BY <3>3, <3>4, Zenon
  <2>3. this_rest_size' # 0 /\ ~(last_rest_size' > 0)
    BY <1>1, <1>2, <1>3
  <2> QED
    BY <1>1, <2>1, <2>2, <2>3, Zenon DEF Bytes
<1>6. Pos' = Pos
  BY <1>0, <1>1, <1>2, <1>3 DEF Pos
<1>7. Expected'
  <2>1. CASE sparse_format_type = "TOTAL_HEAD"
    <3>1. Pos = 0 /\ Placed(0) /\ received = 0
      BY <1>0, <2>1, Zenon DEF Expected, Heading
    <3>2. Placed(0)'
      BY <1>1, <3>1, PlacedSame, Zenon DEF decoder
    <3>3. this_rest_size' >= HeadSize
      BY <1>1, <1>2, <1>3, <3>1, Numbers
    <3> QED
      BY <1>1, <1>6, <2>1, <3>1, <3>2, <3>3, Zenon DEF Expected, Heading, decoder
  <2>2. CASE sparse_format_type # "TOTAL_HEAD"
    BY <1>0, <1>1, <1>6, <2>2, ExpectedSame, Zenon
  <2> QED
    BY <2>1, <2>2, Zenon
<1> QED
  BY <1>1, <1>4, <1>5, <1>7, Zenon DEF SparseInv

(* Inside the loop the bytes to be dealt with are at tmp_buf. *)
LEMMA LoopFacts ==
  ASSUME SparseInv, pc = "loop", this_rest_size > 0
  PROVE  /\ Types /\ Reads /\ Expected /\ last_rest_size = 0 /\ -Headroom <= tmp_buf
         /\ Pos = received - this_rest_size
<1>1. Types /\ Bytes /\ Expected
  BY Zenon DEF SparseInv
<1>2. Reads /\ last_rest_size = 0 /\ -Headroom <= tmp_buf
  BY <1>1, Zenon DEF Bytes, Reads
<1>3. received \in Nat /\ this_rest_size \in Nat
  BY <1>1, TypeFacts, Zenon
<1>4. Pos = received - this_rest_size
  BY <1>2, <1>3 DEF Pos
<1> QED
  BY <1>1, <1>2, <1>4, Zenon

LEMMA ReturnKeeps == SparseInv /\ Return => SparseInv'
<1> SUFFICES ASSUME SparseInv, Return PROVE SparseInv'
  OBVIOUS
<1>0. Types /\ Bytes /\ Expected /\ pc = "loop" /\ this_rest_size <= 0
  BY Zenon DEF SparseInv, Return
<1>1. /\ buf' = [i \in Room |-> IF i \in (-last_rest_size) .. (-1) THEN buf[i] ELSE -1]
      /\ pc' = "idle" /\ length' = 0 /\ tmp_buf' = 0
      /\ UNCHANGED <<image, reference, received, flash, decoder, last_rest_size, this_rest_size>>
  BY Zenon DEF Return
<1>2. this_rest_size = 0 /\ last_rest_size \in Nat /\ last_rest_size <= Headroom /\ received \in Nat
  BY <1>0, TypeFacts
<1>3. Types'
  <2>1. length' \in 0 .. LongestPiece /\ tmp_buf' \in Int
    BY <1>1, Numbers
  <2> QED
    BY <1>0, <1>1, <2>1, Zenon DEF Types, decoder
<1>4. Bytes'
  <2>1. ASSUME NEW j \in (-last_rest_size) .. (-1) PROVE buf'[j] = received + j
    <3>1. j \in Room
      BY <1>2, Numbers DEF Room
    <3>2. buf'[j] = buf[j]
      BY <1>1, <3>1, Zenon
    <3> QED
      BY <1>0, <1>2, <3>2, Zenon DEF Bytes
  <2>2. last_rest_size > 0 => received < Length(image)
    BY <1>0, Zenon DEF Bytes
  <2>3. this_rest_size' = 0
    BY <1>1, <1>2, Zenon
  <2> QED
    BY <1>1, <2>1, <2>2, <2>3, Zenon DEF Bytes
<1>5. sparse_format_type # "TOTAL_HEAD"
  <2>1. ~(this_rest_size >= HeadSize)
    BY <1>2, Numbers
  <2> QED
    BY <1>0, <2>1, Zenon DEF Expected, Heading
<1>6. Pos' = Pos
  BY <1>1, Zenon DEF Pos
<1>7. Expected'
  BY <1>0, <1>1, <1>5, <1>6, ExpectedSame, Zenon
<1> QED
  BY <1>1, <1>3, <1>4, <1>7, Zenon DEF SparseInv

(* n bytes of the end of the piece are put in front of the buffer. *)
LEMMA CarriedBytes ==
  ASSUME Types, Reads, NEW n \in Nat, n <= this_rest_size, n <= Headroom,
         NEW from, from + n = length, from \in Int, Carry(from, n)
  PROVE  \A j \in (-n) .. (-1) : buf'[j] = received + j
<1>0. /\ received \in Nat /\ length \in Nat /\ this_rest_size \in Nat /\ tmp_buf \in Int
      /\ tmp_buf + this_rest_size = length
  BY TypeFacts, Zenon DEF Reads
<1> SUFFICES ASSUME NEW j \in (-n) .. (-1) PROVE buf'[j] = received + j
  BY Zenon
<1>1. j \in Room /\ j \in Int
  BY Numbers DEF Room
<1>2. buf'[j] = buf[from + n + j]
  BY <1>1, Zenon DEF Carry
<1>3. from + n + j = length + j /\ length + j \in tmp_buf .. (length - 1)
  BY <1>0, <1>1
<1>4. buf[length + j] = received - length + (length + j)
  BY <1>3, Zenon DEF Reads
<1> QED
  BY <1>0, <1>1, <1>2, <1>3, <1>4

LEMMA WaitKeeps ==
  ASSUME SparseInv, pc = "loop", this_rest_size > 0, sparse_format_type # "TOTAL_HEAD",
         this_rest_size <= Headroom, received < Length(image), Wait
  PROVE  SparseInv'
<1>0. /\ Types /\ Reads /\ Expected /\ last_rest_size = 0
  BY LoopFacts, Zenon
<1>1. /\ received \in Nat /\ this_rest_size \in Nat /\ tmp_buf \in Int
      /\ tmp_buf + this_rest_size = length /\ this_rest_size <= this_rest_size
  BY <1>0, TypeFacts DEF Reads
<1>2. /\ Carry(tmp_buf, this_rest_size) /\ last_rest_size' = this_rest_size /\ this_rest_size' = 0
      /\ UNCHANGED <<image, reference, received, flash, decoder, length, tmp_buf, pc>>
  BY Zenon DEF Wait, Carry
<1>3. \A j \in (-this_rest_size) .. (-1) : buf'[j] = received + j
  BY <1>0, <1>1, <1>2, CarriedBytes, Zenon
<1>4. Types'
  <2>1. this_rest_size' \in Nat /\ last_rest_size' \in 0 .. Headroom
    BY <1>1, <1>2, Numbers
  <2> QED
    BY <1>0, <1>2, <2>1, Zenon DEF Types, decoder
<1>5. Bytes'
  <2>1. ~(this_rest_size' > 0)
    BY <1>2
  <2> QED
    BY <1>2, <1>3, <2>1, Zenon DEF Bytes
<1>6. Pos' = Pos
  BY <1>0, <1>1, <1>2 DEF Pos
<1>7. Expected'
  BY <1>0, <1>2, <1>6, ExpectedSame, Zenon
<1> QED
  BY <1>2, <1>4, <1>5, <1>7, Zenon DEF SparseInv

(* n bytes have been dealt with. *)
LEMMA AdvanceBytes ==
  ASSUME SparseInv, pc = "loop", this_rest_size > 0, NEW n \in Nat, n <= this_rest_size, Advance(n),
         UNCHANGED <<image, received, last_rest_size, buf, length, pc>>
  PROVE  Bytes' /\ this_rest_size' \in Nat /\ tmp_buf' \in Int /\ Pos' = Pos + n
<1>0. Types /\ Reads /\ last_rest_size = 0 /\ -Headroom <= tmp_buf /\ Pos = received - this_rest_size
  BY LoopFacts, Zenon
<1>1. /\ received \in Nat /\ this_rest_size \in Nat /\ tmp_buf \in Int /\ length \in Nat
      /\ tmp_buf + this_rest_size = length
  BY <1>0, TypeFacts, Zenon DEF Reads
<1>2. tmp_buf' = tmp_buf + n /\ this_rest_size' = this_rest_size - n
  BY Zenon DEF Advance
<1>3. this_rest_size' \in Nat /\ tmp_buf' \in Int /\ -Headroom <= tmp_buf'
      /\ tmp_buf' + this_rest_size' = length
  BY <1>0, <1>1, <1>2, Numbers
<1>4. Pos' = Pos + n
  BY <1>0, <1>1, <1>2 DEF Pos
<1>5. \A j \in tmp_buf' .. (length - 1) : buf[j] = received - length + j
  <2>1. \A j \in tmp_buf' .. (length - 1) : j \in tmp_buf .. (length - 1)
    BY <1>1, <1>2
  <2> QED
    BY <1>0, <2>1, Zenon DEF Reads
<1>6. (-last_rest_size) .. (-1) = {} /\ ~(last_rest_size > 0)
  BY <1>0
<1>7. Bytes'
  BY <1>0, <1>3, <1>5, <1>6, Zenon DEF Bytes
<1> QED
  BY <1>3, <1>4, <1>7, Zenon

LEMMA PlacedOnFlash ==
  ASSUME NEW img, IsImage(img), NEW k \in 1 .. Len(img.chunks) + 1,
         NEW f \in Nat, f * Sector <= img.to[k]
  PROVE  f \in SectorsOf(img)
<1> DEFINE b == img.to[k]
           e == img.to[Len(img.chunks) + 1]
           y == f * Sector
<1>1. b \in Nat /\ e \in Nat /\ b <= e
  BY Bounds, Zenon
<1>2. y \in Nat /\ y <= b
  BY Numbers
<1> HIDE DEF b, e, y
<1>3. y <= e
  BY <1>1, <1>2
<1> QED
  BY <1>3, OnFlash, Zenon DEF e, y

LEMMA TotalHeadKeeps == SparseInv /\ TotalHead => SparseInv'
<1> SUFFICES ASSUME SparseInv, TotalHead PROVE SparseInv'
  OBVIOUS
<1>0. pc = "loop" /\ this_rest_size > 0 /\ sparse_format_type = "TOTAL_HEAD"
  BY Zenon DEF TotalHead, At
<1>1. /\ Advance(HeadSize) /\ sparse_format_type' = "CHUNK_HEAD"
      /\ UNCHANGED <<image, reference, received, flash, chunk_length, flash_start,
                     last_rest_size, buf, length, pc>>
  BY Zenon DEF TotalHead
<1>2. Types /\ Expected
  BY <1>0, LoopFacts, Zenon
<1>3. Heading
  BY <1>0, <1>2, Zenon DEF Expected
<1>4. HeadSize <= this_rest_size /\ HeadSize \in Nat
  BY <1>0, <1>2, <1>3, Numbers, TypeFacts DEF Heading
<1>5. Bytes' /\ this_rest_size' \in Nat /\ tmp_buf' \in Int /\ Pos' = Pos + HeadSize
  BY <1>0, <1>1, <1>4, AdvanceBytes, Zenon
<1>6. Types'
  BY <1>1, <1>2, <1>5, Zenon DEF Types
<1>7. IsImage(image) /\ NChunks \in Nat
  BY <1>2, TypeFacts, Zenon
<1>8. 1 \in 1 .. NChunks + 1
  BY <1>7
<1>9. image.at[1] = HeadSize /\ image.to[1] = 0
  BY <1>7, ImageFacts, Zenon
<1>10. Pos' = HeadSize
  BY <1>3, <1>4, <1>5 DEF Heading
<1>11. Placed(0)'
  BY <1>1, <1>3, PlacedSame, Zenon DEF Heading
<1>12. AtChunk(1)'
  BY <1>1, <1>9, <1>10, <1>11, Zenon DEF AtChunk
<1>13. Expected'
  BY <1>1, <1>8, <1>12, Zenon DEF Expected, NChunks
<1> QED
  BY <1>0, <1>1, <1>5, <1>6, <1>13, Zenon DEF SparseInv

(* Where a header is expected and bytes are left there is one. *)
LEMMA HeaderAhead ==
  ASSUME SparseInv, pc = "loop", this_rest_size > 0, NEW k \in 1 .. NChunks + 1, AtChunk(k)
  PROVE  k \in 1 .. NChunks /\ image.at[k] + ChunkHead <= Length(image)
<1>0. Types /\ Pos = received - this_rest_size
  BY LoopFacts, Zenon
<1>1. /\ IsImage(image) /\ NChunks \in Nat /\ this_rest_size \in Nat
      /\ received \in Nat /\ Length(image) \in Nat /\ received <= Length(image)
  BY <1>0, TypeFacts, Zenon
<1>2. k # NChunks + 1
  <2> SUFFICES ASSUME k = NChunks + 1 PROVE FALSE
    OBVIOUS
  <2>1. Pos = Length(image)
    BY Zenon DEF AtChunk, Length, Offset, NChunks
  <2> QED
    BY <1>0, <1>1, <2>1
<1>3. k \in 1 .. NChunks /\ NChunks + 1 \in 1 .. NChunks + 1 /\ k < NChunks + 1
  BY <1>1, <1>2
<1>4. image.at[k] + ChunkHead <= image.at[NChunks + 1]
  BY <1>1, <1>3, HeadsDiffer, Zenon DEF NChunks
<1> QED
  BY <1>3, <1>4, Zenon DEF Length, Offset, NChunks

LEMMA ShortHeadKeeps == SparseInv /\ ShortHead => SparseInv'
<1> SUFFICES ASSUME SparseInv, ShortHead PROVE SparseInv'
  OBVIOUS
<1>0. /\ pc = "loop" /\ this_rest_size > 0 /\ sparse_format_type = "CHUNK_HEAD"
      /\ this_rest_size < ChunkHead /\ Wait
  BY Zenon DEF ShortHead, At
<1>1. Types /\ Expected /\ Pos = received - this_rest_size
  BY <1>0, LoopFacts, Zenon
<1>2. PICK k \in 1 .. NChunks + 1 : AtChunk(k)
  BY <1>0, <1>1, Zenon DEF Expected
<1>3. image.at[k] + ChunkHead <= Length(image) /\ Pos = image.at[k]
  BY <1>0, <1>2, HeaderAhead, Zenon DEF AtChunk
<1>4. Pos + ChunkHead <= Length(image)
  BY <1>3, Zenon
<1>5. received \in Nat /\ this_rest_size \in Nat /\ Length(image) \in Nat
  BY <1>1, TypeFacts, Zenon
<1>6. received < Length(image) /\ this_rest_size <= Headroom
  BY <1>0, <1>1, <1>4, <1>5, Numbers
<1> QED
  BY <1>0, <1>6, WaitKeeps

(* What is missing of a chunk. *)
LEMMA Missing ==
  ASSUME Types
  PROVE  /\ unenough_length = 0 => chunk_length <= this_rest_size
         /\ unenough_length # 0 => /\ chunk_length > this_rest_size
                                   /\ unenough_length = chunk_length - this_rest_size
<1>1. chunk_length \in Nat /\ chunk_length < Half /\ this_rest_size \in Nat
  BY TypeFacts, Zenon
<1>2. CASE chunk_length >= this_rest_size
  <2>1. chunk_length - this_rest_size \in 0 .. Half - 1
    BY <1>1, <1>2, Numbers
  <2>2. unenough_length = chunk_length - this_rest_size
    BY <1>2, <2>1, SmallInt, Zenon DEF unenough_length
  <2> QED
    BY <1>1, <1>2, <2>2
<1>3. CASE ~(chunk_length >= this_rest_size)
  <2>1. unenough_length = 0
    BY <1>3, Zenon DEF unenough_length
  <2> QED
    BY <1>1, <1>3, <2>1
<1> QED
  BY <1>2, <1>3, Zenon

(* The data of the k-th chunk that is left lies inside the image. *)
LEMMA DataAhead ==
  ASSUME Types, NEW k \in 1 .. NChunks, InData(k)
  PROVE  Pos + chunk_length <= Length(image)
<1>1. IsImage(image) /\ k \in 1 .. Len(image.chunks)
  BY Zenon DEF Types, NChunks
<1>2. k + 1 \in 1 .. Len(image.chunks) + 1
  BY <1>1, ChunkFacts, Zenon
<1> QED
  BY <1>1, <1>2, Bounds, Zenon DEF InData

LEMMA FewBytesKeeps == SparseInv /\ FewBytes => SparseInv'
<1> SUFFICES ASSUME SparseInv, FewBytes PROVE SparseInv'
  OBVIOUS
<1>0. /\ pc = "loop" /\ this_rest_size > 0 /\ sparse_format_type = "CHUNK_DATA"
      /\ this_rest_size < High /\ unenough_length # 0 /\ Wait
  BY Zenon DEF FewBytes, At
<1>1. Types /\ Expected /\ Pos = received - this_rest_size
  BY <1>0, LoopFacts, Zenon
<1>2. PICK k \in 1 .. NChunks : InData(k)
  BY <1>0, <1>1, Zenon DEF Expected
<1>3. Pos + chunk_length <= Length(image) /\ chunk_length > this_rest_size
  BY <1>0, <1>1, <1>2, DataAhead, Missing, Zenon
<1>4. received \in Nat /\ this_rest_size \in Nat /\ Length(image) \in Nat /\ chunk_length \in Nat
  BY <1>1, TypeFacts, Zenon
<1>5. received < Length(image) /\ this_rest_size <= Headroom
  BY <1>0, <1>1, <1>3, <1>4, Numbers
<1> QED
  BY <1>0, <1>5, WaitKeeps

LEMMA ShortFillKeeps == SparseInv /\ ShortFill => SparseInv'
<1> SUFFICES ASSUME SparseInv, ShortFill PROVE SparseInv'
  OBVIOUS
<1>0. /\ pc = "loop" /\ this_rest_size > 0 /\ sparse_format_type = "CHUNK_FILL_DATA"
      /\ this_rest_size < FillSize /\ Wait
  BY Zenon DEF ShortFill, At
<1>1. Types /\ Expected /\ Pos = received - this_rest_size
  BY <1>0, LoopFacts, Zenon
<1>2. PICK k \in 1 .. NChunks : InFill(k)
  BY <1>0, <1>1, Zenon DEF Expected
<1>3. IsImage(image) /\ k \in 1 .. Len(image.chunks)
  BY <1>1, Zenon DEF Types, NChunks
<1>4. k + 1 \in 1 .. Len(image.chunks) + 1
  BY <1>3, ChunkFacts, Zenon
<1>5. Pos + FillSize <= Length(image)
  BY <1>2, <1>3, <1>4, Bounds, Zenon DEF InFill
<1>6. received \in Nat /\ this_rest_size \in Nat /\ Length(image) \in Nat
  BY <1>1, TypeFacts, Zenon
<1>7. received < Length(image) /\ this_rest_size <= Headroom
  BY <1>0, <1>1, <1>5, <1>6, Numbers
<1> QED
  BY <1>0, <1>7, WaitKeeps

-----------------------------------------------------------------------------
(* The header of a chunk *)

LEMMA HeadRead ==
  ASSUME SparseInv, NEW k, AtHead(k)
  PROVE  k \in 1 .. NChunks /\ AtChunk(k)
<1>0. /\ pc = "loop" /\ this_rest_size > 0 /\ sparse_format_type = "CHUNK_HEAD"
      /\ k \in DOMAIN image.chunks /\ buf[tmp_buf] = image.at[k]
  BY Zenon DEF AtHead, At, Offset
<1>1. Types /\ Reads /\ Expected /\ Pos = received - this_rest_size
  BY <1>0, LoopFacts, Zenon
<1>2. /\ IsImage(image) /\ NChunks \in Nat /\ this_rest_size \in Nat
  BY <1>1, TypeFacts, Zenon
<1>3. k \in 1 .. NChunks
  BY <1>0, <1>2, ImageFacts, Zenon DEF NChunks
<1>4. PICK l \in 1 .. NChunks + 1 : AtChunk(l)
  BY <1>0, <1>1, Zenon DEF Expected
<1>5. 1 \in Nat \ {0} /\ 1 <= this_rest_size
  BY <1>0, <1>2
<1>6. buf[tmp_buf] = Pos
  BY <1>1, <1>5, ReadsWhole, Zenon
<1>7. image.at[k] = image.at[l]
  BY <1>0, <1>4, <1>6, Zenon DEF AtChunk
<1>8. k \in 1 .. NChunks + 1 /\ k \in Int /\ l \in Int
  BY <1>2, <1>3
<1>9. image.at[k] \in Nat
  BY <1>2, <1>8, Bounds, Zenon DEF NChunks
<1>10. ~(image.at[k] + ChunkHead <= image.at[k])
  BY <1>9, Numbers
<1>11. ~(k < l) /\ ~(l < k)
  BY <1>2, <1>7, <1>8, <1>10, HeadsDiffer, Zenon DEF NChunks
<1>12. k = l
  BY <1>8, <1>11
<1> QED
  BY <1>3, <1>4, <1>12, Zenon

(* An area that is not cared for is passed on the flash. *)
LEMMA SkipPlaced ==
  ASSUME Types, NEW k \in 1 .. NChunks, NEW p \in Nat, p = image.to[k], Placed(p),
         NEW m \in Nat, NEW z \in Nat,
         z = Size(image, image.chunks[k]), m = z \div Sector,
         image.chunks[k].type = "dont_care",
         flash_start' = flash_start + m, UNCHANGED <<image, reference, flash>>
  PROVE  Placed(p + z)'
<1>0. /\ flash_start \in Nat /\ IsImage(image) /\ Sector \in Nat \ {0}
      /\ reference = Expand(image) /\ k \in 1 .. Len(image.chunks)
      /\ image.to[k + 1] = image.to[k] + Size(image, image.chunks[k])
  BY TypeFacts, ChunkFacts, Numbers, Zenon DEF Types, NChunks
<1>1. m * Sector \in Nat /\ m * Sector <= z
  <2>1. z = m * Sector + (z % Sector) /\ z % Sector \in Nat
    BY <1>0, DivMod, Zenon
  <2>2. m * Sector \in Nat
    BY <1>0, MultMono, Zenon
  <2> QED
    BY <2>1, <2>2, Below, Zenon
<1>2. WholeAreas => m * Sector = z
  <2> SUFFICES ASSUME WholeAreas PROVE m * Sector = z
    OBVIOUS
  <2>1. k \in DOMAIN image.chunks
    BY <1>0, ImageFacts, Zenon
  <2>2. z % Sector = 0
    BY <2>1, Zenon DEF WholeAreas, Aligned
  <2> QED
    BY <1>0, <2>2, DivExact, Zenon
<1>3. image.to[k + 1] = p + z
  BY <1>0, Zenon
<1>4. ASSUME NEW s \in SectorsOf(image), s \in flash_start .. (flash_start + m - 1), WholeAreas
      PROVE  flash[s] = reference[s]
  <2> DEFINE d == (s - flash_start) * Sector
             w == m * Sector
  <2>1. s \in Nat
    BY <1>0, SectorIsNat, Zenon
  <2>2. flash_start <= s /\ s + 1 <= flash_start + m /\ ~(s < flash_start)
    <3>1. flash_start <= s /\ s + 1 <= flash_start + m
      BY <1>0, <1>4, <2>1, Between, Zenon
    <3> QED
      BY <1>0, <2>1, <3>1
  <2>3. d \in Nat /\ s * Sector = flash_start * Sector + d /\ d + Sector <= w /\ w \in Nat
    BY <1>0, <2>1, <2>2, SectorInWrite, Zenon
  <2>4. flash_start * Sector = p /\ flash[s] = Erased
    BY <1>4, <2>2, Zenon DEF Placed
  <2>5. s * Sector = p + d /\ w <= z
    BY <1>1, <2>3, <2>4, Zenon
  <2> HIDE DEF d, w
  <2>6. p <= p + d /\ p + d < p + z
    BY <1>0, <2>3, <2>5, InChunk, Zenon
  <2>7. Covers(image, k, s * Sector)
    BY <1>3, <2>5, <2>6, Zenon DEF Covers
  <2>8. reference[s] = Content(image, k, s * Sector)
    BY <1>0, <2>7, RefInChunk, Zenon
  <2>9. Content(image, k, s * Sector) = Erased
    BY DEF Content
  <2> QED
    BY <2>4, <2>8, <2>9, Zenon
<1>5. p + m * Sector <= p + z /\ p + z \in Nat
  BY <1>1
<1>6. WholeAreas => p + m * Sector = p + z
  BY <1>2, Zenon
<1>7. \A s \in SectorsOf(image) :
            IF s \in flash_start .. (flash_start + m - 1)
            THEN WholeAreas => flash'[s] = reference[s] ELSE flash'[s] = flash[s]
  BY <1>4, Zenon
<1> QED
  BY <1>5, <1>6, <1>7, GrowPlaced, Zenon

LEMMA ChunkKeeps == ASSUME SparseInv, NEW k, Chunk(k) PROVE SparseInv'
<1> DEFINE c == image.chunks[k]
<1>0. /\ AtHead(k) /\ pc = "loop" /\ this_rest_size > 0 /\ this_rest_size >= ChunkHead
  BY Zenon DEF Chunk, AtHead, At
<1>1. /\ chunk_length' = Size(image, c) /\ sparse_format_type' = Behind(c)
      /\ flash_start' = (IF c.type = "dont_care"
                         THEN flash_start + Size(image, c) \div Sector ELSE flash_start)
      /\ Advance(ChunkHead)
      /\ UNCHANGED <<image, reference, received, flash, last_rest_size, buf, length, pc>>
  BY Zenon DEF Chunk
<1>2. Types
  BY <1>0, LoopFacts, Zenon
<1>3. k \in 1 .. NChunks /\ Pos = image.at[k] /\ Placed(image.to[k])
  BY <1>0, HeadRead, Zenon DEF AtChunk
<1>4. ChunkHead \in Nat /\ ChunkHead <= this_rest_size
  BY <1>0, <1>2, TypeFacts, Numbers
<1>5. Bytes' /\ this_rest_size' \in Nat /\ tmp_buf' \in Int /\ Pos' = Pos + ChunkHead
  BY <1>0, <1>1, <1>4, AdvanceBytes, Zenon
<1>6. IsImage(image) /\ k \in 1 .. Len(image.chunks) /\ NChunks \in Nat /\ flash_start \in Nat
  BY <1>2, <1>3, TypeFacts, Zenon DEF NChunks
<1>7. PICK z : z = Size(image, c)
  OBVIOUS
<1>8. PICK p : p = image.to[k]
  OBVIOUS
<1>9. PICK q : q = image.at[k]
  OBVIOUS
<1>10. /\ z \in 0 .. Half - 1 /\ image.to[k + 1] = p + z
       /\ image.at[k + 1] = q + Stored(image, c)
       /\ k \in 1 .. Len(image.chunks) + 1 /\ k + 1 \in 1 .. Len(image.chunks) + 1
       /\ c.type \in {"raw", "fill", "dont_care"}
       /\ c.type = "fill" => z > 0 /\ Stored(image, c) = ChunkHead + FillSize
       /\ c.type = "raw" => Stored(image, c) = ChunkHead + z
       /\ c.type = "dont_care" => Stored(image, c) = ChunkHead
  BY <1>6, <1>7, <1>8, <1>9, ChunkFacts, Zenon
<1>11. p \in Nat /\ q \in Nat /\ z \in Nat
  BY <1>6, <1>8, <1>9, <1>10, Bounds, Numbers
<1>12. Pos' = q + ChunkHead /\ Placed(p)
  BY <1>3, <1>5, <1>8, <1>9, Zenon
<1>13. ASSUME flash_start' \in SectorsOf(image), Expected',
              sparse_format_type' \in {"CHUNK_HEAD", "CHUNK_DATA", "CHUNK_FILL_DATA"}
       PROVE  SparseInv'
  <2>1. chunk_length' \in 0 .. Half - 1
    BY <1>1, <1>7, <1>10, Zenon
  <2>2. Types'
    BY <1>1, <1>2, <1>5, <1>13, <2>1, Zenon DEF Types
  <2> QED
    BY <1>0, <1>1, <1>5, <1>13, <2>2, Zenon DEF SparseInv
<1>14. CASE c.type = "dont_care"
  <2>1. PICK m : m = z \div Sector
    OBVIOUS
  <2>2. m \in Nat
    BY <1>11, <2>1, DivMod, Numbers, Zenon
  <2>3. flash_start' = flash_start + m
    BY <1>1, <1>7, <1>14, <2>1, Zenon
  <2>4. Placed(p + z)'
    BY <1>1, <1>2, <1>3, <1>7, <1>8, <1>11, <1>12, <1>14, <2>1, <2>2, <2>3, SkipPlaced, Zenon
  <2>5. sparse_format_type' = "CHUNK_HEAD"
    BY <1>1, <1>14, Zenon DEF Behind
  <2>6. AtChunk(k + 1)'
    BY <1>1, <1>10, <1>12, <1>14, <2>4, Zenon DEF AtChunk
  <2>7. Expected'
    BY <1>1, <1>10, <2>5, <2>6, Zenon DEF Expected, NChunks
  <2>8. flash_start' \in Nat /\ flash_start' * Sector <= image.to[k + 1]
    <3>1. flash_start' \in Nat
      BY <1>6, <2>2, <2>3
    <3> QED
      BY <1>10, <2>4, <3>1, Zenon DEF Placed
  <2>9. flash_start' \in SectorsOf(image)
    BY <1>6, <1>10, <2>8, PlacedOnFlash, Zenon
  <2> QED
    BY <1>13, <2>5, <2>7, <2>9, Zenon
<1>15. CASE c.type # "dont_care"
  <2>1. flash_start' = flash_start /\ flash_start \in SectorsOf(image)
    BY <1>1, <1>2, <1>15, Zenon DEF Types
  <2>2. Placed(p)'
    BY <1>1, <1>12, <2>1, PlacedSame, Zenon
  <2>3. CASE z = 0
    <3>1. c.type = "raw" /\ image.to[k + 1] = p /\ image.at[k + 1] = q + ChunkHead
      BY <1>10, <1>11, <1>15, <2>3, Numbers
    <3>2. sparse_format_type' = "CHUNK_HEAD"
      BY <1>1, <1>7, <2>3, Zenon DEF Behind
    <3>3. AtChunk(k + 1)'
      BY <1>1, <1>12, <2>2, <3>1, Zenon DEF AtChunk
    <3>4. Expected'
      BY <1>1, <1>10, <3>2, <3>3, Zenon DEF Expected, NChunks
    <3> QED
      BY <1>13, <2>1, <3>2, <3>4, Zenon
  <2>4. CASE z # 0 /\ c.type = "raw"
    <3>1. sparse_format_type' = "CHUNK_DATA"
      BY <1>1, <1>7, <2>4 DEF Behind
    <3>2. /\ (q + ChunkHead) + z = image.at[k + 1] /\ image.to[k + 1] - z = p
          /\ z > 0 /\ z <= z
      BY <1>10, <1>11, <2>4, Numbers
    <3>3. InData(k)'
      BY <1>1, <1>7, <1>12, <2>2, <2>4, <3>2, Zenon DEF InData
    <3>4. Expected'
      BY <1>1, <1>6, <3>1, <3>3, Zenon DEF Expected, NChunks
    <3> QED
      BY <1>13, <2>1, <3>1, <3>4, Zenon
  <2>5. CASE z # 0 /\ c.type = "fill"
    <3>1. sparse_format_type' = "CHUNK_FILL_DATA"
      BY <1>1, <1>7, <2>5 DEF Behind
    <3>2. (q + ChunkHead) + FillSize = image.at[k + 1]
      BY <1>10, <1>11, <2>5, Numbers
    <3>3. InFill(k)'
      BY <1>1, <1>7, <1>8, <1>12, <2>2, <2>5, <3>2, Zenon DEF InFill
    <3>4. Expected'
      BY <1>1, <1>6, <3>1, <3>3, Zenon DEF Expected, NChunks
    <3> QED
      BY <1>13, <2>1, <3>1, <3>4, Zenon
  <2> QED
    BY <1>10, <1>15, <2>3, <2>4, <2>5, Zenon
<1> QED
  BY <1>14, <1>15, Zenon

-----------------------------------------------------------------------------
(* Writing the data of a chunk *)

LEMMA DataWritten ==
  ASSUME SparseInv, pc = "loop", this_rest_size > 0, NEW k \in 1 .. NChunks, InData(k),
         NEW n \in Nat, Aligned(n), n <= chunk_length, n <= this_rest_size,
         Burn(tmp_buf, n \div Sector), flash_start' = flash_start + n \div Sector,
         UNCHANGED <<image, reference>>
  PROVE  \E p \in Nat : /\ p = image.to[k + 1] - chunk_length /\ Placed(p + n)'
                        /\ flash_start' \in SectorsOf(image)
                        /\ flash' = [s \in SectorsOf(image) |-> flash'[s]]
<1> DEFINE z == Size(image, image.chunks[k])
           b == image.to[k]
           e == image.to[k + 1]
           a == image.at[k]
           f == image.at[k + 1]
<1>0. Types /\ Reads /\ Pos = received - this_rest_size
  BY LoopFacts, Zenon
<1>1. /\ IsImage(image) /\ k \in 1 .. Len(image.chunks) /\ chunk_length \in Nat
      /\ flash_start \in Nat /\ DOMAIN flash = SectorsOf(image)
      /\ received \in Nat /\ this_rest_size \in Nat
  BY <1>0, TypeFacts, Zenon DEF NChunks
<1>2. /\ image.chunks[k].type = "raw" /\ chunk_length <= z
      /\ Pos + chunk_length = f /\ Placed(e - chunk_length)
  BY Zenon DEF InData
<1>3. /\ z \in 0 .. Half - 1 /\ e = b + z /\ f = a + Stored(image, image.chunks[k])
      /\ Stored(image, image.chunks[k]) = ChunkHead + z
      /\ k \in 1 .. Len(image.chunks) + 1 /\ k + 1 \in 1 .. Len(image.chunks) + 1
  BY <1>1, <1>2, ChunkFacts, Zenon
<1>4. a \in Nat /\ b \in Nat /\ e \in Nat /\ f \in Nat
  BY <1>1, <1>3, Bounds, Zenon
<1>5. f = a + (ChunkHead + z)
  BY <1>3, Zenon
<1> HIDE DEF a, b, e, f, z
<1>6. PICK p : p = e - chunk_length
  OBVIOUS
<1>7. /\ p \in Nat /\ b <= p /\ p + n <= e
      /\ received - this_rest_size = a + ChunkHead + p - b
  BY <1>0, <1>1, <1>2, <1>3, <1>4, <1>5, <1>6, Numbers
<1>8. PICK m : m = n \div Sector
  OBVIOUS
<1>9. m \in Nat /\ m * Sector = n
  BY <1>8, DivExact, Numbers, Zenon DEF Aligned
<1>10. Inside(k, p, m)
  BY <1>2, <1>7, <1>9, Zenon DEF Inside, a, b, e
<1>11. Placed(p + n)'
  <2>1. Placed(p)
    BY <1>2, <1>6, Zenon
  <2>2. Placed(p + m * Sector)'
    BY <1>0, <1>7, <1>8, <1>9, <1>10, <2>1, BurnPlaced, Zenon
  <2> QED
    BY <1>9, <2>2, Zenon
<1>12. flash_start' \in SectorsOf(image)
  <2>1. flash_start' \in Nat
    BY <1>1, <1>8, <1>9
  <2>2. PICK g : g = flash_start' * Sector
    OBVIOUS
  <2>3. g <= p + n
    BY <1>11, <2>2, Zenon DEF Placed
  <2>4. g \in Nat
    BY <2>1, <2>2, Numbers
  <2>5. g <= e
    BY <1>4, <1>7, <2>3, <2>4
  <2> QED
    BY <1>1, <1>3, <2>1, <2>2, <2>5, PlacedOnFlash, Zenon DEF e
<1>13. flash' = [s \in SectorsOf(image) |-> flash'[s]]
  <2>1. DOMAIN flash' = SectorsOf(image) /\ flash' = [s \in DOMAIN flash' |-> flash'[s]]
    BY <1>1 DEF Burn
  <2> QED
    BY <2>1, Zenon
<1> QED
  BY <1>6, <1>7, <1>11, <1>12, <1>13, Zenon DEF e

LEMMA WriteChunkKeeps == SparseInv /\ WriteChunk => SparseInv'
<1> SUFFICES ASSUME SparseInv, WriteChunk PROVE SparseInv'
  OBVIOUS
<1>0. /\ pc = "loop" /\ this_rest_size > 0 /\ sparse_format_type = "CHUNK_DATA"
      /\ unenough_length = 0 /\ Aligned(chunk_length)
  BY Zenon DEF WriteChunk, Complete, At
<1>1. PICK n : n = chunk_length
  OBVIOUS
<1>2. /\ Burn(tmp_buf, n \div Sector) /\ flash_start' = flash_start + n \div Sector
      /\ Advance(n) /\ chunk_length' = 0 /\ sparse_format_type' = "CHUNK_HEAD"
      /\ UNCHANGED <<image, reference, received, last_rest_size, buf, length, pc>>
  BY <1>1, Zenon DEF WriteChunk
<1>3. Types /\ Expected
  BY <1>0, LoopFacts, Zenon
<1>4. PICK k \in 1 .. NChunks : InData(k)
  BY <1>0, <1>3, Zenon DEF Expected
<1>5. n \in Nat /\ n <= chunk_length /\ n <= this_rest_size /\ Aligned(n)
  <2>1. chunk_length \in Nat /\ this_rest_size \in Nat /\ chunk_length <= this_rest_size
    BY <1>0, <1>3, TypeFacts, Missing, Zenon
  <2> QED
    BY <1>0, <1>1, <2>1
<1>6. PICK p \in Nat : /\ p = image.to[k + 1] - chunk_length /\ Placed(p + n)'
                       /\ flash_start' \in SectorsOf(image)
                       /\ flash' = [s \in SectorsOf(image) |-> flash'[s]]
  BY <1>0, <1>2, <1>4, <1>5, DataWritten, Zenon
<1>7. Bytes' /\ this_rest_size' \in Nat /\ tmp_buf' \in Int /\ Pos' = Pos + n
  BY <1>0, <1>2, <1>5, AdvanceBytes, Zenon
<1>8. IsImage(image) /\ k \in 1 .. Len(image.chunks)
  BY <1>3, Zenon DEF Types, NChunks
<1>9. k + 1 \in 1 .. Len(image.chunks) + 1
  BY <1>8, ChunkFacts, Zenon
<1>10. p + n = image.to[k + 1]
  <2>1. image.to[k + 1] \in Nat
    BY <1>8, <1>9, Bounds, Zenon
  <2> QED
    BY <1>1, <1>5, <1>6, <2>1
<1>11. Pos' = image.at[k + 1]
  BY <1>1, <1>4, <1>7, Zenon DEF InData
<1>12. AtChunk(k + 1)'
  BY <1>2, <1>6, <1>10, <1>11, Zenon DEF AtChunk
<1>13. Expected'
  BY <1>2, <1>9, <1>12, Zenon DEF Expected, NChunks
<1>14. chunk_length' \in 0 .. Half - 1
  BY <1>2, Numbers
<1>15. Types'
  BY <1>2, <1>3, <1>6, <1>7, <1>14, Zenon DEF Types
<1> QED
  BY <1>0, <1>2, <1>7, <1>13, <1>15, Zenon DEF SparseInv

(* Part of a chunk is written and the rest of the piece kept. *)
LEMMA WritePartKeeps ==
  ASSUME SparseInv, Partial, NEW n \in Nat, Aligned(n), n < chunk_length, n <= this_rest_size,
         this_rest_size - n <= Headroom, WritePart(n)
  PROVE  SparseInv'
<1>0. /\ pc = "loop" /\ this_rest_size > 0 /\ sparse_format_type = "CHUNK_DATA"
      /\ unenough_length # 0
  BY Zenon DEF Partial, At
<1>1. PICK r : r = this_rest_size - n
  OBVIOUS
<1>2. /\ Burn(tmp_buf, n \div Sector) /\ flash_start' = flash_start + n \div Sector
      /\ chunk_length' = chunk_length - n
      /\ Carry(tmp_buf + n, r) /\ last_rest_size' = r
      /\ tmp_buf' = tmp_buf + n /\ this_rest_size' = 0
      /\ UNCHANGED <<image, reference, received, sparse_format_type, length, pc>>
  BY <1>1, Zenon DEF WritePart, Carry
<1>3. /\ Types /\ Reads /\ Expected /\ last_rest_size = 0 /\ Pos = received - this_rest_size
  BY <1>0, LoopFacts, Zenon
<1>4. PICK k \in 1 .. NChunks : InData(k)
  BY <1>0, <1>3, Zenon DEF Expected
<1>5. /\ received \in Nat /\ this_rest_size \in Nat /\ tmp_buf \in Int /\ length \in Nat
      /\ chunk_length \in Nat /\ chunk_length < Half /\ Length(image) \in Nat
      /\ tmp_buf + this_rest_size = length
      /\ chunk_length > this_rest_size /\ Pos + chunk_length <= Length(image)
  BY <1>0, <1>3, <1>4, TypeFacts, Missing, DataAhead, Zenon DEF Reads
<1>6. /\ r \in Nat /\ r <= this_rest_size /\ r <= Headroom /\ n <= chunk_length
      /\ (tmp_buf + n) + r = length /\ tmp_buf + n \in Int
      /\ received < Length(image)
  BY <1>1, <1>3, <1>5, Numbers
<1>7. PICK p \in Nat : /\ p = image.to[k + 1] - chunk_length /\ Placed(p + n)'
                       /\ flash_start' \in SectorsOf(image)
                       /\ flash' = [s \in SectorsOf(image) |-> flash'[s]]
  BY <1>0, <1>2, <1>4, <1>6, DataWritten, Zenon
<1>8. \A j \in (-r) .. (-1) : buf'[j] = received + j
  BY <1>2, <1>3, <1>6, CarriedBytes, Zenon
<1>9. Bytes'
  <2>1. ~(this_rest_size' > 0)
    BY <1>2
  <2> QED
    BY <1>2, <1>6, <1>8, <2>1, Zenon DEF Bytes
<1>10. Types'
  <2>1. /\ chunk_length' \in 0 .. Half - 1 /\ tmp_buf' \in Int /\ this_rest_size' \in Nat
        /\ last_rest_size' \in 0 .. Headroom
    BY <1>2, <1>5, <1>6, Numbers
  <2> QED
    BY <1>2, <1>3, <1>7, <2>1, Zenon DEF Types
<1>11. Pos' = Pos + n
  BY <1>1, <1>2, <1>3, <1>5 DEF Pos
<1>12. InData(k)'
  <2> DEFINE z == Size(image, image.chunks[k])
             e == image.to[k + 1]
             f == image.at[k + 1]
  <2>1. image.chunks[k].type = "raw" /\ chunk_length <= z /\ Pos + chunk_length = f
    BY <1>4, Zenon DEF InData
  <2>2. k \in 1 .. Len(image.chunks) /\ IsImage(image)
    BY <1>3, Zenon DEF Types, NChunks
  <2>3. z \in 0 .. Half - 1 /\ k + 1 \in 1 .. Len(image.chunks) + 1
    BY <2>2, ChunkFacts, Zenon
  <2>4. e \in Nat /\ f \in Nat
    BY <2>2, <2>3, Bounds, Zenon
  <2>5. p = e - chunk_length
    BY <1>7, Zenon
  <2> HIDE DEF z, e, f
  <2>6. chunk_length' > 0 /\ chunk_length' <= z
    BY <1>2, <1>5, <2>1, <2>3, Numbers
  <2>7. e - chunk_length' = p + n
    BY <1>2, <1>5, <2>4, <2>5
  <2>8. Pos' + chunk_length' = f
    BY <1>2, <1>3, <1>5, <1>11, <2>1, <2>4
  <2> QED
    BY <1>2, <1>7, <2>1, <2>6, <2>7, <2>8, Zenon DEF InData, z, e, f
<1>13. Expected'
  BY <1>0, <1>2, <1>12, Zenon DEF Expected, NChunks
<1> QED
  BY <1>0, <1>2, <1>9, <1>10, <1>13, Zenon DEF SparseInv

LEMMA SpliceKeeps == SparseInv /\ Splice => SparseInv'
<1> SUFFICES ASSUME SparseInv, Splice PROVE SparseInv'
  OBVIOUS
<1>1. CASE FailUnaligned(SpliceSize)
  BY <1>1, FailUnalignedKeeps, Zenon
<1>2. CASE ~FailUnaligned(SpliceSize)
  <2>1. /\ Partial /\ unenough_length < Low /\ Aligned(SpliceSize)
        /\ WritePart(SpliceSize)
    BY <1>2, Zenon DEF Splice
  <2>2. /\ pc = "loop" /\ this_rest_size > 0 /\ unenough_length # 0
        /\ this_rest_size >= High
    BY <2>1, Zenon DEF Partial, At
  <2>3. Types
    BY <2>2, LoopFacts, Zenon
  <2>4. /\ chunk_length \in Nat /\ this_rest_size \in Nat
        /\ chunk_length > this_rest_size /\ unenough_length = chunk_length - this_rest_size
    BY <2>2, <2>3, TypeFacts, Missing, Zenon
  <2>5. SpliceSize = chunk_length - Low
    BY <2>4, Numbers DEF SpliceSize
  <2>6. PICK n : n = SpliceSize
    OBVIOUS
  <2>7. /\ n \in Nat /\ n < chunk_length /\ n <= this_rest_size /\ this_rest_size - n <= Headroom
    BY <2>1, <2>2, <2>4, <2>5, <2>6, Numbers
  <2>8. WritePart(n) /\ Aligned(n)
    BY <2>1, <2>6, Zenon
  <2> QED
    BY <2>1, <2>7, <2>8, WritePartKeeps, Zenon
<1> QED
  BY <1>1, <1>2, Zenon

LEMMA WriteSectorsKeeps == SparseInv /\ WriteSectors => SparseInv'
<1> SUFFICES ASSUME SparseInv, WriteSectors PROVE SparseInv'
  OBVIOUS
<1>1. /\ Partial /\ WritePart((this_rest_size \div Sector) * Sector)
  BY Zenon DEF WriteSectors
<1>2. pc = "loop" /\ this_rest_size > 0 /\ unenough_length # 0
  BY <1>1, Zenon DEF Partial, At
<1>3. Types
  BY <1>2, LoopFacts, Zenon
<1>4. chunk_length \in Nat /\ this_rest_size \in Nat /\ chunk_length > this_rest_size
  BY <1>2, <1>3, TypeFacts, Missing, Zenon
<1>5. Sector <= Low
  <2>1. \A s, l \in Nat \ {0} : l % s = 0 => s <= l
    OBVIOUS
  <2> QED
    BY <2>1, SparseAssumption, Zenon
<1>6. PICK d : d = this_rest_size \div Sector
  OBVIOUS
<1>7. PICK n : n = d * Sector
  OBVIOUS
<1>8. PICK r : r = this_rest_size % Sector
  OBVIOUS
<1>9. /\ d \in Nat /\ r \in Nat /\ r \in 0 .. Sector - 1 /\ this_rest_size = n + r
  BY <1>4, <1>6, <1>7, <1>8, DivMod, Numbers, Zenon
<1>10. n \in Nat /\ Aligned(n)
  <2>1. \A q \in Nat : \A s \in Nat \ {0} : q * s \in Nat /\ (q * s) % s = 0
    OBVIOUS
  <2> QED
    BY <1>7, <1>9, <2>1, Numbers, Zenon DEF Aligned
<1>11. /\ n < chunk_length /\ n <= this_rest_size /\ this_rest_size - n <= Headroom
  BY <1>4, <1>5, <1>9, <1>10, Numbers
<1>12. WritePart(n)
  BY <1>1, <1>6, <1>7, Zenon
<1> QED
  BY <1>1, <1>10, <1>11, <1>12, WritePartKeeps, Zenon

-----------------------------------------------------------------------------
(* Filling *)

LEMMA FilledSize ==
  ASSUME NEW z \in Nat
  PROVE  LET m == (z \div Low) * (Low \div Sector)
         IN  m \in Nat /\ m * Sector <= z /\ (z % Low = 0 => m * Sector = z)
<1> DEFINE q == z \div Low
           r == z % Low
           u == Low \div Sector
<1>1. q \in Nat /\ r \in Nat /\ z = q * Low + r
  BY DivMod, Numbers
<1>2. u \in Nat /\ u * Sector = Low
  BY DivExact, SparseAssumption
<1> HIDE DEF q, r, u
<1>3. \A x, y, s \in Nat : (x * y) * s = x * (y * s) /\ x * y \in Nat
  OBVIOUS
<1>4. q * u \in Nat /\ (q * u) * Sector = q * Low /\ q * Low \in Nat
  BY <1>1, <1>2, <1>3, Numbers
<1>5. q * Low <= z /\ (r = 0 => q * Low = z)
  BY <1>1, <1>4
<1> QED
  BY <1>4, <1>5 DEF q, r, u

LEMMA FillPlaced ==
  ASSUME Types, NEW k \in 1 .. NChunks, Reads, FillSize <= this_rest_size,
         image.chunks[k].type = "fill",
         NEW p \in Nat, p = image.to[k], Placed(p), NEW z \in Nat, z = Size(image, image.chunks[k]),
         NEW m \in Nat, m = (z \div Low) * (Low \div Sector),
         received - this_rest_size = image.at[k] + ChunkHead,
         flash' = [s \in DOMAIN flash |->
                     IF s \notin flash_start .. (flash_start + m - 1) THEN flash[s]
                     ELSE IF Whole(tmp_buf, FillSize) THEN <<"fill", buf[tmp_buf]>> ELSE Junk],
         flash_start' = flash_start + m, UNCHANGED <<image, reference>>
  PROVE  Placed(p + z)'
<1>0. /\ flash_start \in Nat /\ IsImage(image) /\ DOMAIN flash = SectorsOf(image)
      /\ reference = Expand(image) /\ k \in 1 .. Len(image.chunks)
      /\ image.to[k + 1] = image.to[k] + Size(image, image.chunks[k])
      /\ received \in Nat /\ this_rest_size \in Nat /\ length \in Nat /\ tmp_buf \in Int
  BY TypeFacts, ChunkFacts, Zenon DEF Types, NChunks
<1>1. m * Sector <= z /\ (z % Low = 0 => m * Sector = z)
  BY FilledSize, Zenon
<1>2. WholeAreas => m * Sector = z
  <2>1. k \in DOMAIN image.chunks
    BY <1>0, ImageFacts, Zenon
  <2>2. WholeAreas => z % Low = 0
    BY <2>1, Zenon DEF WholeAreas
  <2> QED
    BY <1>1, <2>2, Zenon
<1>3. image.to[k + 1] = p + z
  BY <1>0, Zenon
<1>4. Whole(tmp_buf, FillSize) /\ buf[tmp_buf] = image.at[k] + ChunkHead
  BY ReadsWhole, Numbers, Zenon
<1>5. ASSUME NEW s \in SectorsOf(image), s \in flash_start .. (flash_start + m - 1), WholeAreas
      PROVE  flash'[s] = reference[s]
  <2> DEFINE d == (s - flash_start) * Sector
             w == m * Sector
  <2>1. s \in Nat
    BY <1>0, SectorIsNat, Zenon
  <2>2. flash_start <= s /\ s + 1 <= flash_start + m
    BY <1>0, <1>5, <2>1, Between, Zenon
  <2>3. d \in Nat /\ s * Sector = flash_start * Sector + d /\ d + Sector <= w /\ w \in Nat
    BY <1>0, <2>1, <2>2, SectorInWrite, Numbers, Zenon
  <2>4. flash_start * Sector = p
    BY <1>5, Zenon DEF Placed
  <2>5. s * Sector = p + d /\ w <= z
    BY <1>1, <2>3, <2>4, Zenon
  <2> HIDE DEF d, w
  <2>6. p <= p + d /\ p + d < p + z
    <3>1. Sector \in Nat \ {0}
      BY Numbers, Zenon
    <3> QED
      BY <2>3, <2>5, <3>1, InChunk, Zenon
  <2>7. Covers(image, k, s * Sector)
    BY <1>3, <2>5, <2>6, Zenon DEF Covers
  <2>8. reference[s] = Content(image, k, s * Sector)
    BY <1>0, <2>7, RefInChunk, Zenon
  <2>9. Content(image, k, s * Sector) = <<"fill", image.at[k] + ChunkHead>>
    BY DEF Content
  <2>10. flash'[s] = <<"fill", buf[tmp_buf]>>
    BY <1>0, <1>4, <1>5, Zenon
  <2> QED
    BY <1>4, <2>8, <2>9, <2>10, Zenon
<1>6. p + m * Sector <= p + z /\ p + z \in Nat
  <2>1. m * Sector \in Nat
    BY MultMono, Numbers, Zenon
  <2>2. \A x, y, v \in Nat : y <= v => x + y <= x + v /\ x + v \in Nat
    OBVIOUS
  <2> QED
    BY <1>1, <2>1, <2>2, Zenon
<1>7. WholeAreas => p + m * Sector = p + z
  BY <1>2, Zenon
<1>8. \A s \in SectorsOf(image) :
            IF s \in flash_start .. (flash_start + m - 1)
            THEN WholeAreas => flash'[s] = reference[s] ELSE flash'[s] = flash[s]
  BY <1>0, <1>5, Zenon
<1> QED
  BY <1>6, <1>7, <1>8, GrowPlaced, Zenon

LEMMA FillKeeps == SparseInv /\ Fill => SparseInv'
<1> SUFFICES ASSUME SparseInv, Fill PROVE SparseInv'
  OBVIOUS
<1>0. /\ pc = "loop" /\ this_rest_size > 0 /\ sparse_format_type = "CHUNK_FILL_DATA"
      /\ this_rest_size >= FillSize
  BY Zenon DEF Fill, FillHere, At
<1>1. PICK m : m = FillSectors
  OBVIOUS
<1>2. /\ flash' = [s \in DOMAIN flash |->
                     IF s \notin flash_start .. (flash_start + m - 1) THEN flash[s]
                     ELSE IF Whole(tmp_buf, FillSize) THEN <<"fill", buf[tmp_buf]>> ELSE Junk]
      /\ flash_start' = flash_start + m /\ Advance(FillSize)
      /\ sparse_format_type' = "CHUNK_HEAD"
      /\ UNCHANGED <<image, reference, received, chunk_length, last_rest_size, buf, length, pc>>
  BY <1>1, Zenon DEF Fill
<1>3. Types /\ Reads /\ Expected /\ Pos = received - this_rest_size
  BY <1>0, LoopFacts, Zenon
<1>4. PICK k \in 1 .. NChunks : InFill(k)
  BY <1>0, <1>3, Zenon DEF Expected
<1>5. /\ IsImage(image) /\ k \in 1 .. Len(image.chunks) /\ this_rest_size \in Nat
      /\ flash_start \in Nat /\ DOMAIN flash = SectorsOf(image) /\ chunk_length \in Nat
      /\ received \in Nat
  BY <1>3, TypeFacts, Zenon DEF NChunks
<1>6. PICK z : z = Size(image, image.chunks[k])
  OBVIOUS
<1>7. PICK p : p = image.to[k]
  OBVIOUS
<1>8. PICK q : q = image.at[k]
  OBVIOUS
<1>9. /\ image.chunks[k].type = "fill" /\ chunk_length = z
      /\ Pos + FillSize = image.at[k + 1] /\ Placed(p)
  BY <1>4, <1>6, <1>7, Zenon DEF InFill
<1>10. /\ image.to[k + 1] = p + z /\ image.at[k + 1] = q + (ChunkHead + FillSize)
       /\ k \in 1 .. Len(image.chunks) + 1 /\ k + 1 \in 1 .. Len(image.chunks) + 1
  BY <1>5, <1>6, <1>7, <1>8, <1>9, ChunkFacts, Zenon
<1>11. p \in Nat /\ q \in Nat /\ z \in Nat
  BY <1>5, <1>7, <1>8, <1>9, <1>10, Bounds, Zenon
<1>12. m = (z \div Low) * (Low \div Sector)
  BY <1>1, <1>9, Zenon DEF FillSectors
<1>13. m \in Nat
  BY <1>11, <1>12, FilledSize, Zenon
<1>14. received - this_rest_size = q + ChunkHead
  <2>1. Pos + FillSize = q + (ChunkHead + FillSize)
    BY <1>9, <1>10, Zenon
  <2> QED
    BY <1>3, <1>5, <1>11, <2>1, Numbers
<1>15. FillSize \in Nat /\ FillSize <= this_rest_size
  BY <1>0, <1>5, Numbers
<1>16. Placed(p + z)'
  BY <1>2, <1>3, <1>6, <1>7, <1>8, <1>9, <1>11, <1>12, <1>13, <1>14, <1>15, FillPlaced, Zenon
<1>17. Bytes' /\ this_rest_size' \in Nat /\ tmp_buf' \in Int /\ Pos' = Pos + FillSize
  BY <1>0, <1>2, <1>15, AdvanceBytes, Zenon
<1>18. AtChunk(k + 1)'
  BY <1>2, <1>9, <1>10, <1>16, <1>17, Zenon DEF AtChunk
<1>19. Expected'
  BY <1>2, <1>10, <1>18, Zenon DEF Expected, NChunks
<1>20. flash_start' \in SectorsOf(image)
  <2>1. flash_start' \in Nat
    BY <1>2, <1>5, <1>13
  <2>2. flash_start' * Sector <= image.to[k + 1]
    BY <1>10, <1>16, Zenon DEF Placed
  <2> QED
    BY <1>5, <1>10, <2>1, <2>2, PlacedOnFlash, Zenon
<1>21. flash' = [s \in SectorsOf(image) |-> flash'[s]]
  BY <1>2, <1>5
<1>22. Types'
  BY <1>2, <1>3, <1>17, <1>20, <1>21, Zenon DEF Types
<1> QED
  BY <1>0, <1>2, <1>17, <1>19, <1>22, Zenon DEF SparseInv

-----------------------------------------------------------------------------

LEMMA StepKeeps == SparseInv /\ [Next]_vars => SparseInv'
<1> SUFFICES ASSUME SparseInv, [Next]_vars PROVE SparseInv'
  OBVIOUS
<1>1. CASE Fail \/ FailUnaligned(chunk_length)
  BY <1>1, FailKeeps, FailUnalignedKeeps, Zenon
<1>2. CASE \E img \in Images : unsparse_probe(img)
  BY <1>2, ProbeKeeps, Zenon
<1>3. CASE \E n \in PieceSizes : unsparse_direct_write(n)
  BY <1>3, WriteKeeps, Zenon
<1>4. CASE TotalHead
  BY <1>4, TotalHeadKeeps, Zenon
<1>5. CASE ShortHead
  BY <1>5, ShortHeadKeeps, Zenon
<1>6. CASE \E k \in DOMAIN image.chunks : Chunk(k)
  BY <1>6, ChunkKeeps, Zenon
<1>7. CASE WriteChunk
  BY <1>7, WriteChunkKeeps, Zenon
<1>8. CASE FewBytes
  BY <1>8, FewBytesKeeps, Zenon
<1>9. CASE Splice
  BY <1>9, SpliceKeeps, Zenon
<1>10. CASE WriteSectors
  BY <1>10, WriteSectorsKeeps, Zenon
<1>11. CASE Fill
  BY <1>11, FillKeeps, Zenon
<1>12. CASE ShortFill
  BY <1>12, ShortFillKeeps, Zenon
<1>13. CASE Return
  BY <1>13, ReturnKeeps, Zenon
<1>14. CASE UNCHANGED vars
  <2>1. /\ UNCHANGED <<image, reference, received, flash, last_rest_size, buf, length, tmp_buf>>
        /\ UNCHANGED <<this_rest_size, pc, sparse_format_type, chunk_length, flash_start>>
    BY <1>14, Zenon DEF vars, decoder
  <2>2. Types' /\ Bytes' /\ (pc' = "none" => flash' = reference')
    BY <2>1, Zenon DEF SparseInv, Types, Bytes
  <2>3. Expected => Expected'
    <3>1. \A p : Placed(p) <=> Placed(p)'
      BY <2>1, Zenon DEF Placed, WholeAreas
    <3>2. NChunks' = NChunks /\ Pos' = Pos
      BY <2>1, Zenon DEF NChunks, Pos
    <3> QED
      BY <2>1, <3>1, <3>2, Zenon DEF Expected, Heading, AtChunk, InData, InFill
  <2> QED
    BY <2>1, <2>2, <2>3, Zenon DEF SparseInv
<1>15. \/ Next
       \/ UNCHANGED vars
  OBVIOUS
<1>16. ASSUME Next
       PROVE  \/ Fail \/ FailUnaligned(chunk_length)
              \/ \E img \in Images : unsparse_probe(img)
              \/ \E n \in PieceSizes : unsparse_direct_write(n)
              \/ TotalHead \/ ShortHead \/ WriteChunk \/ FewBytes \/ Splice \/ WriteSectors
              \/ Fill \/ ShortFill \/ Return
              \/ \E k \in DOMAIN image.chunks : Chunk(k)
  BY <1>16, Zenon DEF Next, Loop, Unaligned, UnalignedFill, WriteFails, BadChunk
<1> QED
  BY <1>1, <1>2, <1>3, <1>4, <1>5, <1>6, <1>7, <1>8, <1>9, <1>10, <1>11, <1>12, <1>13, <1>14,
     <1>15, <1>16, Zenon

LEMMA InvTypes == SparseInv => TypeOK
<1> SUFFICES ASSUME SparseInv PROVE TypeOK
  OBVIOUS
<1>1. Types /\ Bytes
  BY Zenon DEF SparseInv
<1>2. chunk_length \in 0 .. (2 * Half - 1) /\ this_rest_size >= 0
  BY <1>1, TypeFacts, Numbers
<1>3. DOMAIN flash = SectorsOf(image) /\ DOMAIN reference = SectorsOf(image)
  BY <1>1, Zenon DEF Types, Expand
<1>4. ASSUME pc = "loop", this_rest_size > 0
      PROVE  tmp_buf \in Room /\ tmp_buf + this_rest_size = length
  <2>1. -Headroom <= tmp_buf /\ tmp_buf + this_rest_size = length
    BY <1>1, <1>4, Zenon DEF Bytes
  <2>2. length \in 0 .. LongestPiece /\ tmp_buf \in Int /\ this_rest_size \in Nat
    BY <1>1, Zenon DEF Types
  <2> QED
    BY <1>4, <2>1, <2>2, Numbers DEF Room
<1> QED
  BY <1>1, <1>2, <1>3, <1>4, Zenon DEF Types, TypeOK

LEMMA InvInStep == SparseInv => InStep
<1> SUFFICES ASSUME SparseInv, At("CHUNK_HEAD"), this_rest_size >= ChunkHead
             PROVE  \E k \in DOMAIN image.chunks : AtHead(k)
  BY Zenon DEF InStep
<1>0. pc = "loop" /\ this_rest_size > 0 /\ sparse_format_type = "CHUNK_HEAD"
  BY Zenon DEF At
<1>1. Types /\ Reads /\ Expected /\ Pos = received - this_rest_size
  BY <1>0, LoopFacts, Zenon
<1>2. PICK k \in 1 .. NChunks + 1 : AtChunk(k)
  BY <1>0, <1>1, Zenon DEF Expected
<1>3. k \in 1 .. NChunks /\ Pos = image.at[k]
  BY <1>0, <1>2, HeaderAhead, Zenon DEF AtChunk
<1>4. k \in DOMAIN image.chunks
  BY <1>1, <1>3, ImageFacts, Zenon DEF Types, NChunks
<1>5. ChunkHead \in Nat \ {0} /\ ChunkHead <= this_rest_size
  BY <1>1, Numbers, TypeFacts
<1>6. Whole(tmp_buf, ChunkHead) /\ buf[tmp_buf] = Pos
  BY <1>1, <1>5, ReadsWhole, Zenon
<1> QED
  BY <1>3, <1>4, <1>6, Zenon DEF AtHead, Offset

LEMMA InvRestFits == SparseInv => RestFits
<1> SUFFICES ASSUME SparseInv PROVE RestFits
  OBVIOUS
<1>1. Types /\ Bytes
  BY Zenon DEF SparseInv
<1>2. last_rest_size \in Nat /\ last_rest_size <= Headroom /\ received \in Nat /\ Length(image) \in Nat
  BY <1>1, TypeFacts, Zenon
<1>3. last_rest_size > 0 => received < Length(image)
  BY <1>1, Zenon DEF Bytes
<1>4. received = Length(image) => last_rest_size = 0
  BY <1>2, <1>3
<1> QED
  BY <1>2, <1>4, Zenon DEF RestFits, Finished

LEMMA InvOnlyItsData == SparseInv => OnlyItsData
<1> SUFFICES ASSUME SparseInv, pc # "failed", WholeAreas, NEW s \in DOMAIN flash
             PROVE  flash[s] \in {Erased, reference[s]}
  BY Zenon DEF OnlyItsData
<1>1. Types /\ pc \in {"none", "idle", "loop"}
  BY Zenon DEF SparseInv, Types
<1>2. s \in SectorsOf(image)
  BY <1>1, TypeFacts, Zenon
<1>3. CASE pc = "none"
  BY <1>3, Zenon DEF SparseInv
<1>4. CASE pc \in {"idle", "loop"}
  <2>1. Expected
    BY <1>4, Zenon DEF SparseInv
  <2>2. sparse_format_type \in {"TOTAL_HEAD", "CHUNK_HEAD", "CHUNK_DATA", "CHUNK_FILL_DATA"}
    BY <1>1, Zenon DEF Types
  <2>3. \E p : Placed(p)
    BY <2>1, <2>2, Zenon DEF Expected, Heading, AtChunk, InData, InFill
  <2> QED
    BY <1>2, <2>3, Zenon DEF Placed
<1> QED
  BY <1>1, <1>3, <1>4, Zenon

LEMMA InvWritten == SparseInv => ImageIsWritten
<1> SUFFICES ASSUME SparseInv, Finished, WholeAreas PROVE flash = reference
  BY Zenon DEF ImageIsWritten
<1>0. Types /\ Bytes /\ Expected /\ pc = "idle" /\ received = Length(image) /\ this_rest_size = 0
  BY Zenon DEF SparseInv, Finished, Bytes
<1>1. /\ IsImage(image) /\ NChunks \in Nat /\ received \in Nat /\ Length(image) \in Nat
      /\ chunk_length \in Nat /\ flash_start \in Nat
  BY <1>0, TypeFacts, Zenon
<1>2. Pos = Length(image)
  <2>1. last_rest_size = 0
    BY <1>0, InvRestFits, Zenon DEF RestFits, Finished
  <2> QED
    BY <1>0, <1>1, <2>1 DEF Pos
<1>3. NChunks + 1 \in 1 .. NChunks + 1 /\ 1 \in 1 .. NChunks + 1
  BY <1>1
<1>4. sparse_format_type # "TOTAL_HEAD"
  <2>1. image.at[1] = HeadSize /\ image.at[1] <= Length(image)
    BY <1>1, <1>3, ImageFacts, Bounds, Zenon DEF NChunks
  <2>2. Length(image) # 0
    BY <1>1, <2>1, Numbers
  <2> QED
    BY <1>0, <1>2, <2>2, Zenon DEF Expected, Heading
<1>5. sparse_format_type # "CHUNK_DATA"
  <2> SUFFICES ASSUME sparse_format_type = "CHUNK_DATA" PROVE FALSE
    OBVIOUS
  <2>1. PICK k \in 1 .. NChunks : InData(k)
    BY <1>0, Zenon DEF Expected
  <2>2. Pos + chunk_length <= Length(image) /\ chunk_length > 0
    BY <1>0, <2>1, DataAhead, Zenon DEF InData
  <2> QED
    BY <1>1, <1>2, <2>2
<1>6. sparse_format_type # "CHUNK_FILL_DATA"
  <2> SUFFICES ASSUME sparse_format_type = "CHUNK_FILL_DATA" PROVE FALSE
    OBVIOUS
  <2>1. PICK k \in 1 .. NChunks : InFill(k)
    BY <1>0, Zenon DEF Expected
  <2>2. k + 1 \in 1 .. Len(image.chunks) + 1
    BY <1>1, ChunkFacts, Zenon DEF NChunks
  <2>3. Pos + FillSize <= Length(image)
    BY <1>1, <2>1, <2>2, Bounds, Zenon DEF InFill
  <2> QED
    BY <1>1, <1>2, <2>3, Numbers
<1>7. PICK k \in 1 .. NChunks + 1 : AtChunk(k)
  BY <1>0, <1>4, <1>5, <1>6, Zenon DEF Expected, Types
<1>8. k = NChunks + 1
  <2> SUFFICES ASSUME k < NChunks + 1 PROVE FALSE
    BY <1>1
  <2>1. image.at[k] + ChunkHead <= image.at[NChunks + 1]
    BY <1>1, <1>3, HeadsDiffer, Zenon DEF NChunks
  <2>2. Length(image) + ChunkHead <= Length(image)
    BY <1>2, <1>7, <2>1, Zenon DEF AtChunk, Length, Offset, NChunks
  <2> QED
    BY <1>1, <2>2, Numbers
<1>9. PICK p : p = image.to[NChunks + 1]
  OBVIOUS
<1>10. /\ flash_start * Sector = p
       /\ \A s \in SectorsOf(image) : flash[s] = IF s < flash_start THEN reference[s] ELSE Erased
  BY <1>7, <1>8, <1>9, Zenon DEF AtChunk, Placed
<1>11. ASSUME NEW s \in SectorsOf(image) PROVE flash[s] = reference[s]
  <2>1. CASE s < flash_start
    BY <1>10, <2>1, Zenon
  <2>2. CASE ~(s < flash_start)
    <3>1. s \in Nat
      BY <1>1, SectorIsNat, Zenon
    <3>2. flash_start <= s
      BY <1>1, <2>2, <3>1
    <3>3. flash_start * Sector <= s * Sector
      BY <1>1, <3>1, <3>2, MultMono, Numbers, Zenon
    <3>4. reference[s] = Erased
      BY <1>0, <1>1, <1>9, <1>10, <3>3, RefBehind, Zenon DEF Types, NChunks
    <3> QED
      BY <1>10, <2>2, <3>4, Zenon
  <2> QED
    BY <2>1, <2>2, Zenon
<1>12. /\ flash = [s \in SectorsOf(image) |-> flash[s]]
       /\ reference = [s \in SectorsOf(image) |-> reference[s]]
  <2>1. reference = Expand(image) /\ flash = [s \in SectorsOf(image) |-> flash[s]]
    BY <1>0, Zenon DEF Types
  <2>2. Expand(image) = [s \in SectorsOf(image) |-> Expand(image)[s]]
    BY DEF Expand
  <2> QED
    BY <2>1, <2>2, Zenon
<1> QED
  BY <1>11, <1>12

-----------------------------------------------------------------------------

LEMMA AlwaysInv == Spec => []SparseInv
<1>1. Init => SparseInv
  BY InitInv
<1>2. SparseInv /\ [Next]_vars => SparseInv'
  BY StepKeeps
<1> QED
  BY <1>1, <1>2, PTL DEF Spec

(* The variables of the decoder keep their types for every image and every   *)
(* way to cut it: no chunk leads it behind the end of the partition, and the *)
(* bytes to be dealt with are those up to the end of the piece.              *)
THEOREM SparseTypes == Spec => []TypeOK
BY AlwaysInv, InvTypes, PTL

(* When unsparse_direct_write has returned 0 for the last piece the flash    *)
(* holds what the image stands for, for every image whose fill chunks are    *)
(* multiples of 4K and whose areas that are not cared for are multiples of a *)
(* sector, however it was cut into pieces.                                   *)
THEOREM ImageAlwaysWritten == Spec => []ImageIsWritten
BY AlwaysInv, InvWritten, PTL

(* No sector ever gets other bytes than its own, however the pieces and the  *)
(* bytes kept from one call to the next fall.                                *)
THEOREM AlwaysOnlyItsData == Spec => []OnlyItsData
BY AlwaysInv, InvOnlyItsData, PTL

(* Where the decoder takes bytes for the header of a chunk there is one,     *)
(* also when the header came in two pieces.                                  *)
THEOREM AlwaysInStep == Spec => []InStep
BY AlwaysInv, InvInStep, PTL

(* What a call keeps for the next one always fits in front of the buffer,    *)
(* and nothing is kept once the whole image has come.                        *)
THEOREM RestAlwaysFits == Spec => []RestFits
BY AlwaysInv, InvRestFits, PTL
=============================================================================
