-------------------------- MODULE SpinandBootProofs --------------------------
(***************************************************************************)
(* Proofs about SpinandBoot, for all sizes of the chip, of its areas and   *)
(* of the images, and for any number of bad blocks, power cuts and         *)
(* failures.                                                               *)
(***************************************************************************)
EXTENDS SpinandBoot, FiniteSetTheorems, TLAPS

(* The good blocks from i to j, and how many there are up to b in area a. *)
Good(i, j) == Cardinality((i .. j) \ bad)
Rank(a, b) == Good(Start(a), b)

(* The good blocks of area a before block x hold the parts of v in turn. *)
Written(a, v, x) == \A b \in Area(a) : b < x /\ b \notin bad =>
                      block[b] = Part(v, ((Rank(a, b) - 1) % BlksOf[v]) + 1)

Downloading == pc \in {"copy", "block", "write"}

(* How far a download has come.  Copies begin where the number of good       *)
(* blocks before is a multiple of the size, unless the area has ended; only  *)
(* blocks that were written may lie behind the area.                         *)
Progress ==
  Downloading =>
    /\ img \in Images /\ Size <= End(A) - Start(A)
    /\ last[A] = img /\ ~ok[A]
    /\ Start(A) <= start /\ start <= blk
    /\ Written(A, img, blk)
    /\ start < End(A) => /\ Rank(A, start - 1) % Size = 0
                         /\ Rank(A, start - 1) = 0 => start = Start(A)
    /\ pc = "copy" => blk = start /\ part = 1
    /\ pc # "copy" => /\ start + Size <= End(A) /\ blk + 1 < End(A) + part
                      /\ Rank(A, blk - 1) = Rank(A, start - 1) + (part - 1)
    /\ pc = "write" => blk \notin bad

(* What the SPL finds after a download. *)
Loads == ok["uboot"] /\ last["uboot"] # NoImage =>
           \A b \in Area("uboot") :
             b \notin bad /\ Rank("uboot", b) <= BlksOf[last["uboot"]] =>
               block[b] = Part(last["uboot"], Rank("uboot", b))

(* The image last put in an area is one of its own. *)
Homes == \A a \in Areas : last[a] # NoImage => last[a] \in Images /\ AreaOf(last[a]) = a

Erasing == pc = "erase" => \A a \in Areas : ~ok[a] /\ copies[a] = 0

(* Where whole copies of s blocks begin in area a. *)
Positions(a, s) == {i \in Area(a) : /\ i \notin bad /\ Rank(a, i - 1) % s = 0
                                    /\ Good(i, End(a) - 1) >= s}
WholeAt(a, i, v) == \A b \in i .. End(a) - 1 : b \notin bad /\ Good(i, b) <= BlksOf[v] =>
                      block[b] = Part(v, Good(i, b))
ImagesOf(a, s) == {v \in Images : AreaOf(v) = a /\ BlksOf[v] = s}
Intact(a, s) == {i \in Positions(a, s) : \E v \in ImagesOf(a, s) : WholeAt(a, i, v)}

(* The copy that is being written. *)
Busy(a, s) == {i \in Positions(a, s) : /\ pc \in {"block", "write"} /\ A = a
                                       /\ Rank(a, i - 1) = Rank(a, start - 1)}

(* The copies that count, and that every download that was spoiled has cost  *)
(* one of them at most.                                                      *)
Counting(a) == Intact(a, BlksOf[last[a]]) \cup Busy(a, BlksOf[last[a]])
Kept(a) == copies[a] > 0 => last[a] # NoImage /\ copies[a] <= faults[a] + Cardinality(Counting(a))

BootInv == TypeOK /\ Progress /\ Homes /\ Loads /\ Erasing /\ \A a \in Areas : Kept(a)
-----------------------------------------------------------------------------
(* Counting good blocks *)

LEMMA NatMin == ASSUME NEW T \in SUBSET Nat, T # {} PROVE \E x \in T : \A y \in T : x <= y
<1> DEFINE R == {ss \in Nat \X Nat : ss[1] < ss[2]}
<1>1. IsWellFoundedOn(R, Nat)
  BY NatLessThanWellFounded, Zenon DEF OpToRel
<1> HIDE DEF R
<1>2. PICK x \in T : \A y \in T : ~ (<<y, x>> \in R)
  BY <1>1, WFMin, Zenon
<1>3. ASSUME NEW y \in T PROVE x <= y
  <2>1. ~ (<<y, x>> \in R)
    BY <1>2, Zenon
  <2> QED
    BY <2>1 DEF R
<1> QED
  BY <1>3, Zenon

LEMMA GoodType ==
  ASSUME NEW i \in Int, NEW j \in Int
  PROVE  /\ IsFiniteSet((i .. j) \ bad) /\ Good(i, j) \in Nat
         /\ i <= j => Good(i, j) <= j - i + 1
         /\ i > j => Good(i, j) = 0
<1>1. IsFiniteSet(i .. j) /\ Cardinality(i .. j) = IF i > j THEN 0 ELSE j - i + 1
  BY FS_Interval
<1>2. (i .. j) \ bad \in SUBSET (i .. j)
  BY Zenon
<1>3. IsFiniteSet((i .. j) \ bad) /\ Cardinality((i .. j) \ bad) <= Cardinality(i .. j)
  BY <1>1, <1>2, FS_Subset, Zenon
<1>4. Cardinality((i .. j) \ bad) \in Nat
  BY <1>3, FS_CardinalityType, Zenon
<1> QED
  BY <1>1, <1>3, <1>4 DEF Good

LEMMA GoodSplit ==
  ASSUME NEW i \in Int, NEW j \in Int, NEW k \in Int, i <= j + 1, j <= k
  PROVE  Good(i, k) = Good(i, j) + Good(j + 1, k)
<1> DEFINE S == (i .. j) \ bad
           T == ((j + 1) .. k) \ bad
<1>1. j + 1 \in Int
  OBVIOUS
<1>2. IsFiniteSet(S) /\ IsFiniteSet(T) /\ Good(i, j) \in Nat /\ Good(j + 1, k) \in Nat
  BY <1>1, GoodType, Zenon
<1>3. (i .. k) \ bad = S \cup T /\ S \cap T = {}
  OBVIOUS
<1>4. Cardinality(S \cup T) = Cardinality(S) + Cardinality(T) - Cardinality(S \cap T)
  BY <1>2, FS_Union, Zenon
<1>5. Cardinality(S) = Good(i, j) /\ Cardinality(T) = Good(j + 1, k)
      /\ Cardinality(S \cup T) = Good(i, k)
  BY <1>3, Zenon DEF Good
<1>6. Cardinality(S \cap T) = 0
  BY <1>3, FS_EmptySet, Zenon
<1> HIDE DEF S, T
<1> QED
  BY <1>2, <1>4, <1>5, <1>6

LEMMA GoodStep ==
  ASSUME NEW i \in Int, NEW b \in Int, i <= b
  PROVE  Good(i, b) = IF b \in bad THEN Good(i, b - 1) ELSE Good(i, b - 1) + 1
<1>1. b - 1 \in Int /\ i <= (b - 1) + 1 /\ b - 1 <= b /\ (b - 1) + 1 = b
  OBVIOUS
<1>2. Good(i, b) = Good(i, b - 1) + Good(b, b)
  <2>1. Good(i, b) = Good(i, b - 1) + Good((b - 1) + 1, b)
    BY <1>1, GoodSplit, Zenon
  <2> QED
    BY <1>1, <2>1, Zenon
<1>3. Good(i, b - 1) \in Nat
  BY <1>1, GoodType, Zenon
<1>4. Good(b, b) = IF b \in bad THEN 0 ELSE 1
  <2>1. b .. b = {b}
    OBVIOUS
  <2>2. CASE b \in bad
    <3>1. (b .. b) \ bad = {}
      BY <2>1, <2>2, Zenon
    <3> QED
      BY <2>2, <3>1, FS_EmptySet, Zenon DEF Good
  <2>3. CASE b \notin bad
    <3>1. (b .. b) \ bad = {b}
      BY <2>1, <2>3, Zenon
    <3> QED
      BY <2>3, <3>1, FS_Singleton, Zenon DEF Good
  <2> QED
    BY <2>2, <2>3, Zenon
<1> QED
  BY <1>2, <1>3, <1>4

LEMMA GoodMono ==
  ASSUME NEW i \in Int, NEW j \in Int, NEW k \in Int, j <= k
  PROVE  Good(i, j) <= Good(i, k)
<1>1. (i .. j) \ bad \in SUBSET ((i .. k) \ bad)
  OBVIOUS
<1> QED
  BY <1>1, GoodType, FS_Subset, Zenon DEF Good

(* A good block is known by its number. *)
LEMMA GoodStrict ==
  ASSUME NEW i \in Int, NEW j \in Int, NEW b \in Int, i <= b, j < b, b \notin bad
  PROVE  Good(i, j) < Good(i, b)
<1>1. b - 1 \in Int /\ j <= b - 1
  OBVIOUS
<1>2. Good(i, j) <= Good(i, b - 1) /\ Good(i, j) \in Nat /\ Good(i, b - 1) \in Nat
  BY <1>1, GoodMono, GoodType, Zenon
<1>3. Good(i, b) = Good(i, b - 1) + 1
  BY GoodStep, Zenon
<1> QED
  BY <1>2, <1>3

LEMMA GoodUnique ==
  ASSUME NEW i \in Int, NEW b \in Int, NEW c \in Int, i <= b, i <= c, b \notin bad, c \notin bad,
         Good(i, b) = Good(i, c)
  PROVE  b = c
<1>1. ~(b < c) /\ ~(c < b)
  <2>1. Good(i, b) \in Nat /\ Good(i, c) \in Nat
    BY GoodType, Zenon
  <2>2. (b < c => Good(i, b) < Good(i, c)) /\ (c < b => Good(i, c) < Good(i, b))
    BY GoodStrict
  <2> QED
    BY <2>1, <2>2
<1> QED
  BY <1>1

LEMMA GoodExists ==
  ASSUME NEW i \in Nat, NEW j \in Int, NEW n \in 1 .. Good(i, j)
  PROVE  \E b \in i .. j : b \notin bad /\ Good(i, b) = n
<1> DEFINE T == {b \in i .. j : Good(i, b) >= n}
<1>i. i \in Int
  OBVIOUS
<1>0. Good(i, j) \in Nat /\ i <= j
  <2>1. Good(i, j) \in Nat /\ (i > j => Good(i, j) = 0)
    BY <1>i, GoodType, Zenon
  <2> QED
    BY <2>1
<1>1. j \in T /\ T \in SUBSET Nat
  BY <1>0
<1>2. PICK b \in T : \A y \in T : b <= y
  BY <1>1, NatMin, Zenon
<1>3. b \in i .. j /\ b \in Int /\ i <= b /\ Good(i, b) >= n /\ b - 1 \in Int
  OBVIOUS
<1>4. Good(i, b - 1) \in Nat /\ Good(i, b) \in Nat /\ Good(i, i - 1) = 0
  <2>1. i - 1 \in Int /\ i > i - 1
    OBVIOUS
  <2> QED
    BY <1>i, <1>3, <2>1, GoodType, Zenon
<1>5. Good(i, b - 1) < n
  <2>1. b - 1 \notin T
    BY <1>2, <1>3
  <2>2. CASE b = i
    BY <1>4, <2>2
  <2>3. CASE b # i
    <3>1. b - 1 \in i .. j
      BY <1>3, <2>3
    <3> QED
      BY <1>4, <2>1, <3>1
  <2> QED
    BY <2>2, <2>3, Zenon
<1>6. Good(i, b) = IF b \in bad THEN Good(i, b - 1) ELSE Good(i, b - 1) + 1
  BY <1>i, <1>3, GoodStep, Zenon
<1>7. b \notin bad /\ Good(i, b) = n
  BY <1>3, <1>4, <1>5, <1>6
<1> QED
  BY <1>3, <1>7, Zenon

LEMMA ModAdd ==
  ASSUME NEW s \in Nat \ {0}, NEW r \in Nat, r % s = 0
  PROVE  /\ \A x \in 0 .. s - 1 : (r + x) % s = x
         /\ (r + s) % s = 0
<1> DEFINE q == r \div s
<1>1. q \in Nat /\ r = s * q
  OBVIOUS
<1> HIDE DEF q
<1>2. \A x \in 0 .. s - 1 : (s * q + x) % s = x
  BY <1>1
<1>3. s * q + s = s * (q + 1) /\ (s * (q + 1)) % s = 0
  BY <1>1
<1> QED
  BY <1>1, <1>2, <1>3

-----------------------------------------------------------------------------
(* Areas and images *)

LEMMA AreaFacts ==
  ASSUME NEW a \in Areas
  PROVE  /\ Start(a) \in Nat /\ End(a) \in Nat /\ Start(a) < End(a) /\ End(a) <= UbootEnd
         /\ UbootEnd < NBlocks /\ NBlocks \in Nat /\ UbootEnd \in Nat
         /\ Area(a) \subseteq Blocks /\ Area(a) \subseteq Nat
BY BootAssumption DEF Areas, Start, End, Area, Blocks

LEMMA ImageFacts ==
  ASSUME NEW v \in Images
  PROVE  /\ BlksOf[v] \in Nat \ {0} /\ AreaOf(v) \in Areas /\ v # NoImage
         /\ End(AreaOf(v)) + BlksOf[v] <= NBlocks + 1
         /\ AreaOf(v) = "boot0" => BlksOf[v] = 1
         /\ AreaOf(v) = "uboot" => v \in Uboots
<1>1. /\ BlksOf[v] \in Nat \ {0} /\ AreaOf(v) \in Areas /\ v # NoImage
      /\ AreaOf(v) = "boot0" => BlksOf[v] = 1
      /\ AreaOf(v) = "uboot" => v \in Uboots
  BY BootAssumption DEF Images, AreaOf, Areas, NoImage
<1>2. CASE AreaOf(v) = "boot0"
  BY <1>1, <1>2, BootAssumption DEF End
<1>3. CASE AreaOf(v) = "uboot"
  BY <1>1, <1>3, BootAssumption DEF End
<1> QED
  BY <1>1, <1>2, <1>3, Zenon DEF Areas

LEMMA RankType ==
  ASSUME NEW a \in Areas, NEW b \in Int
  PROVE  /\ Rank(a, b) \in Nat
         /\ b < Start(a) => Rank(a, b) = 0
         /\ Start(a) <= b => Rank(a, b) = IF b \in bad THEN Rank(a, b - 1) ELSE Rank(a, b - 1) + 1
<1>1. Start(a) \in Int
  BY AreaFacts
<1> QED
  BY <1>1, GoodType, GoodStep, ZenonT(40) DEF Rank

(* Everything known of the numbers while a download is going on. *)
LEMMA InDownload ==
  ASSUME TypeOK, Progress, Downloading
  PROVE  /\ img \in Images /\ A \in Areas /\ Size \in Nat \ {0}
         /\ Start(A) \in Nat /\ End(A) \in Nat /\ Start(A) < End(A) /\ NBlocks \in Nat
         /\ End(A) + Size <= NBlocks + 1 /\ End(A) < NBlocks
         /\ start \in Nat /\ blk \in Nat /\ part \in 1 .. Size
         /\ Start(A) <= start /\ start <= blk
         /\ Rank(A, start - 1) \in Nat /\ Rank(A, blk - 1) \in Nat /\ Rank(A, blk) \in Nat
         /\ Rank(A, blk) = IF blk \in bad THEN Rank(A, blk - 1) ELSE Rank(A, blk - 1) + 1
<1>1. img \in Images /\ Start(A) <= start /\ start <= blk
  BY Zenon DEF Progress
<1>2. A \in Areas /\ Size \in Nat \ {0} /\ End(A) + Size <= NBlocks + 1 /\ img # NoImage
  BY <1>1, ImageFacts, Zenon DEF A, Size
<1>3. /\ Start(A) \in Nat /\ End(A) \in Nat /\ Start(A) < End(A) /\ NBlocks \in Nat
      /\ End(A) < NBlocks
  BY <1>2, AreaFacts
<1>4. part \in 1 .. Size /\ start \in 0 .. NBlocks /\ blk \in 0 .. NBlocks
  BY <1>2, Zenon DEF TypeOK
<1>5. start \in Nat /\ blk \in Nat /\ start - 1 \in Int /\ blk - 1 \in Int /\ blk \in Int
      /\ Start(A) <= blk
  BY <1>1, <1>3, <1>4
<1>6. /\ Rank(A, start - 1) \in Nat /\ Rank(A, blk - 1) \in Nat /\ Rank(A, blk) \in Nat
      /\ Rank(A, blk) = IF blk \in bad THEN Rank(A, blk - 1) ELSE Rank(A, blk - 1) + 1
  BY <1>2, <1>5, RankType, Zenon
<1> QED
  BY <1>1, <1>2, <1>3, <1>4, <1>5, <1>6, Zenon

-----------------------------------------------------------------------------
(* How far a download has come *)

LEMMA RankSame == UNCHANGED bad => \A a, b : Rank(a, b)' = Rank(a, b)
BY Zenon DEF Rank, Good, Start

LEMMA ProgressIs ==
  ASSUME Progress, Downloading, UNCHANGED <<bad, img, last, ok>>,
         Start(A) <= start', start' <= blk',
         \A b \in Area(A) : b < blk' /\ b \notin bad =>
           block'[b] = Part(img, ((Rank(A, b) - 1) % Size) + 1),
         start' < End(A) => /\ Rank(A, start' - 1) % Size = 0
                            /\ Rank(A, start' - 1) = 0 => start' = Start(A),
         pc' = "copy" => blk' = start' /\ part' = 1,
         pc' # "copy" => /\ start' + Size <= End(A) /\ blk' + 1 < End(A) + part'
                         /\ Rank(A, blk' - 1) = Rank(A, start' - 1) + (part' - 1),
         pc' = "write" => blk' \notin bad
  PROVE  Progress'
<1>1. A' = A /\ Size' = Size /\ \A a : Start(a)' = Start(a) /\ End(a)' = End(a) /\ Area(a)' = Area(a)
  BY Zenon DEF A, Size, Start, End, Area
<1>2. \A a, b : Rank(a, b)' = Rank(a, b)
  BY RankSame, Zenon
<1>3. Written(A, img, blk)'
  BY <1>1, <1>2, Zenon DEF Written, Size
<1>4. img \in Images /\ Size <= End(A) - Start(A) /\ last[A] = img /\ ~ok[A]
  BY Zenon DEF Progress
<1> QED
  BY <1>1, <1>2, <1>3, <1>4, Zenon DEF Progress

LEMMA NextCopyProgress == ASSUME TypeOK, Progress, NextCopy PROVE Progress'
<1>0. Downloading /\ pc = "copy" /\ blk = start
  BY Zenon DEF NextCopy, Downloading, Progress
<1>1. /\ pc' = "block" /\ start' = start /\ blk' = start /\ part' = 1 /\ start + Size <= End(A)
      /\ UNCHANGED <<block, bad, img, last, ok>>
  BY Zenon DEF NextCopy, Goto, ghosts
<1>2. /\ start \in Nat /\ Size \in Nat \ {0} /\ End(A) \in Nat /\ Start(A) <= start
      /\ Rank(A, start - 1) \in Nat
  BY <1>0, InDownload, Zenon
<1>3. start + 1 < End(A) + 1 /\ Rank(A, start - 1) = Rank(A, start - 1) + (1 - 1) /\ start <= start
  BY <1>1, <1>2
<1>4. /\ \A b \in Area(A) : b < blk /\ b \notin bad =>
           block[b] = Part(img, ((Rank(A, b) - 1) % Size) + 1)
      /\ start < End(A) => /\ Rank(A, start - 1) % Size = 0
                           /\ Rank(A, start - 1) = 0 => start = Start(A)
  BY <1>0, Zenon DEF Progress, Written, Size
<1> QED
  BY <1>0, <1>1, <1>2, <1>3, <1>4, ProgressIs, Zenon

(* What a copy that is being written says of the next block. *)
LEMMA InCopy ==
  ASSUME TypeOK, Progress, pc \in {"block", "write"}
  PROVE  /\ Downloading /\ start + Size <= End(A) /\ blk + 1 < End(A) + part
         /\ Rank(A, start - 1) % Size = 0 /\ (Rank(A, start - 1) = 0 => start = Start(A))
         /\ Rank(A, blk - 1) = Rank(A, start - 1) + (part - 1)
         /\ \A b \in Area(A) : b < blk /\ b \notin bad =>
              block[b] = Part(img, ((Rank(A, b) - 1) % Size) + 1)
         /\ blk < NBlocks
<1>0. Downloading /\ pc # "copy"
  BY DEF Downloading
<1>1. /\ start + Size <= End(A) /\ blk + 1 < End(A) + part
      /\ Rank(A, blk - 1) = Rank(A, start - 1) + (part - 1)
      /\ \A b \in Area(A) : b < blk /\ b \notin bad =>
           block[b] = Part(img, ((Rank(A, b) - 1) % Size) + 1)
      /\ start < End(A) => /\ Rank(A, start - 1) % Size = 0
                           /\ Rank(A, start - 1) = 0 => start = Start(A)
  BY <1>0, Zenon DEF Progress, Written, Size
<1>2. /\ start \in Nat /\ Size \in Nat \ {0} /\ End(A) \in Nat /\ blk \in Nat /\ part \in 1 .. Size
      /\ End(A) + Size <= NBlocks + 1 /\ NBlocks \in Nat
  BY <1>0, InDownload, Zenon
<1>3. start < End(A) /\ blk < NBlocks
  BY <1>1, <1>2
<1> QED
  BY <1>0, <1>1, <1>3, Zenon

LEMMA AreaInts == \A a \in Areas : \A b \in Area(a) : b \in Nat
BY AreaFacts

LEMMA SkipBadProgress == ASSUME TypeOK, Progress, SkipBad PROVE Progress'
<1>0. pc = "block" /\ blk \in bad /\ pc \in {"block", "write"}
  BY DEF SkipBad
<1>1. /\ IF blk + 1 >= End(A)
         THEN pc' = "copy" /\ start' = blk + 1 /\ blk' = blk + 1 /\ part' = 1
         ELSE pc' = "block" /\ start' = start /\ blk' = blk + 1 /\ part' = part
      /\ UNCHANGED <<block, bad, img, last, ok>>
  BY Zenon DEF SkipBad, Goto, ghosts
<1>2. /\ Downloading /\ start + Size <= End(A) /\ blk + 1 < End(A) + part
      /\ Rank(A, start - 1) % Size = 0 /\ (Rank(A, start - 1) = 0 => start = Start(A))
      /\ Rank(A, blk - 1) = Rank(A, start - 1) + (part - 1)
      /\ \A b \in Area(A) : b < blk /\ b \notin bad =>
           block[b] = Part(img, ((Rank(A, b) - 1) % Size) + 1)
  BY <1>0, InCopy, Zenon
<1>3. /\ start \in Nat /\ blk \in Nat /\ Size \in Nat \ {0} /\ part \in 1 .. Size /\ A \in Areas
      /\ Start(A) \in Nat /\ End(A) \in Nat /\ Start(A) <= start /\ start <= blk
      /\ Rank(A, blk) = Rank(A, blk - 1)
  BY <1>0, <1>2, InDownload, Zenon
<1>4. \A b \in Area(A) : b < blk + 1 /\ b \notin bad => b < blk
  BY <1>0, <1>3, AreaInts
<1>5. (blk + 1) - 1 = blk /\ Start(A) <= blk + 1 /\ start <= blk + 1
  BY <1>3
<1>6. CASE blk + 1 >= End(A)
  <2>1. ~(blk + 1 < End(A)) /\ blk + 1 <= blk + 1
    BY <1>3, <1>6
  <2> QED
    BY <1>1, <1>2, <1>4, <1>5, <1>6, <2>1, ProgressIs, Zenon
<1>7. CASE ~(blk + 1 >= End(A))
  <2>1. (blk + 1) + 1 < End(A) + part
    BY <1>3, <1>7
  <2> QED
    BY <1>1, <1>2, <1>3, <1>4, <1>5, <1>7, <2>1, ProgressIs, Zenon
<1> QED
  BY <1>6, <1>7, Zenon

LEMMA EraseBlockProgress == ASSUME TypeOK, Progress, EraseBlock PROVE Progress'
<1>0. pc = "block" /\ blk \notin bad /\ pc \in {"block", "write"}
  BY DEF EraseBlock
<1>1. /\ pc' = "write" /\ start' = start /\ blk' = blk /\ part' = part
      /\ block' = [block EXCEPT ![blk] = Plain("blank")]
      /\ UNCHANGED <<bad, img, last, ok>>
  BY Zenon DEF EraseBlock, Goto, ghosts
<1>2. /\ Downloading /\ start + Size <= End(A) /\ blk + 1 < End(A) + part
      /\ Rank(A, start - 1) % Size = 0 /\ (Rank(A, start - 1) = 0 => start = Start(A))
      /\ Rank(A, blk - 1) = Rank(A, start - 1) + (part - 1)
      /\ \A b \in Area(A) : b < blk /\ b \notin bad =>
           block[b] = Part(img, ((Rank(A, b) - 1) % Size) + 1)
  BY <1>0, InCopy, Zenon
<1>3. blk \in Nat /\ A \in Areas /\ Start(A) <= start /\ start <= blk
  BY <1>2, InDownload, Zenon
<1>4. \A b \in Area(A) : b < blk => b # blk /\ b \in Blocks
  BY <1>3, AreaFacts
<1>5. \A b \in Area(A) : b < blk => block'[b] = block[b]
  BY <1>1, <1>4, Zenon DEF TypeOK
<1> QED
  BY <1>0, <1>1, <1>2, <1>3, <1>5, ProgressIs, Zenon

LEMMA WriteBlockProgress == ASSUME TypeOK, Progress, WriteBlock PROVE Progress'
<1>0. pc = "write" /\ pc \in {"block", "write"} /\ blk \notin bad
  BY Zenon DEF WriteBlock, Progress, Downloading
<1>1. /\ IF part = Size
         THEN pc' = "copy" /\ start' = blk + 1 /\ blk' = blk + 1 /\ part' = 1
         ELSE pc' = "block" /\ start' = start /\ blk' = blk + 1 /\ part' = part + 1
      /\ block' = [block EXCEPT ![blk] = Part(img, part)]
      /\ UNCHANGED <<bad, img, last, ok>>
  BY Zenon DEF WriteBlock, Goto, ghosts
<1>2. /\ Downloading /\ start + Size <= End(A) /\ blk + 1 < End(A) + part
      /\ Rank(A, start - 1) % Size = 0 /\ (Rank(A, start - 1) = 0 => start = Start(A))
      /\ Rank(A, blk - 1) = Rank(A, start - 1) + (part - 1)
      /\ \A b \in Area(A) : b < blk /\ b \notin bad =>
           block[b] = Part(img, ((Rank(A, b) - 1) % Size) + 1)
  BY <1>0, InCopy, Zenon
<1>3. /\ start \in Nat /\ blk \in Nat /\ Size \in Nat \ {0} /\ part \in 1 .. Size /\ A \in Areas
      /\ Start(A) \in Nat /\ End(A) \in Nat /\ Start(A) <= start /\ start <= blk
      /\ Rank(A, blk) = Rank(A, blk - 1) + 1 /\ Rank(A, start - 1) \in Nat
  BY <1>0, <1>2, InDownload, Zenon
<1>4. (blk + 1) - 1 = blk /\ Start(A) <= blk + 1 /\ start <= blk + 1 /\ blk + 1 <= blk + 1
      /\ Rank(A, blk) = Rank(A, start - 1) + part
  BY <1>2, <1>3
<1>5. ((Rank(A, blk) - 1) % Size) + 1 = part
  <2>1. part - 1 \in 0 .. Size - 1 /\ Rank(A, blk) - 1 = Rank(A, start - 1) + (part - 1)
    BY <1>3, <1>4
  <2>2. (Rank(A, start - 1) + (part - 1)) % Size = part - 1
    BY <1>2, <1>3, <2>1, ModAdd, Zenon
  <2> QED
    BY <1>3, <2>1, <2>2
<1>6. ASSUME NEW b \in Area(A), b < blk + 1, b \notin bad
      PROVE  block'[b] = Part(img, ((Rank(A, b) - 1) % Size) + 1)
  <2>1. b \in Nat /\ b \in Blocks
    BY <1>3, AreaFacts
  <2>2. CASE b < blk
    <3>1. block'[b] = block[b]
      <4>1. b # blk
        BY <1>3, <2>1, <2>2
      <4> QED
        BY <1>1, <2>1, <4>1, Zenon DEF TypeOK
    <3> QED
      BY <1>2, <1>6, <2>2, <3>1, Zenon
  <2>3. CASE b = blk
    BY <1>1, <1>5, <2>1, <2>3, Zenon DEF TypeOK
  <2> QED
    BY <1>3, <1>6, <2>1, <2>2, <2>3
<1>7. CASE part = Size
  <2>1. Rank(A, blk) % Size = 0 /\ Rank(A, blk) # 0
    <3>1. (Rank(A, start - 1) + Size) % Size = 0
      BY <1>2, <1>3, ModAdd, Zenon
    <3> QED
      BY <1>3, <1>4, <1>7, <3>1
  <2> QED
    BY <1>1, <1>2, <1>4, <1>6, <1>7, <2>1, ProgressIs, Zenon
<1>8. CASE part # Size
  <2>1. (blk + 1) + 1 < End(A) + (part + 1) /\ (part + 1) - 1 = part
    BY <1>2, <1>3
  <2> QED
    BY <1>1, <1>2, <1>3, <1>4, <1>6, <1>8, <2>1, ProgressIs, Zenon
<1> QED
  BY <1>7, <1>8, Zenon

LEMMA BeginProgress == ASSUME NEW v \in Images, TypeOK, Begin(v) PROVE Progress'
<1> DEFINE a == AreaOf(v)
<1>1. /\ BlksOf[v] <= End(a) - Start(a) /\ img' = v /\ pc' = "copy"
      /\ start' = Start(a) /\ blk' = Start(a) /\ part' = 1
      /\ last' = [last EXCEPT ![a] = v] /\ ok' = [ok EXCEPT ![a] = FALSE]
      /\ UNCHANGED <<block, bad>>
  BY Zenon DEF Begin, Begins, Goto
<1>2. a \in Areas /\ BlksOf[v] \in Nat \ {0} /\ Start(a) \in Nat
  BY ImageFacts, AreaFacts
<1>3. last'[a] = v /\ ~ok'[a]
  BY <1>1, <1>2, Zenon DEF TypeOK
<1>4. Start(a) - 1 \in Int /\ Start(a) - 1 < Start(a) /\ Start(a) <= Start(a)
      /\ \A b \in Area(a) : ~(b < Start(a))
  BY <1>2, AreaInts DEF Area
<1>5. Rank(a, Start(a) - 1) = 0 /\ 0 % BlksOf[v] = 0
  <2>1. Rank(a, Start(a) - 1) = 0
    BY <1>2, <1>4, RankType, Zenon
  <2> QED
    BY <1>2, <2>1
<1>6. A' = a /\ Size' = BlksOf[v] /\ \A c : Start(c)' = Start(c) /\ End(c)' = End(c) /\ Area(c)' = Area(c)
  BY <1>1, Zenon DEF A, Size, Start, End, Area
<1>7. \A c, b : Rank(c, b)' = Rank(c, b)
  BY <1>1, RankSame, Zenon
<1>8. Written(A, img, blk)'
  BY <1>1, <1>4, <1>6, Zenon DEF Written
<1> HIDE DEF a
<1> QED
  BY <1>1, <1>3, <1>4, <1>5, <1>6, <1>7, <1>8 DEF Progress

-----------------------------------------------------------------------------
(* Types *)

LEMMA ContentFacts ==
  /\ \A s \in {"blank", "sec", "data"} : Plain(s) \in Contents
  /\ \A v \in Images : \A n \in 1 .. BlksOf[v] : Part(v, n) \in Contents
BY DEF Contents

LEMMA BlockSet ==
  ASSUME block \in [Blocks -> Contents], NEW b, NEW c \in Contents, block' = [block EXCEPT ![b] = c]
  PROVE  block' \in [Blocks -> Contents] /\ \A x \in Blocks : block'[x] = IF x = b THEN c ELSE block[x]
BY ZenonT(40)

LEMMA InterruptedType ==
  ASSUME block \in [Blocks -> Contents], NEW b, Interrupted(b)
  PROVE  /\ block' \in [Blocks -> Contents]
         /\ \A x \in Blocks : x # b => block'[x] = block[x]
         /\ \A x \in Blocks : block'[x] = block[x] \/ block'[x] = Plain("blank")
<1>1. Plain("blank") \in Contents
  BY ContentFacts, Zenon
<1>2. CASE UNCHANGED block
  BY <1>2, Zenon
<1>3. CASE block' = [block EXCEPT ![b] = Plain("blank")]
  BY <1>1, <1>3, BlockSet, Zenon
<1> QED
  BY <1>2, <1>3, Zenon DEF Interrupted

LEMMA FaultType ==
  ASSUME faults \in [Areas -> 0 .. MaxFaults], NEW a \in Areas, Fault(a)
  PROVE  /\ faults' \in [Areas -> 0 .. MaxFaults]
         /\ faults'[a] = faults[a] + 1
         /\ \A c \in Areas : c # a => faults'[c] = faults[c]
<1>1. faults' = [faults EXCEPT ![a] = faults[a] + 1] /\ faults[a] < MaxFaults
  BY DEF Fault
<1>2. faults[a] \in 0 .. MaxFaults /\ MaxFaults \in Nat
  BY BootAssumption
<1>3. faults[a] + 1 \in 0 .. MaxFaults
  BY <1>1, <1>2
<1> QED
  BY <1>1, <1>3, Zenon

(* The operation's own variables. *)
OpType == /\ pc \in {"idle", "copy", "block", "write", "erase"}
          /\ img \in Images \cup {NoImage} /\ flag \in BOOLEAN
          /\ start \in 0 .. NBlocks /\ blk \in 0 .. NBlocks
          /\ part \in 1 .. (IF img = NoImage THEN 1 ELSE Size)

LEMMA BackType == ASSUME Back PROVE OpType'
<1>1. /\ pc' = "idle" /\ img' = NoImage /\ flag' = FALSE /\ start' = 0 /\ blk' = 0 /\ part' = 1
  BY Zenon DEF Back, Goto
<1>2. 0 \in 0 .. NBlocks /\ 1 \in 1 .. 1
  BY BootAssumption
<1> QED
  BY <1>1, <1>2, Zenon DEF OpType

LEMMA DownloadType ==
  ASSUME TypeOK, Progress, Downloading, NEW s \in 0 .. NBlocks, NEW b \in 0 .. NBlocks,
         NEW n \in 1 .. Size, NEW p \in {"copy", "block", "write"},
         Goto(p, s, b, n), UNCHANGED <<img, flag>>
  PROVE  OpType'
<1>1. img \in Images /\ flag \in BOOLEAN /\ img # NoImage
  BY InDownload, ImageFacts, Zenon DEF TypeOK
<1>2. pc' = p /\ start' = s /\ blk' = b /\ part' = n /\ img' = img /\ flag' = flag
  BY Zenon DEF Goto
<1>3. Size' = Size
  BY <1>2, Zenon DEF Size
<1> QED
  BY <1>1, <1>2, <1>3, Zenon DEF OpType

LEMMA TypeParts ==
  /\ TypeOK => OpType
  /\ /\ OpType /\ block \in [Blocks -> Contents] /\ bad \subseteq Blocks
     /\ last \in [Areas -> Images \cup {NoImage}] /\ ok \in [Areas -> BOOLEAN]
     /\ copies \in [Areas -> 0 .. NBlocks] /\ faults \in [Areas -> 0 .. MaxFaults]
     => TypeOK
BY Zenon DEF TypeOK, OpType

LEMMA BeginType == ASSUME NEW v \in Images, TypeOK, Begin(v) PROVE TypeOK'
<1> DEFINE a == AreaOf(v)
<1>1. /\ img' = v /\ pc' = "copy" /\ start' = Start(a) /\ blk' = Start(a) /\ part' = 1
      /\ last' = [last EXCEPT ![a] = v] /\ ok' = [ok EXCEPT ![a] = FALSE]
      /\ copies' = [copies EXCEPT ![a] = IF last[a] # NoImage /\ BlksOf[last[a]] = BlksOf[v]
                                         THEN copies[a] ELSE 0]
      /\ UNCHANGED <<block, bad, flag, faults>>
  BY Zenon DEF Begin, Begins, Goto
<1>2. a \in Areas /\ BlksOf[v] \in Nat \ {0} /\ v # NoImage /\ Start(a) \in 0 .. NBlocks
      /\ 0 \in 0 .. NBlocks /\ 1 \in 1 .. BlksOf[v]
  BY ImageFacts, AreaFacts
<1> HIDE DEF a
<1>3. OpType'
  BY <1>1, <1>2, Zenon DEF OpType, Size, TypeOK
<1>4. /\ last' \in [Areas -> Images \cup {NoImage}] /\ ok' \in [Areas -> BOOLEAN]
      /\ copies' \in [Areas -> 0 .. NBlocks] /\ faults' \in [Areas -> 0 .. MaxFaults]
  <2>1. IF last[a] # NoImage /\ BlksOf[last[a]] = BlksOf[v] THEN copies[a] \in 0 .. NBlocks
        ELSE 0 \in 0 .. NBlocks
    BY <1>2, Zenon DEF TypeOK
  <2> QED
    BY <1>1, <1>2, <2>1 DEF TypeOK
<1> QED
  BY <1>1, <1>3, <1>4, Zenon DEF TypeOK, OpType

LEMMA CopyStepType ==
  ASSUME TypeOK, Progress, NextCopy \/ SkipBad \/ EraseBlock \/ WriteBlock
  PROVE  TypeOK'
<1>0. Downloading /\ UNCHANGED <<bad, img, flag, ghosts>>
  BY Zenon DEF NextCopy, SkipBad, EraseBlock, WriteBlock, Downloading
<1>1. /\ start \in Nat /\ blk \in Nat /\ Size \in Nat \ {0} /\ part \in 1 .. Size
      /\ img \in Images /\ 1 \in 1 .. Size
      /\ start \in 0 .. NBlocks /\ blk \in 0 .. NBlocks /\ NBlocks \in Nat
  BY <1>0, InDownload DEF TypeOK
<1>2. pc \in {"block", "write"} => blk + 1 \in 0 .. NBlocks
  <2>1. pc \in {"block", "write"} => blk < NBlocks
    BY InCopy, Zenon
  <2> QED
    BY <1>1, <2>1
<1>3. OpType' /\ block' \in [Blocks -> Contents]
  <2>1. CASE NextCopy
    BY <1>0, <1>1, <2>1, DownloadType, Zenon DEF NextCopy, TypeOK
  <2>2. CASE SkipBad
    BY <1>0, <1>1, <1>2, <2>2, DownloadType, Zenon DEF SkipBad, TypeOK
  <2>3. CASE EraseBlock
    <3>1. Plain("blank") \in Contents
      BY ContentFacts, Zenon
    <3>2. block' \in [Blocks -> Contents]
      BY <2>3, <3>1, BlockSet, Zenon DEF EraseBlock, TypeOK
    <3> QED
      BY <1>0, <1>1, <2>3, <3>2, DownloadType, Zenon DEF EraseBlock
  <2>4. CASE WriteBlock
    <3>1. Part(img, part) \in Contents
      BY <1>1, ContentFacts, Zenon DEF Size
    <3>2. block' \in [Blocks -> Contents]
      BY <2>4, <3>1, BlockSet, Zenon DEF WriteBlock, TypeOK
    <3>3. part # Size => part + 1 \in 1 .. Size
      BY <1>1
    <3> QED
      BY <1>0, <1>1, <1>2, <2>4, <3>2, <3>3, DownloadType, Zenon DEF WriteBlock
  <2> QED
    BY <2>1, <2>2, <2>3, <2>4, Zenon
<1> QED
  BY <1>0, <1>3, Zenon DEF TypeOK, OpType, ghosts

LEMMA CopiesType ==
  ASSUME NEW v \in Images
  PROVE  IsFiniteSet(CopiesOf(v)) /\ Cardinality(CopiesOf(v)) \in 0 .. NBlocks
<1>1. /\ Area(AreaOf(v)) = Start(AreaOf(v)) .. End(AreaOf(v)) - 1
      /\ Start(AreaOf(v)) \in Nat /\ End(AreaOf(v)) \in Nat
      /\ Start(AreaOf(v)) < End(AreaOf(v)) /\ End(AreaOf(v)) < NBlocks /\ NBlocks \in Nat
  BY ImageFacts, AreaFacts DEF Area
<1>2. IsFiniteSet(Area(AreaOf(v))) /\ Cardinality(Area(AreaOf(v))) = End(AreaOf(v)) - Start(AreaOf(v))
  <2>1. /\ IsFiniteSet(Start(AreaOf(v)) .. End(AreaOf(v)) - 1)
        /\ Cardinality(Start(AreaOf(v)) .. End(AreaOf(v)) - 1) =
             IF Start(AreaOf(v)) > End(AreaOf(v)) - 1 THEN 0
             ELSE (End(AreaOf(v)) - 1) - Start(AreaOf(v)) + 1
    <3>1. Start(AreaOf(v)) \in Int /\ End(AreaOf(v)) - 1 \in Int
      BY <1>1
    <3> QED
      BY <3>1, FS_Interval, Zenon
  <2> QED
    BY <1>1, <2>1
<1>3. CopiesOf(v) \in SUBSET Area(AreaOf(v))
  BY Zenon DEF CopiesOf
<1>4. IsFiniteSet(CopiesOf(v)) /\ Cardinality(CopiesOf(v)) <= Cardinality(Area(AreaOf(v)))
  BY <1>2, <1>3, FS_Subset, Zenon
<1>5. Cardinality(CopiesOf(v)) \in Nat
  BY <1>4, FS_CardinalityType, Zenon
<1> QED
  BY <1>1, <1>2, <1>4, <1>5

LEMMA DoneType == ASSUME TypeOK, Progress, DownloadDone PROVE TypeOK'
<1>1. Downloading
  BY Zenon DEF DownloadDone, Downloading
<1>2. img \in Images /\ A \in Areas
  BY <1>1, InDownload, Zenon
<1>3. OpType'
  BY BackType, Zenon DEF DownloadDone
<1>4. Cardinality(CopiesOf(img)) \in 0 .. NBlocks /\ 0 \in 0 .. MaxFaults
  BY <1>2, CopiesType, BootAssumption
<1>5. /\ ok' = [ok EXCEPT ![A] = TRUE] /\ copies' = [copies EXCEPT ![A] = Cardinality(CopiesOf(img))]
      /\ faults' = [faults EXCEPT ![A] = 0] /\ UNCHANGED <<block, bad, last>>
  BY Zenon DEF DownloadDone
<1>6. ok' \in [Areas -> BOOLEAN] /\ copies' \in [Areas -> 0 .. NBlocks] /\ faults' \in [Areas -> 0 .. MaxFaults]
  BY <1>2, <1>4, <1>5, Zenon DEF TypeOK
<1> QED
  BY <1>3, <1>5, <1>6, Zenon DEF TypeOK, OpType

LEMMA FailsType == ASSUME TypeOK, Progress, DownloadFails PROVE TypeOK'
<1>1. Downloading
  BY Zenon DEF DownloadFails, Downloading
<1>2. A \in Areas
  BY <1>1, InDownload, Zenon
<1>3. OpType'
  BY BackType, Zenon DEF DownloadFails
<1>4. block' \in [Blocks -> Contents]
  BY InterruptedType, Zenon DEF DownloadFails, TypeOK
<1>5. faults' \in [Areas -> 0 .. MaxFaults]
  BY <1>2, FaultType, Zenon DEF DownloadFails, TypeOK
<1>6. ok' \in [Areas -> BOOLEAN] /\ UNCHANGED <<bad, last, copies>>
  BY <1>2 DEF DownloadFails, TypeOK
<1> QED
  BY <1>3, <1>4, <1>5, <1>6, Zenon DEF TypeOK, OpType

LEMMA TodoFacts ==
  ASSUME TypeOK, Todo # {}
  PROVE  Min(Todo) \in Todo /\ Min(Todo) \in EraseRange(flag) /\ Min(Todo) >= blk
         /\ Min(Todo) \in Blocks /\ Min(Todo) \notin SecBlocks
<1>1. EraseRange(flag) \subseteq Blocks /\ EraseRange(flag) \cap SecBlocks = {} /\ Blocks \subseteq Nat
  BY BootAssumption DEF EraseRange, Blocks, SecBlocks
<1>2. Todo \in SUBSET Nat /\ Todo \subseteq EraseRange(flag) /\ \A b \in Todo : b >= blk
  BY <1>1, Zenon DEF Todo
<1>3. \E x \in Todo : \A y \in Todo : x <= y
  BY <1>2, NatMin, Zenon
<1>4. Min(Todo) \in Todo
  BY <1>3, Zenon DEF Min
<1> QED
  BY <1>1, <1>2, <1>4, Zenon

LEMMA EraseBeginType == ASSUME NEW f \in BOOLEAN, TypeOK, EraseBegin(f) PROVE TypeOK'
<1>1. /\ pc' = "erase" /\ start' = 0 /\ blk' = 0 /\ part' = 1 /\ flag' = f
      /\ last' = [a \in Areas |-> NoImage] /\ ok' = [a \in Areas |-> FALSE]
      /\ copies' = [a \in Areas |-> 0] /\ UNCHANGED <<block, bad, img, faults>>
  BY Zenon DEF EraseBegin, Goto
<1>2. 0 \in 0 .. NBlocks /\ 1 \in 1 .. 1 /\ (img # NoImage => 1 \in 1 .. Size)
  <2>1. img # NoImage => Size \in Nat \ {0}
    BY ImageFacts, Zenon DEF TypeOK, Size
  <2> QED
    BY <2>1, BootAssumption
<1>3. Size' = Size
  BY <1>1, Zenon DEF Size
<1>4. OpType'
  BY <1>1, <1>2, <1>3, Zenon DEF OpType, TypeOK
<1> QED
  BY <1>1, <1>2, <1>4, Zenon DEF OpType, TypeOK

LEMMA EraseNextType == ASSUME TypeOK, EraseNext PROVE TypeOK'
<1> DEFINE b == Min(Todo)
<1>1. b \in Blocks /\ b + 1 \in 0 .. NBlocks /\ 0 \in 0 .. NBlocks
  BY TodoFacts, BootAssumption DEF EraseNext, Blocks
<1>2. /\ pc' = "erase" /\ start' = 0 /\ blk' = b + 1 /\ part' = 1
      /\ UNCHANGED <<img, flag, last, ok, copies>>
      /\ \/ b \in bad /\ UNCHANGED <<block, bad, faults>>
         \/ /\ b \notin bad /\ UNCHANGED <<bad, faults>>
            /\ block' = [block EXCEPT ![b] = Plain("blank")]
         \/ /\ b \notin bad /\ \E a \in Areas : b \in Area(a) /\ Fault(a)
            /\ Interrupted(b)
            /\ \/ UNCHANGED bad
               \/ Cardinality(bad) < MaxBad /\ bad' = bad \cup {b}
  BY Zenon DEF EraseNext, Goto
<1> HIDE DEF b
<1>3. 1 \in 1 .. 1 /\ (img # NoImage => 1 \in 1 .. Size)
  <2>1. img # NoImage => Size \in Nat \ {0}
    BY ImageFacts, Zenon DEF TypeOK, Size
  <2> QED
    BY <2>1
<1>4. OpType'
  BY <1>1, <1>2, <1>3, Zenon DEF OpType, TypeOK, Size
<1>5. Plain("blank") \in Contents
  BY ContentFacts, Zenon
<1>6. block' \in [Blocks -> Contents] /\ bad' \subseteq Blocks /\ faults' \in [Areas -> 0 .. MaxFaults]
  <2>1. CASE b \in bad /\ UNCHANGED <<block, bad, faults>>
    BY <2>1, Zenon DEF TypeOK
  <2>2. CASE UNCHANGED <<bad, faults>> /\ block' = [block EXCEPT ![b] = Plain("blank")]
    BY <1>5, <2>2, BlockSet, Zenon DEF TypeOK
  <2>3. CASE /\ \E a \in Areas : b \in Area(a) /\ Fault(a)
             /\ Interrupted(b) /\ (UNCHANGED bad \/ bad' = bad \cup {b})
    <3>1. faults' \in [Areas -> 0 .. MaxFaults]
      BY <2>3, FaultType, Zenon DEF TypeOK
    <3>2. block' \in [Blocks -> Contents]
      BY <2>3, InterruptedType, Zenon DEF TypeOK
    <3>3. bad' \subseteq Blocks
      BY <1>1, <2>3, Zenon DEF TypeOK
    <3> QED
      BY <3>1, <3>2, <3>3, Zenon
  <2> QED
    BY <1>2, <2>1, <2>2, <2>3, Zenon
<1> QED
  BY <1>2, <1>4, <1>6, Zenon DEF OpType, TypeOK

LEMMA PowerCutType == ASSUME TypeOK, Progress, PowerCut PROVE TypeOK'
<1>1. OpType' /\ UNCHANGED <<bad, last, ok, copies>>
  BY BackType, Zenon DEF PowerCut
<1>2. block' \in [Blocks -> Contents]
  BY InterruptedType, Zenon DEF PowerCut, TypeOK
<1>3. \E a \in Areas : Fault(a)
  <2>1. CASE pc = "erase"
    <3>1. "boot0" \in Areas /\ "uboot" \in Areas
      BY DEF Areas
    <3> QED
      BY <2>1, <3>1 DEF PowerCut
  <2>2. CASE pc # "erase"
    <3>1. Downloading
      BY <2>2 DEF TypeOK, PowerCut, Downloading
    <3> QED
      BY <2>2, <3>1, InDownload DEF PowerCut
  <2> QED
    BY <2>1, <2>2, Zenon
<1>4. faults' \in [Areas -> 0 .. MaxFaults]
  BY <1>3, FaultType, Zenon DEF TypeOK
<1> QED
  BY <1>1, <1>2, <1>4, Zenon DEF OpType, TypeOK

LEMMA RestType ==
  ASSUME TypeOK, EraseDone \/ (\E b \in SecBlocks : SecureWrite(b)) \/ UNCHANGED vars
  PROVE  TypeOK'
<1>1. CASE EraseDone
  <2>1. OpType' /\ UNCHANGED <<block, bad, ghosts>>
    BY <1>1, BackType, Zenon DEF EraseDone
  <2> QED
    BY <2>1, Zenon DEF TypeOK, OpType, ghosts
<1>2. CASE \E b \in SecBlocks : SecureWrite(b)
  <2>1. Plain("sec") \in Contents
    BY ContentFacts, Zenon
  <2>2. block' \in [Blocks -> Contents] /\ UNCHANGED <<bad, op, ghosts>>
    BY <1>2, <2>1, BlockSet, Zenon DEF SecureWrite, TypeOK
  <2> QED
    BY <2>2, Zenon DEF TypeOK, op, ghosts, Size
<1>3. CASE UNCHANGED vars
  BY <1>3, Zenon DEF TypeOK, vars, op, ghosts, Size
<1> QED
  BY <1>1, <1>2, <1>3, Zenon

(* Only a download that goes on has a progress to keep. *)
LEMMA IdleProgress == (pc' \notin {"copy", "block", "write"}) => Progress'
BY Zenon DEF Progress, Downloading

LEMMA ProgressKept == ASSUME TypeOK, Progress, [Next]_vars PROVE TypeOK' /\ Progress'
<1>1. ASSUME NEW v \in Images, Begin(v) PROVE TypeOK' /\ Progress'
  BY <1>1, BeginType, BeginProgress, Zenon
<1>2. CASE NextCopy
  BY <1>2, CopyStepType, NextCopyProgress, Zenon
<1>3. CASE DownloadDone
  BY <1>3, DoneType, IdleProgress, ZenonT(40) DEF DownloadDone, Back, Goto
<1>4. CASE SkipBad
  BY <1>4, CopyStepType, SkipBadProgress, Zenon
<1>5. CASE EraseBlock
  BY <1>5, CopyStepType, EraseBlockProgress, Zenon
<1>6. CASE WriteBlock
  BY <1>6, CopyStepType, WriteBlockProgress, Zenon
<1>7. CASE DownloadFails
  BY <1>7, FailsType, IdleProgress, ZenonT(40) DEF DownloadFails, Back, Goto
<1>8. ASSUME NEW f \in BOOLEAN, EraseBegin(f) PROVE TypeOK' /\ Progress'
  BY <1>8, EraseBeginType, IdleProgress DEF EraseBegin, Goto
<1>9. CASE EraseNext
  BY <1>9, EraseNextType, IdleProgress DEF EraseNext, Goto
<1>10. CASE EraseDone
  BY <1>10, RestType, IdleProgress, ZenonT(40) DEF EraseDone, Back, Goto
<1>11. CASE PowerCut
  BY <1>11, PowerCutType, IdleProgress, ZenonT(40) DEF PowerCut, Back, Goto
<1>12. ASSUME NEW b \in SecBlocks, SecureWrite(b) PROVE TypeOK' /\ Progress'
  BY <1>12, RestType, IdleProgress, ZenonT(40) DEF SecureWrite, op
<1>13. CASE UNCHANGED vars
  <2>1. Progress'
    BY <1>13, Zenon DEF vars, op, ghosts, Progress, Downloading, Written, Rank, Good, Size, A, Start, End, Area
  <2> QED
    BY <1>13, <2>1, RestType, Zenon
<1> QED
  BY <1>1, <1>2, <1>3, <1>4, <1>5, <1>6, <1>7, <1>8, <1>9, <1>10, <1>11, <1>12, <1>13, Zenon DEF Next

-----------------------------------------------------------------------------
(* A download ends, and keeps off the secure storage *)

LEMMA FewerLeft ==
  ASSUME TypeOK, Progress, Next, pc # "idle", pc' # "idle"
  PROVE  0 < Left' /\ Left' < Left
<1>1. TypeOK'
  BY ProgressKept, Zenon
<1>2. blk \in 0 .. NBlocks /\ blk' \in 0 .. NBlocks /\ NBlocks \in Nat
  <2>1. blk' \in (0 .. NBlocks)'
    BY <1>1, Zenon DEF TypeOK
  <2> QED
    BY <2>1, BootAssumption DEF TypeOK
<1>3. CASE NextCopy
  <2>1. pc = "copy" /\ pc' = "block" /\ blk' = blk
    BY <1>3, Zenon DEF NextCopy, Goto, Progress, Downloading
  <2> QED
    BY <1>2, <2>1 DEF Left
<1>4. CASE SkipBad
  <2>1. pc = "block" /\ pc' \in {"copy", "block"} /\ blk' = blk + 1
    BY <1>4 DEF SkipBad, Goto
  <2> QED
    BY <1>2, <2>1 DEF Left
<1>5. CASE EraseBlock
  <2>1. pc = "block" /\ pc' = "write" /\ blk' = blk
    BY <1>5, Zenon DEF EraseBlock, Goto
  <2> QED
    BY <1>2, <2>1 DEF Left
<1>6. CASE WriteBlock
  <2>1. pc = "write" /\ pc' \in {"copy", "block"} /\ blk' = blk + 1
    BY <1>6 DEF WriteBlock, Goto
  <2> QED
    BY <1>2, <2>1 DEF Left
<1>7. CASE EraseNext
  <2>1. pc = "erase" /\ pc' = "erase" /\ blk' = Min(Todo) + 1 /\ Todo # {}
    BY <1>7, Zenon DEF EraseNext, Goto
  <2>2. Min(Todo) >= blk /\ Min(Todo) \in Blocks
    BY <2>1, TodoFacts, Zenon
  <2>3. blk' > blk
    BY <1>2, <2>1, <2>2 DEF Blocks
  <2> QED
    BY <1>2, <2>1, <2>3 DEF Left
<1>8. CASE DownloadDone \/ DownloadFails \/ EraseDone \/ PowerCut
  BY <1>8, Zenon DEF DownloadDone, DownloadFails, EraseDone, PowerCut, Back, Goto
<1>9. CASE \/ \E v \in Images : Begin(v)
           \/ \E f \in BOOLEAN : EraseBegin(f)
           \/ \E b \in SecBlocks : SecureWrite(b)
  BY <1>9, Zenon DEF Begin, Begins, EraseBegin, SecureWrite
<1> QED
  BY <1>3, <1>4, <1>5, <1>6, <1>7, <1>8, <1>9, Zenon DEF Next

(* An area of which no more blocks are bad than its copies leave over has    *)
(* good blocks for all of them.                                              *)
LEMMA GoodOfArea ==
  ASSUME NEW a \in Areas
  PROVE  /\ Rank(a, End(a) - 1) = (End(a) - Start(a)) - Cardinality(Area(a) \cap bad)
         /\ Rank(a, End(a) - 1) \in Nat /\ Cardinality(Area(a) \cap bad) \in Nat
         /\ Rank(a, End(a) - 1) = Cardinality(Area(a) \ bad)
<1>1. Start(a) \in Int /\ End(a) - 1 \in Int /\ Start(a) < End(a) /\ End(a) \in Int
  BY AreaFacts
<1>2. IsFiniteSet(Area(a)) /\ Cardinality(Area(a)) = End(a) - Start(a)
  <2>1. /\ IsFiniteSet(Start(a) .. End(a) - 1)
        /\ Cardinality(Start(a) .. End(a) - 1) =
             IF Start(a) > End(a) - 1 THEN 0 ELSE (End(a) - 1) - Start(a) + 1
    BY <1>1, FS_Interval, Zenon
  <2> QED
    BY <1>1, <2>1 DEF Area
<1>3. IsFiniteSet(Area(a) \ bad) /\ IsFiniteSet(Area(a) \cap bad)
  <2>1. Area(a) \ bad \in SUBSET Area(a) /\ Area(a) \cap bad \in SUBSET Area(a)
    BY Zenon
  <2> QED
    BY <1>2, <2>1, FS_Subset, Zenon
<1>4. /\ (Area(a) \ bad) \cup (Area(a) \cap bad) = Area(a)
      /\ (Area(a) \ bad) \cap (Area(a) \cap bad) = {}
  BY Zenon
<1>5. Cardinality(Area(a)) = Cardinality(Area(a) \ bad) + Cardinality(Area(a) \cap bad) - 0
  <2>1. Cardinality({}) = 0
    BY FS_EmptySet, Zenon
  <2>2. Cardinality((Area(a) \ bad) \cup (Area(a) \cap bad)) =
          Cardinality(Area(a) \ bad) + Cardinality(Area(a) \cap bad)
          - Cardinality((Area(a) \ bad) \cap (Area(a) \cap bad))
    BY <1>3, FS_Union, Zenon
  <2> QED
    BY <1>4, <2>1, <2>2, Zenon
<1>6. Cardinality(Area(a) \ bad) \in Nat /\ Cardinality(Area(a) \cap bad) \in Nat
  BY <1>3, FS_CardinalityType, Zenon
<1>7. Rank(a, End(a) - 1) = Cardinality(Area(a) \ bad)
  BY Zenon DEF Rank, Good, Area
<1> QED
  BY <1>1, <1>2, <1>5, <1>6, <1>7

LEMMA MultLess == ASSUME NEW s \in Nat \ {0}, NEW c \in Nat, NEW q \in Nat, NEW x \in 0 .. s - 1,
                         s * q <= s * c + x
                  PROVE  q <= c
OBVIOUS

LEMMA DivExact == ASSUME NEW s \in Nat \ {0}, NEW r \in Nat, r % s = 0
                  PROVE  r \div s \in Nat /\ r = s * (r \div s)
OBVIOUS

LEMMA InsideArea ==
  ASSUME TypeOK, Progress, pc \in {"block", "write"},
         ~(Cardinality(Area("uboot") \cap bad) > Spare)
  PROVE  blk \notin SecBlocks
<1>0. Downloading /\ pc # "copy"
  BY DEF Downloading
<1>1. /\ A \in Areas /\ Size \in Nat \ {0} /\ part \in 1 .. Size /\ blk \in Nat /\ start \in Nat
      /\ Start(A) \in Nat /\ End(A) \in Nat /\ Start(A) <= start
      /\ start + Size <= End(A) /\ blk + 1 < End(A) + part
      /\ Rank(A, start - 1) \in Nat /\ Rank(A, start - 1) % Size = 0
      /\ Rank(A, blk - 1) = Rank(A, start - 1) + (part - 1)
  BY <1>0, InDownload, InCopy, Zenon
<1>2. CASE A = "boot0"
  <2>1. Size = 1
    BY <1>0, <1>2, InDownload, ImageFacts, Zenon DEF A, Size
  <2> QED
    BY <1>1, <1>2, <2>1, BootAssumption DEF End, SecBlocks
<1>3. CASE A = "uboot"
  <2>1. SUFFICES ASSUME blk >= UbootEnd PROVE FALSE
    BY <1>1, BootAssumption DEF SecBlocks
  <2>2. End(A) = UbootEnd /\ Start(A) = UbootStart
    BY <1>3 DEF Start, End
  <2> DEFINE N == UbootEnd - UbootStart
             r == Rank(A, start - 1)
             c == r \div Size
             q == N \div Size
  <2>3. N \in Nat /\ Spare \in 0 .. Size - 1 /\ q \in Nat /\ N = Size * q + Spare
    BY <1>1, BootAssumption DEF Spare
  <2>4. c \in Nat /\ r = Size * c
    <3>1. r \in Nat /\ r % Size = 0
      BY <1>1, Zenon
    <3> QED
      BY <1>1, <3>1, DivExact, Zenon
  <2>5. Rank(A, UbootEnd - 1) = N - Cardinality(Area(A) \cap bad) /\ Cardinality(Area(A) \cap bad) \in Nat
    BY <1>1, <2>2, GoodOfArea, Zenon
  <2>6. r <= start - UbootStart
    <3>1. start - 1 \in Int /\ UbootStart \in Int
      BY <1>1, BootAssumption
    <3>2. /\ UbootStart <= start - 1 => Good(UbootStart, start - 1) <= (start - 1) - UbootStart + 1
          /\ UbootStart > start - 1 => Good(UbootStart, start - 1) = 0
      BY <3>1, GoodType, Zenon
    <3>3. r = Good(UbootStart, start - 1)
      BY <2>2, Zenon DEF Rank
    <3> QED
      BY <1>1, <2>2, <3>1, <3>2, <3>3
  <2>7. Rank(A, UbootEnd - 1) <= Rank(A, blk - 1)
    <3>1. UbootStart \in Int /\ UbootEnd - 1 \in Int /\ blk - 1 \in Int /\ UbootEnd - 1 <= blk - 1
      BY <1>1, <2>1, BootAssumption
    <3> QED
      BY <2>2, <3>1, GoodMono, Zenon DEF Rank
  <2>8. ~(Cardinality(Area(A) \cap bad) > Spare)
    BY <1>3, Zenon
  <2>c. Rank(A, blk - 1) = r + (part - 1)
    BY <1>1, Zenon
  <2>x. UbootStart \in Nat /\ UbootEnd \in Nat
    BY BootAssumption
  <2>d. r + Size <= N
    BY <1>1, <2>2, <2>6, <2>x
  <2> HIDE DEF N, r, c, q
  <2>9. Size * q <= Size * c + (part - 1)
    <3>1. Size * q \in Nat /\ Size * c \in Nat
      BY <1>1, <2>3, <2>4
    <3> QED
      BY <1>1, <2>3, <2>4, <2>5, <2>7, <2>8, <2>c, <3>1, SMTT(40)
  <2>a. q <= c
    <3>1. part - 1 \in 0 .. Size - 1
      BY <1>1
    <3> QED
      BY <1>1, <2>3, <2>4, <2>9, <3>1, MultLess, Zenon
  <2>b. Size * c >= Size * q
    BY <1>1, <2>3, <2>4, <2>a
  <2> QED
    <3>1. Size * q \in Nat /\ Size * c \in Nat
      BY <1>1, <2>3, <2>4
    <3> QED
      BY <1>1, <2>3, <2>4, <2>b, <2>d, <3>1
<1> QED
  BY <1>1, <1>2, <1>3, Zenon DEF Areas

LEMMA SecBlocksAre == SecBlocks \subseteq Blocks
BY BootAssumption DEF SecBlocks, Blocks

LEMMA SecureStep ==
  ASSUME TypeOK, Progress, Next, ~(pc \in {"block", "write"} /\ Cardinality(Area("uboot") \cap bad) > Spare)
  PROVE  \A b \in SecBlocks : block'[b] = block[b] \/ block'[b] = Plain("sec")
<1>0. block \in [Blocks -> Contents] /\ Plain("blank") \in Contents /\ Plain("sec") \in Contents
  BY ContentFacts, Zenon DEF TypeOK
<1>1. SUFFICES ASSUME NEW b \in SecBlocks PROVE block'[b] = block[b] \/ block'[b] = Plain("sec")
  BY Zenon
<1>2. b \in Blocks
  BY SecBlocksAre, Zenon
<1>3. pc \in {"block", "write"} => b # blk
  BY InsideArea, Zenon
<1>4. Todo # {} => b # Min(Todo)
  BY TodoFacts, Zenon
<1>5. ASSUME NEW x, x # b, Interrupted(x) PROVE block'[b] = block[b]
  <2>1. \A y \in Blocks : y # x => block'[y] = block[y]
    BY <1>0, <1>5 DEF Interrupted
  <2> QED
    BY <1>2, <1>5, <2>1
<1>6. CASE EraseBlock \/ WriteBlock
  BY <1>0, <1>2, <1>3, <1>6 DEF EraseBlock, WriteBlock
<1>7. CASE DownloadFails
  BY <1>3, <1>5, <1>7, Zenon DEF DownloadFails
<1>8. CASE EraseNext
  <2>1. Todo # {}
    BY <1>8, Zenon DEF EraseNext
  <2>2. Interrupted(Min(Todo))
    BY <1>8, Zenon DEF EraseNext, Interrupted
  <2> QED
    BY <1>4, <1>5, <2>1, <2>2, Zenon
<1>9. CASE PowerCut
  <2>1. CASE UNCHANGED block
    BY <2>1, Zenon
  <2>2. CASE pc = "block" /\ Interrupted(blk)
    BY <1>3, <1>5, <2>2, Zenon
  <2>3. CASE Todo # {} /\ Interrupted(Min(Todo))
    BY <1>4, <1>5, <2>3, Zenon
  <2> QED
    BY <1>9, <2>1, <2>2, <2>3, Zenon DEF PowerCut
<1>10. CASE \E x \in SecBlocks : SecureWrite(x)
  BY <1>0, <1>2, <1>10 DEF SecureWrite
<1>11. CASE NextCopy \/ SkipBad \/ DownloadDone \/ EraseDone
            \/ (\E v \in Images : Begin(v)) \/ (\E f \in BOOLEAN : EraseBegin(f))
  BY <1>11, Zenon DEF NextCopy, SkipBad, DownloadDone, EraseDone, Begin, EraseBegin
<1> QED
  BY <1>6, <1>7, <1>8, <1>9, <1>10, <1>11, Zenon DEF Next

-----------------------------------------------------------------------------
LEMMA InitProgress == Init => TypeOK /\ Progress
<1> SUFFICES ASSUME Init PROVE TypeOK /\ Progress
  OBVIOUS
<1>1. pc = "idle" /\ img = NoImage /\ flag = FALSE /\ start = 0 /\ blk = 0 /\ part = 1
  BY Zenon DEF Init
<1>2. 0 \in 0 .. NBlocks /\ 1 \in 1 .. 1 /\ 0 \in 0 .. MaxFaults
  BY BootAssumption
<1>3. block \in [Blocks -> Contents]
  <2>1. block = [b \in Blocks |-> Plain(CASE b \in SecBlocks -> "sec"
                                          [] b >= UbootEnd + NSec -> "data"
                                          [] OTHER -> "blank")]
    BY Zenon DEF Init
  <2>2. ASSUME NEW b \in Blocks
        PROVE  (CASE b \in SecBlocks -> "sec" [] b >= UbootEnd + NSec -> "data" [] OTHER -> "blank")
                 \in {"blank", "sec", "data"}
    <3>1. b \in SecBlocks => ~(b >= UbootEnd + NSec)
      BY BootAssumption DEF SecBlocks
    <3> QED
      BY <3>1
  <2>3. \A b \in Blocks : Plain(CASE b \in SecBlocks -> "sec" [] b >= UbootEnd + NSec -> "data"
                                    [] OTHER -> "blank") \in Contents
    BY <2>2, ContentFacts, Zenon
  <2> QED
    BY <2>1, <2>3, Zenon
<1>4. bad \subseteq Blocks
  <2>1. 0 .. UbootEnd \subseteq Blocks
    BY BootAssumption DEF Blocks
  <2>2. bad \in SUBSET (0 .. UbootEnd)
    BY Zenon DEF Init
  <2> QED
    BY <2>1, <2>2, Zenon
<1>5. /\ last = [a \in Areas |-> NoImage] /\ ok = [a \in Areas |-> FALSE]
      /\ copies = [a \in Areas |-> 0] /\ faults = [a \in Areas |-> 0]
  BY Zenon DEF Init
<1>6. /\ last \in [Areas -> Images \cup {NoImage}] /\ ok \in [Areas -> BOOLEAN]
      /\ copies \in [Areas -> 0 .. NBlocks] /\ faults \in [Areas -> 0 .. MaxFaults]
  BY <1>2, <1>5, Zenon
<1>7. OpType
  BY <1>1, <1>2, Zenon DEF OpType
<1>8. Progress
  BY <1>1 DEF Progress, Downloading
<1> QED
  BY <1>3, <1>4, <1>6, <1>7, <1>8, TypeParts, Zenon

-----------------------------------------------------------------------------
(* What the SPL finds after a download *)

LEMMA HomesKept == ASSUME TypeOK, Progress, Homes, [Next]_vars PROVE Homes'
<1>1. CASE UNCHANGED last
  BY <1>1, Zenon DEF Homes
<1>2. ASSUME NEW v \in Images, Begin(v) PROVE Homes'
  <2>1. last' = [last EXCEPT ![AreaOf(v)] = v]
    BY <1>2, Zenon DEF Begin, Begins
  <2> QED
    BY <2>1 DEF Homes, TypeOK
<1>3. ASSUME NEW f \in BOOLEAN, EraseBegin(f) PROVE Homes'
  BY <1>3 DEF EraseBegin, Homes
<1> QED
  BY <1>1, <1>2, <1>3, Zenon DEF Next, vars, ghosts, NextCopy, DownloadDone, SkipBad, EraseBlock,
     WriteBlock, DownloadFails, EraseNext, EraseDone, PowerCut, SecureWrite

LEMMA ErasingKept == ASSUME TypeOK, Erasing, [Next]_vars PROVE Erasing'
<1>1. CASE pc' # "erase"
  BY <1>1, Zenon DEF Erasing
<1>2. ASSUME NEW f \in BOOLEAN, EraseBegin(f) PROVE Erasing'
  BY <1>2 DEF EraseBegin, Erasing
<1>3. CASE pc = "erase" /\ UNCHANGED <<ok, copies>>
  BY <1>3, Zenon DEF Erasing
<1>4. ASSUME NEW v \in Images, Begin(v) PROVE pc' # "erase"
  BY <1>4 DEF Begin, Begins, Goto
<1>5. CASE NextCopy \/ DownloadDone \/ SkipBad \/ EraseBlock \/ WriteBlock \/ DownloadFails
           \/ EraseDone \/ PowerCut
  <2>1. pc' # "erase"
    BY <1>5 DEF NextCopy, DownloadDone, SkipBad, EraseBlock, WriteBlock, DownloadFails, EraseDone,
                PowerCut, Back, Goto
  <2> QED
    BY <1>1, <2>1, Zenon
<1>6. ASSUME NEW b \in SecBlocks, SecureWrite(b) PROVE pc' # "erase"
  BY <1>6 DEF SecureWrite, op
<1>7. CASE EraseNext
  BY <1>3, <1>7, Zenon DEF EraseNext
<1>8. CASE UNCHANGED vars
  BY <1>8, Zenon DEF vars, op, ghosts, Erasing
<1> QED
  BY <1>1, <1>2, <1>4, <1>5, <1>6, <1>7, <1>8, Zenon DEF Next

(* A download writes in no other area than its own. *)
LEMMA OtherArea ==
  ASSUME TypeOK, Progress, pc \in {"block", "write"}, NEW a \in Areas, a # A
  PROVE  blk \notin Area(a)
<1>0. Downloading
  BY DEF Downloading
<1>1. /\ A \in Areas /\ Size \in Nat \ {0} /\ part \in 1 .. Size /\ blk \in Nat /\ start \in Nat
      /\ Start(A) <= start /\ start <= blk /\ blk + 1 < End(A) + part
  BY <1>0, InDownload, InCopy, Zenon
<1>2. CASE A = "boot0"
  <2>1. Size = 1
    BY <1>0, <1>2, InDownload, ImageFacts, Zenon DEF A, Size
  <2> QED
    BY <1>1, <1>2, <2>1, BootAssumption DEF Areas, Start, End, Area
<1>3. CASE A = "uboot"
  BY <1>1, <1>3, BootAssumption DEF Areas, Start, End, Area
<1> QED
  BY <1>1, <1>2, <1>3, Zenon DEF Areas

(* What a step may do to the blocks of an area. *)
LEMMA AreaStep ==
  ASSUME TypeOK, Progress, [Next]_vars, NEW a \in Areas, pc # "erase", ~(Downloading /\ A = a)
  PROVE  UNCHANGED bad /\ \A b \in Area(a) : block'[b] = block[b]
<1>0. Area(a) \subseteq Blocks /\ block \in [Blocks -> Contents]
  BY AreaFacts, Zenon DEF TypeOK
<1>a. ASSUME NEW x, x \notin Area(a), Interrupted(x) PROVE \A b \in Area(a) : block'[b] = block[b]
  BY <1>0, <1>a DEF Interrupted
<1>b. pc \in {"block", "write"} => blk \notin Area(a)
  BY OtherArea, Zenon DEF Downloading
<1>1. CASE EraseBlock \/ WriteBlock
  <2>1. \E c : block' = [block EXCEPT ![blk] = c]
    BY <1>1, Zenon DEF EraseBlock, WriteBlock
  <2>2. blk \notin Area(a) /\ UNCHANGED bad
    BY <1>1, <1>b DEF EraseBlock, WriteBlock
  <2> QED
    BY <1>0, <2>1, <2>2
<1>2. CASE DownloadFails
  BY <1>a, <1>b, <1>2, Zenon DEF DownloadFails
<1>3. CASE PowerCut
  BY <1>a, <1>b, <1>3 DEF PowerCut
<1>4. ASSUME NEW x \in SecBlocks, SecureWrite(x)
      PROVE  UNCHANGED bad /\ \A b \in Area(a) : block'[b] = block[b]
  <2>1. x \notin Area(a)
    BY AreaFacts, BootAssumption DEF SecBlocks, Area
  <2> QED
    BY <1>0, <1>4, <2>1 DEF SecureWrite
<1>5. CASE NextCopy \/ SkipBad \/ DownloadDone \/ EraseDone \/ UNCHANGED vars
            \/ (\E v \in Images : Begin(v)) \/ (\E f \in BOOLEAN : EraseBegin(f))
  BY <1>5, Zenon DEF NextCopy, SkipBad, DownloadDone, EraseDone, Begin, Begins, EraseBegin, vars
<1>6. ~EraseNext
  BY Zenon DEF EraseNext
<1> QED
  BY <1>1, <1>2, <1>3, <1>4, <1>5, <1>6, Zenon DEF Next

(* Every good block that is one of the first Size has been written when a    *)
(* download returns.                                                         *)
LEMMA FirstWritten ==
  ASSUME TypeOK, Progress, DownloadDone, NEW b \in Area(A), b \notin bad, Rank(A, b) <= Size
  PROVE  block[b] = Part(img, Rank(A, b))
<1>0. Downloading /\ pc = "copy"
  BY Zenon DEF DownloadDone, Downloading
<1>1. /\ A \in Areas /\ Size \in Nat \ {0} /\ start \in Nat /\ Start(A) \in Nat /\ End(A) \in Nat
      /\ Start(A) <= start /\ Rank(A, start - 1) \in Nat
  BY <1>0, InDownload, Zenon
<1>2. /\ start + Size > End(A) /\ blk = start /\ Size <= End(A) - Start(A)
      /\ start < End(A) => /\ Rank(A, start - 1) % Size = 0
                           /\ Rank(A, start - 1) = 0 => start = Start(A)
      /\ b < start => block[b] = Part(img, ((Rank(A, b) - 1) % Size) + 1)
  BY <1>0, Zenon DEF Progress, Written, Size, DownloadDone
<1>3. b \in Int /\ Start(A) <= b /\ b < End(A) /\ start - 1 \in Int /\ Start(A) \in Int
  BY <1>1 DEF Area
<1>4. Rank(A, b) \in Nat /\ Rank(A, b) >= 1
  <2>1. b - 1 \in Int
    BY <1>3
  <2>2. Rank(A, b) = Rank(A, b - 1) + 1 /\ Rank(A, b - 1) \in Nat
    BY <1>1, <1>3, <2>1, RankType, Zenon
  <2> QED
    BY <2>2
<1>5. b < start
  <2>1. SUFFICES ASSUME b >= start PROVE FALSE
    BY <1>1, <1>3
  <2>2. Rank(A, start - 1) # 0 /\ Rank(A, start - 1) % Size = 0
    BY <1>1, <1>2, <1>3, <2>1
  <2>3. Rank(A, start - 1) >= Size
    BY <1>1, <2>2
  <2>4. Rank(A, start - 1) < Rank(A, b)
    <3>1. start - 1 < b
      BY <1>1, <1>3, <2>1
    <3> QED
      BY <1>3, <3>1, GoodStrict, Zenon DEF Rank
  <2> QED
    BY <1>1, <1>4, <2>3, <2>4
<1>6. ((Rank(A, b) - 1) % Size) + 1 = Rank(A, b)
  BY <1>1, <1>4
<1> QED
  BY <1>2, <1>5, <1>6, Zenon

LEMMA LoadsKept == ASSUME TypeOK, Progress, Erasing, Loads, [Next]_vars PROVE Loads'
<1>0. "uboot" \in Areas /\ Area("uboot")' = Area("uboot")
  BY Zenon DEF Areas, Area, Start, End
<1>1. CASE ~ok'["uboot"]
  BY <1>1, Zenon DEF Loads
<1>2. CASE ok["uboot"] /\ last'["uboot"] = last["uboot"]
  <2>1. pc # "erase" /\ ~(Downloading /\ A = "uboot")
    BY <1>0, <1>2, Zenon DEF Erasing, Progress
  <2>2. UNCHANGED bad /\ \A b \in Area("uboot") : block'[b] = block[b]
    BY <1>0, <2>1, AreaStep, Zenon
  <2>3. \A b : Rank("uboot", b)' = Rank("uboot", b)
    BY <2>2, RankSame, Zenon
  <2> QED
    BY <1>0, <1>2, <2>2, <2>3, Zenon DEF Loads
<1>3. CASE DownloadDone /\ A = "uboot"
  <2>1. last'["uboot"] = img /\ UNCHANGED <<block, bad>>
    BY <1>3, Zenon DEF DownloadDone, Progress, Downloading
  <2>2. \A b : Rank("uboot", b)' = Rank("uboot", b)
    BY <2>1, RankSame, Zenon
  <2>3. \A b \in Area("uboot") : b \notin bad /\ Rank("uboot", b) <= Size =>
           block[b] = Part(img, Rank("uboot", b))
    BY <1>3, FirstWritten, Zenon
  <2> QED
    BY <1>0, <2>1, <2>2, <2>3, Zenon DEF Loads, Size
<1>4. ASSUME NEW v \in Images, Begin(v) PROVE Loads'
  <2>1. AreaOf(v) \in Areas /\ last' = [last EXCEPT ![AreaOf(v)] = v] /\ ok' = [ok EXCEPT ![AreaOf(v)] = FALSE]
    BY <1>4, ImageFacts, Zenon DEF Begin, Begins
  <2>2. ~ok'["uboot"] \/ (ok'["uboot"] = ok["uboot"] /\ last'["uboot"] = last["uboot"])
    BY <1>0, <2>1 DEF TypeOK
  <2> QED
    BY <1>1, <1>2, <2>2, Zenon
<1>5. ASSUME NEW f \in BOOLEAN, EraseBegin(f) PROVE Loads'
  BY <1>0, <1>1, <1>5 DEF EraseBegin
<1>6. CASE DownloadDone /\ A # "uboot"
  <2>1. ok'["uboot"] = ok["uboot"] /\ last'["uboot"] = last["uboot"]
    BY <1>0, <1>6, ZenonT(40) DEF DownloadDone, TypeOK
  <2> QED
    BY <1>1, <1>2, <2>1, Zenon
<1>7. CASE DownloadFails
  <2>1. ok'["uboot"] => ok'["uboot"] = ok["uboot"] /\ last'["uboot"] = last["uboot"]
    BY <1>0, <1>7, ZenonT(40) DEF DownloadFails, TypeOK
  <2> QED
    BY <1>1, <1>2, <2>1, Zenon
<1>8. CASE UNCHANGED <<ok, last>>
  BY <1>1, <1>2, <1>8, Zenon
<1> QED
  BY <1>3, <1>4, <1>5, <1>6, <1>7, <1>8, ZenonT(40) DEF Next, vars, ghosts, NextCopy, SkipBad, EraseBlock,
     WriteBlock, EraseNext, EraseDone, PowerCut, SecureWrite

(* A copy is found where its parts lie in the good blocks of the area. *)
LEMMA CopyIn ==
  ASSUME NEW a \in Areas, NEW i \in Area(a), NEW v \in Images, i \notin bad,
         Good(i, End(a) - 1) >= BlksOf[v],
         \A b \in i .. End(a) - 1 : b \notin bad /\ Good(i, b) <= BlksOf[v] =>
           block[b] = Part(v, Good(i, b))
  PROVE  CopyAt(i, v)
<1>1. /\ i \in Nat /\ i \in Int /\ End(a) - 1 \in Int /\ BlksOf[v] \in Nat \ {0}
      /\ End(a) - 1 < NBlocks /\ NBlocks \in Nat /\ End(a) \in Nat
  BY AreaFacts, ImageFacts DEF Area
<1>2. Good(i, End(a) - 1) \in Nat
  BY <1>1, GoodType, Zenon
<1>3. ASSUME NEW n \in 1 .. BlksOf[v]
      PROVE  \E b \in i .. NBlocks - 1 :
               b \notin bad /\ Cardinality((i .. b) \ bad) = n /\ block[b] = Part(v, n)
  <2>1. n \in 1 .. Good(i, End(a) - 1) /\ n <= BlksOf[v]
    BY <1>1, <1>2
  <2>2. PICK b \in i .. End(a) - 1 : b \notin bad /\ Good(i, b) = n
    BY <1>1, <2>1, GoodExists, Zenon
  <2>3. b \in i .. NBlocks - 1
    BY <1>1
  <2>4. block[b] = Part(v, n)
    BY <2>1, <2>2, Zenon
  <2> QED
    BY <2>2, <2>3, <2>4, Zenon DEF Good
<1> QED
  BY <1>3, Zenon DEF CopyAt

LEMMA LoadsLast == TypeOK /\ Homes /\ Loads => DownloadedIsLoaded
<1> DEFINE v == last["uboot"]
<1>1. SUFFICES ASSUME TypeOK, Homes, Loads, ok["uboot"], v # NoImage,
                      Cardinality(Area("uboot") \ bad) >= BlksOf[v]
               PROVE  load_toc1_from_spinand = v
  BY Zenon DEF DownloadedIsLoaded
<1>2. "uboot" \in Areas /\ v \in Images /\ AreaOf(v) = "uboot"
  BY <1>1, Zenon DEF Areas, Homes
<1>3. v \in Uboots /\ BlksOf[v] \in Nat \ {0}
  BY <1>2, ImageFacts, Zenon
<1>4. /\ \A b \in Area("uboot") : b \notin bad /\ Rank("uboot", b) <= BlksOf[v] =>
           block[b] = Part(v, Rank("uboot", b))
  BY <1>1, Zenon DEF Loads
<1> HIDE DEF v
<1>5. /\ Start("uboot") = UbootStart /\ End("uboot") = UbootEnd /\ UbootStart \in Nat
      /\ UbootStart \in Int /\ UbootEnd \in Nat /\ UbootEnd - 1 \in Int
      /\ Area("uboot") = UbootStart .. UbootEnd - 1
  BY BootAssumption DEF Start, End, Area
<1>6. Good(UbootStart, UbootEnd - 1) \in Nat /\ Good(UbootStart, UbootEnd - 1) >= BlksOf[v]
  BY <1>1, <1>2, <1>5, GoodOfArea, Zenon DEF Rank
<1>7. PICK i \in UbootStart .. UbootEnd - 1 : i \notin bad /\ Good(UbootStart, i) = 1
  <2>1. 1 \in 1 .. Good(UbootStart, UbootEnd - 1)
    BY <1>3, <1>6
  <2> QED
    <3>1. \A n \in 1 .. Good(UbootStart, UbootEnd - 1) :
            \E b \in UbootStart .. UbootEnd - 1 : b \notin bad /\ Good(UbootStart, b) = n
      <4>1. UbootStart \in Nat /\ UbootEnd - 1 \in Int
        BY <1>5, Zenon
      <4> QED
        BY <4>1, GoodExists, Zenon
    <3> QED
      BY <2>1, <3>1, Zenon
<1>8. i \in Int /\ UbootStart <= i /\ i - 1 \in Int /\ i \in Area("uboot") /\ i \in UbootStart .. UbootEnd
      /\ (i - 1) + 1 = i /\ UbootStart <= (i - 1) + 1
  BY <1>5, <1>7
<1>9. Good(UbootStart, i - 1) = 0
  <2>1. Good(UbootStart, i) = Good(UbootStart, i - 1) + 1 /\ Good(UbootStart, i - 1) \in Nat
    BY <1>5, <1>7, <1>8, GoodStep, GoodType, Zenon
  <2> QED
    BY <1>7, <2>1
<1>10. ASSUME NEW b \in Int, i <= b PROVE Good(i, b) = Good(UbootStart, b) /\ Good(i, b) \in Nat
  <2>1. i - 1 <= b
    BY <1>8, <1>10
  <2>2. Good(UbootStart, b) = Good(UbootStart, i - 1) + Good((i - 1) + 1, b)
    <3>1. UbootStart \in Int /\ i - 1 \in Int /\ UbootStart <= (i - 1) + 1
      BY <1>5, <1>8, Zenon
    <3> QED
      BY <2>1, <3>1, GoodSplit, ZenonT(40)
  <2>3. Good(i, b) \in Nat
    BY <1>8, GoodType, Zenon
  <2> QED
    BY <1>8, <1>9, <2>2, <2>3
<1>11. CopyAt(i, v)
  <2>1. Good(i, End("uboot") - 1) >= BlksOf[v]
    <3>1. i <= UbootEnd - 1
      BY <1>7
    <3> QED
      BY <1>5, <1>6, <1>10, <3>1, Zenon
  <2>2. ASSUME NEW b \in i .. End("uboot") - 1, b \notin bad, Good(i, b) <= BlksOf[v]
        PROVE  block[b] = Part(v, Good(i, b))
    <3>1. b \in Int /\ i <= b /\ b \in Area("uboot")
      BY <1>5, <1>8
    <3>2. Good(i, b) = Rank("uboot", b)
      BY <1>5, <1>10, <3>1, Zenon DEF Rank
    <3> QED
      BY <1>4, <2>2, <3>1, <3>2, Zenon
  <2> QED
    BY <1>2, <1>7, <1>8, <2>1, <2>2, CopyIn
<1>12. ASSUME NEW u \in Uboots, CopyAt(i, u) PROVE u = v
  <2>1. BlksOf[u] \in Nat \ {0}
    BY BootAssumption
  <2>2. 1 \in 1 .. BlksOf[u]
    BY <2>1
  <2>3. PICK b \in i .. NBlocks - 1 : b \notin bad /\ Good(i, b) = 1 /\ block[b] = Part(u, 1)
    BY <1>12, <2>2, Zenon DEF CopyAt, Good
  <2>4. b \in Int /\ i <= b /\ i <= i
    BY <1>8
  <2>5. Good(i, i) = 1
    BY <1>7, <1>8, <1>10, <2>4, Zenon
  <2>6. b = i
    BY <1>7, <1>8, <2>3, <2>4, <2>5, GoodUnique, Zenon
  <2>7. block[i] = Part(v, 1)
    <3>1. Rank("uboot", i) = 1 /\ 1 <= BlksOf[v]
      BY <1>3, <1>5, <1>7 DEF Rank
    <3> QED
      BY <1>4, <1>7, <1>8, <3>1, Zenon
  <2> QED
    BY <2>3, <2>6, <2>7 DEF Part
<1> DEFINE found == {j \in UbootStart .. UbootEnd : \E u \in Uboots : CopyAt(j, u)}
<1>13. i \in found
  BY <1>3, <1>8, <1>11, Zenon
<1>14. ASSUME NEW j \in found PROVE i <= j
  <2>1. j \in UbootStart .. UbootEnd /\ j \notin bad
    BY Zenon DEF CopyAt
  <2>2. j \in Int /\ UbootStart <= j /\ j - 1 \in Int
    BY <1>5, <2>1
  <2>3. Good(UbootStart, j) = Good(UbootStart, j - 1) + 1 /\ Good(UbootStart, j - 1) \in Nat
    BY <1>5, <2>1, <2>2, GoodStep, GoodType, Zenon
  <2>4. j < i => Good(UbootStart, j) < Good(UbootStart, i)
    BY <1>5, <1>7, <1>8, <2>2, GoodStrict, Zenon
  <2> QED
    BY <1>7, <1>8, <2>2, <2>3, <2>4
<1>15. Min(found) = i
  <2>1. found \subseteq Int
    BY <1>5
  <2> HIDE DEF found
  <2>2. \A x, y \in found : x <= y /\ y <= x => x = y
    BY <2>1
  <2> QED
    BY <1>13, <1>14, <2>2, Zenon DEF Min
<1>16. (CHOOSE u \in Uboots : CopyAt(i, u)) = v
  BY <1>3, <1>11, <1>12, Zenon
<1>17. load_toc1_from_spinand = CHOOSE u \in Uboots : CopyAt(Min(found), u)
  BY <1>13, Zenon DEF load_toc1_from_spinand
<1> HIDE DEF found
<1> QED
  BY <1>15, <1>16, <1>17, Zenon

-----------------------------------------------------------------------------
(* The copies that are left *)

(* Two runs of s blocks, each after a multiple of s, share no block. *)
LEMMA SameMultiple ==
  ASSUME NEW s \in Nat \ {0}
  PROVE  \A p, q \in Nat : \A x, y \in 1 .. s : p % s = 0 /\ q % s = 0 /\ p + x = q + y => p = q
<1> SUFFICES ASSUME NEW p \in Nat, NEW q \in Nat, NEW x \in 1 .. s, NEW y \in 1 .. s,
                    p % s = 0, q % s = 0, p + x = q + y
             PROVE  p = q
  BY Zenon
<1> DEFINE c == p \div s
           d == q \div s
<1>1. c \in Nat /\ d \in Nat /\ p = s * c /\ q = s * d
  BY DivExact, Zenon
<1> HIDE DEF c, d
<1>2. s * c \in Nat /\ s * d \in Nat
  BY <1>1
<1>3. x - 1 \in 0 .. s - 1 /\ y - 1 \in 0 .. s - 1 /\ s * c <= s * d + (y - 1) /\ s * d <= s * c + (x - 1)
  BY <1>1, <1>2
<1>4. c <= d /\ d <= c
  BY <1>1, <1>3, MultLess, Zenon
<1> QED
  BY <1>1, <1>4

(* Positions and the blocks from them on. *)
LEMMA PosFacts ==
  ASSUME NEW a \in Areas, NEW i \in Area(a), i \notin bad
  PROVE  /\ i \in Nat /\ i \in Int /\ i - 1 \in Int /\ Start(a) <= i /\ Rank(a, i - 1) \in Nat
         /\ Rank(a, i) = Rank(a, i - 1) + 1
         /\ \A b \in i .. End(a) - 1 : /\ b \in Int /\ b \in Area(a) /\ i <= b /\ Start(a) <= b
                                       /\ Good(i, b) \in Nat
                                       /\ Rank(a, b) = Rank(a, i - 1) + Good(i, b)
                                       /\ b \notin bad => Good(i, b) >= 1
<1>1. /\ i \in Nat /\ i \in Int /\ i - 1 \in Int /\ Start(a) <= i /\ Start(a) \in Int /\ End(a) \in Int
      /\ (i - 1) + 1 = i /\ Start(a) <= (i - 1) + 1
  BY AreaFacts DEF Area
<1>2. Rank(a, i - 1) \in Nat /\ Rank(a, i) = Rank(a, i - 1) + 1
  BY <1>1, RankType, Zenon
<1>3. ASSUME NEW b \in i .. End(a) - 1
      PROVE  /\ b \in Int /\ b \in Area(a) /\ i <= b /\ Start(a) <= b
             /\ Good(i, b) \in Nat
             /\ Rank(a, b) = Rank(a, i - 1) + Good(i, b)
             /\ b \notin bad => Good(i, b) >= 1
  <2>1. b \in Int /\ b - 1 \in Int /\ i <= b /\ i - 1 <= b /\ Start(a) <= b /\ b \in Area(a)
    BY <1>1 DEF Area
  <2>2. Good(i, b) \in Nat /\ Good(i, b - 1) \in Nat
    BY <1>1, <2>1, GoodType, Zenon
  <2>3. Good(Start(a), b) = Good(Start(a), i - 1) + Good((i - 1) + 1, b)
    BY <1>1, <2>1, GoodSplit, ZenonT(40)
  <2>4. Rank(a, b) = Rank(a, i - 1) + Good(i, b)
    BY <1>1, <2>3, Zenon DEF Rank
  <2>5. b \notin bad => Good(i, b) = Good(i, b - 1) + 1
    BY <1>1, <2>1, GoodStep, Zenon
  <2>6. b \notin bad => Good(i, b) >= 1
    BY <2>2, <2>5
  <2> QED
    BY <2>1, <2>2, <2>4, <2>6, Zenon
<1> QED
  BY <1>1, <1>2, <1>3, Zenon

LEMMA PositionsFinite ==
  ASSUME NEW a \in Areas, NEW s, NEW S \in SUBSET Positions(a, s)
  PROVE  IsFiniteSet(S) /\ Cardinality(S) \in Nat
<1>1. Start(a) \in Int /\ End(a) - 1 \in Int
  BY AreaFacts
<1>2. IsFiniteSet(Area(a))
  BY <1>1, FS_Interval, Zenon DEF Area
<1>3. S \in SUBSET Area(a)
  BY Zenon DEF Positions
<1>4. IsFiniteSet(S)
  BY <1>2, <1>3, FS_Subset, Zenon
<1> QED
  BY <1>4, FS_CardinalityType, Zenon

LEMMA CountingIn == ASSUME NEW a \in Areas PROVE Counting(a) \in SUBSET Positions(a, BlksOf[last[a]])
BY Zenon DEF Counting, Intact, Busy

LEMMA SamePositions ==
  ASSUME UNCHANGED bad
  PROVE  \A a, s : Positions(a, s)' = Positions(a, s)
BY RankSame, Zenon DEF Positions, Area, Good, Start, End

(* A step that takes away none, or at most one and counts a fault for it. *)
LEMMA KeptIf ==
  ASSUME TypeOK, TypeOK', NEW a \in Areas, Kept(a), UNCHANGED bad,
         copies'[a] = copies[a],
         copies[a] > 0 /\ last[a] # NoImage =>
           /\ last'[a] # NoImage /\ BlksOf[last'[a]] = BlksOf[last[a]]
           /\ \/ faults'[a] = faults[a] /\ Counting(a) \subseteq Counting(a)'
              \/ faults'[a] = faults[a] + 1 /\ \E x : Counting(a) \ {x} \subseteq Counting(a)'
  PROVE  Kept(a)'
<1>1. SUFFICES ASSUME copies[a] > 0
               PROVE  /\ last'[a] # NoImage
                      /\ copies[a] <= faults'[a] + Cardinality(Counting(a)')
  BY Zenon DEF Kept, Counting
<1>2. last[a] # NoImage /\ copies[a] <= faults[a] + Cardinality(Counting(a))
  BY <1>1, Zenon DEF Kept, Counting
<1>3. /\ last'[a] # NoImage /\ BlksOf[last'[a]] = BlksOf[last[a]]
      /\ \/ faults'[a] = faults[a] /\ Counting(a) \subseteq Counting(a)'
         \/ faults'[a] = faults[a] + 1 /\ \E x : Counting(a) \ {x} \subseteq Counting(a)'
  BY <1>1, <1>2, Zenon
<1> DEFINE S == Counting(a)
           T == Counting(a)'
<1>4. IsFiniteSet(S) /\ Cardinality(S) \in Nat
  BY CountingIn, PositionsFinite, Zenon
<1>5. IsFiniteSet(T) /\ Cardinality(T) \in Nat
  <2>1. T \in SUBSET Positions(a, BlksOf[last'[a]])
    BY SamePositions, ZenonT(40) DEF Counting, Intact, Busy
  <2> QED
    BY <2>1, PositionsFinite, Zenon
<1>6. copies[a] \in Nat /\ faults[a] \in Nat
  BY BootAssumption, SMTT(40) DEF TypeOK
<1> HIDE DEF S, T
<1>7. CASE faults'[a] = faults[a] /\ S \subseteq T
  <2>1. Cardinality(S) <= Cardinality(T)
    BY <1>5, <1>7, FS_Subset, ZenonT(40)
  <2> QED
    BY <1>2, <1>3, <1>4, <1>5, <1>6, <1>7, <2>1 DEF S, T
<1>8. CASE faults'[a] = faults[a] + 1 /\ \E x : S \ {x} \subseteq T
  <2>1. PICK x : S \ {x} \subseteq T
    BY <1>8, Zenon
  <2>2. S \subseteq T \cup {x}
    BY <2>1, Zenon
  <2>3. IsFiniteSet(T \cup {x}) /\ Cardinality(T \cup {x}) = IF x \in T THEN Cardinality(T) ELSE Cardinality(T) + 1
    BY <1>5, FS_AddElement, Zenon
  <2>4. Cardinality(S) <= Cardinality(T \cup {x})
    BY <2>2, <2>3, FS_Subset, Zenon
  <2> QED
    BY <1>2, <1>3, <1>4, <1>5, <1>6, <1>8, <2>3, <2>4, SMTT(40) DEF S, T
<1> QED
  BY <1>3, <1>7, <1>8, Zenon DEF S, T

LEMMA IntactStays ==
  ASSUME UNCHANGED bad, NEW a, NEW s, NEW i \in Intact(a, s),
         \A b \in i .. End(a) - 1 : b \notin bad /\ Good(i, b) <= s => block'[b] = block[b]
  PROVE  i \in Intact(a, s)'
<1>1. PICK v \in ImagesOf(a, s) : WholeAt(a, i, v)
  BY Zenon DEF Intact
<1>2. BlksOf[v] = s /\ ImagesOf(a, s)' = ImagesOf(a, s)
  BY Zenon DEF ImagesOf
<1>3. \A b : Good(i, b)' = Good(i, b)
  BY Zenon DEF Good
<1>4. WholeAt(a, i, v)'
  BY <1>1, <1>2, <1>3, Zenon DEF WholeAt, End
<1>5. i \in Positions(a, s)'
  BY SamePositions, Zenon DEF Intact
<1> QED
  BY <1>1, <1>2, <1>4, <1>5, Zenon DEF Intact

LEMMA InCounting ==
  ASSUME NEW a, NEW s, s = BlksOf[last'[a]], NEW i, i \in Intact(a, s)' \/ i \in Busy(a, s)'
  PROVE  i \in Counting(a)'
BY Zenon DEF Counting, Intact, Busy, Positions, ImagesOf

(* An area that no download is writing keeps its copies. *)
LEMMA KeptElse ==
  ASSUME TypeOK, TypeOK', Progress, [Next]_vars, NEW a \in Areas, Kept(a),
         pc # "erase", ~(Downloading /\ A = a), copies'[a] = copies[a], faults'[a] = faults[a],
         copies[a] > 0 /\ last[a] # NoImage =>
           last'[a] # NoImage /\ BlksOf[last'[a]] = BlksOf[last[a]]
  PROVE  Kept(a)'
<1>1. UNCHANGED bad /\ \A b \in Area(a) : block'[b] = block[b]
  BY AreaStep, Zenon
<1>2. ASSUME last[a] # NoImage, BlksOf[last'[a]] = BlksOf[last[a]], NEW i \in Counting(a)
      PROVE  i \in Counting(a)'
  <2>0. PICK s : s = BlksOf[last[a]]
    OBVIOUS
  <2>1. i \in Intact(a, s)
    BY <2>0, Zenon DEF Counting, Busy, Downloading
  <2>2. i \in Area(a) /\ i \notin bad
    BY <2>1, Zenon DEF Intact, Positions
  <2>3. \A b \in i .. End(a) - 1 : block'[b] = block[b]
    BY <1>1, <2>2, PosFacts, Zenon
  <2>4. i \in Intact(a, s)'
    BY <1>1, <2>1, <2>3, IntactStays, Zenon
  <2> QED
    BY <1>2, <2>0, <2>4, InCounting, ZenonT(40)
<1> QED
  BY <1>1, <1>2, KeptIf, Zenon

LEMMA BusyOne ==
  ASSUME NEW a \in Areas, NEW s, NEW i \in Busy(a, s), NEW j \in Busy(a, s)
  PROVE  i = j
<1>1. /\ i \in Area(a) /\ i \notin bad /\ j \in Area(a) /\ j \notin bad
      /\ Rank(a, i - 1) = Rank(a, j - 1)
  BY Zenon DEF Busy, Positions
<1>2. /\ i \in Int /\ j \in Int /\ Start(a) <= i /\ Start(a) <= j /\ Rank(a, i) = Rank(a, i - 1) + 1
      /\ Rank(a, j) = Rank(a, j - 1) + 1
  BY <1>1, PosFacts, ZenonT(40)
<1>3. Rank(a, i) = Rank(a, j) /\ Start(a) \in Int
  BY <1>1, <1>2, AreaFacts
<1> QED
  BY <1>1, <1>2, <1>3, GoodUnique, Zenon DEF Rank

(* The block that is erased or programmed belongs to no other copy than the  *)
(* one that is being written.                                                *)
LEMMA OtherCopies ==
  ASSUME TypeOK, Progress, pc \in {"block", "write"}, blk \notin bad, UNCHANGED bad,
         NEW a, a = A, NEW s, s = Size,
         \A b \in Area(a) : b # blk => block'[b] = block[b],
         NEW i \in Intact(a, s), i \notin Busy(a, s)
  PROVE  i \in Intact(a, s)'
<1>1. /\ a \in Areas /\ s \in Nat \ {0} /\ part \in 1 .. s /\ blk \in Nat /\ Start(a) <= blk
      /\ Rank(a, start - 1) \in Nat /\ Rank(a, start - 1) % s = 0
      /\ Rank(a, blk) = Rank(a, blk - 1) + 1 /\ Rank(a, blk - 1) = Rank(a, start - 1) + (part - 1)
  <2>1. Downloading
    BY Zenon DEF Downloading
  <2>2. /\ A \in Areas /\ Size \in Nat \ {0} /\ part \in 1 .. Size /\ blk \in Nat /\ start \in Nat
        /\ Start(A) \in Nat /\ Start(A) <= start /\ start <= blk
        /\ Rank(A, start - 1) \in Nat /\ Rank(A, blk) = Rank(A, blk - 1) + 1
    BY <2>1, InDownload, Zenon
  <2>3. Start(A) <= blk
    BY <2>2
  <2> QED
    BY <2>2, <2>3, InCopy, Zenon
<1>2. /\ i \in Area(a) /\ i \notin bad /\ Rank(a, i - 1) % s = 0
      /\ Rank(a, i - 1) # Rank(a, start - 1)
  BY Zenon DEF Intact, Positions, Busy
<1>3. ASSUME NEW b \in i .. End(a) - 1, b \notin bad, Good(i, b) <= s
      PROVE  block'[b] = block[b]
  <2>1. /\ b \in Area(a) /\ Good(i, b) \in Nat /\ Good(i, b) >= 1 /\ Rank(a, i - 1) \in Nat
        /\ Rank(a, b) = Rank(a, i - 1) + Good(i, b)
    <3>1. a \in Areas /\ i \in Area(a) /\ i \notin bad
      BY <1>1, <1>2, Zenon
    <3> QED
      BY <1>3, <3>1, PosFacts, ZenonT(40)
  <2>2. CASE b = blk
    <3>1. Rank(a, i - 1) + Good(i, b) = Rank(a, start - 1) + part /\ Good(i, b) \in 1 .. s
      BY <1>1, <1>3, <2>1, <2>2
    <3>2. Rank(a, i - 1) = Rank(a, start - 1)
      BY <1>1, <1>2, <2>1, <3>1, SameMultiple, Zenon
    <3> QED
      BY <1>2, <3>2, Zenon
  <2> QED
    BY <2>1, <2>2, Zenon
<1> QED
  BY <1>3, IntactStays, Zenon

(* A download that is cut off spoils the copy it is writing. *)
LEMMA KeptCut ==
  ASSUME TypeOK, TypeOK', Progress, Downloading, NEW a \in Areas, a = A, Kept(a), UNCHANGED bad,
         \/ UNCHANGED block
         \/ /\ pc \in {"block", "write"} /\ blk \notin bad
            /\ \A b \in Area(a) : b # blk => block'[b] = block[b],
         copies'[a] = copies[a], faults'[a] = faults[a] + 1, last'[a] = last[a]
  PROVE  Kept(a)'
<1>0. PICK s : s = Size
  OBVIOUS
<1>1. BlksOf[last[a]] = s /\ BlksOf[last'[a]] = s /\ last[a] # NoImage
  BY <1>0, ImageFacts, Zenon DEF Progress, Size
<1>2. ASSUME NEW i \in Intact(a, s), i \notin Busy(a, s) PROVE i \in Counting(a)'
  <2>1. CASE UNCHANGED block
    BY <1>1, <1>2, <2>1, IntactStays, InCounting, Zenon
  <2>2. CASE /\ pc \in {"block", "write"} /\ blk \notin bad
             /\ \A b \in Area(a) : b # blk => block'[b] = block[b]
    BY <1>0, <1>1, <1>2, <2>2, OtherCopies, InCounting, ZenonT(40)
  <2> QED
    BY <2>1, <2>2, Zenon
<1>3. \E x : Counting(a) \ {x} \subseteq Counting(a)'
  <2>1. \A x : (\A j \in Busy(a, s) : j = x) => Counting(a) \ {x} \subseteq Counting(a)'
    <3>1. Counting(a) = Intact(a, s) \cup Busy(a, s)
      BY <1>1, Zenon DEF Counting
    <3> QED
      BY <1>2, <3>1, Zenon
  <2>2. \E x : \A j \in Busy(a, s) : j = x
    <3>1. \A i, j \in Busy(a, s) : i = j
      BY BusyOne, ZenonT(40)
    <3>2. CASE Busy(a, s) = {}
      BY <3>2
    <3>3. CASE Busy(a, s) # {}
      <4>1. PICK x : x \in Busy(a, s)
        BY <3>3
      <4> QED
        BY <3>1, <4>1
    <3> QED
      BY <3>2, <3>3
  <2> QED
    BY <2>1, <2>2, Zenon
<1> QED
  BY <1>1, <1>3, KeptIf, Zenon

(* The copy that is complete. *)
LEMMA NowWhole ==
  ASSUME TypeOK, Progress, WriteBlock, part = Size, Progress', NEW a, a = A, NEW s, s = Size,
         NEW i \in Busy(a, s)
  PROVE  i \in Intact(a, s)'
<1>0. Downloading /\ pc = "write" /\ pc \in {"block", "write"}
  BY Zenon DEF WriteBlock, Downloading
<1>1. pc' = "copy" /\ blk' = blk + 1 /\ UNCHANGED <<bad, img>>
  BY Zenon DEF WriteBlock, Goto
<1>2. /\ a \in Areas /\ s \in Nat \ {0} /\ blk \in Nat /\ img \in Images /\ Start(a) \in Nat
      /\ Rank(a, start - 1) \in Nat /\ Rank(a, start - 1) % s = 0
      /\ Rank(a, blk) = Rank(a, blk - 1) + 1 /\ Rank(a, blk - 1) = Rank(a, start - 1) + (s - 1)
      /\ Start(a) <= start /\ start <= blk /\ start \in Nat
  <2>1. blk \notin bad
    BY <1>0, Zenon DEF Progress
  <2> QED
    BY <1>0, <2>1, InDownload, InCopy, Zenon
<1>3. Rank(a, blk) = Rank(a, start - 1) + s
  BY <1>2
<1>4. i \in Area(a) /\ i \notin bad /\ Rank(a, i - 1) = Rank(a, start - 1) /\ i \in Positions(a, s)
  BY Zenon DEF Busy, Positions
<1>5. \A b \in Area(a) : b < blk + 1 /\ b \notin bad =>
        block'[b] = Part(img, ((Rank(a, b) - 1) % s) + 1)
  <2>1. Written(A, img, blk)'
    BY <1>1, Zenon DEF Progress, Downloading
  <2>2. \A b : Rank(a, b)' = Rank(a, b)
    BY <1>1, RankSame, Zenon
  <2> QED
    BY <1>1, <2>1, <2>2, Zenon DEF Written, A, Size, Area, Start, End
<1>6. ASSUME NEW b \in i .. End(a) - 1, b \notin bad, Good(i, b) <= s
      PROVE  block'[b] = Part(img, Good(i, b))
  <2>1. /\ b \in Int /\ b \in Area(a) /\ Good(i, b) \in Nat /\ Good(i, b) >= 1 /\ Start(a) <= b
        /\ Rank(a, b) = Rank(a, i - 1) + Good(i, b)
    <3>1. a \in Areas /\ i \in Area(a) /\ i \notin bad
      BY <1>2, <1>4, Zenon
    <3> QED
      BY <1>6, <3>1, PosFacts, ZenonT(40)
  <2>2. b < blk + 1
    <3>1. blk < b => Rank(a, blk) < Rank(a, b)
      <4>1. Start(a) \in Int /\ blk \in Int
        BY <1>2
      <4> QED
        BY <1>6, <2>1, <4>1, GoodStrict, ZenonT(40) DEF Rank
    <3> QED
      BY <1>2, <1>3, <1>4, <1>6, <2>1, <3>1, SMTT(40)
  <2>3. ((Rank(a, b) - 1) % s) + 1 = Good(i, b)
    <3>1. Good(i, b) - 1 \in 0 .. s - 1 /\ Rank(a, b) - 1 = Rank(a, start - 1) + (Good(i, b) - 1)
      BY <1>2, <1>4, <1>6, <2>1, SMTT(40)
    <3>2. (Rank(a, start - 1) + (Good(i, b) - 1)) % s = Good(i, b) - 1
      BY <1>2, <3>1, ModAdd, Zenon
    <3> QED
      BY <2>1, <3>1, <3>2
  <2> QED
    BY <1>5, <1>6, <2>1, <2>2, <2>3, Zenon
<1>7. img' \in ImagesOf(a, s)'
  BY <1>1, <1>2, ZenonT(40) DEF ImagesOf, A, Size
<1>8. \E v \in ImagesOf(a, s)' : WholeAt(a, i, v)'
  <2>1. PICK v : v = img
    OBVIOUS
  <2>2. v \in ImagesOf(a, s)' /\ BlksOf[v] = s
    BY <1>1, <1>7, <2>1, Zenon DEF Size
  <2>3. WholeAt(a, i, v)'
    BY <1>1, <1>6, <2>1, <2>2, ZenonT(40) DEF WholeAt, Good, End
  <2> QED
    BY <2>2, <2>3, Zenon
<1>9. i \in Positions(a, s)'
  BY <1>1, <1>4, SamePositions, ZenonT(40)
<1> QED
  BY <1>8, <1>9, Zenon DEF Intact

(* Behind the last block of the area there is no copy to give up: none that  *)
(* begins where this one does has room.                                      *)
LEMMA CutHasNoRoom ==
  ASSUME TypeOK, Progress, pc = "block", blk \in bad, blk + 1 >= End(A), NEW a, a = A, NEW s, s = Size
  PROVE  Busy(a, s) = {}
<1>0. Downloading /\ pc \in {"block", "write"}
  BY Zenon DEF Downloading
<1>1. /\ a \in Areas /\ s \in Nat \ {0} /\ blk \in Nat /\ part \in 1 .. s /\ End(a) \in Nat
      /\ Rank(a, start - 1) \in Nat /\ Start(a) \in Nat
      /\ Rank(a, blk) = Rank(a, blk - 1) /\ Rank(a, blk - 1) = Rank(a, start - 1) + (part - 1)
  BY <1>0, InDownload, InCopy, Zenon
<1>2. SUFFICES ASSUME NEW i \in Busy(a, s) PROVE FALSE
  BY Zenon
<1>3. i \in Area(a) /\ i \notin bad /\ Rank(a, i - 1) = Rank(a, start - 1) /\ Good(i, End(a) - 1) >= s
  BY Zenon DEF Busy, Positions
<1>4. End(a) - 1 \in i .. End(a) - 1 /\ End(a) - 1 \in Int /\ End(a) - 1 <= blk /\ blk \in Int /\ Start(a) \in Int
  BY <1>1, <1>3 DEF Area
<1>5. Good(i, End(a) - 1) \in Nat /\ Rank(a, End(a) - 1) = Rank(a, i - 1) + Good(i, End(a) - 1)
  BY <1>1, <1>3, <1>4, PosFacts, Zenon
<1>6. Rank(a, End(a) - 1) <= Rank(a, blk)
  BY <1>4, GoodMono, Zenon DEF Rank
<1> QED
  BY <1>1, <1>3, <1>5, <1>6

(* No step of a download takes away a copy without a fault. *)
LEMMA KeptCopyStep ==
  ASSUME TypeOK, TypeOK', Progress, Progress', NextCopy \/ SkipBad \/ EraseBlock \/ WriteBlock,
         NEW a \in Areas, a = A, Kept(a)
  PROVE  Kept(a)'
<1>0. Downloading /\ UNCHANGED <<bad, img, last, copies, faults>>
  BY Zenon DEF NextCopy, SkipBad, EraseBlock, WriteBlock, Downloading, ghosts
<1>1. PICK s : s = Size
  OBVIOUS
<1>2. BlksOf[last[a]] = s /\ BlksOf[last'[a]] = s /\ last[a] # NoImage
  BY <1>0, <1>1, ImageFacts, Zenon DEF Progress, Size
<1>3. Counting(a) = Intact(a, s) \cup Busy(a, s)
  BY <1>2, Zenon DEF Counting
<1>4. ASSUME UNCHANGED block, NEW i \in Intact(a, s) PROVE i \in Counting(a)'
  BY <1>0, <1>2, <1>4, IntactStays, InCounting, ZenonT(40)
<1>5. ASSUME pc \in {"block", "write"}, pc' \in {"block", "write"}, UNCHANGED start, NEW i \in Busy(a, s)
      PROVE  i \in Counting(a)'
  <2>1. i \in Positions(a, s)' /\ A' = a /\ Rank(a, i - 1)' = Rank(a, start - 1)'
    <3>1. i \in Positions(a, s) /\ Rank(a, i - 1) = Rank(a, start - 1)
      BY Zenon DEF Busy
    <3>2. i \in Positions(a, s)'
      BY <1>0, <3>1, SamePositions, Zenon
    <3>3. Rank(a, i - 1)' = Rank(a, start - 1)' /\ A' = a
      BY <1>0, <1>5, <3>1, Zenon DEF Rank, Good, Start, A
    <3> QED
      BY <3>2, <3>3, Zenon
  <2>2. i \in Busy(a, s)'
    BY <1>5, <2>1, Zenon DEF Busy
  <2> QED
    BY <1>2, <2>2, InCounting, Zenon
<1>6. ASSUME pc \in {"block", "write"}, blk \notin bad, NEW c, block' = [block EXCEPT ![blk] = c],
             NEW i \in Intact(a, s), i \notin Busy(a, s)
      PROVE  i \in Counting(a)'
  <2>1. \A b \in Area(a) : b # blk => block'[b] = block[b]
    BY <1>6, AreaFacts DEF TypeOK
  <2>2. i \in Intact(a, s)'
    BY <1>0, <1>1, <1>6, <2>1, OtherCopies, ZenonT(40)
  <2> QED
    BY <1>2, <2>2, InCounting, ZenonT(40)
<1>7. Counting(a) \subseteq Counting(a)'
  <2>1. CASE NextCopy
    <3>1. UNCHANGED block /\ Busy(a, s) = {}
      BY <2>1 DEF NextCopy, Busy
    <3> QED
      BY <1>3, <1>4, <3>1, Zenon
  <2>2. CASE SkipBad /\ blk + 1 >= End(A)
    <3>1. UNCHANGED block /\ Busy(a, s) = {}
      BY <1>1, <2>2, CutHasNoRoom, Zenon DEF SkipBad
    <3> QED
      BY <1>3, <1>4, <3>1, Zenon
  <2>3. CASE SkipBad /\ ~(blk + 1 >= End(A))
    <3>1. UNCHANGED block /\ pc = "block" /\ pc' = "block" /\ UNCHANGED start
      BY <2>3, Zenon DEF SkipBad, Goto
    <3>2. pc \in {"block", "write"} /\ pc' \in {"block", "write"}
      BY <3>1, Zenon
    <3> QED
      BY <1>3, <1>4, <1>5, <3>1, <3>2, Zenon
  <2>4. CASE EraseBlock
    <3>1. /\ pc = "block" /\ pc' = "write" /\ UNCHANGED start /\ blk \notin bad
          /\ block' = [block EXCEPT ![blk] = Plain("blank")]
      BY <2>4, Zenon DEF EraseBlock, Goto
    <3>2. pc \in {"block", "write"} /\ pc' \in {"block", "write"}
      BY <3>1, Zenon
    <3> QED
      BY <1>3, <1>5, <1>6, <3>1, <3>2, Zenon
  <2>5. CASE WriteBlock
    <3>1. pc = "write" /\ blk \notin bad /\ pc \in {"block", "write"}
      BY <1>0, <2>5, Zenon DEF WriteBlock, Progress
    <3>2. PICK c : c = Part(img, part)
      OBVIOUS
    <3>3. block' = [block EXCEPT ![blk] = c]
      BY <2>5, <3>2, Zenon DEF WriteBlock
    <3>4. ASSUME NEW i \in Intact(a, s), i \notin Busy(a, s) PROVE i \in Counting(a)'
      BY <1>6, <3>1, <3>3, <3>4, Zenon
    <3>5. CASE part = Size
      <4>1. \A i \in Busy(a, s) : i \in Counting(a)'
        BY <1>1, <1>2, <2>5, <3>5, NowWhole, InCounting, ZenonT(40)
      <4> QED
        BY <1>3, <3>4, <4>1, Zenon
    <3>6. CASE part # Size
      <4>1. pc' = "block" /\ UNCHANGED start
        BY <2>5, <3>6, Zenon DEF WriteBlock, Goto
      <4>2. pc' \in {"block", "write"}
        BY <4>1, Zenon
      <4> QED
        BY <1>3, <1>5, <3>1, <3>4, <4>1, <4>2, ZenonT(40)
    <3> QED
      BY <3>5, <3>6, Zenon
  <2> QED
    BY <2>1, <2>2, <2>3, <2>4, <2>5, Zenon
<1> QED
  BY <1>0, <1>2, <1>7, KeptIf, Zenon

(* A download that returns counts the copies it has left. *)
LEMMA KeptDone ==
  ASSUME TypeOK, TypeOK', Progress, DownloadDone, NEW a \in Areas, a = A
  PROVE  Kept(a)'
<1>0. Downloading /\ pc = "copy"
  BY Zenon DEF DownloadDone, Downloading
<1>1. PICK s : s = Size
  OBVIOUS
<1>2. /\ img \in Images /\ s \in Nat \ {0} /\ start \in Nat /\ End(a) \in Nat /\ last[a] = img
      /\ start + s > End(a) /\ blk = start /\ BlksOf[img] = s
      /\ \A b \in Area(a) : b < start /\ b \notin bad =>
           block[b] = Part(img, ((Rank(a, b) - 1) % s) + 1)
  BY <1>0, <1>1, InDownload, ZenonT(40) DEF DownloadDone, Progress, Written, Size
<1>3. /\ copies'[a] = Cardinality(CopiesOf(img)) /\ faults'[a] = 0 /\ last'[a] = img
      /\ UNCHANGED <<block, bad>>
  BY <1>2, Zenon DEF DownloadDone, TypeOK
<1>4. ASSUME NEW i \in CopiesOf(img) PROVE i \in Intact(a, s)
  <2>1. i \in Area(a) /\ CopyAt(i, img) /\ Good(i, End(a) - 1) >= s /\ i \notin bad
    BY <1>2, Zenon DEF CopiesOf, A, Good, CopyAt
  <2>2. /\ i \in Int /\ i - 1 \in Int /\ Rank(a, i - 1) \in Nat /\ Rank(a, i) = Rank(a, i - 1) + 1
        /\ \A b \in i .. End(a) - 1 : /\ b \in Int /\ i <= b
                                      /\ Good(i, b) \in Nat /\ (b \notin bad => Good(i, b) >= 1)
    BY <2>1, PosFacts, Zenon
  <2>3. ASSUME NEW b \in i .. End(a) - 1, b \notin bad, Good(i, b) <= s
        PROVE  block[b] = Part(img, Good(i, b))
    <3>1. b \in Int /\ i <= b /\ Good(i, b) \in 1 .. s
      BY <1>2, <2>2, <2>3
    <3>2. PICK c \in i .. NBlocks - 1 : c \notin bad /\ Good(i, c) = Good(i, b) /\ block[c] = Part(img, Good(i, b))
      BY <1>2, <2>1, <3>1, Zenon DEF CopyAt, Good
    <3>3. c \in Int /\ i <= c
      BY <2>2
    <3>4. b = c
      BY <2>2, <2>3, <3>1, <3>2, <3>3, GoodUnique, ZenonT(40)
    <3> QED
      BY <3>2, <3>4, ZenonT(40)
  <2>4. WholeAt(a, i, img)
    BY <1>2, <2>3, ZenonT(40) DEF WholeAt
  <2>5. i \in i .. End(a) - 1 /\ i < End(a) /\ i <= End(a) - 1 /\ End(a) - 1 \in Int
    BY <1>2, <2>1, <2>2, SMTT(40) DEF Area
  <2>6. i < start
    <3>1. Good(i, End(a) - 1) <= (End(a) - 1) - i + 1 /\ Good(i, End(a) - 1) \in Nat
      BY <2>2, <2>5, GoodType, Zenon
    <3> QED
      BY <1>2, <2>1, <2>2, <2>5, <3>1, SMTT(40)
  <2>7. block[i] = Part(img, 1)
    <3>1. Good(i, i) = 1
      <4>1. i <= i /\ i > i - 1
        BY <2>2
      <4>2. Good(i, i) = Good(i, i - 1) + 1 /\ Good(i, i - 1) = 0
        BY <2>1, <2>2, <4>1, GoodStep, GoodType, ZenonT(40)
      <4> QED
        BY <4>2
    <3>2. 1 <= s
      BY <1>2
    <3> QED
      BY <2>1, <2>3, <2>5, <3>1, <3>2, ZenonT(40)
  <2>8. Rank(a, i - 1) % s = 0
    <3>1. Part(img, ((Rank(a, i) - 1) % s) + 1) = Part(img, 1)
      BY <1>2, <2>1, <2>6, <2>7, ZenonT(40)
    <3>2. ((Rank(a, i) - 1) % s) + 1 = 1
      BY <3>1 DEF Part
    <3>3. Rank(a, i) - 1 = Rank(a, i - 1)
      BY <2>2
    <3> QED
      BY <1>2, <2>2, <3>2, <3>3
  <2>9. img \in ImagesOf(a, s)
    BY <1>2, Zenon DEF ImagesOf, A
  <2> QED
    BY <2>1, <2>4, <2>8, <2>9, Zenon DEF Intact, Positions
<1>5. ASSUME NEW i \in CopiesOf(img) PROVE i \in Counting(a)'
  <2>1. i \in Intact(a, s)'
    BY <1>3, <1>4, <1>5, IntactStays, Zenon
  <2> QED
    BY <1>2, <1>3, <2>1, InCounting, Zenon
<1>6. Cardinality(CopiesOf(img)) <= Cardinality(Counting(a)') /\ Cardinality(Counting(a)') \in Nat
  <2>1. Counting(a)' \in SUBSET Positions(a, BlksOf[last'[a]])
    BY <1>3, SamePositions, Zenon DEF Counting, Intact, Busy
  <2>2. IsFiniteSet(Counting(a)') /\ Cardinality(Counting(a)') \in Nat
    BY <2>1, PositionsFinite, Zenon
  <2>3. CopiesOf(img) \subseteq Counting(a)'
    BY <1>5, Zenon
  <2> QED
    BY <2>2, <2>3, FS_Subset, Zenon
<1>7. copies'[a] <= faults'[a] + Cardinality(Counting(a)')
  <2>1. Cardinality(CopiesOf(img)) \in Nat
    BY <1>2, CopiesType
  <2> QED
    BY <1>3, <1>6, <2>1, SMTT(40)
<1>8. last'[a] # NoImage
  BY <1>2, <1>3, ImageFacts, Zenon
<1> QED
  BY <1>7, <1>8, Zenon DEF Kept, Counting

LEMMA NoCopies == ASSUME NEW a \in Areas, copies'[a] = 0 PROVE Kept(a)'
BY DEF Kept

LEMMA KeptKept ==
  ASSUME TypeOK, TypeOK', Progress, Progress', Erasing, [Next]_vars, NEW a \in Areas, Kept(a)
  PROVE  Kept(a)'
<1>a. CASE /\ pc # "erase" /\ ~(Downloading /\ A = a)
           /\ copies'[a] = copies[a] /\ faults'[a] = faults[a] /\ last'[a] = last[a]
  BY <1>a, KeptElse, Zenon
<1>b. CASE pc = "erase" /\ UNCHANGED copies
  <2>1. copies'[a] = 0
    BY <1>b, Zenon DEF Erasing
  <2> QED
    BY <2>1, NoCopies, Zenon
<1>1. ASSUME NEW v \in Images, Begin(v) PROVE Kept(a)'
  <2>1. /\ pc = "idle" /\ UNCHANGED faults /\ last' = [last EXCEPT ![AreaOf(v)] = v]
        /\ copies' = [copies EXCEPT ![AreaOf(v)] =
                        IF last[AreaOf(v)] # NoImage /\ BlksOf[last[AreaOf(v)]] = BlksOf[v]
                        THEN copies[AreaOf(v)] ELSE 0]
    BY <1>1, Zenon DEF Begin, Begins
  <2>2. pc # "erase" /\ ~Downloading /\ v # NoImage
    BY <2>1, ImageFacts, SMTT(40) DEF Downloading
  <2>3. CASE a # AreaOf(v)
    BY <1>a, <2>1, <2>2, <2>3, SMTT(40) DEF TypeOK
  <2>4. CASE a = AreaOf(v) /\ last[a] # NoImage /\ BlksOf[last[a]] = BlksOf[v]
    <3>1. last'[a] = v /\ copies'[a] = copies[a] /\ faults'[a] = faults[a]
      BY <2>1, <2>4, Zenon DEF TypeOK
    <3> QED
      BY <2>2, <2>4, <3>1, KeptElse, Zenon
  <2>5. CASE a = AreaOf(v) /\ ~(last[a] # NoImage /\ BlksOf[last[a]] = BlksOf[v])
    <3>1. copies'[a] = 0
      BY <2>1, <2>5, ZenonT(40) DEF TypeOK
    <3> QED
      BY <3>1, NoCopies, Zenon
  <2> QED
    BY <2>3, <2>4, <2>5, Zenon
<1>2. CASE NextCopy \/ SkipBad \/ EraseBlock \/ WriteBlock
  <2>1. pc # "erase" /\ UNCHANGED <<copies, faults, last>>
    BY <1>2 DEF NextCopy, SkipBad, EraseBlock, WriteBlock, ghosts
  <2> QED
    BY <1>a, <1>2, <2>1, KeptCopyStep, ZenonT(40)
<1>3. CASE DownloadDone
  <2>1. CASE a = A
    BY <1>3, <2>1, KeptDone, Zenon
  <2>2. CASE a # A
    <3>1. pc # "erase" /\ copies'[a] = copies[a] /\ faults'[a] = faults[a] /\ last'[a] = last[a]
      BY <1>3, <2>2, SMTT(40) DEF DownloadDone, TypeOK
    <3> QED
      BY <1>a, <2>2, <3>1, ZenonT(40)
  <2> QED
    BY <2>1, <2>2, Zenon
<1>4. CASE DownloadFails
  <2>0. /\ Downloading /\ pc \in {"block", "write"} /\ blk \notin bad /\ pc # "erase"
        /\ Interrupted(blk) /\ Fault(A) /\ UNCHANGED <<bad, last, copies>>
    BY <1>4 DEF DownloadFails, Downloading
  <2>1. A \in Areas
    BY <2>0, InDownload, Zenon
  <2>2. CASE a = A
    <3>1. faults'[a] = faults[a] + 1
      BY <2>0, <2>2, FaultType, ZenonT(40) DEF TypeOK
    <3>2. \A b \in Area(a) : b # blk => block'[b] = block[b]
      BY <2>0, AreaFacts DEF Interrupted, TypeOK
    <3> QED
      BY <2>0, <2>2, <3>1, <3>2, KeptCut, ZenonT(40)
  <2>3. CASE a # A
    <3>1. faults'[a] = faults[a]
      BY <2>0, <2>1, <2>3, FaultType, ZenonT(40) DEF TypeOK
    <3> QED
      BY <1>a, <2>0, <2>3, <3>1, Zenon
  <2> QED
    BY <2>2, <2>3, Zenon
<1>5. ASSUME NEW f \in BOOLEAN, EraseBegin(f) PROVE Kept(a)'
  <2>1. copies'[a] = 0
    BY <1>5, Zenon DEF EraseBegin
  <2> QED
    BY <2>1, NoCopies, Zenon
<1>6. CASE EraseNext \/ EraseDone
  BY <1>b, <1>6, Zenon DEF EraseNext, EraseDone, ghosts
<1>7. CASE PowerCut /\ pc = "erase"
  BY <1>b, <1>7, Zenon DEF PowerCut
<1>8. CASE PowerCut /\ pc # "erase"
  <2>0. /\ Downloading /\ UNCHANGED <<bad, last, copies>> /\ Fault(A)
        /\ \/ UNCHANGED block
           \/ pc \in {"block", "write"} /\ blk \notin bad /\ Interrupted(blk)
    <3>1. pc \in {"copy", "block", "write"}
      BY <1>8 DEF PowerCut, TypeOK
    <3> QED
      BY <1>8, <3>1, ZenonT(40) DEF PowerCut, Downloading
  <2>1. A \in Areas
    BY <2>0, InDownload, Zenon
  <2>2. CASE a = A
    <3>1. faults'[a] = faults[a] + 1
      BY <2>0, <2>2, FaultType, ZenonT(40) DEF TypeOK
    <3>2. Interrupted(blk) => \A b \in Area(a) : b # blk => block'[b] = block[b]
      BY AreaFacts DEF Interrupted, TypeOK
    <3> QED
      BY <2>0, <2>2, <3>1, <3>2, KeptCut, Zenon
  <2>3. CASE a # A
    <3>1. faults'[a] = faults[a]
      BY <2>0, <2>1, <2>3, FaultType, ZenonT(40) DEF TypeOK
    <3> QED
      BY <1>a, <1>8, <2>0, <2>3, <3>1, Zenon
  <2> QED
    BY <2>2, <2>3, Zenon
<1>9. ASSUME NEW b \in SecBlocks, SecureWrite(b) PROVE Kept(a)'
  <2>1. pc = "idle" /\ UNCHANGED <<copies, faults, last>>
    BY <1>9, Zenon DEF SecureWrite, ghosts
  <2>2. pc # "erase" /\ ~Downloading
    BY <2>1 DEF Downloading
  <2> QED
    BY <1>a, <2>1, <2>2, Zenon
<1>10. CASE UNCHANGED vars
  <2>1. UNCHANGED <<block, bad, pc, img, start, last, copies, faults>>
    BY <1>10, Zenon DEF vars, op, ghosts
  <2>2. /\ \A i, j : Good(i, j)' = Good(i, j)
        /\ \A b : Rank(a, b)' = Rank(a, b)
    BY <2>1, RankSame, Zenon DEF Good
  <2>3. PICK s : s = BlksOf[last[a]]
    OBVIOUS
  <2>4. Positions(a, s)' = Positions(a, s)
    BY <2>1, SamePositions, Zenon
  <2>5. Intact(a, s)' = Intact(a, s)
    BY <2>1, <2>2, <2>4, Zenon DEF Intact, ImagesOf, WholeAt
  <2>6. Busy(a, s)' = Busy(a, s)
    BY <2>1, <2>4, Zenon DEF Busy, Rank, Good, Start, A
  <2>7. Counting(a) \subseteq Counting(a)'
    BY <2>1, <2>3, <2>5, <2>6, InCounting, Zenon DEF Counting
  <2> QED
    BY <2>1, <2>7, KeptIf, Zenon
<1> QED
  BY <1>1, <1>2, <1>3, <1>4, <1>5, <1>6, <1>7, <1>8, <1>9, <1>10, ZenonT(40) DEF Next

-----------------------------------------------------------------------------
(* As long as a copy is left, it is found. *)
LEMMA IntactIsFound ==
  ASSUME NEW a \in Areas, NEW s, NEW i \in Intact(a, s)
  PROVE  \E v \in Images : AreaOf(v) = a /\ CopyAt(i, v)
<1>1. PICK v \in ImagesOf(a, s) : WholeAt(a, i, v)
  BY Zenon DEF Intact
<1>2. v \in Images /\ AreaOf(v) = a /\ BlksOf[v] = s
  BY Zenon DEF ImagesOf
<1>3. i \in Area(a) /\ i \notin bad /\ Good(i, End(a) - 1) >= s
  BY Zenon DEF Intact, Positions
<1>4. \A b \in i .. End(a) - 1 : b \notin bad /\ Good(i, b) <= BlksOf[v] => block[b] = Part(v, Good(i, b))
  BY <1>1, Zenon DEF WholeAt
<1>5. CopyAt(i, v)
  BY <1>2, <1>3, <1>4, CopyIn
<1> QED
  BY <1>2, <1>5, Zenon

LEMMA OneLeft ==
  ASSUME TypeOK, NEW a \in Areas, Kept(a), Spoiled(a) < copies[a]
  PROVE  Intact(a, BlksOf[last[a]]) # {}
<1> DEFINE s == BlksOf[last[a]]
<1>1. copies[a] \in Nat /\ faults[a] \in Nat
  BY BootAssumption DEF TypeOK
<1>2. Spoiled(a) >= faults[a] /\ copies[a] > 0
  BY <1>1 DEF Spoiled
<1>3. copies[a] <= faults[a] + Cardinality(Intact(a, s) \cup Busy(a, s))
  BY <1>2, Zenon DEF Kept, Counting
<1>4. Busy(a, s) \in SUBSET Positions(a, s)
  BY Zenon DEF Busy
<1>5. IsFiniteSet(Busy(a, s)) /\ Cardinality(Busy(a, s)) \in Nat
  BY <1>4, PositionsFinite, Zenon
<1>6. Cardinality(Busy(a, s)) <= 1
  <2>1. \E x : Busy(a, s) \subseteq {x}
    BY BusyOne, Zenon
  <2>2. PICK x : Busy(a, s) \subseteq {x}
    BY <2>1, Zenon
  <2>3. IsFiniteSet({x}) /\ Cardinality({x}) = 1
    BY FS_Singleton, Zenon
  <2>4. Cardinality(Busy(a, s)) <= Cardinality({x})
    BY <2>2, <2>3, FS_Subset, ZenonT(40)
  <2> QED
    BY <2>3, <2>4
<1>7. Busy(a, s) # {} => Spoiled(a) = faults[a] + 1
  BY <1>1, ZenonT(40) DEF Busy, Spoiled
<1>8. Busy(a, s) = {} => Cardinality(Busy(a, s)) = 0
  BY FS_EmptySet, Zenon
<1> HIDE DEF s
<1>9. SUFFICES ASSUME Intact(a, s) = {} PROVE FALSE
  BY Zenon DEF s
<1>10. Intact(a, s) \cup Busy(a, s) = Busy(a, s)
  BY <1>9, Zenon
<1>11. copies[a] <= faults[a] + Cardinality(Busy(a, s))
  BY <1>3, <1>10, Zenon DEF s
<1>12. CASE Busy(a, s) = {}
  <2>1. Spoiled(a) \in Nat
    BY <1>1, SMTT(40) DEF Spoiled
  <2> QED
    BY <1>1, <1>2, <1>8, <1>11, <1>12, <2>1, SMTT(40)
<1>13. CASE Busy(a, s) # {}
  BY <1>1, <1>5, <1>6, <1>7, <1>11, <1>13
<1> QED
  BY <1>12, <1>13, ZenonT(40)

LEMMA LeftBoots == TypeOK /\ (\A a \in Areas : Kept(a)) => StillBoots
<1> SUFFICES ASSUME TypeOK, \A a \in Areas : Kept(a) PROVE StillBoots
  OBVIOUS
<1>0. "uboot" \in Areas /\ "boot0" \in Areas
  BY DEF Areas
<1>1. ASSUME Spoiled("uboot") < copies["uboot"] PROVE load_toc1_from_spinand # NoImage
  <2> DEFINE found == {j \in UbootStart .. UbootEnd : \E u \in Uboots : CopyAt(j, u)}
  <2>1. PICK i \in Intact("uboot", BlksOf[last["uboot"]]) : TRUE
    BY <1>0, <1>1, OneLeft, Zenon
  <2>2. PICK v \in Images : AreaOf(v) = "uboot" /\ CopyAt(i, v)
    BY <1>0, IntactIsFound, Zenon
  <2>3. v \in Uboots
    BY <2>2, ImageFacts, Zenon
  <2>4. i \in UbootStart .. UbootEnd
    <3>1. i \in Area("uboot")
      BY Zenon DEF Intact, Positions
    <3> QED
      BY <3>1, BootAssumption DEF Area, Start, End
  <2>5. i \in found /\ found \in SUBSET Nat
    BY <2>2, <2>3, <2>4, BootAssumption
  <2>6. \E x \in found : \A y \in found : x <= y
    BY <2>5, NatMin, Zenon
  <2>7. Min(found) \in found
    BY <2>6, Zenon DEF Min
  <2>8. (CHOOSE u \in Uboots : CopyAt(Min(found), u)) \in Uboots
    BY <2>7, Zenon
  <2>9. load_toc1_from_spinand = CHOOSE u \in Uboots : CopyAt(Min(found), u)
    BY <2>5, Zenon DEF load_toc1_from_spinand
  <2> HIDE DEF found
  <2> QED
    BY <2>8, <2>9, BootAssumption, Zenon DEF NoImage
<1>2. ASSUME Spoiled("boot0") < copies["boot0"]
      PROVE  \E b \in Area("boot0"), v \in Boot0s : CopyAt(b, v)
  <2>1. PICK i \in Intact("boot0", BlksOf[last["boot0"]]) : TRUE
    BY <1>0, <1>2, OneLeft, Zenon
  <2>2. PICK v \in Images : AreaOf(v) = "boot0" /\ CopyAt(i, v)
    BY <1>0, IntactIsFound, Zenon
  <2>3. v \in Boot0s /\ i \in Area("boot0")
    BY <2>2 DEF AreaOf, Intact, Positions
  <2> QED
    BY <2>2, <2>3, Zenon
<1> QED
  BY <1>1, <1>2, Zenon DEF StillBoots

-----------------------------------------------------------------------------
(* The invariant, and what follows from it *)

LEMMA InitBoot == Init => BootInv
<1> SUFFICES ASSUME Init PROVE BootInv
  OBVIOUS
<1>1. /\ pc = "idle" /\ last = [a \in Areas |-> NoImage] /\ ok = [a \in Areas |-> FALSE]
      /\ copies = [a \in Areas |-> 0]
  BY Zenon DEF Init
<1>2. Homes /\ Erasing
  BY <1>1 DEF Homes, Erasing
<1>3. Loads
  BY <1>1 DEF Loads, Areas
<1>4. \A a \in Areas : Kept(a)
  BY <1>1 DEF Kept
<1> QED
  BY <1>2, <1>3, <1>4, InitProgress, Zenon DEF BootInv

LEMMA BootInvKept == BootInv /\ [Next]_vars => BootInv'
<1> SUFFICES ASSUME BootInv, [Next]_vars PROVE BootInv'
  OBVIOUS
<1>1. TypeOK' /\ Progress'
  BY ProgressKept, Zenon DEF BootInv
<1>2. Homes' /\ Erasing' /\ Loads'
  BY HomesKept, ErasingKept, LoadsKept, Zenon DEF BootInv
<1>3. \A a \in Areas : Kept(a)'
  BY <1>1, KeptKept, Zenon DEF BootInv
<1> QED
  BY <1>1, <1>2, <1>3, Zenon DEF BootInv, Areas

LEMMA BootInvAlways == Spec => []BootInv
BY InitBoot, BootInvKept, PTL DEF Spec

(* No step of a download or an erase leaves the chip, and every variable     *)
(* keeps its type.                                                           *)
THEOREM BootTypes == Spec => []TypeOK
<1>1. BootInv => TypeOK
  BY Zenon DEF BootInv
<1> QED
  BY <1>1, BootInvAlways, PTL

(* What a download of a boot package that returned 0 has left is what        *)
(* load_toc1_from_spinand starts, wherever the bad blocks are, if the area   *)
(* has enough good ones for one copy.                                        *)
THEOREM DownloadedAlwaysLoaded == Spec => []DownloadedIsLoaded
<1>1. BootInv => DownloadedIsLoaded
  BY LoadsLast, Zenon DEF BootInv
<1> QED
  BY <1>1, BootInvAlways, PTL

(* A download that is cut off or fails spoils one copy at most, so that the  *)
(* chip still boots as long as there were fewer of them than copies.         *)
THEOREM AlwaysStillBoots == Spec => []StillBoots
<1>1. BootInv => StillBoots
  BY LeftBoots, Zenon DEF BootInv
<1> QED
  BY <1>1, BootInvAlways, PTL

(* Every step of a download or an erase that does not return leaves fewer    *)
(* steps to do.                                                              *)
THEOREM AlwaysComesToAnEnd == Spec => ComesToAnEnd
<1>1. BootInv /\ [Next]_vars =>
        [pc # "idle" /\ pc' # "idle" => 0 < Left' /\ Left' < Left]_vars
  BY FewerLeft, Zenon DEF BootInv
<1> QED
  BY <1>1, BootInvAlways, PTL DEF Spec, ComesToAnEnd

(* Erasing and downloading leave the secure storage alone, unless the boot   *)
(* package's area has more bad blocks than its copies leave over.            *)
THEOREM SecureAlwaysKept == Spec => SecureKept
<1>1. BootInv /\ [Next]_vars =>
        [ \/ pc \in {"block", "write"} /\ Cardinality(Area("uboot") \cap bad) > Spare
          \/ \A b \in SecBlocks : block'[b] = block[b] \/ block'[b] = Plain("sec") ]_vars
  BY SecureStep, Zenon DEF BootInv
<1> QED
  BY <1>1, BootInvAlways, PTL DEF Spec, SecureKept
=============================================================================
