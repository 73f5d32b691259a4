----------------------------- MODULE SpinandBoot -----------------------------
(***************************************************************************)
(* drivers/mtd/awnand/spinand/sunxi-driver.c: how boot0 and the boot       *)
(* package ("uboot") are put on SPI NAND, and load_toc1_from_spinand of    *)
(* the SPL, which looks for a copy it can start.                           *)
(*                                                                         *)
(*   0            UbootStart        UbootEnd       UbootEnd + NSec         *)
(*   | boot0 copies | uboot copies    | secure storage | UBI ...           *)
(*                                                                         *)
(* A download fills its area with one copy after the other, skipping bad   *)
(* blocks.  A step erases or programs one block; the power may go, and an  *)
(* erase or a program may fail, at every step.  phy_is_bad is taken to     *)
(* answer true or false.                                                   *)
(***************************************************************************)
EXTENDS Integers, FiniteSets, FiniteSetsExt

CONSTANTS UbootStart, UbootEnd,    \* spinand_uboot_blknum
          NSec,                    \* AW_SPINAND_RESERVED_PHY_BLK_FOR_SECURE_STORAGE
          NBlocks,                 \* blocks of the chip
          Uboots, Boot0s,          \* images
          BlksOf,                  \* blks_per_uboot of an image; 1 for boot0
          MaxBad,                  \* bound: blocks that are or go bad
          MaxFaults                \* bound: power cuts and failures in a row

ASSUME BootAssumption ==
  /\ UbootStart \in Nat \ {0} /\ UbootEnd \in Nat /\ NSec \in Nat \ {0} /\ NBlocks \in Nat
  /\ UbootStart < UbootEnd /\ UbootEnd + NSec <= NBlocks
  /\ BlksOf \in [Uboots \cup Boot0s -> Nat \ {0}] /\ "none" \notin Uboots \cup Boot0s
  /\ \A b \in Boot0s : BlksOf[b] = 1     \* "size of boot0 is less than a block"
  /\ \A v \in Uboots : UbootEnd + BlksOf[v] <= NBlocks + 1   \* far behind the area
  /\ MaxBad \in Nat /\ MaxFaults \in Nat

Blocks    == 0 .. NBlocks - 1
Images    == Uboots \cup Boot0s
Areas     == {"boot0", "uboot"}
AreaOf(v) == IF v \in Boot0s THEN "boot0" ELSE "uboot"
Start(a)  == IF a = "boot0" THEN 0 ELSE UbootStart
End(a)    == IF a = "boot0" THEN UbootStart ELSE UbootEnd
Area(a)   == Start(a) .. End(a) - 1
SecBlocks == UbootEnd .. UbootEnd + NSec - 1

(* What a block holds: the part-th block of an image, or something else.  A  *)
(* block that is erased, half erased or half programmed holds nothing that   *)
(* a reader accepts: "blank".                                                *)
Part(v, n) == [is |-> v, part |-> n]
Plain(s)   == [is |-> s, part |-> 0]
Contents   == {Plain(s) : s \in {"blank", "sec", "data"}} \cup
              UNION {{Part(v, n) : n \in 1 .. BlksOf[v]} : v \in Images}
NoImage    == "none"

VARIABLES
  block,     \* the chip
  bad,       \* its bad blocks
  pc,        \* "idle", "copy", "block", "write" in a download, "erase"
  img,       \* the image being downloaded, or NoImage
  flag,      \* the argument of spinand_mtd_erase
  start,     \* where the copy being written begins
  blk,       \* req.block
  part,      \* the next part of the image: pgindex, in blocks
  last,      \* the image of the last download to an area
  ok,        \* whether that download has returned 0
  copies,    \* complete copies the last one that ran to its end has left
  faults     \* downloads to the area that were cut off or failed since then

op   == <<pc, img, flag, start, blk, part>>
ghosts == <<last, ok, copies, faults>>
vars == <<block, bad, op, ghosts>>

Size == BlksOf[img]
A    == AreaOf(img)

Init == /\ block = [b \in Blocks |-> Plain(CASE b \in SecBlocks -> "sec"
                                             [] b >= UbootEnd + NSec -> "data"
                                             [] OTHER -> "blank")]
        /\ bad \in {s \in SUBSET (0 .. UbootEnd) : Cardinality(s) <= MaxBad}
        /\ pc = "idle" /\ img = NoImage /\ flag = FALSE
        /\ start = 0 /\ blk = 0 /\ part = 1
        /\ last = [a \in Areas |-> NoImage] /\ ok = [a \in Areas |-> FALSE]
        /\ copies = [a \in Areas |-> 0] /\ faults = [a \in Areas |-> 0]

-----------------------------------------------------------------------------
(* The SPL *)

(* Spinand_Load_Boot1_Copy from block i, and verify_addsum: the parts of v   *)
(* are in the good blocks from i on.                                         *)
CopyAt(i, v) ==
  /\ i \notin bad
  /\ \A n \in 1 .. BlksOf[v] :
       \E b \in i .. NBlocks - 1 :
         b \notin bad /\ Cardinality((i .. b) \ bad) = n /\ block[b] = Part(v, n)

(* UBOOT_LAST_BLK_NUM is UbootEnd, and is tried as well. *)
load_toc1_from_spinand ==
  LET found == {i \in UbootStart .. UbootEnd : \E v \in Uboots : CopyAt(i, v)}
  IN  IF found = {} THEN NoImage
      ELSE CHOOSE v \in Uboots : CopyAt(Min(found), v)

(* The complete copies of v inside its area. *)
CopiesOf(v) == {i \in Area(AreaOf(v)) :
                  /\ CopyAt(i, v)
                  /\ Cardinality((i .. End(AreaOf(v)) - 1) \ bad) >= BlksOf[v]}

-----------------------------------------------------------------------------
(* download_boot and its two callers *)

Goto(p, s, b, n) == pc' = p /\ start' = s /\ blk' = b /\ part' = n
Back == Goto("idle", 0, 0, 1) /\ img' = NoImage /\ flag' = FALSE

(* spinand_mtd_download_boot0 and spinand_mtd_download_uboot; an image that  *)
(* is larger than its area is refused with -ENOSPC, before anything is       *)
(* written.  Copies of another size lie elsewhere, so that nothing is        *)
(* promised of the old ones.  In a build with CONFIG_SUNXI_BOOT_PARAM a      *)
(* boot0 without a checksum is refused as well, and otherwise the boot       *)
(* parameters are first written to their own partition, which is none of     *)
(* the blocks here.                                                          *)
Begins(v) ==
  LET a == AreaOf(v) IN
  /\ pc = "idle"
  /\ BlksOf[v] <= End(a) - Start(a)
  /\ img' = v /\ Goto("copy", Start(a), Start(a), 1)
  /\ last' = [last EXCEPT ![a] = v] /\ ok' = [ok EXCEPT ![a] = FALSE]
  /\ copies' = [copies EXCEPT ![a] = IF last[a] # NoImage /\ BlksOf[last[a]] = BlksOf[v]
                                     THEN @ ELSE 0]
  /\ UNCHANGED <<bad, flag, faults>>

(* Mutant: the area is erased before the first copy is written. *)
BeginErased(v) ==
  /\ Begins(v)
  /\ block' = [b \in Blocks |-> IF b \in Area(AreaOf(v)) THEN Plain("blank") ELSE block[b]]

Begin(v) == Begins(v) /\ UNCHANGED block

(* Room for another copy. *)
NextCopy == /\ pc = "copy" /\ start + Size <= End(A)
            /\ Goto("block", start, start, 1)
            /\ UNCHANGED <<block, bad, img, flag, ghosts>>

(* No room: return 0. *)
DownloadDone == /\ pc = "copy" /\ start + Size > End(A)
                /\ Back
                /\ ok' = [ok EXCEPT ![A] = TRUE]
                /\ copies' = [copies EXCEPT ![A] = Cardinality(CopiesOf(img))]
                /\ faults' = [faults EXCEPT ![A] = 0]
                /\ UNCHANGED <<block, bad, last>>

(* Mutant: the bad blocks behind the copy do not count as written. *)
SkipBadUncounted == /\ pc = "block" /\ blk \in bad
                    /\ IF blk + 1 >= End(A) THEN Goto("copy", start, start, 1)
                       ELSE Goto("block", start, blk + 1, part)
                    /\ UNCHANGED <<block, bad, img, flag, ghosts>>

(* Behind the last block of the area the copy ends as it is, and its blocks  *)
(* count as written.                                                         *)
SkipBad == /\ pc = "block" /\ blk \in bad
           /\ IF blk + 1 >= End(A) THEN Goto("copy", blk + 1, blk + 1, 1)
              ELSE Goto("block", start, blk + 1, part)
           /\ UNCHANGED <<block, bad, img, flag, ghosts>>

(* Mutant: a bad block is used like any other. *)
EraseUnchecked == /\ pc = "block"
                  /\ block' = [block EXCEPT ![blk] = Plain("blank")]
                  /\ Goto("write", start, blk, part)
                  /\ UNCHANGED <<bad, img, flag, ghosts>>

EraseBlock == /\ pc = "block" /\ blk \notin bad
              /\ block' = [block EXCEPT ![blk] = Plain("blank")]
              /\ Goto("write", start, blk, part)
              /\ UNCHANGED <<bad, img, flag, ghosts>>

(* Mutant: one part too many. *)
WriteBlockLate == /\ pc = "write"
                  /\ block' = [block EXCEPT ![blk] = Part(img, part)]
                  /\ IF part > Size THEN Goto("copy", blk + 1, blk + 1, 1)
                     ELSE Goto("block", start, blk + 1, part + 1)
                  /\ UNCHANGED <<bad, img, flag, ghosts>>

(* The pages of one block.  A copy may go on behind its area. *)
WriteBlock == /\ pc = "write"
              /\ block' = [block EXCEPT ![blk] = Part(img, part)]
              /\ IF part = Size THEN Goto("copy", blk + 1, blk + 1, 1)
                 ELSE Goto("block", start, blk + 1, part + 1)
              /\ UNCHANGED <<bad, img, flag, ghosts>>

Interrupted(b) == UNCHANGED block \/ block' = [block EXCEPT ![b] = Plain("blank")]

(* The bound MaxFaults counts per area. *)
Fault(a) == faults[a] < MaxFaults /\ faults' = [faults EXCEPT ![a] = @ + 1]

(* An erase or a program fails: download_uboot returns the error; boot0      *)
(* gives up the rest of its copies and returns 0.                            *)
DownloadFails == /\ pc \in {"block", "write"} /\ blk \notin bad
                 /\ Interrupted(blk)
                 /\ Back
                 /\ ok' = [ok EXCEPT ![A] = (A = "boot0")]
                 /\ Fault(A)
                 /\ UNCHANGED <<bad, last, copies>>

-----------------------------------------------------------------------------
(* spinand_mtd_erase *)

(* Mutant: the blocks of the secure storage are not left out. *)
EraseRangeAll(f) == IF f THEN Blocks ELSE 0 .. UbootEnd - 1

(* spinand_mtd_erase_boot and, with the flag, spinand_mtd_erase_data. *)
EraseRange(f) == (0 .. UbootEnd - 1) \cup
                 (IF f THEN UbootEnd + NSec .. NBlocks - 1 ELSE {})

EraseBegin(f) == /\ pc = "idle"
                 /\ flag' = f /\ Goto("erase", 0, 0, 1)
                 /\ last' = [a \in Areas |-> NoImage] /\ ok' = [a \in Areas |-> FALSE]
                 /\ copies' = [a \in Areas |-> 0]
                 /\ UNCHANGED <<block, bad, img, faults>>

Todo == {b \in EraseRange(flag) : b >= blk}

(* One round of do_erase_block: a bad block is skipped; one that cannot be   *)
(* erased is marked bad, unless that fails too, and the loop goes on.        *)
EraseNext ==
  /\ pc = "erase" /\ Todo # {}
  /\ LET b == Min(Todo) IN
     /\ Goto("erase", 0, b + 1, 1)
     /\ \/ b \in bad /\ UNCHANGED <<block, bad, faults>>
        \/ /\ b \notin bad /\ UNCHANGED <<bad, faults>>
           /\ block' = [block EXCEPT ![b] = Plain("blank")]
        \/ /\ b \notin bad /\ \E a \in Areas : b \in Area(a) /\ Fault(a)
           /\ Interrupted(b)
           /\ \/ UNCHANGED bad
              \/ Cardinality(bad) < MaxBad /\ bad' = bad \cup {b}
  /\ UNCHANGED <<img, flag, last, ok, copies>>

EraseDone == pc = "erase" /\ Todo = {} /\ Back /\ UNCHANGED <<block, bad, ghosts>>

-----------------------------------------------------------------------------
(* The power goes while a block is erased or programmed. *)
PowerCut ==
  /\ pc # "idle"
  /\ \/ UNCHANGED block
     \/ pc = "block" /\ blk \notin bad /\ Interrupted(blk)
     \/ pc = "erase" /\ Todo # {} /\ Min(Todo) \notin bad /\ Interrupted(Min(Todo))
  /\ Fault(IF pc # "erase" THEN A ELSE IF blk < UbootStart THEN "boot0" ELSE "uboot")
  /\ Back
  /\ UNCHANGED <<bad, last, ok, copies>>

(* The secure storage rewrites one of its blocks (module SpinandSecSto). *)
SecureWrite(b) == /\ pc = "idle" /\ b \notin bad
                  /\ block' = [block EXCEPT ![b] = Plain("sec")]
                  /\ UNCHANGED <<bad, op, ghosts>>

Next == \/ \E v \in Images : Begin(v)
        \/ NextCopy \/ DownloadDone \/ SkipBad \/ EraseBlock \/ WriteBlock
        \/ DownloadFails
        \/ \E f \in BOOLEAN : EraseBegin(f)
        \/ EraseNext \/ EraseDone
        \/ PowerCut
        \/ \E b \in SecBlocks : SecureWrite(b)

Spec == Init /\ [][Next]_vars
-----------------------------------------------------------------------------
(* Properties *)

(* Blocks, program counters and ghosts have their types; no step leaves the  *)
(* chip.                                                                     *)
TypeOK == /\ block \in [Blocks -> Contents] /\ bad \subseteq Blocks
          /\ pc \in {"idle", "copy", "block", "write", "erase"}
          /\ img \in Images \cup {NoImage} /\ flag \in BOOLEAN
          /\ start \in 0 .. NBlocks /\ blk \in 0 .. NBlocks
          /\ part \in 1 .. (IF img = NoImage THEN 1 ELSE Size)
          /\ last \in [Areas -> Images \cup {NoImage}] /\ ok \in [Areas -> BOOLEAN]
          /\ copies \in [Areas -> 0 .. NBlocks] /\ faults \in [Areas -> 0 .. MaxFaults]

(* A download of a boot package that returned 0 is what the SPL starts,      *)
(* wherever the bad blocks are, if the area has enough good ones for it.     *)
DownloadedIsLoaded ==
  LET v == last["uboot"] IN
  ok["uboot"] /\ v # NoImage /\ Cardinality(Area("uboot") \ bad) >= BlksOf[v]
    => load_toc1_from_spinand = v

(* As long as fewer downloads of packages of the same size were cut off or   *)
(* failed than the last whole one has left copies, counting the one that is  *)
(* running, the SPL finds a package it can start, and a block of boot0 is    *)
(* whole.                                                                    *)
Spoiled(a) == faults[a] + (IF pc \in {"copy", "block", "write"} /\ A = a THEN 1 ELSE 0)
StillBoots == /\ Spoiled("uboot") < copies["uboot"] => load_toc1_from_spinand # NoImage
              /\ Spoiled("boot0") < copies["boot0"] =>
                   \E b \in Area("boot0"), v \in Boot0s : CopyAt(b, v)

(* Neither erasing nor downloading touches the secure storage, if the area   *)
(* has no more bad blocks than the copies of the package leave over.  With   *)
(* more, the last copy goes on behind the area: download_boot looks at       *)
(* endblk when it skips a bad block, not when it comes to the next block.    *)
Spare == (UbootEnd - UbootStart) % Size
SecureKept ==
  [][ \/ pc \in {"block", "write"} /\ Cardinality(Area("uboot") \cap bad) > Spare
      \/ \A b \in SecBlocks : block'[b] = block[b] \/ block'[b] = Plain("sec") ]_vars

(* A download or an erase comes to its end on every chip, however its bad    *)
(* blocks lie and whichever of its erases fail: every step that does not     *)
(* return leaves fewer steps to do.                                          *)
Left == 3 * (NBlocks + 1 - blk) +
        (CASE pc = "copy" -> 2 [] pc = "block" -> 1 [] OTHER -> 0)
ComesToAnEnd == [][pc # "idle" /\ pc' # "idle" => 0 < Left' /\ Left' < Left]_vars
=============================================================================
