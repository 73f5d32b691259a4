--------------------------- MODULE SpinandSecSto ---------------------------
(***************************************************************************)
(* drivers/mtd/awnand/spinand/secure-storage.c: items kept in two SPI-NAND *)
(* blocks that mirror each other.  A write builds the new content in the   *)
(* second block and copies that block over the first; the first use after  *)
(* a start compares the blocks and repairs one from the other.             *)
(*                                                                         *)
(* Every erase of a block and every program of a page is a step; the power *)
(* may go, or the chip may report a failure, in the middle of each.        *)
(***************************************************************************)
EXTENDS Integers

CONSTANTS NItems, PagesPerItem,
          Values,      \* what a caller may store in an item
          Chips        \* what may go wrong: how a page that was being changed may
                       \* read afterwards, how many power cuts there are and how
                       \* many operations fail (bounds)

None == "none"          \* no value

(* A page that was cut short may fail its checksum, with or without the      *)
(* magic number in its spare area, be beyond repair for the ECC, or be       *)
(* right but at the limit of what the ECC repairs.                           *)
ASSUME SecStoAssumption ==
  /\ NItems \in Nat \ {0} /\ PagesPerItem \in Nat \ {0}
  /\ Values # {} /\ None \notin Values
  /\ Chips \subseteq [torn : SUBSET {"sum", "bare", "ecc", "limit"}, cuts : Nat, fails : Nat]

Items == 0 .. (NItems - 1)
NPages == NItems * PagesPerItem               \* pagecnt
Pages == 0 .. (NPages - 1)
Blocks == {0, 1}                              \* sec_sto->blk[]

(* The k-th page of a value, the same at the limit of the ECC, or a page     *)
(* without valid data: erased or torn.                                       *)
Part(v, k) == <<v, k>>
Weak(v, k) == <<v, k, "limit">>
Bad(s) == <<s>>
Empty == Bad("empty")
Parts == {Part(v, k) : v \in Values, k \in 0 .. (PagesPerItem - 1)}
WeakParts == {Weak(v, k) : v \in Values, k \in 0 .. (PagesPerItem - 1)}
PageContent == Parts \cup WeakParts \cup {Bad(s) : s \in {"empty", "sum", "bare", "ecc"}}

(* What a read puts in the buffer. *)
Data(c) == IF c \in WeakParts THEN Part(c[1], c[2]) ELSE c

VARIABLES
  chip,         \* the one that is built in
  blk,          \* content of the two blocks
  init_end,     \* sec_sto->init_end
  op,           \* the call that is running: its kind, item and value
  pc,           \* "idle", "init", "fill" or "copy"
  page,         \* next page to program; -1 before the block is erased
  from,         \* block that is copied over the other
  acked,        \* value of the last write of each item that returned 0
  unacked,      \* values of the writes since then that did not
  cuts, fails,
  gapcut        \* the power went during a change while a lower item than one
                \* that had been written was still without a value

vars == <<chip, blk, init_end, op, pc, page, from, acked, unacked, cuts, fails, gapcut>>
faults == <<chip, cuts, fails, gapcut>>
ghosts == <<acked, unacked, faults>>

NoOp == [kind |-> "none", item |-> 0, val |-> None]

Init == /\ chip \in Chips
        /\ blk = [b \in Blocks |-> [p \in Pages |-> Empty]]
        /\ init_end = 0
        /\ op = NoOp /\ pc = "idle" /\ page = -1 /\ from = 0
        /\ acked = [i \in Items |-> None] /\ unacked = [i \in Items |-> {}]
        /\ cuts = 0 /\ fails = 0 /\ gapcut = FALSE

(* read_check_secure_storage_page: 0, 1 for a wrong checksum, or what the    *)
(* chip's read returned: ECC_LIMIT or ECC_ERR.                               *)
ReadCheck(b, p) == CASE blk[b][p] \in Parts -> 0
                     [] blk[b][p] \in WeakParts -> 16
                     [] blk[b][p] = Bad("ecc") -> 32
                     [] OTHER -> 1

(* is_secure_storage_block: the magic is there, or the read failed. *)
is_secure_storage_block(b) == blk[b][0] \notin {Empty, Bad("bare")}

(* The first page that is not good in both blocks, else the last one. *)
Stop == CHOOSE p \in Pages :
          /\ \A q \in 0 .. (p - 1) : ReadCheck(0, q) = 0 /\ ReadCheck(1, q) = 0
          /\ p = NPages - 1 \/ ReadCheck(0, p) # 0 \/ ReadCheck(1, p) # 0

(* Mutant: the blocks are swapped. *)
CheckSwapped ==
  LET ret1 == ReadCheck(0, Stop)
      ret2 == ReadCheck(1, Stop)
  IN  CASE ret1 = ret2 /\ ret1 \in {0, 1} -> "both"
        [] ret1 = 0 /\ ret2 # 0 -> "second"
        [] ret1 # 0 /\ ret2 = 0 -> "first"
        [] OTHER -> "einval"

check_secure_storage ==
  LET ret1 == ReadCheck(0, Stop)
      ret2 == ReadCheck(1, Stop)
  IN  CASE ret1 = ret2 /\ ret1 \in {0, 1} -> "both"
        [] ret1 = 0 /\ ret2 # 0 -> "first"
        [] ret1 # 0 /\ ret2 = 0 -> "second"
        [] OTHER -> "einval"

-----------------------------------------------------------------------------
(* The calls *)

Return == /\ op' = NoOp /\ pc' = "idle" /\ page' = -1 /\ from' = 0

(* The write will not be acknowledged, though its value may be there if the  *)
(* storage was initialised and it got as far as the blocks.                  *)
GiveUp == /\ unacked' = IF op.kind = "write" /\ init_end = 1
                        THEN [unacked EXCEPT ![op.item] = @ \cup {op.val}] ELSE unacked
          /\ UNCHANGED acked

(* A read once the storage is initialised changes nothing: see ShownPage. *)
aw_spinand_secure_storage_read(i) ==
  /\ pc = "idle" /\ init_end = 0
  /\ op' = [kind |-> "read", item |-> i, val |-> None]
  /\ pc' = "init"
  /\ UNCHANGED <<blk, init_end, page, from, ghosts>>

aw_spinand_secure_storage_write(i, v) ==
  /\ pc = "idle"
  /\ op' = [kind |-> "write", item |-> i, val |-> v]
  /\ pc' = IF init_end = 1 THEN "fill" ELSE "init"
  /\ UNCHANGED <<blk, init_end, page, from, ghosts>>

(* Initialised: go on with the call. *)
Proceed == /\ init_end' = 1
           /\ IF op.kind = "write"
              THEN pc' = "fill" /\ page' = -1 /\ UNCHANGED <<op, from>>
              ELSE Return

NeverUsed == \A b \in Blocks : ~is_secure_storage_block(b)

InitNothingToDo == /\ pc = "init" /\ (NeverUsed \/ check_secure_storage = "both")
                   /\ Proceed
                   /\ UNCHANGED <<blk, ghosts>>

InitFails == /\ pc = "init" /\ ~NeverUsed /\ check_secure_storage = "einval"
             /\ Return /\ GiveUp
             /\ UNCHANGED <<blk, init_end, faults>>

InitRepairs == /\ pc = "init" /\ ~NeverUsed
               /\ check_secure_storage \in {"first", "second"}
               /\ from' = (IF check_secure_storage = "first" THEN 0 ELSE 1)
               /\ pc' = "copy" /\ page' = -1
               /\ UNCHANGED <<blk, init_end, op, ghosts>>

-----------------------------------------------------------------------------
(* Erasing and programming *)

Erase(b) == /\ blk' = [blk EXCEPT ![b] = [p \in Pages |-> Empty]]
            /\ page' = 0
            /\ UNCHANGED <<init_end, op, pc, from, ghosts>>

Program(b, c) == /\ blk' = [blk EXCEPT ![b][page] = c]
                 /\ page' = page + 1
                 /\ UNCHANGED <<init_end, op, pc, from, ghosts>>

(* The second block gets the new item and the other pages of the first one,  *)
(* whatever the ECC said of them: one at its limit is good again, one it     *)
(* could not repair is copied as it was read.                                *)
FillErase == pc = "fill" /\ page = -1 /\ Erase(1)

OwnPage == page \div PagesPerItem = op.item

(* Mutant: the offset in the value is not taken modulo the item. *)
FillPageUnreduced ==
  /\ pc = "fill" /\ page \in Pages
  /\ \/ OwnPage /\ Program(1, Part(op.val, page))
     \/ ~OwnPage /\ Program(1, Data(blk[0][page]))

FillPage ==
  /\ pc = "fill" /\ page \in Pages
  /\ \/ OwnPage /\ Program(1, Part(op.val, page % PagesPerItem))
     \/ ~OwnPage /\ ReadCheck(0, page) # 32 /\ Program(1, Data(blk[0][page]))
     \/ /\ ~OwnPage /\ ReadCheck(0, page) = 32
        /\ \E s \in {"sum", "bare"} : Program(1, Bad(s))

(* Mutant: a write is acknowledged when the second block is complete. *)
FilledStored == /\ pc = "fill" /\ page = NPages
                /\ acked' = [acked EXCEPT ![op.item] = op.val]
                /\ unacked' = [unacked EXCEPT ![op.item] = {}]
                /\ pc' = "copy" /\ page' = -1 /\ from' = 1
                /\ UNCHANGED <<blk, init_end, op, faults>>

Filled == /\ pc = "fill" /\ page = NPages
          /\ pc' = "copy" /\ page' = -1 /\ from' = 1
          /\ UNCHANGED <<blk, init_end, op, ghosts>>

(* aw_spinand_chip_copy_single_block: any result of a read but 0 ends it.    *)
CopyErase == pc = "copy" /\ page = -1 /\ Erase(1 - from)

CopyPage == /\ pc = "copy" /\ page \in Pages
            /\ ReadCheck(from, page) \in {0, 1}
            /\ Program(1 - from, blk[from][page])

CopyCannotRead == /\ pc = "copy" /\ page \in Pages
                  /\ ReadCheck(from, page) \in {16, 32}
                  /\ Return /\ GiveUp
                  /\ UNCHANGED <<blk, init_end, faults>>

(* The end of a repair, and the end of a write, which is now acknowledged.   *)
Repaired == /\ pc = "copy" /\ page = NPages /\ init_end = 0
            /\ Proceed
            /\ UNCHANGED <<blk, ghosts>>

Stored == /\ pc = "copy" /\ page = NPages /\ init_end = 1
          /\ acked' = [acked EXCEPT ![op.item] = op.val]
          /\ unacked' = [unacked EXCEPT ![op.item] = {}]
          /\ Return
          /\ UNCHANGED <<blk, init_end, faults>>

-----------------------------------------------------------------------------
(* Faults *)

Target == IF pc = "fill" THEN 1 ELSE 1 - from

(* What is being programmed. *)
Coming == IF pc = "fill" /\ OwnPage THEN Part(op.val, page % PagesPerItem)
          ELSE Data(blk[1 - Target][page])

(* What a page that holds c, or was to hold it, reads as when torn. *)
Torn(s, c) == IF s # "limit" THEN Bad(s)
              ELSE IF c \in Parts THEN Weak(c[1], c[2]) ELSE c

(* What an erase or program that did not complete may leave behind. *)
Interrupted ==
  \/ UNCHANGED blk
  \/ /\ pc \in {"fill", "copy"} /\ page = -1
     /\ \E c \in [Pages -> {"keep", "empty"} \cup chip.torn] :
          blk' = [blk EXCEPT ![Target] =
                   [p \in Pages |-> IF c[p] = "keep" THEN @[p] ELSE Torn(c[p], @[p])]]
  \/ /\ pc \in {"fill", "copy"} /\ page \in Pages
     /\ \E s \in chip.torn : blk' = [blk EXCEPT ![Target][page] = Torn(s, Coming)]

(* An item may be in the blocks while a lower one has never been stored. *)
Touched(i) == \/ acked[i] # None \/ unacked[i] # {}
              \/ init_end = 1 /\ op.kind = "write" /\ op.item = i
Gap == \E i \in Items, j \in Items : j < i /\ Touched(i) /\ acked[j] = None

(* init_end is in memory. *)
PowerCut == /\ cuts < chip.cuts /\ cuts' = cuts + 1
            /\ Interrupted
            /\ init_end' = 0
            /\ gapcut' = (gapcut \/ (pc \in {"fill", "copy"} /\ Gap))
            /\ Return /\ GiveUp
            /\ UNCHANGED <<chip, fails>>

ChipFails == /\ fails < chip.fails /\ fails' = fails + 1
             /\ pc \in {"fill", "copy"} /\ page # NPages
             /\ Interrupted
             /\ Return /\ GiveUp
             /\ UNCHANGED <<chip, init_end, cuts, gapcut>>

Step == \/ InitNothingToDo \/ InitFails \/ InitRepairs
        \/ FillErase \/ FillPage \/ Filled
        \/ CopyErase \/ CopyPage \/ CopyCannotRead \/ Repaired \/ Stored

Next == \/ \E i \in Items : aw_spinand_secure_storage_read(i)
        \/ \E i \in Items, v \in Values : aw_spinand_secure_storage_write(i, v)
        \/ Step \/ PowerCut \/ ChipFails

Spec == Init /\ [][Next]_vars
-----------------------------------------------------------------------------
(* Properties *)

(* Blocks, program counter and ghosts have their types. *)
TypeOK ==
  /\ blk \in [Blocks -> [Pages -> PageContent]]
  /\ init_end \in {0, 1} /\ from \in Blocks /\ page \in -1 .. NPages
  /\ pc \in {"idle", "init", "fill", "copy"}
  /\ op.item \in Items /\ op.val \in Values \cup {None}
  /\ acked \in [Items -> Values \cup {None}]
  /\ unacked \in [Items -> SUBSET Values]

(* aw_spinand_secure_storage_read: a page comes from the first block, else   *)
(* from the second.  The call returns 0 if no page is without valid data and *)
(* the last one is good; what the ECC says of an earlier one is passed over. *)
PageOf(i, k) == i * PagesPerItem + k
ShownPage(p) == IF ReadCheck(0, p) = 0 THEN blk[0][p] ELSE Data(blk[1][p])
PageResult(p) == IF ReadCheck(0, p) = 0 THEN 0 ELSE ReadCheck(1, p)
ReadReturns0(i) == /\ \A k \in 0 .. (PagesPerItem - 1) : PageResult(PageOf(i, k)) # 1
                   /\ PageResult(PageOf(i, PagesPerItem - 1)) = 0
Holds(i, v) == \A k \in 0 .. (PagesPerItem - 1) : ShownPage(PageOf(i, k)) = Part(v, k)

Ready == pc = "idle" /\ init_end = 1

(* The chip did not fail, and no change was cut short while an item below    *)
(* one that had been written was without a value.                            *)
Calm == fails = 0 /\ ~gapcut

(* An acknowledged item is never lost: once the storage is initialised again *)
(* after a power cut the item can be read.  There are two exceptions, an     *)
(* operation of the chip that failed and a change that was cut short while   *)
(* a lower item had never been stored: init_secure_storage takes two blocks  *)
(* whose first page has no magic for unused, and check_secure_storage        *)
(* decides by the first page that is not good in both blocks.                *)
Survives == Ready /\ Calm => \A i \in Items : acked[i] # None => ReadReturns0(i)

(* What a read that returns 0 gives is, page by page, of the acknowledged    *)
(* value or of that of a later write that did not complete, or else it is    *)
(* what the ECC could not repair; and with the exceptions of Survives it is  *)
(* one value as a whole, never the first half of one and the second of       *)
(* another.                                                                  *)
ReadIsCurrent ==
  Ready => \A i \in Items : ReadReturns0(i) =>
    LET current == unacked[i] \cup {acked[i]}
    IN  /\ \A k \in 0 .. (PagesPerItem - 1) :
             \/ ShownPage(PageOf(i, k)) = Bad("ecc")
             \/ \E v \in current : ShownPage(PageOf(i, k)) = Part(v, k)
        /\ Calm => \E v \in current : Holds(i, v)
=============================================================================
