------------------------ MODULE SpinandSecStoProofs ------------------------
(***************************************************************************)
(* Proofs about SpinandSecSto, for every number of items and of pages of   *)
(* an item, every set of values and every way a torn page may read, and    *)
(* for any number of power cuts.                                           *)
(***************************************************************************)
EXTENDS SpinandSecSto, WellFoundedInduction, TLAPS

(* The item a page belongs to, which part of it the page holds, and the      *)
(* pages of an item.                                                         *)
ItemOf(p) == p \div PagesPerItem
PartOf(p) == p % PagesPerItem
Own(i)    == {p \in Pages : ItemOf(p) = i}

(* The values an item may have: the one acknowledged last, those written in  *)
(* vain since then and the one being written.                                *)
Cur == [i \in Items |-> unacked[i] \cup {acked[i]} \cup
                         (IF op.kind = "write" /\ init_end = 1 /\ op.item = i THEN {op.val} ELSE {})]

(* The block content c holds item i as one of the values S with every page   *)
(* good; and every page of it, good or weak, is of one of the values S, or c *)
(* shows that it does not hold the item.                                     *)
WholeIn(c, i, S) == \E v \in S : \A p \in Own(i) : c[p] = Part(v, PartOf(p))
HeldIn(c, i, S)  == \E v \in S : \A p \in Own(i) : Data(c[p]) = Part(v, PartOf(p))
CleanIn(c, i, S) == HeldIn(c, i, S) \/ \E p \in Own(i) : Data(c[p]) \notin Parts

(* A page the chip reads with the result 0. *)
Sound(c) == c \notin WeakParts /\ c # Bad("ecc")

(* For the values S of the items, of which those in A are acknowledged: c    *)
(* holds every acknowledged item; c shows for every item whether it holds    *)
(* it; a start can repair the blocks x.                                      *)
AllWhole(c, S, A) == \A i \in Items : A[i] # None => WholeIn(c, i, S[i])
AllClean(c, S)    == \A i \in Items : CleanIn(c, i, S[i])
Rest(x, S, A)     == AllClean(x[0], S) /\ AllClean(x[1], S) /\ \E b \in Blocks : AllWhole(x[b], S, A)

(* A read of item i does not return 0; and it does not unless the first of   *)
(* the blocks x holds the item.                                              *)
LastPage(i)    == PageOf(i, PagesPerItem - 1)
Blocked(x, i)  == \/ \E p \in Own(i) : x[0][p] \notin Parts /\ x[1][p] \notin Parts /\ Sound(x[1][p])
                  \/ x[0][LastPage(i)] \notin Parts /\ x[1][LastPage(i)] \notin Parts
Shows(x, S, A) == /\ AllWhole(x[0], S, A)
                  /\ \A i \in Items : WholeIn(x[0], i, S[i]) \/ Blocked(x, i)

(* The blocks are the same and can be read. *)
Mirror(x) == x[0] = x[1] /\ \A p \in Pages : Sound(x[0][p])

(* Every page of x that holds something is of a value its item may have. *)
PagesIn(x, S) == \A b \in Blocks, p \in Pages : Data(x[b][p]) \in Parts =>
                   \E v \in S[ItemOf(p)] : Data(x[b][p]) = Part(v, PartOf(p))

Control ==
  /\ chip \in Chips /\ fails \in Nat /\ gapcut \in BOOLEAN
  /\ op.kind \in {"none", "read", "write"}
  /\ op.kind = "write" => op.val \in Values
  /\ pc = "idle" => op.kind = "none"
  /\ pc \in {"idle", "init"} => page = -1
  /\ pc = "init" => init_end = 0
  /\ pc = "fill" => init_end = 1 /\ op.kind = "write"
  /\ pc = "copy" /\ init_end = 1 => from = 1 /\ op.kind = "write"

(* No item has been written before the lower ones. *)
InOrder == \A i \in Items, j \in Items : j < i /\ Touched(i) => acked[j] # None

(* The second block while it is filled, the target while it is copied to,    *)
(* and the second block while it is the source of a write.                   *)
FillState == pc = "fill" /\ page # -1 => \A p \in Pages :
  IF p >= page THEN blk[1][p] = Empty
  ELSE /\ Sound(blk[1][p])
       /\ IF ItemOf(p) = op.item THEN blk[1][p] = Part(op.val, PartOf(p))
          ELSE blk[1][p] = Data(blk[0][p]) \/ (Data(blk[0][p]) \notin Parts /\ blk[1][p] \notin Parts)
CopyState == pc = "copy" /\ page # -1 => \A p \in Pages :
  IF p >= page THEN blk[1 - from][p] = Empty
  ELSE blk[1 - from][p] = blk[from][p] /\ Sound(blk[from][p])
SourceState == pc = "copy" /\ init_end = 1 => \A p \in Pages :
  Sound(blk[1][p]) /\ (ItemOf(p) = op.item => blk[1][p] = Part(op.val, PartOf(p)))

(* As long as all is calm a start can repair the blocks whenever the power   *)
(* goes, and the source of a fill or a copy holds every acknowledged item.   *)
(* What a start decides from the first page that differs is right when the   *)
(* items were written in order; if they were not, the blocks are the same.   *)
Safe == Calm =>
  /\ pc \in {"idle", "init"} => Rest(blk, Cur, acked) /\ (InOrder \/ Mirror(blk))
  /\ pc = "idle" /\ init_end = 1 => Shows(blk, Cur, acked)
  /\ pc = "fill" => /\ AllClean(blk[0], Cur) /\ AllWhole(blk[0], Cur, acked)
                    /\ page = -1 => AllClean(blk[1], Cur)
  /\ pc = "copy" => /\ AllClean(blk[from], Cur) /\ AllWhole(blk[from], Cur, acked)
                    /\ page = -1 => AllClean(blk[1 - from], Cur)
                    /\ init_end = 0 => InOrder

SecStoInv == TypeOK /\ Control /\ PagesIn(blk, Cur)
             /\ FillState /\ CopyState /\ SourceState /\ Safe
-----------------------------------------------------------------------------
(* Pages and items *)

LEMMA DivMod ==
  ASSUME NEW P \in Nat \ {0}, NEW a \in Nat
  PROVE  \E q \in Nat, r \in 0 .. (P - 1) : a \div P = q /\ a % P = r /\ a = q * P + r
<1> DEFINE q == a \div P
           r == a - q * P
<1>1. q \in Nat /\ q * P <= a /\ a < q * P + P
  OBVIOUS
<1> HIDE DEF q
<1>2. r \in 0 .. (P - 1) /\ a = q * P + r
  BY <1>1
<1> HIDE DEF r
<1>3. (q * P + r) % P = r
  BY <1>1, <1>2
<1>4. a % P = r
  BY <1>2, <1>3, Zenon
<1>5. a \div P = q
  BY Zenon DEF q
<1> QED
  BY <1>1, <1>2, <1>4, <1>5, Zenon

LEMMA PagesExist == NPages \in Nat \ {0} /\ 0 \in Pages /\ ItemOf(0) = 0
  BY SecStoAssumption DEF NPages, Pages, ItemOf

(* Where the k-th page of item i is. *)
LEMMA PageOfItem ==
  ASSUME NEW i \in Items, NEW k \in 0 .. (PagesPerItem - 1)
  PROVE  PageOf(i, k) \in Own(i) /\ PartOf(PageOf(i, k)) = k
<1>1. i \in Nat /\ k \in Nat /\ i < NItems /\ PagesPerItem \in Nat \ {0} /\ NItems \in Nat
  BY SecStoAssumption DEF Items
<1>2. (i * PagesPerItem + k) \div PagesPerItem = i /\ (i * PagesPerItem + k) % PagesPerItem = k
  BY <1>1
<1>3. i * PagesPerItem + PagesPerItem <= NItems * PagesPerItem /\ i * PagesPerItem \in Nat
  BY <1>1
<1>4. i * PagesPerItem + k \in 0 .. (NItems * PagesPerItem - 1)
  BY <1>1, <1>3
<1> QED
  BY <1>2, <1>4, Zenon DEF Own, PageOf, ItemOf, PartOf, Pages, NPages

(* Every page is one of an item. *)
LEMMA PageIsOf ==
  ASSUME NEW p \in Pages
  PROVE  /\ ItemOf(p) \in Items /\ PartOf(p) \in 0 .. (PagesPerItem - 1)
         /\ PageOf(ItemOf(p), PartOf(p)) = p
<1>1. PagesPerItem \in Nat \ {0} /\ p \in Nat /\ NItems \in Nat /\ p < NItems * PagesPerItem
  <2>1. NItems * PagesPerItem \in Nat
    BY SecStoAssumption
  <2> QED
    BY <2>1, SecStoAssumption DEF Pages, NPages
<1>2. p \div PagesPerItem < NItems
  BY <1>1
<1>3. PICK q \in Nat, r \in 0 .. (PagesPerItem - 1) :
        p \div PagesPerItem = q /\ p % PagesPerItem = r /\ p = q * PagesPerItem + r
  BY <1>1, DivMod, Zenon
<1>4. ItemOf(p) = q /\ PartOf(p) = r /\ PageOf(q, r) = p
  BY <1>3, Zenon DEF ItemOf, PartOf, PageOf
<1>5. q \in 0 .. (NItems - 1)
  BY <1>1, <1>2, <1>3
<1> QED
  BY <1>4, <1>5, Zenon DEF Items

LEMMA ItemsInOrder == \A p, q \in Pages : p <= q => ItemOf(p) <= ItemOf(q)
<1> SUFFICES ASSUME NEW p \in Pages, NEW q \in Pages, p <= q PROVE ItemOf(p) <= ItemOf(q)
  OBVIOUS
<1>1. PagesPerItem \in Nat \ {0} /\ p \in Nat /\ q \in Nat
  BY SecStoAssumption DEF Pages
<1> QED
  BY <1>1 DEF ItemOf

LEMMA BadIsNoPart == \A s : Bad(s) \notin Parts
<1> SUFFICES ASSUME NEW s, NEW v, NEW k PROVE Bad(s) # Part(v, k)
  BY DEF Parts
<1> QED
  BY Zenon DEF Bad, Part

LEMMA PartIsPart ==
  ASSUME NEW v \in Values, NEW p \in Pages
  PROVE  Part(v, PartOf(p)) \in Parts
  BY PageIsOf DEF Parts
-----------------------------------------------------------------------------
(* What a block holds *)

LEMMA PartsAre ==
  /\ \A c : c \in Parts <=> \E v \in Values, k \in 0 .. (PagesPerItem - 1) : c = Part(v, k)
  /\ \A c : c \in WeakParts <=> \E v \in Values, k \in 0 .. (PagesPerItem - 1) : c = Weak(v, k)
  BY DEF Parts, WeakParts

(* What a page holds. *)
LEMMA DataIs ==
  /\ \A c \in Parts : Data(c) = c /\ Sound(c)
  /\ \A c \in WeakParts : Data(c) \in Parts /\ c \notin Parts /\ ~Sound(c) /\ c # Bad("ecc")
  /\ \A s : Bad(s) \notin Parts /\ Bad(s) \notin WeakParts /\ Data(Bad(s)) = Bad(s)
  /\ \A c : Data(Data(c)) = Data(c)
  /\ \A c : Sound(c) => Data(c) = c
  /\ \A c : c \notin Parts /\ c \notin WeakParts => Data(c) \notin Parts
  /\ \A v, k : Part(v, k) \in Parts => Weak(v, k) \in WeakParts /\ Data(Weak(v, k)) = Part(v, k)
<1>1. \A v, k, w, l : Part(v, k) # Weak(w, l)
  BY Zenon DEF Part, Weak
<1>2. \A s, v, k : Bad(s) # Part(v, k) /\ Bad(s) # Weak(v, k)
  BY Zenon DEF Bad, Part, Weak
<1>3. \A v, k : Weak(v, k)[1] = v /\ Weak(v, k)[2] = k
  BY DEF Weak
<1>4. ASSUME NEW c \in Parts, c \in WeakParts PROVE FALSE
  <2>1. PICK v \in Values, k \in 0 .. (PagesPerItem - 1) : c = Part(v, k)
    BY PartsAre, Zenon
  <2>2. PICK w \in Values, l \in 0 .. (PagesPerItem - 1) : c = Weak(w, l)
    BY <1>4, PartsAre, Zenon
  <2>3. Part(v, k) # Weak(w, l)
    BY <1>1, Zenon
  <2> QED
    BY <2>1, <2>2, <2>3, Zenon
<1>5. \A s : Bad(s) \notin Parts /\ Bad(s) \notin WeakParts
  BY <1>2, PartsAre, Zenon
<1>6. ASSUME NEW c \in WeakParts PROVE Data(c) \in Parts
  <2>1. PICK v \in Values, k \in 0 .. (PagesPerItem - 1) : c = Weak(v, k)
    BY PartsAre, Zenon
  <2>2. Data(c) = Part(v, k)
    BY <1>3, <2>1, Zenon DEF Data
  <2> QED
    BY <2>2, PartsAre, Zenon
<1>7. \A c : c \notin WeakParts => Data(c) = c
  BY Zenon DEF Data
<1>8. \A v, k : Part(v, k) \in Parts => Weak(v, k) \in WeakParts /\ Data(Weak(v, k)) = Part(v, k)
  <2> SUFFICES ASSUME NEW v, NEW k, Part(v, k) \in Parts
               PROVE  Weak(v, k) \in WeakParts /\ Data(Weak(v, k)) = Part(v, k)
    BY Zenon
  <2>1. v \in Values /\ k \in 0 .. (PagesPerItem - 1)
    BY DEF Parts, Part
  <2>2. Weak(v, k) \in WeakParts
    BY <2>1, PartsAre, Zenon
  <2> QED
    BY <1>3, <2>2, Zenon DEF Data
<1> QED
  BY <1>4, <1>5, <1>6, <1>7, <1>8, Zenon DEF Sound

(* A block that lost some of its pages still shows what it does not hold. *)
LEMMA Damaged ==
  ASSUME NEW c, NEW d, NEW i, NEW S, CleanIn(c, i, S),
         \A p \in Own(i) : Data(d[p]) = Data(c[p]) \/ Data(d[p]) \notin Parts
  PROVE  CleanIn(d, i, S)
<1>1. CASE \E p \in Own(i) : Data(d[p]) \notin Parts
  BY <1>1, Zenon DEF CleanIn
<1>2. CASE \A p \in Own(i) : Data(d[p]) \in Parts
  <2>1. \A p \in Own(i) : Data(d[p]) = Data(c[p]) /\ Data(c[p]) \in Parts
    BY <1>2, Zenon
  <2>2. HeldIn(c, i, S)
    BY <2>1, Zenon DEF CleanIn
  <2> QED
    BY <2>1, <2>2, Zenon DEF CleanIn, HeldIn
<1> QED
  BY <1>1, <1>2, Zenon

(* An item all of whose pages are good is whole. *)
LEMMA GoodIsWhole ==
  ASSUME NEW c, NEW i, NEW S, CleanIn(c, i, S), \A p \in Own(i) : c[p] \in Parts
  PROVE  WholeIn(c, i, S)
<1>1. \A p \in Own(i) : Data(c[p]) = c[p]
  BY DataIs, Zenon
<1> QED
  BY <1>1, Zenon DEF CleanIn, HeldIn, WholeIn

LEMMA WholeIsGood ==
  ASSUME TypeOK, NEW b \in Blocks, NEW i, NEW S, WholeIn(blk[b], i, S)
  PROVE  \A p \in Own(i) : blk[b][p] \in Parts
<1> SUFFICES ASSUME NEW p \in Own(i) PROVE blk[b][p] \in Parts
  OBVIOUS
<1>1. PICK v \in S : blk[b][p] = Part(v, PartOf(p))
  BY Zenon DEF WholeIn
<1>2. blk[b][p] \in PageContent
  <2>1. p \in Pages
    BY Zenon DEF Own
  <2> QED
    BY <2>1, Zenon DEF TypeOK
<1>3. \A s : Part(v, PartOf(p)) # Bad(s)
  BY Zenon DEF Part, Bad
<1>4. \A w, k : Part(v, PartOf(p)) # Weak(w, k)
  BY Zenon DEF Part, Weak
<1> QED
  BY <1>1, <1>2, <1>3, <1>4, PartsAre, Zenon DEF PageContent

(* The block that is being filled or copied to. *)
LEMMA TargetType ==
  ASSUME SecStoInv
  PROVE  /\ Target \in Blocks /\ 1 - Target \in Blocks /\ 1 - (1 - Target) = Target
         /\ pc = "fill" => Target = 1 /\ 1 - Target = 0
         /\ pc = "copy" => Target = 1 - from /\ 1 - Target = from
         /\ from \in Blocks /\ 1 - from \in Blocks
  BY DEF SecStoInv, TypeOK, Target, Blocks

(* What is to be in a page of the target of a fill or a copy. *)
Source(p) == IF pc = "fill" /\ ItemOf(p) = op.item THEN Part(op.val, PartOf(p))
             ELSE Data(blk[1 - Target][p])

LEMMA SourceIn ==
  ASSUME SecStoInv, pc \in {"fill", "copy"}, NEW p \in Pages, Source(p) \in Parts
  PROVE  \E v \in Cur[ItemOf(p)] : Source(p) = Part(v, PartOf(p))
<1>0. TypeOK /\ Control /\ PagesIn(blk, Cur)
  BY Zenon DEF SecStoInv
<1>1. CASE pc = "fill" /\ ItemOf(p) = op.item
  <2>1. op.val \in Cur[op.item]
    BY <1>0, <1>1, Zenon DEF Control, Cur, TypeOK
  <2> QED
    BY <1>1, <2>1, Zenon DEF Source
<1>2. CASE ~(pc = "fill" /\ ItemOf(p) = op.item)
  <2>1. Source(p) = Data(blk[1 - Target][p]) /\ 1 - Target \in Blocks
    BY <1>2, TargetType, Zenon DEF Source
  <2> QED
    BY <1>0, <2>1, Zenon DEF PagesIn
<1> QED
  BY <1>1, <1>2, Zenon

(* What the target holds so far. *)
LEMMA TargetFits ==
  ASSUME SecStoInv, pc \in {"fill", "copy"}, page # -1, NEW p \in Pages
  PROVE  Data(blk[Target][p]) \notin Parts \/ Data(blk[Target][p]) = Source(p)
<1>0. TypeOK /\ Control /\ FillState /\ CopyState
  BY Zenon DEF SecStoInv
<1>e. Data(Empty) \notin Parts
  BY DataIs, Zenon DEF Empty
<1>1. CASE pc = "fill"
  <2>0. Target = 1 /\ 1 - Target = 0
    BY <1>1, TargetType, Zenon
  <2>1. CASE p >= page
    BY <1>0, <1>1, <1>e, <2>0, <2>1, Zenon DEF FillState
  <2>2. CASE ~(p >= page)
    <3>1. /\ Data(blk[1][p]) = blk[1][p]
          /\ IF ItemOf(p) = op.item THEN blk[1][p] = Part(op.val, PartOf(p))
             ELSE blk[1][p] = Data(blk[0][p]) \/ blk[1][p] \notin Parts
      BY <1>0, <1>1, <2>2, DataIs, Zenon DEF FillState
    <3> QED
      BY <1>1, <2>0, <3>1, Zenon DEF Source
  <2> QED
    BY <2>1, <2>2, Zenon
<1>2. CASE pc = "copy"
  <2>0. Target = 1 - from /\ 1 - Target = from /\ pc # "fill"
    BY <1>2, TargetType, Zenon
  <2> QED
    BY <1>0, <1>2, <1>e, <2>0, Zenon DEF CopyState, Source
<1> QED
  BY <1>1, <1>2, Zenon

(* A block with nothing but what is to be there shows what it does not hold. *)
LEMMA FitsClean ==
  ASSUME SecStoInv, Calm, pc \in {"fill", "copy"}, NEW d,
         \A p \in Pages : Data(d[p]) \notin Parts \/ Data(d[p]) = Source(p)
  PROVE  AllClean(d, Cur)
<1> SUFFICES ASSUME NEW i \in Items PROVE CleanIn(d, i, Cur[i])
  BY Zenon DEF AllClean
<1>0. TypeOK /\ Control /\ Safe
  BY Zenon DEF SecStoInv
<1>1. \A p \in Own(i) : p \in Pages /\ ItemOf(p) = i
  BY Zenon DEF Own
<1>2. CASE pc = "fill" /\ i = op.item
  <2>1. op.val \in Cur[i]
    BY <1>0, <1>2, Zenon DEF Control, Cur
  <2>2. \A p \in Own(i) : Data(d[p]) = Part(op.val, PartOf(p)) \/ Data(d[p]) \notin Parts
    BY <1>1, <1>2, Zenon DEF Source
  <2> QED
    BY <2>1, <2>2, Zenon DEF CleanIn, HeldIn
<1>3. CASE ~(pc = "fill" /\ i = op.item)
  <2>1. \A p \in Own(i) : Data(d[p]) = Data(blk[1 - Target][p]) \/ Data(d[p]) \notin Parts
    BY <1>1, <1>3, Zenon DEF Source
  <2>2. AllClean(blk[1 - Target], Cur)
    BY <1>0, TargetType, Zenon DEF Safe
  <2> QED
    BY <2>1, <2>2, Damaged, Zenon DEF AllClean
<1> QED
  BY <1>2, <1>3, Zenon

(* At every moment the blocks are such that a start can repair them, and the *)
(* source of a fill or a copy is whole.                                      *)
LEMMA RestNow ==
  ASSUME SecStoInv, Calm
  PROVE  /\ Rest(blk, Cur, acked)
         /\ pc \in {"fill", "copy"} => /\ AllWhole(blk[1 - Target], Cur, acked)
                                       /\ AllClean(blk[1 - Target], Cur)
                                       /\ AllClean(blk[Target], Cur)
<1>0. TypeOK /\ Safe
  BY Zenon DEF SecStoInv
<1>1. CASE pc \in {"idle", "init"}
  BY <1>0, <1>1, Zenon DEF Safe
<1>2. CASE pc \in {"fill", "copy"}
  <2>1. /\ AllWhole(blk[1 - Target], Cur, acked) /\ AllClean(blk[1 - Target], Cur)
        /\ page = -1 => AllClean(blk[Target], Cur)
    BY <1>0, <1>2, TargetType, Zenon DEF Safe
  <2>2. page # -1 => AllClean(blk[Target], Cur)
    BY <1>2, TargetFits, FitsClean, Zenon
  <2>3. Target \in {0, 1} /\ (Target = 0 => 1 - Target = 1) /\ (Target = 1 => 1 - Target = 0)
    BY TargetType DEF Blocks
  <2> QED
    BY <1>2, <2>1, <2>2, <2>3, TargetType, Zenon DEF Rest, Blocks
<1> QED
  BY <1>0, <1>1, <1>2, Zenon DEF TypeOK

(* A torn page. *)
LEMMA TornIs ==
  ASSUME NEW s \in {"empty", "sum", "bare", "ecc", "limit"}, NEW c \in PageContent
  PROVE  /\ Torn(s, c) \in PageContent
         /\ Data(Torn(s, c)) = Data(c) \/ Data(Torn(s, c)) \notin Parts
<1>1. CASE s # "limit"
  <2>1. Torn(s, c) = Bad(s)
    BY <1>1, Zenon DEF Torn
  <2>2. Bad(s) \in PageContent
    BY <1>1, Zenon DEF PageContent
  <2> QED
    BY <2>1, <2>2, DataIs, Zenon
<1>2. CASE s = "limit" /\ c \in Parts
  <2>1. PICK v \in Values, k \in 0 .. (PagesPerItem - 1) : c = Part(v, k)
    BY <1>2, PartsAre, Zenon
  <2>2. c[1] = v /\ c[2] = k
    BY <2>1 DEF Part
  <2>3. Torn(s, c) = Weak(v, k)
    BY <1>2, <2>2, Zenon DEF Torn
  <2>4. Weak(v, k) \in WeakParts /\ Data(Weak(v, k)) = c /\ Data(c) = c
    BY <1>2, <2>1, DataIs, Zenon
  <2> QED
    BY <2>3, <2>4, Zenon DEF PageContent
<1>3. CASE s = "limit" /\ c \notin Parts
  BY <1>3, Zenon DEF Torn
<1> QED
  BY <1>1, <1>2, <1>3, Zenon

(* An erase or a program that was interrupted spoils pages of the target, or *)
(* leaves what was to be there.                                              *)
LEMMA InterruptedIs ==
  ASSUME SecStoInv, Interrupted
  PROVE  /\ blk' \in [Blocks -> [Pages -> PageContent]]
         /\ blk'[1 - Target] = blk[1 - Target]
         /\ pc \notin {"fill", "copy"} => blk' = blk
         /\ \A p \in Pages :
              \/ Data(blk'[Target][p]) \notin Parts
              \/ Data(blk'[Target][p]) = Data(blk[Target][p])
              \/ pc \in {"fill", "copy"} /\ page # -1 /\ Data(blk'[Target][p]) = Source(p)
<1>0. /\ blk \in [Blocks -> [Pages -> PageContent]] /\ Target \in Blocks /\ 1 - Target \in Blocks
      /\ Target # 1 - Target
  <2>1. TypeOK /\ Target \in {0, 1}
    BY TargetType, Zenon DEF SecStoInv, Blocks
  <2> QED
    BY <2>1, TargetType DEF TypeOK
<1>1. chip.torn \subseteq {"sum", "bare", "ecc", "limit"}
  BY SecStoAssumption, Zenon DEF SecStoInv, Control
<1>3. CASE UNCHANGED blk
  <2>1. blk' = blk
    BY <1>3
  <2>2. \A p \in Pages : Data(blk'[Target][p]) = Data(blk[Target][p])
    BY <2>1
  <2>3. blk'[1 - Target] = blk[1 - Target]
    BY <2>1
  <2> QED
    BY <1>0, <2>1, <2>2, <2>3
<1> DEFINE Fits(p, x) == \/ Data(x) \notin Parts
                         \/ Data(x) = Data(blk[Target][p])
                         \/ page # -1 /\ Data(x) = Source(p)
<1>4. ASSUME pc \in {"fill", "copy"}, NEW d \in [Pages -> PageContent],
             \A p \in Pages : Fits(p, d[p]), blk' = [blk EXCEPT ![Target] = d]
      PROVE  /\ blk' \in [Blocks -> [Pages -> PageContent]]
             /\ blk'[1 - Target] = blk[1 - Target]
             /\ \A p \in Pages : Fits(p, blk'[Target][p])
  <2>1. blk'[Target] = d /\ \A b \in Blocks \ {Target} : blk'[b] = blk[b]
    BY <1>0, <1>4, Zenon
  <2> QED
    BY <1>0, <1>4, <2>1, Zenon
<1>5. ASSUME pc \in {"fill", "copy"}, NEW c \in [Pages -> {"keep", "empty"} \cup chip.torn],
             blk' = [blk EXCEPT ![Target] =
                      [p \in Pages |-> IF c[p] = "keep" THEN @[p] ELSE Torn(c[p], @[p])]]
      PROVE  \E d \in [Pages -> PageContent] :
               (\A p \in Pages : Fits(p, d[p])) /\ blk' = [blk EXCEPT ![Target] = d]
  <2> DEFINE d == [p \in Pages |-> IF c[p] = "keep" THEN blk[Target][p] ELSE Torn(c[p], blk[Target][p])]
  <2>1. \A p \in Pages : c[p] = "keep" \/ c[p] \in {"empty", "sum", "bare", "ecc", "limit"}
    BY <1>1, <1>5, Zenon
  <2>2. \A p \in Pages : blk[Target][p] \in PageContent
    BY <1>0, Zenon
  <2>3. ASSUME NEW p \in Pages
        PROVE  d[p] \in PageContent /\ (Data(d[p]) \notin Parts \/ Data(d[p]) = Data(blk[Target][p]))
    <3>1. CASE c[p] = "keep"
      BY <2>2, <3>1, Zenon
    <3>2. CASE c[p] # "keep"
      <4>1. d[p] = Torn(c[p], blk[Target][p])
        BY <3>2, Zenon
      <4> QED
        BY <2>1, <2>2, <3>2, <4>1, TornIs, Zenon
    <3> QED
      BY <3>1, <3>2, Zenon
  <2>4. blk' = [blk EXCEPT ![Target] = d]
    BY <1>5, Zenon
  <2>5. d \in [Pages -> PageContent]
    BY <2>3, Zenon
  <2> HIDE DEF d
  <2> QED
    BY <2>3, <2>4, <2>5, Zenon
<1>6. ASSUME pc \in {"fill", "copy"}, page \in Pages, NEW s \in chip.torn,
             blk' = [blk EXCEPT ![Target][page] = Torn(s, Coming)]
      PROVE  \E d \in [Pages -> PageContent] :
               (\A p \in Pages : Fits(p, d[p])) /\ blk' = [blk EXCEPT ![Target] = d]
  <2> DEFINE d == [blk[Target] EXCEPT ![page] = Torn(s, Coming)]
  <2>1. blk[Target] \in [Pages -> PageContent] /\ blk[1 - Target][page] \in PageContent
    BY <1>0, <1>6, Zenon
  <2>2. Coming = Source(page) /\ Data(Coming) = Coming /\ Coming \in PageContent
    <3>1. Coming = Source(page)
      BY Zenon DEF Coming, Source, OwnPage, ItemOf, PartOf
    <3>2. CASE pc = "fill" /\ ItemOf(page) = op.item
      <4>1. op.val \in Values
        BY <3>2, Zenon DEF SecStoInv, Control
      <4>2. Source(page) = Part(op.val, PartOf(page)) /\ Part(op.val, PartOf(page)) \in Parts
        BY <1>6, <3>2, <4>1, PartIsPart, Zenon DEF Source
      <4> QED
        BY <3>1, <4>2, DataIs, Zenon DEF PageContent
    <3>3. CASE ~(pc = "fill" /\ ItemOf(page) = op.item)
      <4>1. Source(page) = Data(blk[1 - Target][page])
        BY <3>3, Zenon DEF Source
      <4>2. Data(blk[1 - Target][page]) \in PageContent
        BY <2>1, DataIs, Zenon DEF PageContent, Data
      <4> QED
        BY <3>1, <4>1, <4>2, DataIs, Zenon
    <3> QED
      BY <3>2, <3>3, Zenon
  <2>3. Torn(s, Coming) \in PageContent /\ Fits(page, Torn(s, Coming))
    <3>1. s \in {"empty", "sum", "bare", "ecc", "limit"} /\ page # -1
      BY <1>1, <1>6 DEF Pages
    <3> QED
      BY <2>2, <3>1, TornIs, Zenon
  <2>4. d \in [Pages -> PageContent] /\ \A p \in Pages : Fits(p, d[p])
    BY <1>6, <2>1, <2>3, Zenon
  <2>5. blk' = [blk EXCEPT ![Target] = d]
    BY <1>6, Zenon
  <2> QED
    BY <2>4, <2>5, Zenon
<1>7. CASE \E d \in [Pages -> PageContent] : /\ pc \in {"fill", "copy"}
                                             /\ \A p \in Pages : Fits(p, d[p])
                                             /\ blk' = [blk EXCEPT ![Target] = d]
  <2>1. PICK d \in [Pages -> PageContent] : /\ pc \in {"fill", "copy"}
                                            /\ \A p \in Pages : Fits(p, d[p])
                                            /\ blk' = [blk EXCEPT ![Target] = d]
    BY <1>7, Zenon
  <2>2. /\ blk' \in [Blocks -> [Pages -> PageContent]] /\ blk'[1 - Target] = blk[1 - Target]
        /\ \A p \in Pages : Fits(p, blk'[Target][p])
    BY <1>4, <2>1, Zenon
  <2>3. pc \in {"fill", "copy"}
    BY <2>1, Zenon
  <2>4. ASSUME NEW p \in Pages
        PROVE  \/ Data(blk'[Target][p]) \notin Parts
               \/ Data(blk'[Target][p]) = Data(blk[Target][p])
               \/ page # -1 /\ Data(blk'[Target][p]) = Source(p)
    BY <2>2, Zenon
  <2> HIDE DEF Fits
  <2> QED
    BY <2>2, <2>3, <2>4, Zenon
<1> HIDE DEF Fits
<1> QED
  BY <1>3, <1>5, <1>6, <1>7, Zenon DEF Interrupted

-----------------------------------------------------------------------------
(* The first use after a start *)

LEMMA NatMin == ASSUME NEW T \in SUBSET Nat, T # {} PROVE \E x \in T : \A y \in T : x <= y
<1> DEFINE R == {ss \in Nat \X Nat : ss[1] < ss[2]}
<1>1. IsWellFoundedOn(R, Nat)
  BY NatLessThanWellFounded, Zenon DEF OpToRel
<1> HIDE DEF R
<1>2. PICK x \in T : \A y \in T : ~ (<<y, x>> \in R)
  BY <1>1, WFMin, Zenon
<1>3. ASSUME NEW y \in T PROVE x <= y
  <2>1. ~ (<<y, x>> \in R)
    BY <1>2, Zenon
  <2> QED
    BY <2>1 DEF R
<1> QED
  BY <1>3, Zenon

(* What read_check_secure_storage_page returns. *)
LEMMA ReadCheckIs ==
  \A b, p : /\ ReadCheck(b, p) = 0 <=> blk[b][p] \in Parts
            /\ ReadCheck(b, p) \in {0, 1} <=> Sound(blk[b][p])
            /\ ReadCheck(b, p) \in {16, 32} <=> ~Sound(blk[b][p])
            /\ ReadCheck(b, p) = 16 => blk[b][p] \in WeakParts
            /\ ReadCheck(b, p) = 32 <=> blk[b][p] = Bad("ecc")
<1> TAKE b, p
<1> DEFINE c == blk[b][p]
<1>1. /\ c \in Parts => c \notin WeakParts /\ c # Bad("ecc")
      /\ c \in WeakParts => c # Bad("ecc")
  BY DataIs, Zenon
<1>2. CASE c \in Parts
  BY <1>1, <1>2 DEF ReadCheck, Sound
<1>3. CASE c \in WeakParts
  BY <1>1, <1>3 DEF ReadCheck, Sound
<1>4. CASE c \notin Parts /\ c \notin WeakParts
  BY <1>1, <1>4 DEF ReadCheck, Sound
<1> QED
  BY <1>2, <1>3, <1>4, Zenon

LEMMA GoodIs == \A b, p : ReadCheck(b, p) = 0 <=> blk[b][p] \in Parts
  BY ReadCheckIs, Zenon

(* The page check_secure_storage decides by. *)
LEMMA StopIs ==
  /\ Stop \in Pages
  /\ \A p \in Pages : p < Stop => blk[0][p] \in Parts /\ blk[1][p] \in Parts
  /\ Stop = NPages - 1 \/ blk[0][Stop] \notin Parts \/ blk[1][Stop] \notin Parts
<1> DEFINE Ends(p) == p = NPages - 1 \/ ReadCheck(0, p) # 0 \/ ReadCheck(1, p) # 0
           T == {p \in Pages : Ends(p)}
           Is(p) == /\ \A q \in 0 .. (p - 1) : ReadCheck(0, q) = 0 /\ ReadCheck(1, q) = 0
                    /\ Ends(p)
<1>1. T \in SUBSET Nat /\ NPages - 1 \in T
  BY PagesExist DEF Pages
<1>2. PICK x \in T : \A y \in T : x <= y
  BY <1>1, NatMin, Zenon
<1>3. x \in Pages /\ x \in Nat /\ Ends(x)
  BY <1>1, <1>2, Zenon
<1>4. \A q \in 0 .. (x - 1) : q \in Pages /\ q \notin T
  BY <1>2, <1>3, PagesExist DEF Pages
<1>5. Is(x)
  BY <1>3, <1>4, Zenon
<1>6. Stop \in Pages /\ Is(Stop)
  BY <1>3, <1>5, Zenon DEF Stop
<1>7. \A p \in Pages : p < Stop => p \in 0 .. (Stop - 1)
  BY <1>6 DEF Pages
<1> QED
  BY <1>6, <1>7, GoodIs, Zenon

(* Items above one that was never acknowledged have no good page. *)
LEMMA Virgin ==
  ASSUME SecStoInv, InOrder, NEW b \in Blocks, NEW i \in Items, NEW p \in Own(i), NEW j \in Items,
         j < i, acked[j] = None
  PROVE  blk[b][p] \notin Parts
<1> SUFFICES ASSUME blk[b][p] \in Parts PROVE FALSE
  OBVIOUS
<1>0. PagesIn(blk, Cur)
  BY Zenon DEF SecStoInv
<1>1. p \in Pages /\ ItemOf(p) = i /\ Data(blk[b][p]) = blk[b][p]
  BY DataIs, Zenon DEF Own
<1>2. PICK v \in Cur[i] : blk[b][p] = Part(v, PartOf(p))
  BY <1>0, <1>1, Zenon DEF PagesIn
<1>3. v \in Values /\ v # None
  BY <1>2, SecStoAssumption DEF Parts, Part
<1>4. Touched(i)
  BY <1>2, <1>3, Zenon DEF Cur, Touched
<1> QED
  BY <1>4, Zenon DEF InOrder

LEMMA OwnExists == \A i \in Items : \E p \in Own(i) : TRUE
<1> TAKE i \in Items
<1>1. 0 \in 0 .. (PagesPerItem - 1)
  BY SecStoAssumption
<1> QED
  BY <1>1, PageOfItem, Zenon

LEMMA LastIs == \A i \in Items : LastPage(i) \in Own(i)
<1> TAKE i \in Items
<1>1. PagesPerItem - 1 \in 0 .. (PagesPerItem - 1)
  BY SecStoAssumption
<1> QED
  BY <1>1, PageOfItem, Zenon DEF LastPage

(* The block that is copied over the other one is whole, and so is the first *)
(* one if nothing is copied.                                                 *)
LEMMA UpToStop ==
  ASSUME SecStoInv, InOrder, Rest(blk, Cur, acked), NEW b \in Blocks,
         blk[b][Stop] \in Parts \/ \A a \in Blocks : blk[a][Stop] \notin Parts
  PROVE  /\ AllWhole(blk[b], Cur, acked)
         /\ blk[b][Stop] \notin Parts => acked[ItemOf(Stop)] = None
<1>0. TypeOK
  BY Zenon DEF SecStoInv
<1>1. PICK w \in Blocks : AllWhole(blk[w], Cur, acked)
  BY Zenon DEF Rest
<1> DEFINE t == ItemOf(Stop)
<1>2. t \in Items /\ Stop \in Own(t)
  BY StopIs, PageIsOf, Zenon DEF Own
<1>3. acked[t] # None => blk[w][Stop] \in Parts
  BY <1>0, <1>1, <1>2, WholeIsGood, Zenon DEF AllWhole
<1>4. ASSUME NEW i \in Items, acked[i] # None PROVE WholeIn(blk[b], i, Cur[i])
  <2>1. CASE w = b
    BY <1>1, <1>4, <2>1, Zenon DEF AllWhole
  <2>2. CASE w # b
    <3>1. CleanIn(blk[b], i, Cur[i])
      BY Zenon DEF Rest, AllClean, Blocks
    <3>2. CASE \A p \in Own(i) : p < Stop
      <4>1. \A p \in Own(i) : blk[b][p] \in Parts
        BY <3>2, StopIs, Zenon DEF Own, Blocks
      <4> QED
        BY <3>1, <4>1, GoodIsWhole, Zenon
    <3>3. CASE \E p \in Own(i) : ~(p < Stop)
      <4>1. PICK p \in Own(i) : ~(p < Stop)
        BY <3>3, Zenon
      <4>2. p \in Pages /\ Stop \in Pages /\ Stop <= p
        BY <4>1, StopIs DEF Own, Pages
      <4>3. t <= i
        BY <4>1, <4>2, ItemsInOrder, Zenon DEF Own
      <4>4. t = i \/ t < i
        BY <1>2, <4>3 DEF Items
      <4>5. acked[t] # None
        BY <1>2, <1>4, <4>4, Zenon DEF InOrder, Touched
      <4>6. blk[w][Stop] \in Parts /\ blk[b][Stop] \in Parts
        BY <1>1, <1>3, <4>5, Zenon
      <4>7. Stop = NPages - 1
        <5>1. 0 \in {w, b} /\ 1 \in {w, b}
          BY <2>2, Zenon DEF Blocks
        <5> QED
          BY <4>6, <5>1, StopIs, Zenon
      <4>8. \A q \in Pages : q < Stop \/ q = Stop
        BY <4>7, PagesExist DEF Pages
      <4>9. \A q \in Own(i) : blk[b][q] \in Parts
        BY <4>6, <4>8, StopIs, Zenon DEF Own, Blocks
      <4> QED
        BY <3>1, <4>9, GoodIsWhole, Zenon
    <3> QED
      BY <3>2, <3>3, Zenon
  <2> QED
    BY <2>1, <2>2, Zenon
<1> QED
  BY <1>1, <1>3, <1>4, Zenon DEF AllWhole

(* When nothing has to be repaired the first block shows every item. *)
LEMMA Checked ==
  ASSUME SecStoInv, InOrder, Rest(blk, Cur, acked), NeverUsed \/ check_secure_storage = "both"
  PROVE  Shows(blk, Cur, acked)
<1>0. TypeOK
  BY Zenon DEF SecStoInv
<1>a. \A i \in Items : acked[i] # None => \E b \in Blocks : WholeIn(blk[b], i, Cur[i])
  BY Zenon DEF Rest, AllWhole
<1>b. ASSUME NEW j \in Items, acked[j] = None, NEW i \in Items, j < i
      PROVE  acked[i] = None /\ Blocked(blk, i)
  <2>1. LastPage(i) \in Own(i)
    BY LastIs, Zenon
  <2> QED
    BY <1>b, <2>1, Virgin, Zenon DEF InOrder, Touched, Blocked, Blocks
<1>1. CASE NeverUsed
  <2>1. \A b \in Blocks : blk[b][0] \notin Parts /\ Sound(blk[b][0])
    <3>1. Sound(Empty) /\ Sound(Bad("bare"))
      <4>1. Empty # Bad("ecc") /\ Bad("bare") # Bad("ecc")
        BY Zenon DEF Empty, Bad
      <4> QED
        BY <4>1, DataIs, Zenon DEF Sound, Empty
    <3> QED
      BY <1>1, <3>1, DataIs, Zenon DEF NeverUsed, is_secure_storage_block, Empty
  <2>2. 0 \in Items /\ 0 \in Own(0)
    BY PagesExist, SecStoAssumption DEF Items, Own
  <2>3. acked[0] = None
    BY <1>0, <1>a, <2>1, <2>2, WholeIsGood, Zenon
  <2>4. \A i \in Items : i = 0 \/ 0 < i
    BY DEF Items
  <2>5. Blocked(blk, 0)
    BY <2>1, <2>2, Zenon DEF Blocked, Blocks
  <2>6. \A i \in Items : acked[i] = None /\ Blocked(blk, i)
    BY <1>b, <2>2, <2>3, <2>4, <2>5, Zenon
  <2> QED
    BY <2>6, Zenon DEF Shows, AllWhole
<1>2. CASE check_secure_storage = "both"
  <2>1. (blk[0][Stop] \in Parts <=> blk[1][Stop] \in Parts) /\ Sound(blk[1][Stop])
    <3>1. ReadCheck(0, Stop) = ReadCheck(1, Stop) /\ ReadCheck(1, Stop) \in {0, 1}
      BY <1>2, Zenon DEF check_secure_storage
    <3> QED
      BY <3>1, ReadCheckIs, Zenon
  <2>2. blk[0][Stop] \in Parts \/ \A a \in Blocks : blk[a][Stop] \notin Parts
    BY <2>1, Zenon DEF Blocks
  <2>3. /\ AllWhole(blk[0], Cur, acked)
        /\ blk[0][Stop] \notin Parts => acked[ItemOf(Stop)] = None
    BY <2>2, UpToStop, Zenon DEF Blocks
  <2>4. ASSUME NEW i \in Items
        PROVE  WholeIn(blk[0], i, Cur[i]) \/ Blocked(blk, i)
    <3>1. CASE \A p \in Own(i) : blk[0][p] \in Parts
      <4>1. CleanIn(blk[0], i, Cur[i])
        BY Zenon DEF Rest, AllClean
      <4> QED
        BY <3>1, <4>1, GoodIsWhole, Zenon
    <3>2. CASE \E p \in Own(i) : blk[0][p] \notin Parts
      <4>1. PICK p \in Own(i) : blk[0][p] \notin Parts
        BY <3>2, Zenon
      <4>2. p \in Pages /\ Stop \in Pages /\ ~(p < Stop) /\ ItemOf(p) = i
        BY <4>1, StopIs, Zenon DEF Own
      <4>3. Stop <= p
        BY <4>2 DEF Pages
      <4>4. ItemOf(Stop) <= i /\ ItemOf(Stop) \in Items
        BY <4>2, <4>3, ItemsInOrder, PageIsOf, Zenon
      <4>5. blk[0][Stop] \notin Parts
        <5>1. Stop = NPages - 1 => p = Stop
          BY <4>2, <4>3, PagesExist DEF Pages
        <5> QED
          BY <2>1, <4>1, <5>1, StopIs, Zenon
      <4>6. ItemOf(Stop) = i \/ ItemOf(Stop) < i
        BY <4>4 DEF Items
      <4>7. CASE ItemOf(Stop) = i
        BY <2>1, <4>2, <4>5, <4>7, Zenon DEF Own, Blocked
      <4>8. CASE ItemOf(Stop) < i
        <5>1. acked[ItemOf(Stop)] = None
          BY <2>3, <4>5, Zenon
        <5> QED
          BY <1>b, <4>4, <4>8, <5>1, ZenonT(40)
      <4> QED
        BY <4>6, <4>7, <4>8, Zenon
    <3> QED
      BY <3>1, <3>2, Zenon
  <2> QED
    BY <2>3, <2>4, Zenon DEF Shows
<1> QED
  BY <1>1, <1>2, Zenon

(* Blocks that are the same and can be read show every item. *)
LEMMA MirrorShows ==
  ASSUME Mirror(blk), Rest(blk, Cur, acked)
  PROVE  Shows(blk, Cur, acked)
<1>1. blk[0] = blk[1] /\ \A p \in Pages : Sound(blk[1][p])
  BY Zenon DEF Mirror
<1>2. AllWhole(blk[0], Cur, acked) /\ AllClean(blk[0], Cur)
  BY <1>1, Zenon DEF Rest, Blocks
<1>3. ASSUME NEW i \in Items PROVE WholeIn(blk[0], i, Cur[i]) \/ Blocked(blk, i)
  <2>1. CASE \A p \in Own(i) : blk[0][p] \in Parts
    BY <1>2, <2>1, GoodIsWhole, Zenon DEF AllClean
  <2>2. CASE \E p \in Own(i) : blk[0][p] \notin Parts
    BY <1>1, <2>2, Zenon DEF Blocked, Own
  <2> QED
    BY <2>1, <2>2, Zenon
<1> QED
  BY <1>2, <1>3, Zenon DEF Shows

(* Nothing is repaired in blocks that are the same. *)
LEMMA MirrorChecks ==
  ASSUME Mirror(blk)
  PROVE  check_secure_storage = "both"
<1>1. blk[0] = blk[1] /\ Sound(blk[0][Stop]) /\ Sound(blk[1][Stop])
  BY StopIs, Zenon DEF Mirror
<1>2. ReadCheck(0, Stop) \in {0, 1} /\ ReadCheck(1, Stop) \in {0, 1}
  BY <1>1, ReadCheckIs, Zenon
<1>3. ReadCheck(0, Stop) = ReadCheck(1, Stop)
  BY <1>1, Zenon DEF ReadCheck
<1> QED
  BY <1>2, <1>3, Zenon DEF check_secure_storage
-----------------------------------------------------------------------------
(* The initial state and the calls *)

LEMMA EmptyPage == Empty \in PageContent /\ Empty \notin Parts /\ Sound(Empty) /\ Data(Empty) = Empty
<1>1. Empty \notin Parts /\ Data(Empty) = Empty /\ Empty \notin WeakParts
  BY DataIs, Zenon DEF Empty
<1>2. Empty # Bad("ecc")
  BY Zenon DEF Empty, Bad
<1> QED
  BY <1>1, <1>2, Zenon DEF PageContent, Empty, Sound

LEMMA InitInv == Init => SecStoInv
<1> SUFFICES ASSUME Init PROVE SecStoInv
  OBVIOUS
<1>1. TypeOK
  <2>1. blk \in [Blocks -> [Pages -> PageContent]]
    BY EmptyPage, Zenon DEF Init
  <2>2. op.item \in Items /\ op.val = None /\ page \in -1 .. NPages
    BY SecStoAssumption, PagesExist DEF Init, NoOp, Items
  <2> QED
    BY <2>1, <2>2, Zenon DEF Init, TypeOK, Blocks
<1>2. \A b \in Blocks, p \in Pages : Data(blk[b][p]) \notin Parts
  BY EmptyPage, Zenon DEF Init
<1>3. Control
  BY Zenon DEF Init, NoOp, Control
<1>4. PagesIn(blk, Cur)
  BY <1>2, Zenon DEF PagesIn
<1>5. FillState /\ CopyState /\ SourceState
  BY Zenon DEF Init, FillState, CopyState, SourceState
<1>6. Safe
  <2>1. \A b \in Blocks : AllClean(blk[b], Cur)
    BY <1>2, OwnExists, Zenon DEF AllClean, CleanIn, Own
  <2>2. \A b \in Blocks : AllWhole(blk[b], Cur, acked)
    BY Zenon DEF Init, AllWhole
  <2>3. InOrder
    <3>1. init_end # 1 /\ \A i \in Items : acked[i] = None /\ unacked[i] = {}
      BY DEF Init
    <3> QED
      BY <3>1, Zenon DEF InOrder, Touched
  <2>4. Rest(blk, Cur, acked)
    BY <2>1, <2>2, Zenon DEF Rest, Blocks
  <2> QED
    BY <2>3, <2>4 DEF Init, Safe
<1> QED
  BY <1>1, <1>3, <1>4, <1>5, <1>6, Zenon DEF SecStoInv

(* More values are allowed. *)
LEMMA Grow ==
  ASSUME NEW S, NEW T, \A i \in Items : S[i] \subseteq T[i], NEW x, NEW A
  PROVE  /\ AllClean(x, S) => AllClean(x, T)
         /\ AllWhole(x, S, A) => AllWhole(x, T, A)
         /\ PagesIn(x, S) => PagesIn(x, T)
<1>0. ASSUME NEW i \in Items, HeldIn(x, i, S[i]) PROVE HeldIn(x, i, T[i])
  BY <1>0, Zenon DEF HeldIn
<1>1. ASSUME NEW i \in Items, WholeIn(x, i, S[i]) PROVE WholeIn(x, i, T[i])
  BY <1>1, Zenon DEF WholeIn
<1>2. PagesIn(x, S) => PagesIn(x, T)
  BY PageIsOf, Zenon DEF PagesIn
<1>3. AllClean(x, S) => AllClean(x, T)
  BY <1>0, Zenon DEF AllClean, CleanIn
<1>4. AllWhole(x, S, A) => AllWhole(x, T, A)
  BY <1>1, Zenon DEF AllWhole
<1> QED
  BY <1>2, <1>3, <1>4, Zenon

LEMMA SameCur ==
  UNCHANGED <<op, init_end, acked, unacked>> => Cur' = Cur /\ (InOrder' <=> InOrder)
<1>1. UNCHANGED <<op, init_end, acked, unacked>> => Cur' = Cur
  BY Zenon DEF Cur
<1>2. UNCHANGED <<op, init_end, acked, unacked>> => (InOrder' <=> InOrder)
  BY Zenon DEF InOrder, Touched
<1> QED
  BY <1>1, <1>2, Zenon

(* The call that is running matters once the storage is initialised. *)
LEMMA IdleCur ==
  ASSUME UNCHANGED <<acked, unacked>>,
         op.kind # "write" \/ init_end # 1, op'.kind # "write" \/ init_end' # 1
  PROVE  Cur' = Cur /\ (InOrder' <=> InOrder)
<1>1. Cur' = Cur
  BY Zenon DEF Cur
<1>2. \A i \in Items : Touched(i)' <=> Touched(i)
  BY Zenon DEF Touched
<1>3. InOrder' <=> InOrder
  BY <1>2, Zenon DEF InOrder
<1> QED
  BY <1>1, <1>3, Zenon

(* The types of a call. *)
LEMMA ReturnType ==
  ASSUME Return
  PROVE  /\ op'.kind = "none" /\ op'.item \in Items /\ op'.val = None /\ pc' = "idle"
         /\ page' = -1 /\ page' \in -1 .. NPages /\ from' \in Blocks
<1>1. 0 \in Items
  BY SecStoAssumption DEF Items
<1> QED
  BY <1>1, PagesExist DEF Return, NoOp, Blocks

LEMMA ReadKeeps ==
  ASSUME SecStoInv, NEW i \in Items, aw_spinand_secure_storage_read(i)
  PROVE  SecStoInv'
<1>0. TypeOK /\ Control /\ PagesIn(blk, Cur) /\ Safe
  BY Zenon DEF SecStoInv
<1>1. /\ pc = "idle" /\ init_end = 0 /\ op'.kind = "read" /\ op'.item = i /\ op'.val = None
      /\ pc' = "init"
      /\ UNCHANGED <<blk, init_end, page, from, acked, unacked, chip, cuts, fails, gapcut>>
  BY Zenon DEF aw_spinand_secure_storage_read, ghosts, faults
<1>2. Cur' = Cur /\ (InOrder' <=> InOrder)
  <2>1. op.kind # "write" /\ op'.kind # "write"
    BY <1>0, <1>1, Zenon DEF Control
  <2> QED
    BY <1>1, <2>1, IdleCur, Zenon
<1>3. TypeOK'
  BY <1>0, <1>1, Zenon DEF TypeOK
<1>4. Control'
  BY <1>0, <1>1, Zenon DEF Control
<1>5. PagesIn(blk, Cur)'
  BY <1>0, <1>1, <1>2, Zenon
<1>6. FillState' /\ CopyState' /\ SourceState'
  BY <1>1, Zenon DEF FillState, CopyState, SourceState
<1>7. Safe'
  BY <1>0, <1>1, <1>2, Zenon DEF Safe, Calm
<1> QED
  BY <1>3, <1>4, <1>5, <1>6, <1>7, Zenon DEF SecStoInv

LEMMA WriteKeeps ==
  ASSUME SecStoInv, NEW i \in Items, NEW v \in Values, aw_spinand_secure_storage_write(i, v)
  PROVE  SecStoInv'
<1>0. TypeOK /\ Control /\ PagesIn(blk, Cur) /\ Safe
  BY Zenon DEF SecStoInv
<1>1. /\ pc = "idle" /\ op'.kind = "write" /\ op'.item = i /\ op'.val = v
      /\ pc' = IF init_end = 1 THEN "fill" ELSE "init"
      /\ UNCHANGED <<blk, init_end, page, from, acked, unacked, chip, cuts, fails, gapcut>>
  BY Zenon DEF aw_spinand_secure_storage_write, ghosts, faults
<1>2. op.kind = "none" /\ init_end \in {0, 1} /\ page = -1
  BY <1>0, <1>1, Zenon DEF Control, TypeOK
<1>3. \A j \in Items : Cur[j] \subseteq Cur'[j]
  BY <1>1, <1>2, Zenon DEF Cur
<1>4. init_end = 0 => Cur' = Cur /\ (InOrder' <=> InOrder)
  BY <1>1, <1>2, IdleCur
<1>5. TypeOK'
  BY <1>0, <1>1, Zenon DEF TypeOK
<1>6. Control'
  BY <1>0, <1>1, <1>2, Zenon DEF Control
<1>7. PagesIn(blk, Cur)'
  BY <1>0, <1>1, <1>3, Grow, Zenon
<1>8. FillState' /\ CopyState' /\ SourceState'
  BY <1>1, <1>2, Zenon DEF FillState, CopyState, SourceState
<1>9. Safe'
  <2> SUFFICES ASSUME Calm PROVE Safe'
    BY <1>1, Zenon DEF Safe, Calm
  <2>1. Rest(blk, Cur, acked) /\ (InOrder \/ Mirror(blk))
    BY <1>0, <1>1, Zenon DEF Safe
  <2>2. CASE init_end = 0
    <3>1. pc' = "init" /\ init_end' # 1 /\ Rest(blk', Cur', acked') /\ (InOrder' \/ Mirror(blk'))
      BY <1>1, <1>4, <2>1, <2>2
    <3> QED
      BY <3>1, Zenon DEF Safe
  <2>3. CASE init_end = 1
    <3>1. AllWhole(blk[0], Cur, acked)
      BY <1>0, <1>1, <2>3, Zenon DEF Safe, Shows
    <3>2. AllClean(blk[0], Cur') /\ AllClean(blk[1], Cur') /\ AllWhole(blk[0], Cur', acked)
      BY <1>3, <2>1, <3>1, Grow, Zenon DEF Rest
    <3> QED
      BY <1>1, <2>3, <3>2, Zenon DEF Safe
  <2> QED
    BY <1>2, <2>2, <2>3, Zenon
<1> QED
  BY <1>5, <1>6, <1>7, <1>8, <1>9, Zenon DEF SecStoInv

-----------------------------------------------------------------------------
(* The storage becomes ready, is repaired, or a call is given up *)

LEMMA ProceedKeeps ==
  ASSUME SecStoInv, pc \in {"init", "copy"}, init_end = 0, Proceed, UNCHANGED <<blk, ghosts>>,
         Calm => Rest(blk, Cur, acked) /\ Shows(blk, Cur, acked) /\ (InOrder \/ Mirror(blk))
  PROVE  SecStoInv'
<1>0. TypeOK /\ Control /\ PagesIn(blk, Cur)
  BY Zenon DEF SecStoInv
<1>1. init_end' = 1 /\ page' = -1 /\ UNCHANGED <<blk, acked, unacked, chip, cuts, fails, gapcut>>
  BY Zenon DEF Proceed, Return, ghosts, faults
<1>2. CASE op.kind = "write"
  <2>1. pc' = "fill" /\ UNCHANGED <<op, from>>
    BY <1>2, Zenon DEF Proceed
  <2>2. \A j \in Items : Cur[j] \subseteq Cur'[j]
    BY <1>1, <2>1, Zenon DEF Cur
  <2>3. TypeOK' /\ Control'
    BY <1>0, <1>1, <1>2, <2>1, PagesExist DEF TypeOK, Control
  <2>4. PagesIn(blk, Cur)'
    BY <1>0, <1>1, <2>2, Grow, Zenon
  <2>5. FillState' /\ CopyState' /\ SourceState'
    BY <1>1, <2>1, Zenon DEF FillState, CopyState, SourceState
  <2>6. Safe'
    <3>1. Calm => /\ AllClean(blk[0], Cur') /\ AllClean(blk[1], Cur')
                  /\ AllWhole(blk[0], Cur', acked)
      BY <2>2, Grow, Zenon DEF Rest, Shows
    <3> QED
      BY <1>1, <2>1, <3>1, Zenon DEF Safe, Calm
  <2> QED
    BY <2>3, <2>4, <2>5, <2>6, Zenon DEF SecStoInv
<1>3. CASE op.kind # "write"
  <2>1. /\ op'.kind = "none" /\ op'.item \in Items /\ op'.val = None /\ pc' = "idle"
        /\ page' \in -1 .. NPages /\ from' \in Blocks
    BY <1>3, ReturnType, Zenon DEF Proceed
  <2>2. Cur' = Cur /\ (InOrder' <=> InOrder)
    BY <1>1, <1>3, <2>1, IdleCur, Zenon
  <2>3. TypeOK' /\ Control'
    BY <1>0, <1>1, <2>1, Zenon DEF TypeOK, Control
  <2>4. PagesIn(blk, Cur)'
    BY <1>0, <1>1, <2>2, Zenon
  <2>5. FillState' /\ CopyState' /\ SourceState'
    BY <2>1, Zenon DEF FillState, CopyState, SourceState
  <2>6. Safe'
    BY <1>1, <2>1, <2>2, Zenon DEF Safe, Calm
  <2> QED
    BY <2>3, <2>4, <2>5, <2>6, Zenon DEF SecStoInv
<1> QED
  BY <1>2, <1>3, Zenon

LEMMA NothingToDoKeeps ==
  ASSUME SecStoInv, InitNothingToDo
  PROVE  SecStoInv'
<1>1. pc = "init" /\ init_end = 0 /\ (NeverUsed \/ check_secure_storage = "both")
  BY Zenon DEF InitNothingToDo, SecStoInv, Control
<1>2. Calm => Rest(blk, Cur, acked) /\ (InOrder \/ Mirror(blk))
  BY <1>1, Zenon DEF SecStoInv, Safe
<1>3. Calm => Shows(blk, Cur, acked)
  BY <1>1, <1>2, Checked, MirrorShows, Zenon
<1> QED
  BY <1>1, <1>2, <1>3, ProceedKeeps, Zenon DEF InitNothingToDo

(* A call that is given up: what it was writing may be there. *)
LEMMA GiveUpIs ==
  ASSUME SecStoInv, Return, GiveUp
  PROVE  /\ acked' = acked /\ unacked' \in [Items -> SUBSET Values]
         /\ Cur' = Cur /\ (InOrder' <=> InOrder)
<1>0. TypeOK /\ Control
  BY Zenon DEF SecStoInv
<1>1. op'.kind = "none" /\ acked' = acked
  BY ReturnType, Zenon DEF GiveUp
<1>2. CASE op.kind = "write" /\ init_end = 1
  <2>1. unacked' = [unacked EXCEPT ![op.item] = @ \cup {op.val}] /\ op.val \in Values /\ op.item \in Items
    BY <1>0, <1>2, Zenon DEF GiveUp, Control, TypeOK
  <2>2. /\ unacked' \in [Items -> SUBSET Values]
        /\ \A i \in Items : unacked'[i] = IF i = op.item THEN unacked[i] \cup {op.val} ELSE unacked[i]
    BY <1>0, <2>1 DEF TypeOK
  <2>3. Cur' = Cur
    BY <1>1, <1>2, <2>2, Zenon DEF Cur
  <2>4. \A i \in Items : Touched(i)' <=> Touched(i)
    <3> TAKE i \in Items
    <3>1. CASE i = op.item
      BY <1>2, <2>2, <3>1 DEF Touched
    <3>2. CASE i # op.item
      BY <1>1, <2>2, <3>2, Zenon DEF Touched
    <3> QED
      BY <3>1, <3>2, Zenon
  <2> QED
    BY <1>1, <2>2, <2>3, <2>4, Zenon DEF InOrder
<1>3. CASE ~(op.kind = "write" /\ init_end = 1)
  <2>1. unacked' = unacked
    BY <1>3, Zenon DEF GiveUp
  <2>2. op.kind # "write" \/ init_end # 1
    BY <1>3, Zenon
  <2>3. op'.kind # "write" \/ init_end' # 1
    BY <1>1, Zenon
  <2>4. Cur' = Cur /\ (InOrder' <=> InOrder)
    BY <1>1, <2>1, <2>2, <2>3, IdleCur, Zenon
  <2> QED
    BY <1>0, <1>1, <2>1, <2>4, Zenon DEF TypeOK
<1> QED
  BY <1>2, <1>3, Zenon

LEMMA AbandonKeeps ==
  ASSUME SecStoInv, Return, GiveUp, chip' = chip, fails' \in Nat, gapcut' \in BOOLEAN,
         init_end' \in {0, 1},
         blk' \in [Blocks -> [Pages -> PageContent]], PagesIn(blk', Cur),
         Calm' => init_end' = 0 /\ Rest(blk', Cur, acked) /\ (InOrder \/ Mirror(blk'))
  PROVE  SecStoInv'
<1>0. TypeOK /\ Control
  BY Zenon DEF SecStoInv
<1>1. /\ op'.kind = "none" /\ op'.item \in Items /\ op'.val = None /\ pc' = "idle"
      /\ page' = -1 /\ page' \in -1 .. NPages /\ from' \in Blocks
  BY ReturnType, Zenon
<1>2. /\ acked' = acked /\ unacked' \in [Items -> SUBSET Values]
      /\ Cur' = Cur /\ (InOrder' <=> InOrder)
  BY GiveUpIs, Zenon
<1>3. TypeOK'
  BY <1>0, <1>1, <1>2, Zenon DEF TypeOK
<1>4. Control'
  BY <1>0, <1>1, Zenon DEF Control
<1>5. PagesIn(blk, Cur)'
  BY <1>2, Zenon
<1>6. FillState' /\ CopyState' /\ SourceState'
  BY <1>1, Zenon DEF FillState, CopyState, SourceState
<1>7. Safe'
  BY <1>1, <1>2 DEF Safe
<1> QED
  BY <1>3, <1>4, <1>5, <1>6, <1>7, Zenon DEF SecStoInv

LEMMA InitFailsKeeps ==
  ASSUME SecStoInv, InitFails
  PROVE  SecStoInv'
<1>1. /\ pc = "init" /\ init_end = 0 /\ Return /\ GiveUp
      /\ UNCHANGED <<blk, init_end, chip, cuts, fails, gapcut>>
  BY Zenon DEF InitFails, SecStoInv, Control, faults
<1>2. /\ fails' \in Nat /\ gapcut' \in BOOLEAN /\ init_end' \in {0, 1}
      /\ blk' \in [Blocks -> [Pages -> PageContent]]
      /\ Calm' => init_end' = 0 /\ Rest(blk', Cur, acked) /\ (InOrder \/ Mirror(blk'))
  BY <1>1, Zenon DEF SecStoInv, TypeOK, Control, Safe, Calm
<1>3. PagesIn(blk', Cur)
  BY <1>1, Zenon DEF SecStoInv
<1> QED
  BY <1>1, <1>2, <1>3, AbandonKeeps, Zenon

(* A source of a write has no page that cannot be read. *)
LEMMA CannotReadKeeps ==
  ASSUME SecStoInv, CopyCannotRead
  PROVE  SecStoInv'
<1>1. /\ pc = "copy" /\ page \in Pages /\ ~Sound(blk[from][page]) /\ Return /\ GiveUp
      /\ UNCHANGED <<blk, init_end, chip, cuts, fails, gapcut>>
  <2>1. ReadCheck(from, page) \in {16, 32}
    BY Zenon DEF CopyCannotRead
  <2>2. ~Sound(blk[from][page])
    BY <2>1, ReadCheckIs, Zenon
  <2> QED
    BY <2>2, Zenon DEF CopyCannotRead, faults
<1>2. init_end \in {0, 1} /\ init_end # 1
  BY <1>1, Zenon DEF SecStoInv, TypeOK, Control, SourceState
<1>3. /\ fails' \in Nat /\ gapcut' \in BOOLEAN /\ init_end' \in {0, 1}
      /\ blk' \in [Blocks -> [Pages -> PageContent]] /\ init_end' = 0
  BY <1>1, <1>2, Zenon DEF SecStoInv, TypeOK, Control
<1>4. Calm' => Rest(blk', Cur, acked) /\ InOrder
  <2> SUFFICES ASSUME Calm PROVE Rest(blk, Cur, acked) /\ InOrder
    BY <1>1, Zenon DEF Calm
  <2> QED
    BY <1>1, <1>2, RestNow, Zenon DEF SecStoInv, Safe
<1>5. PagesIn(blk', Cur)
  BY <1>1, Zenon DEF SecStoInv
<1> QED
  BY <1>1, <1>3, <1>4, <1>5, AbandonKeeps, Zenon

(* What an interrupted operation leaves can be repaired. *)
LEMMA RestInterrupted ==
  ASSUME SecStoInv, Calm, Interrupted
  PROVE  Rest(blk', Cur, acked)
<1>1. CASE pc \notin {"fill", "copy"}
  BY <1>1, InterruptedIs, RestNow, Zenon
<1>2. CASE pc \in {"fill", "copy"}
  <2>1. /\ AllWhole(blk'[1 - Target], Cur, acked) /\ AllClean(blk'[1 - Target], Cur)
        /\ AllClean(blk[Target], Cur)
    BY <1>2, InterruptedIs, RestNow, Zenon
  <2>2. AllClean(blk'[Target], Cur)
    <3>1. CASE page = -1
      <4> SUFFICES ASSUME NEW i \in Items PROVE CleanIn(blk'[Target], i, Cur[i])
        BY Zenon DEF AllClean
      <4>1. CleanIn(blk[Target], i, Cur[i])
        BY <2>1, Zenon DEF AllClean
      <4>2. \A p \in Own(i) : \/ Data(blk'[Target][p]) = Data(blk[Target][p])
                              \/ Data(blk'[Target][p]) \notin Parts
        BY <3>1, InterruptedIs, Zenon DEF Own
      <4> QED
        BY <4>1, <4>2, Damaged, Zenon
    <3>2. CASE page # -1
      <4>1. ASSUME NEW p \in Pages
            PROVE  Data(blk'[Target][p]) \notin Parts \/ Data(blk'[Target][p]) = Source(p)
        BY <1>2, <3>2, InterruptedIs, TargetFits, Zenon
      <4> QED
        BY <1>2, <4>1, FitsClean, Zenon
    <3> QED
      BY <3>1, <3>2, Zenon
  <2>3. Target \in {0, 1} /\ (Target = 0 => 1 - Target = 1) /\ (Target = 1 => 1 - Target = 0)
    BY TargetType DEF Blocks
  <2> QED
    BY <2>1, <2>2, <2>3, Zenon DEF Rest, Blocks
<1> QED
  BY <1>1, <1>2, Zenon

LEMMA PagesInterrupted ==
  ASSUME SecStoInv, Interrupted
  PROVE  PagesIn(blk', Cur)
<1>0. PagesIn(blk, Cur) /\ Target \in Blocks /\ 1 - Target \in Blocks
  BY TargetType, Zenon DEF SecStoInv
<1>1. \A b \in Blocks : b = Target \/ b = 1 - Target
  BY TargetType DEF Blocks
<1> SUFFICES ASSUME NEW b \in Blocks, NEW p \in Pages, Data(blk'[b][p]) \in Parts
             PROVE  \E v \in Cur[ItemOf(p)] : Data(blk'[b][p]) = Part(v, PartOf(p))
  BY Zenon DEF PagesIn
<1>2. CASE Data(blk'[b][p]) = Data(blk[b][p])
  BY <1>0, <1>2, Zenon DEF PagesIn
<1>3. CASE pc \in {"fill", "copy"} /\ Data(blk'[b][p]) = Source(p)
  BY <1>3, SourceIn, Zenon
<1>4. CASE b = Target
  BY <1>2, <1>3, <1>4, InterruptedIs, Zenon
<1>5. CASE b = 1 - Target
  BY <1>2, <1>5, InterruptedIs, Zenon
<1> QED
  BY <1>1, <1>4, <1>5, Zenon

LEMMA PowerCutKeeps ==
  ASSUME SecStoInv, PowerCut
  PROVE  SecStoInv'
<1>1. /\ Interrupted /\ init_end' = 0 /\ Return /\ GiveUp /\ UNCHANGED <<chip, fails>>
      /\ gapcut' = (gapcut \/ (pc \in {"fill", "copy"} /\ Gap))
  BY Zenon DEF PowerCut
<1>2. blk' \in [Blocks -> [Pages -> PageContent]] /\ PagesIn(blk', Cur)
  BY <1>1, InterruptedIs, PagesInterrupted, Zenon
<1>3. fails' \in Nat /\ gapcut' \in BOOLEAN
  BY <1>1, Zenon DEF SecStoInv, Control
<1>4. ASSUME Calm' PROVE Rest(blk', Cur, acked) /\ (InOrder \/ Mirror(blk'))
  <2>1. Calm /\ (pc \in {"fill", "copy"} => ~Gap)
    BY <1>1, <1>4, Zenon DEF Calm
  <2>2. Rest(blk', Cur, acked)
    BY <1>1, <2>1, RestInterrupted, Zenon
  <2>3. CASE pc \in {"fill", "copy"}
    BY <2>1, <2>2, <2>3, Zenon DEF Gap, InOrder
  <2>4. CASE pc \notin {"fill", "copy"}
    <3>1. blk' = blk /\ pc \in {"idle", "init"}
      BY <1>1, <2>4, InterruptedIs, Zenon DEF SecStoInv, TypeOK
    <3> QED
      BY <2>1, <2>2, <3>1, Zenon DEF SecStoInv, Safe
  <2> QED
    BY <2>3, <2>4, Zenon
<1> QED
  BY <1>1, <1>2, <1>3, <1>4, AbandonKeeps, Zenon

LEMMA ChipFailsKeeps ==
  ASSUME SecStoInv, ChipFails
  PROVE  SecStoInv'
<1>1. Interrupted /\ Return /\ GiveUp /\ UNCHANGED <<chip, init_end, gapcut>> /\ fails' = fails + 1
  BY Zenon DEF ChipFails
<1>2. blk' \in [Blocks -> [Pages -> PageContent]] /\ PagesIn(blk', Cur)
  BY <1>1, InterruptedIs, PagesInterrupted, Zenon
<1>3. fails' \in Nat /\ fails' # 0 /\ init_end' \in {0, 1} /\ gapcut' \in BOOLEAN
  BY <1>1 DEF SecStoInv, Control, TypeOK
<1>4. ~Calm'
  BY <1>3, Zenon DEF Calm
<1> QED
  BY <1>1, <1>2, <1>3, <1>4, AbandonKeeps, Zenon

LEMMA RepairsKeeps ==
  ASSUME SecStoInv, InitRepairs
  PROVE  SecStoInv'
<1>0. TypeOK /\ Control /\ PagesIn(blk, Cur) /\ Safe
  BY Zenon DEF SecStoInv
<1>1. /\ pc = "init" /\ init_end = 0 /\ pc' = "copy" /\ page' = -1
      /\ check_secure_storage \in {"first", "second"}
      /\ from' = IF check_secure_storage = "first" THEN 0 ELSE 1
      /\ UNCHANGED <<blk, init_end, op, acked, unacked, chip, cuts, fails, gapcut>>
  BY <1>0, Zenon DEF InitRepairs, Control, ghosts, faults
<1>2. Cur' = Cur /\ (InOrder' <=> InOrder)
  BY <1>1, SameCur, Zenon
<1>3. from' \in Blocks /\ 1 - from' \in Blocks /\ blk[from'][Stop] \in Parts
  <2>1. CASE check_secure_storage = "first"
    <3>1. ReadCheck(0, Stop) = 0 /\ from' = 0
      BY <1>1, <2>1, Zenon DEF check_secure_storage
    <3> QED
      BY <3>1, GoodIs DEF Blocks
  <2>2. CASE check_secure_storage = "second"
    <3>1. ReadCheck(1, Stop) = 0 /\ from' = 1
      BY <1>1, <2>2, Zenon DEF check_secure_storage
    <3> QED
      BY <3>1, GoodIs DEF Blocks
  <2> QED
    BY <1>1, <2>1, <2>2, Zenon
<1>4. TypeOK' /\ Control'
  BY <1>0, <1>1, <1>3, PagesExist DEF TypeOK, Control
<1>5. PagesIn(blk, Cur)'
  BY <1>0, <1>1, <1>2, Zenon
<1>6. FillState' /\ CopyState' /\ SourceState'
  BY <1>1 DEF FillState, CopyState, SourceState
<1>7. ASSUME Calm
      PROVE  /\ AllClean(blk[from'], Cur) /\ AllClean(blk[1 - from'], Cur)
             /\ AllWhole(blk[from'], Cur, acked) /\ InOrder
  <2>1. Rest(blk, Cur, acked) /\ InOrder
    <3>1. ~Mirror(blk)
      BY <1>1, MirrorChecks, Zenon
    <3> QED
      BY <1>0, <1>1, <1>7, <3>1, Zenon DEF Safe
  <2>2. \A b \in Blocks : AllClean(blk[b], Cur)
    BY <2>1, Zenon DEF Rest, Blocks
  <2>3. PICK b \in Blocks : b = from'
    BY <1>3, Zenon
  <2>4. AllWhole(blk[b], Cur, acked)
    BY <1>3, <2>1, <2>3, UpToStop, Zenon
  <2> QED
    BY <1>3, <2>1, <2>2, <2>3, <2>4, Zenon
<1>8. Safe'
  BY <1>1, <1>2, <1>7, Zenon DEF Safe, Calm
<1> QED
  BY <1>4, <1>5, <1>6, <1>8, Zenon DEF SecStoInv
-----------------------------------------------------------------------------
(* Erasing and programming *)

LEMMA EraseIs ==
  ASSUME SecStoInv, NEW b \in Blocks, Erase(b)
  PROVE  /\ UNCHANGED <<init_end, op, pc, from, acked, unacked, chip, cuts, fails, gapcut>> /\ page' = 0
         /\ Cur' = Cur /\ \A p \in Pages : blk'[b][p] = Empty
         /\ \A a \in Blocks : a # b => blk'[a] = blk[a]
         /\ TypeOK' /\ (InOrder' <=> InOrder) /\ PagesIn(blk, Cur)'
<1>0. TypeOK /\ PagesIn(blk, Cur)
  BY Zenon DEF SecStoInv
<1>1. /\ blk' = [blk EXCEPT ![b] = [p \in Pages |-> Empty]] /\ page' = 0
      /\ UNCHANGED <<init_end, op, pc, from, acked, unacked, chip, cuts, fails, gapcut>>
  BY Zenon DEF Erase, ghosts, faults
<1>2. blk \in [Blocks -> [Pages -> PageContent]]
  BY <1>0, Zenon DEF TypeOK
<1>3. /\ blk' \in [Blocks -> [Pages -> PageContent]] /\ \A p \in Pages : blk'[b][p] = Empty
      /\ \A a \in Blocks : a # b => blk'[a] = blk[a]
  <2>1. [p \in Pages |-> Empty] \in [Pages -> PageContent]
    BY EmptyPage, Zenon
  <2> QED
    BY <1>1, <1>2, <2>1, Zenon
<1>4. Cur' = Cur /\ (InOrder' <=> InOrder)
  BY <1>1, SameCur, Zenon
<1>5. TypeOK'
  BY <1>0, <1>1, <1>3, PagesExist DEF TypeOK
<1>6. PagesIn(blk, Cur)'
  BY <1>0, <1>3, <1>4, EmptyPage DEF PagesIn
<1> QED
  BY <1>1, <1>3, <1>4, <1>5, <1>6, Zenon

LEMMA FillEraseKeeps ==
  ASSUME SecStoInv, FillErase
  PROVE  SecStoInv'
<1>1. pc = "fill" /\ page = -1 /\ Erase(1) /\ 0 \in Blocks /\ 1 \in Blocks
  BY Zenon DEF FillErase, Blocks
<1>2. /\ UNCHANGED <<init_end, op, pc, from, acked, unacked, chip, cuts, fails, gapcut>> /\ page' = 0
      /\ Cur' = Cur /\ \A p \in Pages : blk'[1][p] = Empty
      /\ \A a \in Blocks : a # 1 => blk'[a] = blk[a]
      /\ TypeOK' /\ (InOrder' <=> InOrder) /\ PagesIn(blk, Cur)'
  BY <1>1, EraseIs, Zenon
<1>3. Control'
  BY <1>1, <1>2, ZenonT(40) DEF SecStoInv, Control
<1>4. FillState' /\ CopyState' /\ SourceState'
  BY <1>1, <1>2 DEF FillState, CopyState, SourceState, Pages
<1>5. Safe'
  BY <1>1, <1>2 DEF SecStoInv, Safe, Calm
<1> QED
  BY <1>2, <1>3, <1>4, <1>5, Zenon DEF SecStoInv

LEMMA CopyEraseKeeps ==
  ASSUME SecStoInv, CopyErase
  PROVE  SecStoInv'
<1>1. /\ pc = "copy" /\ page = -1 /\ Erase(1 - from) /\ from \in Blocks /\ 1 - from \in Blocks
      /\ from # 1 - from
  BY DEF CopyErase, Blocks, SecStoInv, TypeOK
<1> PICK b \in Blocks : b = 1 - from
  BY <1>1, Zenon
<1>2. /\ UNCHANGED <<init_end, op, pc, from, acked, unacked, chip, cuts, fails, gapcut>> /\ page' = 0
      /\ Cur' = Cur /\ \A p \in Pages : blk'[b][p] = Empty
      /\ \A a \in Blocks : a # b => blk'[a] = blk[a]
      /\ TypeOK' /\ (InOrder' <=> InOrder) /\ PagesIn(blk, Cur)'
  BY <1>1, EraseIs, Zenon
<1>3. Control'
  BY <1>1, <1>2, Zenon DEF SecStoInv, Control
<1>4. blk'[from] = blk[from] /\ (init_end = 1 => from = 1)
  BY <1>1, <1>2, Zenon DEF SecStoInv, Control
<1>5. FillState' /\ CopyState'
  BY <1>1, <1>2 DEF FillState, CopyState, Pages
<1>6. SourceState'
  BY <1>1, <1>2, <1>4, Zenon DEF SourceState, SecStoInv
<1>7. Safe'
  BY <1>1, <1>2, <1>4 DEF SecStoInv, Safe, Calm
<1> QED
  BY <1>2, <1>3, <1>5, <1>6, <1>7, Zenon DEF SecStoInv

LEMMA ProgramIs ==
  ASSUME SecStoInv, NEW b \in Blocks, NEW c \in PageContent, page \in Pages, Program(b, c),
         Data(c) \in Parts => \E v \in Cur[ItemOf(page)] : Data(c) = Part(v, PartOf(page))
  PROVE  /\ UNCHANGED <<init_end, op, pc, from, acked, unacked, chip, cuts, fails, gapcut>>
         /\ page' = page + 1 /\ Cur' = Cur /\ blk'[b][page] = c
         /\ \A p \in Pages : p # page => blk'[b][p] = blk[b][p]
         /\ \A a \in Blocks : a # b => blk'[a] = blk[a]
         /\ TypeOK' /\ (InOrder' <=> InOrder) /\ PagesIn(blk, Cur)'
<1>0. TypeOK /\ PagesIn(blk, Cur)
  BY Zenon DEF SecStoInv
<1>1. /\ blk' = [blk EXCEPT ![b][page] = c] /\ page' = page + 1
      /\ UNCHANGED <<init_end, op, pc, from, acked, unacked, chip, cuts, fails, gapcut>>
  BY Zenon DEF Program, ghosts, faults
<1>2. blk \in [Blocks -> [Pages -> PageContent]]
  BY <1>0, Zenon DEF TypeOK
<1>3. /\ blk' \in [Blocks -> [Pages -> PageContent]] /\ blk'[b][page] = c
      /\ \A p \in Pages : p # page => blk'[b][p] = blk[b][p]
      /\ \A a \in Blocks : a # b => blk'[a] = blk[a]
  BY <1>1, <1>2, Zenon
<1>4. Cur' = Cur /\ (InOrder' <=> InOrder)
  BY <1>1, SameCur, Zenon
<1>5. page' \in -1 .. NPages
  BY <1>1, PagesExist DEF Pages
<1>6. TypeOK'
  BY <1>0, <1>1, <1>3, <1>5, Zenon DEF TypeOK
<1>7. PagesIn(blk, Cur)'
  <2> SUFFICES ASSUME NEW a \in Blocks, NEW p \in Pages, Data(blk'[a][p]) \in Parts
               PROVE  \E v \in Cur[ItemOf(p)] : Data(blk'[a][p]) = Part(v, PartOf(p))
    BY <1>4, Zenon DEF PagesIn
  <2>1. CASE a = b /\ p = page
    BY <1>3, <2>1, Zenon
  <2>2. CASE ~(a = b /\ p = page)
    <3>1. blk'[a][p] = blk[a][p]
      BY <1>3, <2>2, Zenon
    <3> QED
      BY <1>0, <3>1, Zenon DEF PagesIn
  <2> QED
    BY <2>1, <2>2, Zenon
<1> QED
  BY <1>1, <1>3, <1>4, <1>6, <1>7, Zenon

LEMMA FillPageKeeps ==
  ASSUME SecStoInv, FillPage
  PROVE  SecStoInv'
<1>0. TypeOK /\ Control /\ PagesIn(blk, Cur) /\ FillState /\ Safe
  BY Zenon DEF SecStoInv
<1>1. pc = "fill" /\ page \in Pages /\ op.kind = "write" /\ op.val \in Values /\ op.item \in Items
  BY <1>0, Zenon DEF FillPage, Control, TypeOK
<1>2. PICK c : /\ Program(1, c)
               /\ \/ ItemOf(page) = op.item /\ c = Part(op.val, PartOf(page))
                  \/ ItemOf(page) # op.item /\ blk[0][page] # Bad("ecc") /\ c = Data(blk[0][page])
                  \/ /\ ItemOf(page) # op.item /\ blk[0][page] = Bad("ecc")
                     /\ \E s \in {"sum", "bare"} : c = Bad(s)
  <2>1. ReadCheck(0, page) = 32 <=> blk[0][page] = Bad("ecc")
    BY ReadCheckIs, Zenon
  <2> QED
    BY <2>1, Zenon DEF FillPage, OwnPage, ItemOf, PartOf
<1>3. c \in PageContent /\ Sound(c)
  <2>1. CASE ItemOf(page) = op.item /\ c = Part(op.val, PartOf(page))
    <3>1. c \in Parts
      BY <1>1, <2>1, PartIsPart, Zenon
    <3> QED
      BY <3>1, DataIs, Zenon DEF PageContent
  <2>2. CASE blk[0][page] # Bad("ecc") /\ c = Data(blk[0][page])
    <3>1. blk[0][page] \in PageContent
      BY <1>0, <1>1, Zenon DEF TypeOK, Blocks
    <3>2. CASE blk[0][page] \in WeakParts
      <4>1. c \in Parts
        BY <2>2, <3>2, DataIs, Zenon
      <4> QED
        BY <4>1, DataIs, Zenon DEF PageContent
    <3>3. CASE blk[0][page] \notin WeakParts
      BY <2>2, <3>1, <3>3, Zenon DEF Data, Sound
    <3> QED
      BY <3>2, <3>3, Zenon
  <2>3. CASE \E s \in {"sum", "bare"} : c = Bad(s)
    <3>1. \A s \in {"sum", "bare"} : Bad(s) \in PageContent /\ Bad(s) # Bad("ecc")
      BY Zenon DEF PageContent, Bad
    <3> QED
      BY <2>3, <3>1, DataIs, Zenon DEF Sound
  <2> QED
    BY <1>2, <2>1, <2>2, <2>3, Zenon
<1>4. IF ItemOf(page) = op.item THEN c = Part(op.val, PartOf(page))
      ELSE c = Data(blk[0][page]) \/ (Data(blk[0][page]) \notin Parts /\ c \notin Parts)
  BY <1>2, DataIs, Zenon
<1>5. Data(c) \in Parts => \E v \in Cur[ItemOf(page)] : Data(c) = Part(v, PartOf(page))
  <2>0. Data(c) = c
    BY <1>3, DataIs, Zenon
  <2>1. CASE ItemOf(page) = op.item
    <3>1. op.val \in Cur[op.item]
      BY <1>0, <1>1, Zenon DEF Cur, Control
    <3> QED
      BY <1>4, <2>0, <2>1, <3>1, Zenon
  <2>2. CASE ItemOf(page) # op.item
    BY <1>0, <1>1, <1>4, <2>0, <2>2, Zenon DEF PagesIn, Blocks
  <2> QED
    BY <2>1, <2>2, Zenon
<1>6. 1 \in Blocks /\ 0 \in Blocks /\ 0 # 1
  BY DEF Blocks
<1>7. /\ UNCHANGED <<init_end, op, pc, from, acked, unacked, chip, cuts, fails, gapcut>>
      /\ page' = page + 1 /\ Cur' = Cur /\ blk'[1][page] = c
      /\ \A p \in Pages : p # page => blk'[1][p] = blk[1][p]
      /\ \A a \in Blocks : a # 1 => blk'[a] = blk[a]
      /\ TypeOK' /\ (InOrder' <=> InOrder) /\ PagesIn(blk, Cur)'
  BY <1>1, <1>2, <1>3, <1>5, <1>6, ProgramIs, Zenon
<1>8. page' # -1 /\ page # -1 /\ \A p \in Pages : p >= page' <=> (p >= page /\ p # page)
  BY <1>1, <1>7 DEF Pages
<1>9. Control'
  BY <1>0, <1>1, <1>7, Zenon DEF Control
<1>10. FillState'
  <2> SUFFICES ASSUME NEW p \in Pages
               PROVE  IF p >= page' THEN blk'[1][p] = Empty
                      ELSE /\ Sound(blk'[1][p])
                           /\ IF ItemOf(p) = op.item THEN blk'[1][p] = Part(op.val, PartOf(p))
                              ELSE \/ blk'[1][p] = Data(blk'[0][p])
                                   \/ Data(blk'[0][p]) \notin Parts /\ blk'[1][p] \notin Parts
    BY <1>7, Zenon DEF FillState
  <2>1. blk'[0][p] = blk[0][p]
    BY <1>6, <1>7, Zenon
  <2>2. CASE p = page
    BY <1>3, <1>4, <1>7, <1>8, <2>1, <2>2, Zenon
  <2>3. CASE p # page
    <3>1. blk'[1][p] = blk[1][p] /\ (p >= page' <=> p >= page)
      BY <1>7, <1>8, <2>3, Zenon
    <3> QED
      BY <1>0, <1>1, <1>8, <2>1, <3>1, Zenon DEF FillState
  <2> QED
    BY <2>2, <2>3, Zenon
<1>11. CopyState' /\ SourceState'
  BY <1>1, <1>7, Zenon DEF CopyState, SourceState
<1>12. Safe'
  BY <1>0, <1>1, <1>6, <1>7, <1>8, Zenon DEF Safe, Calm
<1> QED
  BY <1>7, <1>9, <1>10, <1>11, <1>12, Zenon DEF SecStoInv

(* The second block holds the new item and all the others. *)
LEMMA FilledKeeps ==
  ASSUME SecStoInv, Filled
  PROVE  SecStoInv'
<1>0. TypeOK /\ Control /\ PagesIn(blk, Cur) /\ FillState /\ Safe
  BY Zenon DEF SecStoInv
<1>1. /\ pc = "fill" /\ page = NPages /\ pc' = "copy" /\ page' = -1 /\ from' = 1
      /\ op.kind = "write" /\ UNCHANGED <<blk, init_end, op, acked, unacked, chip, cuts, fails, gapcut>>
  BY <1>0, Zenon DEF Filled, Control, ghosts, faults
<1>2. Cur' = Cur
  BY <1>1, SameCur, Zenon
<1>3. \A p \in Pages :
        /\ Sound(blk[1][p])
        /\ IF ItemOf(p) = op.item THEN blk[1][p] = Part(op.val, PartOf(p))
           ELSE blk[1][p] = Data(blk[0][p]) \/ (Data(blk[0][p]) \notin Parts /\ blk[1][p] \notin Parts)
  <2>1. page # -1 /\ \A p \in Pages : ~(p >= page)
    BY <1>1, PagesExist DEF Pages
  <2> QED
    BY <1>0, <1>1, <2>1, Zenon DEF FillState
<1>4. TypeOK' /\ Control'
  BY <1>0, <1>1, PagesExist DEF TypeOK, Control, Blocks
<1>5. PagesIn(blk, Cur)'
  BY <1>0, <1>1, <1>2, Zenon
<1>6. FillState' /\ CopyState'
  BY <1>1, Zenon DEF FillState, CopyState
<1>7. SourceState'
  BY <1>1, <1>3, Zenon DEF SourceState
<1>8. ASSUME Calm
      PROVE  AllClean(blk[1], Cur) /\ AllClean(blk[0], Cur) /\ AllWhole(blk[1], Cur, acked)
  <2>1. AllClean(blk[1], Cur) /\ AllClean(blk[0], Cur)
    BY <1>8, RestNow, Zenon DEF Rest
  <2>2. ASSUME NEW i \in Items, acked[i] # None PROVE WholeIn(blk[1], i, Cur[i])
    <3>1. CASE i = op.item
      <4>1. op.val \in Cur[i]
        BY <1>0, <1>1, <3>1, Zenon DEF Cur, Control
      <4>2. \A p \in Own(i) : blk[1][p] = Part(op.val, PartOf(p))
        BY <1>3, <3>1, Zenon DEF Own
      <4> QED
        BY <4>1, <4>2, Zenon DEF WholeIn
    <3>2. CASE i # op.item
      <4>1. WholeIn(blk[0], i, Cur[i])
        BY <1>0, <1>1, <1>8, <2>2, Zenon DEF Safe, AllWhole
      <4>2. \A p \in Own(i) : blk[0][p] \in Parts
        BY <1>0, <4>1, WholeIsGood, Zenon DEF Blocks
      <4>3. \A p \in Own(i) : blk[1][p] = blk[0][p]
        BY <1>3, <3>2, <4>2, DataIs, Zenon DEF Own
      <4> QED
        BY <4>1, <4>3, Zenon DEF WholeIn
    <3> QED
      BY <3>1, <3>2, Zenon
  <2> QED
    BY <2>1, <2>2, Zenon DEF AllWhole
<1>9. Safe'
  <2>1. init_end' = 1
    BY <1>0, <1>1, Zenon DEF Control
  <2> QED
    BY <1>1, <1>2, <1>8, <2>1 DEF Safe, Calm
<1> QED
  BY <1>4, <1>5, <1>6, <1>7, <1>9, Zenon DEF SecStoInv

LEMMA CopyPageKeeps ==
  ASSUME SecStoInv, CopyPage
  PROVE  SecStoInv'
<1>0. TypeOK /\ Control /\ PagesIn(blk, Cur) /\ CopyState /\ SourceState /\ Safe
  BY Zenon DEF SecStoInv
<1>1. /\ pc = "copy" /\ page \in Pages /\ Program(1 - from, blk[from][page])
      /\ from \in Blocks /\ 1 - from \in Blocks /\ from # 1 - from
  BY <1>0, TargetType DEF CopyPage, Blocks
<1> PICK b \in Blocks : b = 1 - from
  BY <1>1, Zenon
<1>2. PICK c \in PageContent : c = blk[from][page]
  BY <1>0, <1>1, Zenon DEF TypeOK
<1>3. Data(c) \in Parts => \E v \in Cur[ItemOf(page)] : Data(c) = Part(v, PartOf(page))
  BY <1>0, <1>1, <1>2, Zenon DEF PagesIn
<1>4. /\ UNCHANGED <<init_end, op, pc, from, acked, unacked, chip, cuts, fails, gapcut>>
      /\ page' = page + 1 /\ Cur' = Cur /\ blk'[b][page] = c
      /\ \A p \in Pages : p # page => blk'[b][p] = blk[b][p]
      /\ \A a \in Blocks : a # b => blk'[a] = blk[a]
      /\ TypeOK' /\ (InOrder' <=> InOrder) /\ PagesIn(blk, Cur)'
  BY <1>1, <1>2, <1>3, ProgramIs, ZenonT(40)
<1>s. Sound(c)
  <2>1. ReadCheck(from, page) \in {0, 1}
    BY Zenon DEF CopyPage
  <2> QED
    BY <1>2, <2>1, ReadCheckIs, Zenon
<1>5. page' # -1 /\ page # -1 /\ \A p \in Pages : p >= page' <=> (p >= page /\ p # page)
  BY <1>1, <1>4 DEF Pages
<1>6. blk'[from] = blk[from]
  BY <1>1, <1>4, Zenon
<1>7. Control'
  BY <1>0, <1>1, <1>4, Zenon DEF Control
<1>8. CopyState'
  <2> SUFFICES ASSUME NEW p \in Pages
               PROVE  IF p >= page' THEN blk'[b][p] = Empty
                      ELSE blk'[b][p] = blk'[from][p] /\ Sound(blk'[from][p])
    BY <1>4, Zenon DEF CopyState
  <2>1. CASE p = page
    BY <1>2, <1>4, <1>5, <1>6, <1>s, <2>1, Zenon
  <2>2. CASE p # page
    BY <1>0, <1>1, <1>4, <1>5, <1>6, <2>2, Zenon DEF CopyState
  <2> QED
    BY <2>1, <2>2, Zenon
<1>9. FillState' /\ SourceState'
  <2>1. pc' = "copy" /\ (init_end' = 1 => from = 1 /\ blk'[1] = blk[1])
    BY <1>0, <1>1, <1>4, <1>6, Zenon DEF Control
  <2>2. FillState'
    BY <2>1, Zenon DEF FillState
  <2>3. SourceState'
    BY <1>0, <1>1, <1>4, <2>1, Zenon DEF SourceState
  <2> QED
    BY <2>2, <2>3, Zenon
<1>10. Safe'
  BY <1>0, <1>1, <1>4, <1>5, <1>6, Zenon DEF Safe, Calm
<1> QED
  BY <1>4, <1>7, <1>8, <1>9, <1>10, Zenon DEF SecStoInv

(* At the end of a copy the blocks are the same. *)
LEMMA CopiedIs ==
  ASSUME SecStoInv, pc = "copy", page = NPages
  PROVE  Mirror(blk)
<1>1. page # -1 /\ \A p \in Pages : ~(p >= page)
  BY PagesExist DEF Pages
<1>2. \A p \in Pages : blk[1 - from][p] = blk[from][p] /\ Sound(blk[from][p])
  BY <1>1, Zenon DEF SecStoInv, CopyState
<1>3. from \in {0, 1} /\ (from = 0 => 1 - from = 1) /\ (from = 1 => 1 - from = 0)
  BY TargetType DEF Blocks
<1>4. \A p \in Pages : blk[0][p] = blk[1][p] /\ Sound(blk[0][p])
  BY <1>2, <1>3, Zenon
<1>5. blk[0] \in [Pages -> PageContent] /\ blk[1] \in [Pages -> PageContent]
  BY Zenon DEF SecStoInv, TypeOK, Blocks
<1>6. blk[0] = blk[1]
  BY <1>4, <1>5
<1> QED
  BY <1>4, <1>6, Zenon DEF Mirror

LEMMA RepairedKeeps ==
  ASSUME SecStoInv, Repaired
  PROVE  SecStoInv'
<1>1. pc = "copy" /\ page = NPages /\ init_end = 0 /\ Proceed /\ UNCHANGED <<blk, ghosts>>
  BY Zenon DEF Repaired
<1>2. Mirror(blk) /\ blk[0] = blk[1]
  BY <1>1, CopiedIs, Zenon DEF Mirror
<1>3. from \in {0, 1}
  BY TargetType, Zenon DEF Blocks
<1>4. ASSUME Calm PROVE Rest(blk, Cur, acked) /\ Shows(blk, Cur, acked)
  <2>1. AllClean(blk[from], Cur) /\ AllWhole(blk[from], Cur, acked)
    BY <1>1, <1>4, Zenon DEF SecStoInv, Safe
  <2>2. Rest(blk, Cur, acked)
    BY <1>2, <1>3, <2>1, Zenon DEF Rest, Blocks
  <2> QED
    BY <1>2, <2>2, MirrorShows, Zenon
<1> QED
  BY <1>1, <1>2, <1>4, ProceedKeeps, Zenon

LEMMA StoredKeeps ==
  ASSUME SecStoInv, Stored
  PROVE  SecStoInv'
<1>0. TypeOK /\ Control /\ PagesIn(blk, Cur) /\ SourceState /\ Safe
  BY Zenon DEF SecStoInv
<1>1. /\ pc = "copy" /\ page = NPages /\ init_end = 1 /\ Return /\ op.kind = "write" /\ from = 1
      /\ acked' = [acked EXCEPT ![op.item] = op.val]
      /\ unacked' = [unacked EXCEPT ![op.item] = {}]
      /\ UNCHANGED <<blk, init_end, chip, cuts, fails, gapcut>>
  BY <1>0, Zenon DEF Stored, Control, faults
<1>2. op.item \in Items /\ op.val \in Values /\ op.val # None
  BY <1>0, <1>1, SecStoAssumption, Zenon DEF TypeOK, Control
<1>3. /\ op'.kind = "none" /\ op'.item \in Items /\ op'.val = None /\ pc' = "idle"
      /\ page' = -1 /\ page' \in -1 .. NPages /\ from' \in Blocks
  BY <1>1, ReturnType, Zenon
<1>4. /\ acked'[op.item] = op.val /\ unacked'[op.item] = {}
      /\ \A i \in Items : i # op.item => acked'[i] = acked[i] /\ unacked'[i] = unacked[i]
      /\ acked' \in [Items -> Values \cup {None}] /\ unacked' \in [Items -> SUBSET Values]
  BY <1>0, <1>1, <1>2, Zenon DEF TypeOK
<1>5. Cur'[op.item] = {op.val} /\ \A i \in Items : i # op.item => Cur'[i] = Cur[i]
  BY <1>2, <1>3, <1>4, Zenon DEF Cur
<1>6. TypeOK'
  BY <1>0, <1>1, <1>3, <1>4, Zenon DEF TypeOK
<1>7. Control'
  BY <1>0, <1>1, <1>3, Zenon DEF Control
<1>9. Mirror(blk) /\ blk[0] = blk[1] /\ \A p \in Pages : ItemOf(p) = op.item => blk[1][p] = Part(op.val, PartOf(p))
  BY <1>0, <1>1, CopiedIs, Zenon DEF SourceState, Mirror
<1>10. PagesIn(blk, Cur)'
  <2> SUFFICES ASSUME NEW b \in Blocks, NEW p \in Pages, Data(blk[b][p]) \in Parts
               PROVE  \E v \in Cur'[ItemOf(p)] : Data(blk[b][p]) = Part(v, PartOf(p))
    BY <1>1, Zenon DEF PagesIn
  <2>1. CASE ItemOf(p) = op.item
    <3>1. Data(blk[b][p]) = Part(op.val, PartOf(p))
      BY <1>2, <1>9, <2>1, PartIsPart, DataIs, Zenon DEF Blocks
    <3> QED
      BY <1>5, <2>1, <3>1, Zenon
  <2>2. CASE ItemOf(p) # op.item
    BY <1>0, <1>5, <2>2, PageIsOf, Zenon DEF PagesIn
  <2> QED
    BY <2>1, <2>2, Zenon
<1>11. FillState' /\ CopyState' /\ SourceState'
  BY <1>3, Zenon DEF FillState, CopyState, SourceState
<1>12. ASSUME Calm PROVE Rest(blk, Cur', acked') /\ Shows(blk, Cur', acked')
  <2>1. AllClean(blk[1], Cur) /\ AllWhole(blk[1], Cur, acked)
    BY <1>0, <1>1, <1>12, Zenon DEF Safe, Calm
  <2>2. WholeIn(blk[1], op.item, Cur'[op.item])
    <3>1. \A p \in Own(op.item) : blk[1][p] = Part(op.val, PartOf(p))
      BY <1>9, Zenon DEF Own
    <3> QED
      BY <1>5, <3>1, Zenon DEF WholeIn
  <2>3. CleanIn(blk[1], op.item, Cur'[op.item])
    <3>1. \A p \in Own(op.item) : Data(blk[1][p]) = Part(op.val, PartOf(p))
      BY <1>2, <1>9, PartIsPart, DataIs, Zenon DEF Own
    <3> QED
      BY <1>5, <3>1, Zenon DEF CleanIn, HeldIn
  <2>4. AllClean(blk[1], Cur') /\ AllWhole(blk[1], Cur', acked')
    BY <1>4, <1>5, <2>1, <2>2, <2>3, Zenon DEF AllClean, AllWhole
  <2>5. Rest(blk, Cur', acked')
    BY <1>9, <2>4, Zenon DEF Rest, Blocks
  <2>6. ASSUME NEW i \in Items PROVE WholeIn(blk[0], i, Cur'[i]) \/ Blocked(blk, i)
    <3>1. CASE \A p \in Own(i) : blk[0][p] \in Parts
      BY <1>9, <2>4, <3>1, GoodIsWhole, Zenon DEF AllClean
    <3>2. CASE \E p \in Own(i) : blk[0][p] \notin Parts
      BY <1>9, <3>2, Zenon DEF Blocked, Own, Mirror
    <3> QED
      BY <3>1, <3>2, Zenon
  <2> QED
    BY <1>9, <2>4, <2>5, <2>6, Zenon DEF Shows
<1>13. Safe'
  BY <1>1, <1>3, <1>9, <1>12, Zenon DEF Safe, Calm
<1> QED
  BY <1>6, <1>7, <1>10, <1>11, <1>13, Zenon DEF SecStoInv
-----------------------------------------------------------------------------
(* The theorems *)

LEMMA StepKeeps == SecStoInv /\ [Next]_vars => SecStoInv'
<1> SUFFICES ASSUME SecStoInv, [Next]_vars PROVE SecStoInv'
  OBVIOUS
<1>1. CASE \E i \in Items : aw_spinand_secure_storage_read(i)
  BY <1>1, ReadKeeps, Zenon
<1>2. CASE \E i \in Items, v \in Values : aw_spinand_secure_storage_write(i, v)
  BY <1>2, WriteKeeps, Zenon
<1>3. CASE Step
  BY <1>3, NothingToDoKeeps, InitFailsKeeps, RepairsKeeps, FillEraseKeeps, FillPageKeeps,
     FilledKeeps, CopyEraseKeeps, CopyPageKeeps, CannotReadKeeps, RepairedKeeps, StoredKeeps, Zenon, Zenon
  DEF Step
<1>4. CASE PowerCut
  BY <1>4, PowerCutKeeps, Zenon
<1>5. CASE ChipFails
  BY <1>5, ChipFailsKeeps, Zenon
<1>6. CASE UNCHANGED vars
  <2>1. UNCHANGED <<chip, blk, init_end, op, pc, page, from, acked, unacked, cuts, fails, gapcut>>
    BY <1>6, Zenon DEF vars
  <2>2. Cur' = Cur /\ (InOrder' <=> InOrder)
    BY <2>1, SameCur, Zenon
  <2>3. TypeOK' /\ Control' /\ PagesIn(blk, Cur)'
    <3>1. TypeOK' /\ PagesIn(blk, Cur)'
      BY <2>1, <2>2, Zenon DEF SecStoInv, TypeOK
    <3>2. Control'
      BY <2>1 DEF SecStoInv, Control
    <3> QED
      BY <3>1, <3>2, Zenon
  <2>4. FillState' /\ CopyState' /\ SourceState' /\ Safe'
    <3>1. FillState' /\ CopyState' /\ SourceState'
      BY <2>1, ZenonT(40) DEF SecStoInv, FillState, CopyState, SourceState
    <3>2. Safe'
      <4>1. Calm' <=> Calm
        BY <2>1, Zenon DEF Calm
      <4>2. Safe
        BY Zenon DEF SecStoInv
      <4> QED
        BY <2>1, <2>2, <4>1, <4>2 DEF Safe
    <3> QED
      BY <3>1, <3>2, Zenon
  <2> QED
    BY <2>3, <2>4, Zenon DEF SecStoInv
<1> QED
  BY <1>1, <1>2, <1>3, <1>4, <1>5, <1>6, Zenon DEF Next

LEMMA InvAlways == Spec => []SecStoInv
  BY InitInv, StepKeeps, PTL DEF Spec

(* secure-storage.c never leaves the pages of the two blocks, and its loops  *)
(* count them: the state has its type.                                       *)
THEOREM SecStoTypes == Spec => []TypeOK
<1>1. SecStoInv => TypeOK
  BY Zenon DEF SecStoInv
<1> QED
  BY <1>1, InvAlways, PTL

LEMMA InvSurvives == SecStoInv => Survives
<1> SUFFICES ASSUME SecStoInv, Ready, Calm, NEW i \in Items, acked[i] # None PROVE ReadReturns0(i)
  BY Zenon DEF Survives
<1>1. WholeIn(blk[0], i, Cur[i]) /\ TypeOK
  BY Zenon DEF SecStoInv, Safe, Ready, Shows, AllWhole
<1>2. ASSUME NEW k \in 0 .. (PagesPerItem - 1) PROVE PageResult(PageOf(i, k)) = 0
  <2>1. PageOf(i, k) \in Own(i)
    BY PageOfItem, Zenon
  <2>2. blk[0][PageOf(i, k)] \in Parts
    BY <1>1, <2>1, WholeIsGood, Zenon DEF Blocks
  <2> QED
    BY <2>2, GoodIs, Zenon DEF PageResult
<1>3. PagesPerItem - 1 \in 0 .. (PagesPerItem - 1) /\ 0 # 1
  BY SecStoAssumption
<1> QED
  BY <1>2, <1>3 DEF ReadReturns0

(* An item aw_spinand_secure_storage_write has acknowledged can be read      *)
(* whenever the storage is ready, however often the power went, wherever it  *)
(* did and whatever the pages it tore read as afterwards, unless it cut a    *)
(* change short while a lower item had never been stored.                    *)
THEOREM AlwaysSurvives == Spec => []Survives
  BY InvSurvives, InvAlways, PTL

LEMMA InvCurrent == SecStoInv => ReadIsCurrent
<1> SUFFICES ASSUME SecStoInv, Ready, NEW i \in Items, ReadReturns0(i)
             PROVE  LET current == unacked[i] \cup {acked[i]}
                    IN  /\ \A k \in 0 .. (PagesPerItem - 1) :
                             \/ ShownPage(PageOf(i, k)) = Bad("ecc")
                             \/ \E v \in current : ShownPage(PageOf(i, k)) = Part(v, k)
                        /\ Calm => \E v \in current : Holds(i, v)
  BY Zenon DEF ReadIsCurrent
<1>1. Cur[i] = unacked[i] \cup {acked[i]}
  BY Zenon DEF SecStoInv, Control, Ready, Cur
<1>2. ASSUME NEW k \in 0 .. (PagesPerItem - 1)
      PROVE  \/ ShownPage(PageOf(i, k)) = Bad("ecc")
             \/ \E v \in Cur[i] : ShownPage(PageOf(i, k)) = Part(v, k)
  <2> DEFINE p == PageOf(i, k)
  <2>1. p \in Pages /\ ItemOf(p) = i /\ PartOf(p) = k
    BY PageOfItem, Zenon DEF Own
  <2>2. PagesIn(blk, Cur) /\ PageResult(p) # 1
    BY Zenon DEF SecStoInv, ReadReturns0
  <2> HIDE DEF p
  <2>3. ASSUME NEW b \in Blocks, ShownPage(p) = Data(blk[b][p]), Data(blk[b][p]) \in Parts
        PROVE  \E v \in Cur[i] : ShownPage(p) = Part(v, k)
    BY <2>1, <2>2, <2>3, Zenon DEF PagesIn
  <2>4. CASE ReadCheck(0, p) = 0
    <3>1. blk[0][p] \in Parts
      BY <2>4, GoodIs, Zenon
    <3>2. ShownPage(p) = Data(blk[0][p]) /\ Data(blk[0][p]) \in Parts
      BY <2>4, <3>1, DataIs, Zenon DEF ShownPage
    <3> QED
      BY <2>3, <3>2, Zenon DEF Blocks, p
  <2>5. CASE ReadCheck(0, p) # 0
    <3>1. ShownPage(p) = Data(blk[1][p]) /\ ReadCheck(1, p) # 1
      BY <2>2, <2>5, Zenon DEF ShownPage, PageResult
    <3>2. blk[1][p] \in Parts \/ blk[1][p] \in WeakParts \/ blk[1][p] = Bad("ecc")
      BY <3>1 DEF ReadCheck
    <3>3. Data(blk[1][p]) \in Parts \/ Data(blk[1][p]) = Bad("ecc")
      BY <3>2, DataIs, Zenon
    <3> QED
      BY <2>3, <3>1, <3>3, Zenon DEF Blocks, p
  <2> QED
    BY <2>4, <2>5, Zenon
<1>3. ASSUME Calm PROVE \E v \in Cur[i] : Holds(i, v)
  <2>0. TypeOK /\ Shows(blk, Cur, acked)
    BY <1>3, Zenon DEF SecStoInv, Safe, Ready
  <2>1. ~Blocked(blk, i)
    <3>1. ASSUME NEW p \in Own(i), blk[0][p] \notin Parts, blk[1][p] \notin Parts, Sound(blk[1][p])
          PROVE  FALSE
      <4>1. p \in Pages /\ ItemOf(p) = i
        BY Zenon DEF Own
      <4>2. PartOf(p) \in 0 .. (PagesPerItem - 1) /\ PageOf(i, PartOf(p)) = p
        BY <4>1, PageIsOf, Zenon
      <4>3. PageResult(p) # 1
        BY <4>2, Zenon DEF ReadReturns0
      <4>4. ReadCheck(0, p) # 0 /\ ReadCheck(1, p) # 0 /\ ReadCheck(1, p) \in {0, 1}
        BY <3>1, ReadCheckIs, Zenon
      <4> QED
        BY <4>3, <4>4, Zenon DEF PageResult
    <3>2. ASSUME blk[0][LastPage(i)] \notin Parts, blk[1][LastPage(i)] \notin Parts PROVE FALSE
      <4>1. ReadCheck(0, LastPage(i)) # 0 /\ ReadCheck(1, LastPage(i)) # 0
        BY <3>2, GoodIs, Zenon
      <4> QED
        BY <4>1, Zenon DEF ReadReturns0, PageResult, LastPage
    <3> QED
      BY <3>1, <3>2, Zenon DEF Blocked
  <2>2. WholeIn(blk[0], i, Cur[i])
    BY <2>0, <2>1, Zenon DEF Shows
  <2>3. PICK v \in Cur[i] : \A p \in Own(i) : blk[0][p] = Part(v, PartOf(p))
    BY <2>2, Zenon DEF WholeIn
  <2>4. \A p \in Own(i) : blk[0][p] \in Parts
    BY <2>0, <2>2, WholeIsGood, Zenon DEF Blocks
  <2>5. \A p \in Own(i) : ShownPage(p) = Part(v, PartOf(p))
    <3>1. \A p \in Own(i) : ReadCheck(0, p) = 0
      BY <2>4, GoodIs, Zenon
    <3> QED
      BY <2>3, <3>1, Zenon DEF ShownPage
  <2>6. Holds(i, v)
    BY <2>5, PageOfItem, Zenon DEF Holds
  <2> QED
    BY <2>6, Zenon
<1> QED
  BY <1>1, <1>2, <1>3, Zenon

(* What a read that returns 0 gives is, page by page, of the acknowledged    *)
(* value or of that of a later write which did not complete, or what the ECC *)
(* could not repair, even after operations of the chip have failed; and it   *)
(* is one value as a whole as long as none did and no change was cut short   *)
(* while a lower item had never been stored.                                 *)
THEOREM AlwaysCurrent == Spec => []ReadIsCurrent
  BY InvCurrent, InvAlways, PTL
=============================================================================
