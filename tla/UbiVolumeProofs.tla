--------------------------- MODULE UbiVolumeProofs ---------------------------
(***************************************************************************)
(* Theorems about UbiVolume, for every set of partitions, all their sizes, *)
(* every size of an erase block and of the buffer of filler.               *)
(* First the inductive invariant with the steps of the driver, then the    *)
(* steps of UBI.                                                           *)
(***************************************************************************)
EXTENDS UbiVolume, TLAPS

Item == Int

Types ==
  /\ marker \in [Vol -> BOOLEAN] /\ updating \in [Vol -> BOOLEAN]
  /\ clean \in [Vol -> BOOLEAN] /\ failed \in BOOLEAN
  /\ content \in [Vol -> Seq(Item)]
  /\ got \in [Vol -> Nat] /\ want \in [Vol -> Nat]
  /\ sent \in [Vol -> Nat]
  /\ upd_marker \in [Vol -> BOOLEAN] /\ written \in [Vol -> Nat]
  /\ twin \in [Vol -> Vol \cup {NoVol}]
  /\ last_partno \in Vol \cup {NoVol} /\ last_offset \in Nat
  /\ last_partno \in Vol => last_offset > 0
  /\ last_name = last_partno
  /\ pc \in {"idle", "fill", "main", "start", "wipe", "more", "clear", "dead"}
  /\ pad \in Nat /\ ff \in Nat
  /\ \A v \in Vol : got[v] <= want[v] /\ want[v] \in {0, Sects[v]}

InUbi     == pc \in {"start", "wipe", "more", "clear"}
SendsData == InUbi /\ buf.off # -1
SendsFill == InUbi /\ buf.off = -1
Filling   == pc = "fill" \/ SendsFill

(* The call being served: fill_gap runs for the partition written last, a    *)
(* write is served for its own.                                              *)
Calls ==
  /\ InUbi \/ pc = "dead" => V = last_partno
  /\ InUbi \/ pc \in {"fill", "dead"} => last_partno \in Vol
  /\ InUbi => buf.n \in Int /\ buf.off \in Int
  /\ SendsFill => pc \in {"more", "clear"}
  /\ pc \in {"fill", "main"} \/ InUbi =>
       /\ call.op \in {"write", "read", "end"}
       /\ call.op = "write" =>
            /\ call.vol \in Vol /\ call.n \in Nat \ {0} /\ call.off \in Nat
            /\ call.off + call.n <= Sects[call.vol]
            /\ Filling => call.vol # last_partno /\ call.off = 0
            /\ call.vol # last_partno => written[call.vol] = 0
            /\ pc = "main" => call.off = IF call.vol = last_partno THEN last_offset ELSE 0
  /\ SendsData => /\ call.op = "write" /\ call.vol = last_partno /\ buf.off = call.off
                  /\ last_offset = call.off + call.n
  /\ pc \in {"start", "wipe"} => buf.off = 0 /\ buf.n = call.n /\ written[last_partno] = call.n

(* The two loops of fill_gap get to the end of the partition. *)
FillsUp == Filling => written[last_partno] + (pad + ff) >= Sects[last_partno]

(* A volume that is not being written, or not yet. *)
Closed(v) == clean[v] => /\ ~updating[v]
                         /\ ~marker[v] => content[v] = Whole(sent[v], Sects[v])
Others == \A v \in Vol : v # last_partno \/ pc \in {"start", "dead"} => Closed(v)

(* Only a failure leaves a volume half updated behind. *)
OthersDone == \A v \in Vol : v # last_partno /\ updating[v] => failed

(* While a volume is updated its marker is set, in memory and on the flash.  *)
Marked == \A v \in Vol : clean[v] => /\ upd_marker[v] = marker[v]
                                     /\ updating[v] => marker[v]

Sound(v) == clean[v] \/ ~failed
Reached(v) == IF written[v] < Sects[v] THEN written[v] ELSE Sects[v]

(* The volume being written: what it has got so far, against what the driver *)
(* counts as written.                                                        *)
Progress(v) ==
  /\ pc \in {"idle", "fill", "main", "more", "clear"} =>
       /\ Sound(v) => want[v] = Sects[v]
       /\ Sound(v) /\ pc # "clear" => (updating[v] <=> got[v] < Sects[v])
       /\ clean[v] => sent[v] <= got[v] /\ content[v] = Whole(sent[v], got[v])
  /\ pc \in {"idle", "fill", "main"} => /\ Sound(v) => got[v] >= Reached(v)
                                        /\ clean[v] => got[v] = Reached(v)
  /\ pc = "idle" /\ clean[v] /\ updating[v] =>
       sent[v] = got[v] /\ written[v] = got[v] /\ last_offset = got[v]
  /\ pc = "main" => IF call.op = "write" /\ call.vol = v
                    THEN clean[v] => /\ updating[v] /\ sent[v] = got[v]
                                     /\ written[v] = got[v] /\ last_offset = got[v]
                    ELSE Sound(v) => ~updating[v]
  /\ pc = "wipe" => updating[v] /\ sent[v] = 0
  /\ pc = "more" =>
       /\ Sound(v) => got[v] = Sects[v] \/ got[v] + buf.n >= Reached(v)
       /\ clean[v] => \/ got[v] < Sects[v] /\ buf.n > 0 /\ got[v] + buf.n = Reached(v)
                      \/ got[v] = Sects[v] /\ buf.n <= 0 /\ written[v] >= Sects[v]
       /\ clean[v] /\ SendsData => /\ updating[v] /\ sent[v] = got[v] /\ buf.off = got[v]
                                   /\ buf.n = call.n
  /\ pc = "clear" => /\ Sound(v) => got[v] = Sects[v]
                     /\ clean[v] => written[v] >= Sects[v]
                     /\ clean[v] /\ SendsData => sent[v] = got[v]

Current == last_partno \in Vol => Progress(last_partno)

UbiInv == Types /\ Calls /\ FillsUp /\ Others /\ OthersDone /\ Marked /\ Current
-----------------------------------------------------------------------------

LEMMA MaxTwo == \A x, y \in Int : Max({x, y}) = IF x >= y THEN x ELSE y
<1> TAKE x, y \in Int
<1> DEFINE m == IF x >= y THEN x ELSE y
<1>1. m \in {x, y} /\ \A z \in {x, y} : m >= z
  OBVIOUS
<1>2. \A n \in {x, y} : (\A z \in {x, y} : n >= z) => n = m
  OBVIOUS
<1> QED
  BY <1>1, <1>2, Zenon DEF Max

LEMMA MinTwo == \A x, y \in Int : Min({x, y}) = IF x <= y THEN x ELSE y
<1> TAKE x, y \in Int
<1> DEFINE m == IF x <= y THEN x ELSE y
<1>1. m \in {x, y} /\ \A z \in {x, y} : m <= z
  OBVIOUS
<1>2. \A n \in {x, y} : (\A z \in {x, y} : n <= z) => n = m
  OBVIOUS
<1> QED
  BY <1>1, <1>2, Zenon DEF Min

LEMMA RemainType == \A w \in Nat : Remain(w) \in Nat
<1> TAKE w \in Nat
<1>1. LebSects \in Nat /\ LebSects > 0
  BY UbiAssumption
<1>2. w % LebSects \in 0 .. (LebSects - 1)
  BY <1>1
<1> DEFINE r == LebSects - (w % LebSects)
<1>3. r \in Nat
  BY <1>1, <1>2
<1> HIDE DEF r
<1>4. r % LebSects \in Nat
  BY <1>1, <1>3
<1> QED
  BY <1>4, Zenon DEF Remain, r

LEMMA RemainOfType ==
  ASSUME Types, NEW w \in [Vol -> Nat], NEW v \in Vol
  PROVE  RemainOf(w, v) \in Nat
<1>1. twin[v] # NoVol => w[twin[v]] \in Nat
  BY Zenon DEF Types
<1>2. 0 \in Nat
  OBVIOUS
<1> QED
  BY <1>1, <1>2, RemainType, Zenon DEF RemainOf

(* fill_gap either has nothing to do, or sets up its loops so that they get  *)
(* to the end of the partition.                                              *)
LEMMA FillGap ==
  ASSUME Types, NEW w \in [Vol -> Nat], fill_gap(w)
  PROVE  \/ /\ pc' = "fill" /\ last_partno \in Vol
            /\ pad' \in Nat /\ ff' \in Nat /\ w[last_partno] + (pad' + ff') >= Sects[last_partno]
         \/ /\ pc' = "main" /\ UNCHANGED loops
            /\ last_partno \in Vol => w[last_partno] = Sects[last_partno]
<1>1. CASE last_partno \in Vol
  <2> PICK v \in Vol : v = last_partno
    BY <1>1, Zenon
  <2> DEFINE r == RemainOf(w, v)
             g == Gap(w, v)
  <2>1. w[v] \in Nat /\ Sects[v] \in Nat /\ v # NoVol
    BY UbiAssumption, Zenon
  <2>2. r \in Nat
    BY RemainOfType, Zenon
  <2>3. g = Sects[v] - w[v]
    BY Zenon DEF Gap
  <2>4. IF g # 0 THEN pc' = "fill" /\ pad' = r /\ ff' = Max({0, g - r})
        ELSE pc' = "main" /\ UNCHANGED loops
    BY <2>1, Zenon DEF fill_gap
  <2> HIDE DEF r, g
  <2>5. g - r \in Int
    BY <2>1, <2>2, <2>3
  <2>6. Max({0, g - r}) = IF 0 >= g - r THEN 0 ELSE g - r
    BY <2>5, MaxTwo
  <2>7. CASE g # 0
    BY <2>1, <2>2, <2>3, <2>4, <2>6, <2>7
  <2>8. CASE g = 0
    BY <2>1, <2>3, <2>4, <2>8
  <2> QED
    BY <2>7, <2>8, Zenon
<1>2. CASE last_partno \notin Vol
  BY <1>2, Zenon DEF fill_gap, Types
<1> QED
  BY <1>1, <1>2, Zenon

LEMMA WholeType ==
  ASSUME NEW n \in Nat, NEW size \in Nat
  PROVE  Whole(n, size) \in Seq(Item) /\ Len(Whole(n, size)) = size
<1>1. Whole(n, size) \in [1 .. size -> Item]
  BY DEF Whole, Fill, Item
<1> QED
  BY <1>1

LEMMA InitInv == Init => UbiInv
<1> SUFFICES ASSUME Init PROVE UbiInv
  OBVIOUS
<1>1. content \in [Vol -> Seq(Item)]
  BY WholeType, UbiAssumption, Zenon DEF Init
<1>2. /\ sent \in [Vol -> Nat] /\ clean \in [Vol -> BOOLEAN]
      /\ marker \in [Vol -> BOOLEAN] /\ updating \in [Vol -> BOOLEAN]
  BY UbiAssumption DEF Init
<1>3. /\ got \in [Vol -> Nat] /\ want \in [Vol -> Nat]
      /\ \A v \in Vol : got[v] <= want[v] /\ want[v] \in {0, Sects[v]}
  BY DEF Init
<1>a. /\ upd_marker \in [Vol -> BOOLEAN] /\ written \in [Vol -> Nat]
      /\ twin \in [Vol -> Vol \cup {NoVol}]
  BY <1>2, UbiAssumption DEF Init
<1>4. Types
  BY <1>1, <1>2, <1>3, <1>a, UbiAssumption, Zenon DEF Init, Types
<1>5. Calls /\ FillsUp
  BY Zenon DEF Init, Calls, FillsUp, Filling, InUbi, SendsData, SendsFill
<1>6. Others /\ OthersDone /\ Marked
  BY Zenon DEF Init, Others, Closed, OthersDone, Marked
<1>7. Current
  BY UbiAssumption, Zenon DEF Init, Current
<1> QED
  BY <1>4, <1>5, <1>6, <1>7, Zenon DEF UbiInv

(* What the invariant says of the volume written last. *)
LEMMA TypesAt ==
  ASSUME Types, NEW v \in Vol
  PROVE  /\ got[v] \in Nat /\ want[v] \in Nat /\ got[v] <= want[v] /\ sent[v] \in Nat
         /\ written[v] \in Nat /\ Sects[v] \in Nat \ {0}
BY UbiAssumption, Zenon DEF Types

LEMMA ReachedType ==
  ASSUME Types, NEW v \in Vol
  PROVE  Reached(v) \in Nat /\ (written[v] >= Sects[v] => Reached(v) = Sects[v])
BY TypesAt DEF Reached

LEMMA IdleProgress ==
  ASSUME Progress(last_partno), pc = "idle", NEW v \in Vol, v = last_partno
  PROVE  /\ Sound(v) => /\ want[v] = Sects[v] /\ got[v] >= Reached(v)
                        /\ updating[v] <=> got[v] < Sects[v]
         /\ clean[v] => /\ sent[v] <= got[v] /\ content[v] = Whole(sent[v], got[v])
                        /\ got[v] = Reached(v)
         /\ clean[v] /\ updating[v] =>
              sent[v] = got[v] /\ written[v] = got[v] /\ last_offset = got[v]
BY Zenon DEF Progress

(* A power cut: what was being updated has its marker set. *)
LEMMA PowerCutKeeps == UbiInv /\ PowerCut => UbiInv'
<1> SUFFICES ASSUME UbiInv, PowerCut PROVE UbiInv'
  OBVIOUS
<1>0. Types /\ Others /\ Marked /\ Current
  BY Zenon DEF UbiInv
<1>1. /\ updating' = [v \in Vol |-> FALSE]
      /\ got' = [v \in Vol |-> 0] /\ want' = [v \in Vol |-> 0]
      /\ last_partno' = NoVol /\ last_offset' = 0 /\ last_name' = NoVol
      /\ written' = [v \in Vol |-> 0] /\ upd_marker' = marker /\ twin' = twin
      /\ pc' = "idle" /\ pad' = 0 /\ ff' = 0 /\ failed' = FALSE
      /\ marker' = marker /\ content' = content /\ sent' = sent /\ clean' = clean
  BY Zenon DEF PowerCut, Idle, flash
<1>2. Types'
  <2>1. updating' \in [Vol -> BOOLEAN]
    BY <1>1, Zenon
  <2>2. /\ got' \in [Vol -> Nat] /\ want' \in [Vol -> Nat]
        /\ \A v \in Vol : got'[v] <= want'[v] /\ want'[v] \in {0, Sects[v]}
        /\ written' \in [Vol -> Nat]
    BY <1>1
  <2> QED
    BY <1>0, <1>1, <2>1, <2>2, UbiAssumption, Zenon DEF Types
<1>3. Calls' /\ FillsUp'
  BY <1>1, Zenon DEF Calls, FillsUp, Filling, InUbi, SendsData, SendsFill
<1>4. OthersDone' /\ Marked' /\ Current'
  BY <1>1, UbiAssumption, Zenon DEF OthersDone, Marked, Current
<1>5. ASSUME NEW v \in Vol
      PROVE  clean[v] /\ ~marker[v] => content[v] = Whole(sent[v], Sects[v])
  <2>1. CASE v # last_partno \/ pc \in {"start", "dead"}
    BY <1>0, <2>1, Zenon DEF Others, Closed
  <2>2. CASE v = last_partno /\ pc \notin {"start", "dead"}
    <3>1. clean[v] /\ ~marker[v] => ~updating[v]
      BY <1>0, Zenon DEF Marked
    <3>2. Progress(v) /\ pc # "start" /\ pc # "dead"
      BY <1>0, <2>2, Zenon DEF Current
    <3>3. clean[v] /\ ~updating[v] =>
            got[v] >= Sects[v] /\ want[v] = Sects[v]
            /\ content[v] = Whole(sent[v], got[v])
      <4>1. pc \in {"idle", "fill", "main", "wipe", "more", "clear"}
        BY <1>0, <3>2, Zenon DEF Types
      <4> QED
        BY <1>0, <3>2, <4>1, TypesAt DEF Progress, Sound
    <3> QED
      BY <1>0, <3>1, <3>3, TypesAt
  <2> QED
    BY <2>1, <2>2, Zenon
<1>6. Others'
  BY <1>1, <1>5, Zenon DEF Others, Closed
<1> QED
  BY <1>2, <1>3, <1>4, <1>6, Zenon DEF UbiInv

LEMMA SpoilTypes ==
  ASSUME Types, NEW v \in Vol, Spoil(v)
  PROVE  /\ clean' \in [Vol -> BOOLEAN] /\ content' \in [Vol -> Seq(Item)]
         /\ sent' \in [Vol -> Nat] /\ ~clean'[v]
         /\ \A u \in Vol : u # v =>
              clean'[u] = clean[u] /\ content'[u] = content[u] /\ sent'[u] = sent[u]
<1>1. <<>> \in Seq(Item)
  OBVIOUS
<1> QED
  BY <1>1, Zenon DEF Types, Spoil

LEMMA MaySpoil ==
  ASSUME Types, NEW v \in Vol, Spoil(v) \/ Keep
  PROVE  /\ clean' \in [Vol -> BOOLEAN] /\ content' \in [Vol -> Seq(Item)]
         /\ sent' \in [Vol -> Nat]
         /\ \A u \in Vol : clean'[u] => clean[u] /\ content'[u] = content[u] /\ sent'[u] = sent[u]
BY SpoilTypes, Zenon DEF Types, Keep

(* What is kept by a step that may spoil an image and changes nothing else   *)
(* on the flash or in UBI.                                                   *)
LEMMA SpoilKeeps ==
  ASSUME UbiInv, NEW v \in Vol, Spoil(v) \/ Keep,
         UNCHANGED <<marker, updating, got, want, upd_marker, failed, last_partno>>,
         pc' \notin {"start", "dead"}
  PROVE  Others' /\ OthersDone' /\ Marked'
<1>0. Types /\ Others /\ OthersDone /\ Marked
  BY Zenon DEF UbiInv
<1>1. \A u \in Vol : clean'[u] => clean[u] /\ content'[u] = content[u] /\ sent'[u] = sent[u]
  BY <1>0, MaySpoil, Zenon
<1>2. Others'
  BY <1>0, <1>1, Zenon DEF Others, Closed
<1>3. OthersDone' /\ Marked'
  BY <1>0, <1>1, Zenon DEF OthersDone, Marked
<1> QED
  BY <1>2, <1>3, Zenon

LEMMA WriteCallKeeps ==
  ASSUME UbiInv, NEW v \in Vol, NEW n \in 1 .. MaxSects, NEW off \in 0 .. Sects[v] - 1,
         spinand_mtd_write_ubi(v, off, n)
  PROVE  UbiInv'
<1>0. Types /\ Calls /\ FillsUp /\ Others /\ OthersDone /\ Marked /\ Current
  BY Zenon DEF UbiInv
<1>1. off \in Nat /\ n \in Nat \ {0} /\ off + n <= Sects[v]
      /\ off = IF v = last_partno THEN last_offset ELSE 0
  BY UbiAssumption DEF spinand_mtd_write_ubi, InOrder
<1>2. /\ pc = "idle" /\ call' = [op |-> "write", vol |-> v, off |-> off, n |-> n]
      /\ IF v = last_partno THEN pc' = "main" /\ UNCHANGED loops ELSE fill_gap(written')
      /\ IF FilledEarly(v) THEN Spoil(v) ELSE Keep
      /\ UNCHANGED <<marker, updating, got, want, upd_marker, failed, buf>>
      /\ UNCHANGED <<last_partno, last_offset, last_name, twin>>
  BY Zenon DEF spinand_mtd_write_ubi, Called, ubi
<1>a. /\ written' \in [Vol -> Nat]
      /\ v # last_partno => written'[v] = 0
      /\ last_partno \in Vol => written'[last_partno] = written[last_partno]
  <2>1. written' = IF off = 0 THEN [written EXCEPT ![v] = 0] ELSE written
    BY Zenon DEF spinand_mtd_write_ubi, Restart
  <2>2. v = last_partno => off # 0
    BY <1>0, <1>1 DEF Types
  <2>3. written \in [Vol -> Nat] /\ 0 \in Nat
    BY <1>0, Zenon DEF Types
  <2> QED
    BY <1>1, <2>1, <2>2, <2>3, Zenon
<1>3. /\ clean' \in [Vol -> BOOLEAN] /\ content' \in [Vol -> Seq(Item)] /\ sent' \in [Vol -> Nat]
      /\ \A u \in Vol : clean'[u] => clean[u] /\ content'[u] = content[u] /\ sent'[u] = sent[u]
  BY <1>0, <1>2, MaySpoil, Zenon
<1>4. \/ /\ v # last_partno /\ pc' = "fill" /\ last_partno \in Vol
         /\ pad' \in Nat /\ ff' \in Nat /\ written[last_partno] + (pad' + ff') >= Sects[last_partno]
      \/ /\ v # last_partno /\ pc' = "main" /\ UNCHANGED loops
         /\ last_partno \in Vol => written[last_partno] = Sects[last_partno]
      \/ v = last_partno /\ pc' = "main" /\ UNCHANGED loops
  BY <1>0, <1>2, <1>a, FillGap, Zenon
<1>5. Types'
  BY <1>0, <1>2, <1>3, <1>4, <1>a, Zenon DEF Types, loops
<1>6. Calls'
  BY <1>1, <1>2, <1>4, <1>a, Zenon DEF Calls, Filling, InUbi, SendsData, SendsFill
<1>7. FillsUp'
  BY <1>2, <1>4, <1>a, Zenon DEF FillsUp, Filling, SendsFill, InUbi
<1>8. Others' /\ OthersDone' /\ Marked'
  BY <1>2, <1>4, SpoilKeeps, Zenon
<1>9. ASSUME last_partno \in Vol PROVE Progress(last_partno)'
  <2> PICK u \in Vol : u = last_partno
    BY <1>9, Zenon
  <2>1. /\ Sound(u) => /\ want[u] = Sects[u] /\ got[u] >= Reached(u)
                       /\ updating[u] <=> got[u] < Sects[u]
        /\ clean[u] => /\ sent[u] <= got[u] /\ content[u] = Whole(sent[u], got[u])
                       /\ got[u] = Reached(u)
        /\ clean[u] /\ updating[u] =>
             sent[u] = got[u] /\ written[u] = got[u] /\ last_offset = got[u]
    BY <1>0, <1>2, IdleProgress, Zenon DEF Current
  <2>2. /\ Sound(u)' => Sound(u)
        /\ written'[u] = written[u] /\ pc' \in {"fill", "main"} /\ call'.op = "write" /\ call'.vol = v
    BY <1>2, <1>3, <1>4, <1>a, Zenon DEF Sound
  <2>3. Reached(u)' = Reached(u)
    BY <2>2, Zenon DEF Reached
  <2>4. v = u /\ clean'[u] => updating[u]
    BY <1>0, <1>2, SpoilTypes, Zenon DEF FilledEarly, Types
  <2>5. v # u /\ pc' = "main" /\ Sound(u) => ~updating[u]
    BY <1>0, <1>4, <2>1, TypesAt, ReachedType
  <2>6. Progress(u)'
    BY <1>2, <1>3, <2>1, <2>2, <2>3, <2>4, <2>5, Zenon DEF Progress
  <2> QED
    BY <1>2, <2>6, Zenon
<1>10. Current'
  BY <1>2, <1>9, Zenon DEF Current
<1> QED
  BY <1>5, <1>6, <1>7, <1>8, <1>10, Zenon DEF UbiInv

LEMMA WriteOutOfOrderKeeps ==
  ASSUME UbiInv, NEW v \in Vol, NEW n \in 1 .. MaxSects, NEW off \in 0 .. Sects[v] - 1,
         WriteOutOfOrder(v, off, n)
  PROVE  UbiInv'
<1>0. Types /\ Calls /\ FillsUp /\ Current
  BY Zenon DEF UbiInv
<1>1. /\ pc = "idle" /\ pc' = "idle"
      /\ v = last_partno
      /\ (written' = [written EXCEPT ![v] = 0] /\ Spoil(v)) \/ (written' = written /\ Keep)
      /\ UNCHANGED <<marker, updating, got, want, upd_marker, failed, buf, pad, ff>>
      /\ UNCHANGED <<last_partno, last_offset, last_name, twin>>
  BY Zenon DEF WriteOutOfOrder, Restart, ubi, loops
<1>2. /\ clean' \in [Vol -> BOOLEAN] /\ content' \in [Vol -> Seq(Item)] /\ sent' \in [Vol -> Nat]
      /\ \A u \in Vol : clean'[u] => clean[u] /\ content'[u] = content[u] /\ sent'[u] = sent[u]
  BY <1>0, <1>1, MaySpoil, Zenon
<1>3. Types'
  <2>1. written' \in [Vol -> Nat]
    <3>1. written \in [Vol -> Nat] /\ 0 \in Nat
      BY <1>0, Zenon DEF Types
    <3> QED
      BY <1>1, <3>1, Zenon
  <2> QED
    BY <1>0, <1>1, <1>2, <2>1, Zenon DEF Types
<1>4. Calls' /\ FillsUp'
  BY <1>1, Zenon DEF Calls, FillsUp, Filling, InUbi, SendsData, SendsFill
<1>5. Others' /\ OthersDone' /\ Marked'
  BY <1>1, SpoilKeeps, Zenon
<1>6. ASSUME last_partno \in Vol PROVE Progress(last_partno)'
  <2> PICK u \in Vol : u = last_partno
    BY <1>6, Zenon
  <2>1. /\ Sound(u) => /\ want[u] = Sects[u] /\ got[u] >= Reached(u)
                       /\ updating[u] <=> got[u] < Sects[u]
        /\ clean[u] => /\ sent[u] <= got[u] /\ content[u] = Whole(sent[u], got[u])
                       /\ got[u] = Reached(u)
        /\ clean[u] /\ updating[u] =>
             sent[u] = got[u] /\ written[u] = got[u] /\ last_offset = got[u]
    BY <1>0, <1>1, IdleProgress, Zenon DEF Current
  <2>2. /\ got[u] \in Nat /\ Sects[u] \in Nat
        /\ Sound(u)' => Sound(u)
    BY <1>0, <1>1, <1>2, TypesAt, Zenon DEF Sound
  <2>3. CASE written' = [written EXCEPT ![v] = 0] /\ Spoil(v)
    <3>1. ~clean'[u] /\ written'[u] = 0
      BY <1>0, <1>1, <2>3, SpoilTypes, Zenon DEF Types
    <3>2. Reached(u)' = 0
      BY <3>1, UbiAssumption DEF Reached
    <3> QED
      BY <1>1, <2>1, <2>2, <3>1, <3>2 DEF Progress
  <2>4. CASE written' = written /\ Keep
    <3>1. Reached(u)' = Reached(u)
      BY <2>4, Zenon DEF Reached
    <3> QED
      BY <1>1, <1>2, <2>1, <2>2, <2>4, <3>1, Zenon DEF Progress
  <2> QED
    BY <1>1, <2>3, <2>4, Zenon
<1>7. Current'
  BY <1>1, <1>6, Zenon DEF Current
<1> QED
  BY <1>3, <1>4, <1>5, <1>7, Zenon DEF UbiInv

(* What is kept by a step that changes nothing on the flash or in UBI. *)
LEMMA QuietKeeps ==
  ASSUME UbiInv, UNCHANGED <<flash, ubi, ghosts, last_partno>>, pc' \notin {"start", "dead"}
  PROVE  Others' /\ OthersDone' /\ Marked'
<1>1. /\ UNCHANGED <<content, marker, updating, clean, upd_marker, sent, failed, last_partno>>
      /\ Others /\ OthersDone /\ Marked
  BY Zenon DEF UbiInv, flash, ubi, ghosts
<1> QED
  BY <1>1, Zenon DEF Others, Closed, OthersDone, Marked

(* A read of the partition written last, and write_end, only fill it up. *)
LEMMA FillCallKeeps ==
  ASSUME UbiInv, pc = "idle", fill_gap(written), UNCHANGED <<flash, ubi, driver, buf, ghosts>>,
         call'.op \in {"read", "end"}
  PROVE  UbiInv'
<1>0. Types /\ Current
  BY Zenon DEF UbiInv
<1>1. /\ UNCHANGED <<content, marker, updating, got, want, clean, upd_marker, sent, failed>>
      /\ UNCHANGED <<last_partno, last_offset, last_name, written, twin>>
  BY Zenon DEF flash, ubi, driver, ghosts
<1>2. \/ /\ pc' = "fill" /\ last_partno \in Vol
         /\ pad' \in Nat /\ ff' \in Nat /\ written[last_partno] + (pad' + ff') >= Sects[last_partno]
      \/ /\ pc' = "main" /\ UNCHANGED loops
         /\ last_partno \in Vol => written[last_partno] = Sects[last_partno]
  BY <1>0, FillGap, Zenon DEF Types
<1>3. Types'
  BY <1>0, <1>1, <1>2, Zenon DEF Types, loops
<1>4. Calls'
  BY <1>1, <1>2, Zenon DEF Calls, Filling, InUbi, SendsData, SendsFill
<1>5. FillsUp'
  BY <1>1, <1>2, Zenon DEF FillsUp, Filling, SendsFill, InUbi
<1>6. Others' /\ OthersDone' /\ Marked'
  BY <1>1, <1>2, QuietKeeps, Zenon
<1>7. ASSUME last_partno \in Vol PROVE Progress(last_partno)'
  <2> PICK u \in Vol : u = last_partno
    BY <1>7, Zenon
  <2>1. /\ Sound(u) => /\ want[u] = Sects[u] /\ got[u] >= Reached(u)
                       /\ updating[u] <=> got[u] < Sects[u]
        /\ clean[u] => /\ sent[u] <= got[u] /\ content[u] = Whole(sent[u], got[u])
                       /\ got[u] = Reached(u)
    BY <1>0, IdleProgress, Zenon DEF Current
  <2>2. Sound(u)' = Sound(u) /\ Reached(u)' = Reached(u)
    BY <1>1, Zenon DEF Sound, Reached
  <2>3. pc' = "main" /\ Sound(u) => ~updating[u]
    BY <1>0, <1>2, <2>1, TypesAt, ReachedType
  <2>4. Progress(u)'
    BY <1>1, <1>2, <2>1, <2>2, <2>3, Zenon DEF Progress
  <2> QED
    BY <1>1, <2>4, Zenon
<1>8. Current'
  BY <1>1, <1>7, Zenon DEF Current
<1> QED
  BY <1>3, <1>4, <1>5, <1>6, <1>8, Zenon DEF UbiInv

LEMMA FillDoneKeeps == UbiInv /\ FillDone => UbiInv'
<1> SUFFICES ASSUME UbiInv, FillDone PROVE UbiInv'
  OBVIOUS
<1>0. Types /\ Calls /\ FillsUp /\ Current
  BY Zenon DEF UbiInv
<1>1. /\ pc = "fill" /\ pad = 0 /\ ff = 0 /\ pc' = "main"
      /\ UNCHANGED <<content, marker, updating, got, want, clean, upd_marker, sent, failed>>
      /\ UNCHANGED <<last_partno, last_offset, last_name, written, twin, call, buf, pad, ff>>
      /\ UNCHANGED <<flash, ubi, ghosts>>
  BY Zenon DEF FillDone, flash, ubi, driver, loops, ghosts
<1> PICK u \in Vol : u = last_partno
  BY <1>0, <1>1, Zenon DEF Calls
<1>2. /\ written[u] \in Nat /\ Sects[u] \in Nat /\ got[u] \in Nat /\ got[u] <= want[u]
      /\ written[u] >= Sects[u]
  BY <1>0, <1>1, TypesAt DEF FillsUp, Filling
<1>3. Types'
  BY <1>0, <1>1, Zenon DEF Types
<1>4. Calls' /\ FillsUp'
  BY <1>0, <1>1, Zenon DEF Calls, FillsUp, Filling, InUbi, SendsData, SendsFill
<1>5. Others' /\ OthersDone' /\ Marked'
  BY <1>1, QuietKeeps, Zenon
<1>6. Current'
  <2>1. /\ Sound(u) => /\ want[u] = Sects[u] /\ got[u] >= Reached(u)
                       /\ updating[u] <=> got[u] < Sects[u]
        /\ clean[u] => /\ sent[u] <= got[u] /\ content[u] = Whole(sent[u], got[u])
                       /\ got[u] = Reached(u)
    BY <1>0, <1>1, Zenon DEF Current, Progress
  <2>2. /\ Sound(u)' = Sound(u) /\ Reached(u)' = Reached(u) /\ Reached(u) = Sects[u]
    BY <1>1, <1>2 DEF Sound, Reached
  <2>3. Sound(u) => ~updating[u]
    BY <1>2, <2>1, <2>2
  <2>4. ~(call.op = "write" /\ call.vol = u)
    BY <1>0, <1>1, Zenon DEF Calls, Filling
  <2>5. Progress(u)'
    BY <1>1, <2>1, <2>2, <2>3, <2>4, Zenon DEF Progress
  <2> QED
    BY <1>1, <2>5, Zenon DEF Current
<1> QED
  BY <1>3, <1>4, <1>5, <1>6, Zenon DEF UbiInv

LEMMA ReadEndKeeps == UbiInv /\ (ReadMain \/ EndMain) => UbiInv'
<1> SUFFICES ASSUME UbiInv, ReadMain \/ EndMain PROVE UbiInv'
  OBVIOUS
<1>0. Types /\ Calls /\ Others /\ OthersDone /\ Marked /\ Current
  BY Zenon DEF UbiInv
<1>1. /\ pc = "main" /\ call.op # "write" /\ pc' = "idle" /\ pad' = 0 /\ ff' = 0
      /\ UNCHANGED <<content, marker, updating, got, want, clean, upd_marker, sent, failed>>
      /\ UNCHANGED <<written, twin>>
      /\ \/ UNCHANGED <<last_partno, last_offset, last_name>>
         \/ last_partno' = NoVol /\ last_name' = NoVol /\ last_offset' = 0
  BY Zenon DEF ReadMain, EndMain, Idle, flash, ubi, driver, ghosts
<1>2. Types'
  BY <1>0, <1>1, UbiAssumption DEF Types
<1>3. Calls' /\ FillsUp'
  BY <1>1, Zenon DEF Calls, FillsUp, Filling, InUbi, SendsData, SendsFill
<1>4. ASSUME NEW u \in Vol, u = last_partno
      PROVE  /\ Sound(u) => /\ want[u] = Sects[u] /\ got[u] >= Reached(u) /\ ~updating[u]
                            /\ got[u] >= Sects[u]
             /\ clean[u] => /\ sent[u] <= got[u] /\ got[u] = Reached(u)
                            /\ content[u] = Whole(sent[u], got[u])
  <2>1. Progress(u) /\ got[u] \in Nat /\ Sects[u] \in Nat
    BY <1>0, <1>4, TypesAt, Zenon DEF Current
  <2> QED
    BY <1>1, <2>1 DEF Progress
<1>5. OthersDone' /\ Marked'
  <2>1. \A u \in Vol : updating[u] => failed \/ u = last_partno
    BY <1>0, Zenon DEF OthersDone
  <2>2. last_partno \in Vol /\ updating[last_partno] => failed
    BY <1>4, Zenon DEF Sound
  <2> QED
    BY <1>0, <1>1, <2>1, <2>2, Zenon DEF OthersDone, Marked
<1>6. \A u \in Vol : Closed(u)
  <2> TAKE u \in Vol
  <2>1. CASE u # last_partno
    BY <1>0, <2>1, Zenon DEF Others
  <2>2. CASE u = last_partno
    <3>1. got[u] \in Nat /\ Sects[u] \in Nat /\ got[u] <= want[u]
      BY <1>0, TypesAt, Zenon
    <3> QED
      BY <1>4, <2>2, <3>1 DEF Closed, Sound
  <2> QED
    BY <2>1, <2>2, Zenon
<1>7. Others'
  BY <1>1, <1>6, Zenon DEF Others, Closed
<1>8. Current'
  <2>1. CASE last_partno' = NoVol
    BY <2>1, UbiAssumption, Zenon DEF Current
  <2>2. CASE UNCHANGED <<last_partno, last_offset, last_name>> /\ last_partno \in Vol
    <3> PICK u \in Vol : u = last_partno
      BY <2>2, Zenon
    <3>1. Sound(u)' = Sound(u) /\ Reached(u)' = Reached(u)
      BY <1>1, <2>2, Zenon DEF Sound, Reached
    <3>2. Sound(u) => ~(got[u] < Sects[u])
      BY <1>0, <1>4, TypesAt
    <3>3. clean[u] => ~updating[u]
      BY <1>4, Zenon DEF Sound
    <3>4. Progress(u)'
      BY <1>1, <1>4, <3>1, <3>2, <3>3, Zenon DEF Progress
    <3> QED
      BY <2>2, <3>4, Zenon DEF Current
  <2>3. CASE UNCHANGED last_partno /\ last_partno \notin Vol
    BY <2>3, Zenon DEF Current
  <2> QED
    BY <1>1, <2>1, <2>2, <2>3, Zenon
<1> QED
  BY <1>2, <1>3, <1>5, <1>7, <1>8, Zenon DEF UbiInv

LEMMA StutterKeeps == UbiInv /\ UNCHANGED vars => UbiInv'
<1> SUFFICES ASSUME UbiInv, UNCHANGED vars PROVE UbiInv'
  OBVIOUS
<1>0. Types /\ Calls /\ FillsUp /\ Others /\ OthersDone /\ Marked /\ Current
  BY Zenon DEF UbiInv
<1>1. /\ UNCHANGED <<content, marker, updating, got, want, clean, upd_marker, sent, failed>>
      /\ UNCHANGED <<last_partno, last_offset, last_name, written, twin, call, buf, pad, ff, pc>>
  BY Zenon DEF vars, flash, ubi, driver, loops, ghosts
<1>2. Types'
  BY <1>0, <1>1, Zenon DEF Types
<1>3. Calls' /\ FillsUp'
  BY <1>0, <1>1, Zenon DEF Calls, FillsUp, Filling, InUbi, SendsData, SendsFill, V
<1>4. Others' /\ OthersDone' /\ Marked'
  BY <1>0, <1>1, Zenon DEF Others, Closed, OthersDone, Marked
<1>5. Current'
  BY <1>0, <1>1, Zenon DEF Current, Progress, Sound, Reached, SendsData, InUbi
<1> QED
  BY <1>2, <1>3, <1>4, <1>5, Zenon DEF UbiInv
-----------------------------------------------------------------------------
(* write_ubi_volume for a round of filler, or for the data of a write. *)

(* A round of one of the two loops passes on some filler. *)
LEMMA FillRound ==
  ASSUME Types, FillPad \/ FillFf
  PROVE  /\ pc = "fill" /\ UNCHANGED <<flash, ubi, last_partno, last_offset, call, ghosts>>
         /\ pad' \in Nat /\ ff' \in Nat
         /\ \E k \in Nat \ {0} : /\ Send(last_partno, k, -1)
                                /\ pad' + ff' = (pad + ff) - k
<1>0. pad \in Nat /\ ff \in Nat /\ GapBuf \in Nat \ {0}
  BY UbiAssumption, Zenon DEF Types
<1>1. CASE FillPad
  <2>1. Min({pad, GapBuf}) = IF pad <= GapBuf THEN pad ELSE GapBuf
    BY <1>0, MinTwo
  <2>2. Max({0, pad - GapBuf}) = IF 0 >= pad - GapBuf THEN 0 ELSE pad - GapBuf
    BY <1>0, MaxTwo
  <2>3. /\ Min({pad, GapBuf}) \in Nat \ {0} /\ pad' \in Nat /\ ff' = ff
        /\ pad' + ff' = (pad + ff) - Min({pad, GapBuf})
    BY <1>0, <1>1, <2>1, <2>2 DEF FillPad
  <2> QED
    BY <1>0, <1>1, <2>3, Zenon DEF FillPad
<1>2. CASE FillFf
  <2>1. Min({ff, GapBuf}) = IF ff <= GapBuf THEN ff ELSE GapBuf
    BY <1>0, MinTwo
  <2>2. Max({0, ff - GapBuf}) = IF 0 >= ff - GapBuf THEN 0 ELSE ff - GapBuf
    BY <1>0, MaxTwo
  <2>3. /\ Min({ff, GapBuf}) \in Nat \ {0} /\ ff' \in Nat /\ pad' = pad
        /\ pad' + ff' = (pad + ff) - Min({ff, GapBuf})
    BY <1>0, <1>2, <2>1, <2>2 DEF FillFf
  <2> QED
    BY <1>0, <1>2, <2>3, Zenon DEF FillFf
<1> QED
  BY <1>1, <1>2, Zenon

(* How much the volume gets, where the driver has counted w sectors and      *)
(* passes on k more.                                                         *)
Piece(v, w, k) == IF w + k > Sects[v] THEN Sects[v] - w ELSE k

UpTo(v, w) == IF w < Sects[v] THEN w ELSE Sects[v]

Reaches(v, w, k, g) ==
  /\ g >= UpTo(v, w) /\ g <= Sects[v] => g = Sects[v] \/ g + Piece(v, w, k) >= UpTo(v, w + k)
  /\ g = UpTo(v, w) =>
       \/ g < Sects[v] /\ Piece(v, w, k) > 0 /\ g + Piece(v, w, k) = UpTo(v, w + k)
       \/ g = Sects[v] /\ Piece(v, w, k) <= 0 /\ w + k >= Sects[v]

LEMMA SendReaches ==
  ASSUME NEW v \in Vol, NEW w \in Nat, NEW k \in Nat \ {0}, NEW g \in Nat
  PROVE  Reaches(v, w, k, g)
<1>1. Sects[v] \in Nat \ {0}
  BY UbiAssumption, Zenon
<1> QED
  BY <1>1 DEF Reaches, UpTo, Piece

LEMMA FillRoundKeeps == UbiInv /\ (FillPad \/ FillFf) => UbiInv'
<1> SUFFICES ASSUME UbiInv, FillPad \/ FillFf PROVE UbiInv'
  OBVIOUS
<1>0. Types /\ Calls /\ FillsUp /\ Others /\ OthersDone /\ Marked /\ Current
  BY Zenon DEF UbiInv
<1>1. /\ pc = "fill" /\ UNCHANGED <<flash, ubi, last_partno, last_offset, call, ghosts>>
      /\ pad' \in Nat /\ ff' \in Nat
  BY <1>0, FillRound, Zenon
<1> PICK k \in Nat \ {0} : Send(last_partno, k, -1) /\ pad' + ff' = (pad + ff) - k
  BY <1>0, FillRound, Zenon
<1>2. last_partno \in Vol
  BY <1>0, <1>1, Zenon DEF Calls
<1> PICK v \in Vol : v = last_partno
  BY <1>2, Zenon
<1> DEFINE n == Piece(v, written[v], k)
<1>3. /\ Sects[v] \in Nat \ {0} /\ written[v] \in Nat /\ last_name = v
      /\ pad \in Nat /\ ff \in Nat
  BY <1>0, UbiAssumption, Zenon DEF Types
<1>4. /\ pc' = "more" /\ buf' = [vol |-> v, off |-> -1, n |-> n] /\ last_name' = v
      /\ written' = [written EXCEPT ![v] = written[v] + k] /\ twin' = twin
  BY <1>3, Zenon DEF Send, Piece
<1>5. /\ written[v] + k \in Nat /\ n \in Int
  BY <1>3 DEF Piece
<1>a. /\ written'[v] = written[v] + k /\ written' \in [Vol -> Nat]
      /\ \A u \in Vol : u # v => written'[u] = written[u]
  BY <1>0, <1>4, <1>5, Zenon DEF Types
<1>6. buf'.off = -1 /\ buf'.n = n /\ V' = v
  BY <1>4, Zenon DEF V
<1> HIDE DEF n
<1>7. Types'
  BY <1>0, <1>1, <1>4, <1>a, Zenon DEF Types, flash, ubi, ghosts
<1>8. Calls'
  BY <1>0, <1>1, <1>4, <1>5, <1>6, <1>a DEF Calls, Filling, InUbi, SendsData, SendsFill
<1>9. FillsUp'
  <2>1. written[v] + (pad + ff) >= Sects[v]
    BY <1>0, <1>1, Zenon DEF FillsUp, Filling
  <2>2. pad' + ff' = (pad + ff) - k /\ written'[v] = written[v] + k
    BY <1>a, Zenon
  <2>3. pad + ff \in Nat
    BY <1>3
  <2>4. written'[v] + (pad' + ff') >= Sects[v]
    BY <1>3, <2>1, <2>2, <2>3
  <2> QED
    BY <1>1, <2>4, Zenon DEF FillsUp
<1>10. Others' /\ OthersDone' /\ Marked'
  BY <1>0, <1>1, <1>4, Zenon DEF Others, Closed, OthersDone, Marked, flash, ubi, ghosts
<1>11. Current'
  <2>1. /\ Sound(v) => /\ want[v] = Sects[v] /\ (updating[v] <=> got[v] < Sects[v])
                       /\ got[v] >= Reached(v) /\ got[v] <= Sects[v]
        /\ clean[v] => /\ sent[v] <= got[v] /\ content[v] = Whole(sent[v], got[v])
                       /\ got[v] = Reached(v)
        /\ got[v] \in Nat
    BY <1>0, <1>1, Zenon DEF Types, Current, Progress
  <2>2. /\ clean' = clean /\ updating' = updating /\ got' = got /\ want' = want
        /\ sent' = sent /\ content' = content /\ failed' = failed
    BY <1>1, Zenon DEF flash, ubi, ghosts
  <2>3. Reached(v) \in Nat /\ Reached(v)' \in Nat
    BY <1>3, <1>5, <1>a, Zenon DEF Reached
  <2>4. /\ Sound(v) => got[v] = Sects[v] \/ got[v] + n >= Reached(v)'
        /\ clean[v] => \/ got[v] < Sects[v] /\ n > 0 /\ got[v] + n = Reached(v)'
                       \/ got[v] = Sects[v] /\ n <= 0 /\ written'[v] >= Sects[v]
    <3>1. Reaches(v, written[v], k, got[v])
      BY <1>3, <2>1, SendReaches, Zenon
    <3>2. Reached(v) = UpTo(v, written[v]) /\ Reached(v)' = UpTo(v, written[v] + k)
      BY <1>a, Zenon DEF Reached, UpTo
    <3> QED
      BY <1>a, <2>1, <3>1, <3>2, Zenon DEF Reaches, n
  <2>5. ~SendsData'
    BY <1>6, Zenon DEF SendsData
  <2>6. Progress(v)'
    BY <1>4, <1>6, <2>1, <2>2, <2>4, <2>5, Zenon DEF Progress, Sound
  <2> QED
    BY <1>1, <2>6, Zenon DEF Current
<1> QED
  BY <1>7, <1>8, <1>9, <1>10, <1>11, Zenon DEF UbiInv

LEMMA WriteMainKeeps == UbiInv /\ WriteMain => UbiInv'
<1> SUFFICES ASSUME UbiInv, WriteMain PROVE UbiInv'
  OBVIOUS
<1>0. Types /\ Calls /\ FillsUp /\ Others /\ OthersDone /\ Marked /\ Current
  BY Zenon DEF UbiInv
<1>1. call.vol \in Vol
  BY <1>0, Zenon DEF Calls, WriteMain
<1> PICK v \in Vol : v = call.vol
  BY <1>1, Zenon
<1> DEFINE w == written[v]
           n == Piece(v, w, call.n)
<1>2. /\ call.n \in Nat \ {0} /\ call.off \in Nat
      /\ call.off + call.n <= Sects[v] /\ call.op = "write" /\ pc = "main"
      /\ call.off = IF v = last_partno THEN last_offset ELSE 0
      /\ v # last_partno => w = 0
  BY <1>0, Zenon DEF Calls, WriteMain
<1>3. Sects[v] \in Nat \ {0} /\ w \in Nat /\ last_name = last_partno
  BY <1>0, UbiAssumption, Zenon DEF Types
<1>4. /\ last_partno' = v /\ last_offset' = call.off + call.n /\ last_name' = v
      /\ buf' = [vol |-> v, off |-> call.off, n |-> n]
      /\ pc' = (IF last_partno = v THEN "more" ELSE "start")
      /\ written' = [written EXCEPT ![v] = w + call.n]
      /\ UNCHANGED <<flash, ubi, call, loops, ghosts, twin>>
  BY <1>3, Zenon DEF WriteMain, Send, Piece
<1>5. buf'.off = call.off /\ buf'.n = n /\ V' = v
  BY <1>4, Zenon DEF V
<1>6. w + call.n \in Nat /\ last_offset' \in Nat /\ last_offset' > 0 /\ n \in Int
  BY <1>2, <1>3, <1>4 DEF Piece
<1>a. written' \in [Vol -> Nat] /\ written'[v] = w + call.n
  BY <1>0, <1>4, <1>6, Zenon DEF Types
<1>7. /\ marker' = marker /\ clean' = clean /\ updating' = updating /\ got' = got /\ want' = want
      /\ sent' = sent /\ content' = content /\ failed' = failed
      /\ call' = call /\ pad' = pad /\ ff' = ff /\ upd_marker' = upd_marker /\ twin' = twin
  BY <1>4, Zenon DEF flash, ubi, ghosts, loops
<1>8. Types'
  <2> HIDE DEF w, n
  <2> QED
    BY <1>0, <1>4, <1>6, <1>7, <1>a, Zenon DEF Types
<1>9. CASE v = last_partno
  <2>0. w = written[v] /\ pc' = "more"
    BY <1>4, <1>9, Zenon
  <2> HIDE DEF w, n
  <2>1. Calls' /\ FillsUp'
    BY <1>2, <1>4, <1>5, <1>6, <1>7, <1>a, <2>0
    DEF Calls, FillsUp, Filling, InUbi, SendsData, SendsFill
  <2>2. Others' /\ OthersDone' /\ Marked'
    BY <1>0, <1>4, <1>7, <1>9, <2>0, Zenon DEF Others, Closed, OthersDone, Marked
  <2>3. /\ Sound(v) => /\ want[v] = Sects[v] /\ (updating[v] <=> got[v] < Sects[v])
                       /\ got[v] >= Reached(v) /\ got[v] <= Sects[v]
        /\ clean[v] => /\ sent[v] <= got[v] /\ content[v] = Whole(sent[v], got[v])
                       /\ got[v] = Reached(v) /\ updating[v] /\ sent[v] = got[v]
                       /\ written[v] = got[v] /\ last_offset = got[v]
        /\ got[v] \in Nat /\ written[v] \in Nat
    BY <1>0, <1>2, <1>9, Zenon DEF Types, Current, Progress
  <2>4. Reached(v) \in Nat /\ Reached(v)' \in Nat
    BY <1>3, <1>6, <1>a, <2>3, Zenon DEF Reached
  <2>5. /\ Sound(v) => got[v] = Sects[v] \/ got[v] + n >= Reached(v)'
        /\ clean[v] => \/ got[v] < Sects[v] /\ n > 0 /\ got[v] + n = Reached(v)'
                       \/ got[v] = Sects[v] /\ n <= 0 /\ written'[v] >= Sects[v]
    <3>1. Reaches(v, w, call.n, got[v])
      BY <1>2, <1>3, <2>3, SendReaches, Zenon
    <3>2. Reached(v) = UpTo(v, w) /\ Reached(v)' = UpTo(v, w + call.n)
      BY <1>a, <2>0, Zenon DEF Reached, UpTo
    <3> QED
      BY <1>a, <2>3, <3>1, <3>2, Zenon DEF Reaches, n
  <2>6. clean[v] => n = call.n /\ call.off = got[v]
    BY <1>2, <1>3, <1>9, <2>0, <2>3 DEF Piece, n
  <2>7. Progress(v)'
    BY <1>2, <1>5, <1>7, <2>0, <2>3, <2>5, <2>6, Zenon DEF Progress, Sound
  <2>8. Current'
    BY <1>4, <2>7, Zenon DEF Current
  <2> QED
    BY <1>8, <2>1, <2>2, <2>8, Zenon DEF UbiInv
<1>10. CASE v # last_partno
  <2>0. w = 0 /\ pc' = "start" /\ n = call.n /\ call.off = 0
    BY <1>2, <1>3, <1>4, <1>10 DEF Piece
  <2> HIDE DEF w, n
  <2>1. Calls' /\ FillsUp'
    BY <1>2, <1>4, <1>5, <1>6, <1>7, <1>a, <2>0
    DEF Calls, FillsUp, Filling, InUbi, SendsData, SendsFill
  <2>2. last_partno \in Vol /\ Sound(last_partno) => ~updating[last_partno]
    BY <1>0, <1>2, <1>10, Zenon DEF Current, Progress
  <2>3. OthersDone' /\ Marked'
    BY <1>0, <1>4, <1>7, <2>2, Zenon DEF Types, OthersDone, Marked, Sound
  <2>4. Others'
    <3> SUFFICES ASSUME NEW u \in Vol PROVE Closed(u)'
      BY Zenon DEF Others
    <3>1. CASE u # last_partno
      BY <1>0, <1>7, <3>1, Zenon DEF Others, Closed
    <3>2. CASE u = last_partno
      <4>1. clean[u] => /\ want[u] = Sects[u] /\ ~(got[u] < Sects[u]) /\ ~updating[u]
                        /\ content[u] = Whole(sent[u], got[u])
        BY <1>0, <1>2, <2>2, <3>2, Zenon DEF Current, Progress, Sound
      <4>2. clean[u] => got[u] = Sects[u]
        BY <1>0, <4>1 DEF Types
      <4> QED
        BY <1>7, <4>1, <4>2, Zenon DEF Closed
    <3> QED
      BY <3>1, <3>2, Zenon
  <2>5. Current'
    BY <1>4, <2>0, Zenon DEF Current, Progress
  <2> QED
    BY <1>8, <2>1, <2>3, <2>4, <2>5, Zenon DEF UbiInv
<1> QED
  BY <1>9, <1>10, Zenon

-----------------------------------------------------------------------------
(* The steps that begin and end a volume update (drivers/mtd/ubi/upd.c), and *)
(* those that fail, keep the invariant.                                      *)

(* In UBI the volume is the one written last. *)
LEMMA VolumeInUse ==
  ASSUME UbiInv, InUbi
  PROVE  \E v \in Vol : v = last_partno /\ V = v /\ Sects[v] \in Nat \ {0}
BY UbiAssumption, Zenon DEF UbiInv, Calls

LEMMA StartKeeps == UbiInv /\ ubi_start_update => UbiInv'
<1> SUFFICES ASSUME UbiInv, ubi_start_update PROVE UbiInv'
  OBVIOUS
<1>0. Types /\ Calls /\ FillsUp /\ Others /\ OthersDone /\ Marked /\ Current
  BY Zenon DEF UbiInv
<1>1. pc = "start" /\ InUbi
  BY Zenon DEF ubi_start_update, InUbi
<1> PICK v \in Vol : v = last_partno /\ V = v /\ Sects[v] \in Nat \ {0}
  BY <1>1, VolumeInUse, Zenon
<1>2. /\ pc' = "wipe" /\ updating' = [updating EXCEPT ![v] = TRUE]
      /\ sent' = [sent EXCEPT ![v] = 0]
      /\ clean' = [clean EXCEPT ![v] = upd_marker[v] => marker[v]]
      /\ content' = [content EXCEPT ![v] = [i \in 1 .. Len(content[v]) |-> Old]]
      /\ UNCHANGED <<got, want, call, pad, ff, buf, failed>>
      /\ UNCHANGED <<last_partno, last_offset, last_name, written, twin>>
  BY Zenon DEF ubi_start_update, driver, loops
<1>3. /\ upd_marker' = [upd_marker EXCEPT ![v] = TRUE]
      /\ IF upd_marker[v] THEN marker' = marker ELSE marker' = upd_marker'
  BY <1>0, Zenon DEF ubi_start_update, set_update_marker, ubi_change_vtbl_record, Record, Types
<1>4. content' \in [Vol -> Seq(Item)] /\ \A u \in Vol : u # v => content'[u] = content[u]
  <2>1. [i \in 1 .. Len(content[v]) |-> Old] \in Seq(Item)
    <3>1. Len(content[v]) \in Nat
      BY <1>0 DEF Types
    <3> QED
      BY <3>1 DEF Old, Item
  <2> QED
    BY <1>0, <1>2, <2>1, Zenon DEF Types
<1>5. /\ updating' \in [Vol -> BOOLEAN] /\ clean' \in [Vol -> BOOLEAN] /\ sent' \in [Vol -> Nat]
      /\ updating'[v] = TRUE /\ sent'[v] = 0 /\ clean'[v] = (upd_marker[v] => marker[v])
      /\ \A u \in Vol : u # v => /\ updating'[u] = updating[u] /\ clean'[u] = clean[u]
                                /\ sent'[u] = sent[u]
  BY <1>0, <1>2, Zenon DEF Types
<1>6. /\ upd_marker' \in [Vol -> BOOLEAN] /\ marker' \in [Vol -> BOOLEAN]
      /\ upd_marker'[v] = TRUE
      /\ clean'[v] => marker'[v] = TRUE
      /\ \A u \in Vol : u # v /\ clean[u] => upd_marker'[u] = marker[u] /\ marker'[u] = marker[u]
  <2>1. /\ upd_marker' \in [Vol -> BOOLEAN] /\ upd_marker'[v] = TRUE
        /\ \A u \in Vol : u # v => upd_marker'[u] = upd_marker[u]
    BY <1>0, <1>3, Zenon DEF Types
  <2>2. \A u \in Vol : clean[u] => upd_marker[u] = marker[u]
    BY <1>0, Zenon DEF Marked
  <2>3. marker \in [Vol -> BOOLEAN] /\ (clean'[v] => (upd_marker[v] => marker[v]))
    BY <1>0, <1>5, Zenon DEF Types
  <2>4. CASE upd_marker[v]
    BY <1>3, <2>1, <2>2, <2>3, <2>4, Zenon
  <2>5. CASE ~upd_marker[v]
    BY <1>3, <2>1, <2>2, <2>5, Zenon
  <2> QED
    BY <2>4, <2>5, Zenon
<1>7. Types'
  BY <1>0, <1>2, <1>4, <1>5, <1>6, Zenon DEF Types
<1>8. Calls' /\ FillsUp'
  BY <1>0, <1>1, <1>2, Zenon DEF Calls, FillsUp, Filling, InUbi, SendsData, SendsFill, V
<1>9. Others'
  <2>1. pc' = "wipe" /\ last_partno' = v
    BY <1>2, Zenon
  <2> SUFFICES ASSUME NEW u \in Vol, u # v PROVE Closed(u)'
    BY <2>1, Zenon DEF Others
  <2>2. /\ updating'[u] = updating[u] /\ clean'[u] = clean[u] /\ sent'[u] = sent[u]
        /\ content'[u] = content[u]
        /\ clean[u] => marker'[u] = marker[u]
    BY <1>4, <1>5, <1>6, Zenon
  <2>3. Closed(u)
    BY <1>0, Zenon DEF Others
  <2> QED
    BY <2>2, <2>3, Zenon DEF Closed
<1>10. OthersDone'
  <2>1. last_partno' = v /\ failed' = failed /\ OthersDone
    BY <1>0, <1>2, Zenon
  <2>2. \A u \in Vol : u # v => updating'[u] = updating[u]
    BY <1>5, Zenon
  <2> QED
    BY <2>1, <2>2, Zenon DEF OthersDone
<1>11. Marked'
  <2> SUFFICES ASSUME NEW u \in Vol, clean'[u]
               PROVE  upd_marker'[u] = marker'[u] /\ (updating'[u] => marker'[u])
    BY Zenon DEF Marked
  <2>1. CASE u = v
    BY <1>6, <2>1, Zenon
  <2>2. CASE u # v
    BY <1>0, <1>5, <1>6, <2>2, Zenon DEF Marked
  <2> QED
    BY <2>1, <2>2, Zenon
<1>12. Current'
  <2>1. pc' = "wipe" /\ last_partno' = v /\ updating'[v] /\ sent'[v] = 0
    BY <1>2, <1>5, Zenon
  <2> QED
    BY <2>1, Zenon DEF Current, Progress
<1> QED
  BY <1>7, <1>8, <1>9, <1>10, <1>11, <1>12, Zenon DEF UbiInv

LEMMA WipeKeeps == UbiInv /\ Wipe => UbiInv'
<1> SUFFICES ASSUME UbiInv, Wipe PROVE UbiInv'
  OBVIOUS
<1>0. Types /\ Calls /\ FillsUp /\ Others /\ OthersDone /\ Marked /\ Current
  BY Zenon DEF UbiInv
<1>1. pc = "wipe" /\ InUbi
  BY Zenon DEF Wipe, InUbi
<1> PICK v \in Vol : v = last_partno /\ V = v /\ Sects[v] \in Nat \ {0}
  BY <1>1, VolumeInUse, Zenon
<1>2. /\ pc' = "more" /\ content' = [content EXCEPT ![v] = <<>>]
      /\ got' = [got EXCEPT ![v] = 0] /\ want' = [want EXCEPT ![v] = Sects[v]]
      /\ UNCHANGED <<marker, updating, upd_marker, driver, call, loops, buf, ghosts>>
  BY Zenon DEF Wipe
<1>3. Types'
  <2>1. content' \in [Vol -> Seq(Item)]
    <3>1. <<>> \in Seq(Item)
      OBVIOUS
    <3> QED
      BY <1>0, <1>2, <3>1, Zenon DEF Types
  <2> QED
    BY <1>0, <1>2, <2>1 DEF Types, driver, loops, ghosts
<1>4. Calls' /\ FillsUp'
  BY <1>0, <1>1, <1>2, Zenon DEF Calls, FillsUp, Filling, InUbi, SendsData, SendsFill, V,
                          driver, loops, ghosts
<1>5. Others' /\ OthersDone' /\ Marked'
  BY <1>0, <1>2, Zenon DEF Types, Others, Closed, OthersDone, Marked, driver, ghosts
<1>6. Whole(0, 0) = <<>>
  BY DEF Whole
<1>7. /\ written[v] = call.n /\ buf.n = call.n /\ buf.off = 0 /\ call.n \in Nat \ {0}
      /\ call.n <= Sects[v]
  BY <1>0, <1>1 DEF Calls, SendsData
<1>8. Progress(v)'
  <2>1. /\ got'[v] = 0 /\ want'[v] = Sects[v] /\ content'[v] = <<>> /\ pc' = "more"
        /\ clean' = clean /\ updating' = updating /\ sent' = sent
        /\ failed' = failed /\ buf' = buf /\ call' = call /\ written'[v] = written[v]
    BY <1>0, <1>2, Zenon DEF Types, driver, ghosts
  <2>2. updating[v] /\ sent[v] = 0
    BY <1>0, <1>1, Zenon DEF Current, Progress
  <2> QED
    BY <1>6, <1>7, <2>1, <2>2 DEF Progress, Sound, Reached
<1>9. Current'
  BY <1>2, <1>8, Zenon DEF Current, driver
<1> QED
  BY <1>3, <1>4, <1>5, <1>9, Zenon DEF UbiInv

(* A failed operation spoils the image. *)
LEMMA FailureKeeps ==
  ASSUME UbiInv, InUbi, ReturnError, updating' \in [Vol -> BOOLEAN],
         \A u \in Vol : u # V => updating'[u] = updating[u],
         NEW m \in BOOLEAN, ChangeFails(m) \/ UNCHANGED <<marker, upd_marker>>,
         got' \in [Vol -> Nat], UNCHANGED want, \A u \in Vol : got'[u] <= want[u]
  PROVE  UbiInv'
<1>0. Types /\ Calls /\ FillsUp /\ Others /\ OthersDone /\ Marked /\ Current
  BY Zenon DEF UbiInv
<1> PICK v \in Vol : v = last_partno /\ V = v /\ Sects[v] \in Nat \ {0}
  BY VolumeInUse, Zenon
<1>1. Spoil(v) /\ failed' = TRUE /\ UNCHANGED driver
  BY Zenon DEF ReturnError
<1>2. /\ clean' \in [Vol -> BOOLEAN] /\ content' \in [Vol -> Seq(Item)] /\ sent' \in [Vol -> Nat]
  BY <1>0, <1>1, SpoilTypes, Zenon
<1>3. /\ clean'[v] = FALSE
      /\ \A u \in Vol : u # v => clean'[u] = clean[u] /\ sent'[u] = sent[u]
                               /\ content'[u] = content[u]
  BY <1>0, <1>1, Zenon DEF Spoil, Types
<1>a. /\ marker' \in [Vol -> BOOLEAN] /\ upd_marker' \in [Vol -> BOOLEAN]
      /\ \A u \in Vol : u # v /\ clean[u] => upd_marker'[u] = marker[u] /\ marker'[u] = marker[u]
  <2>1. /\ marker \in [Vol -> BOOLEAN] /\ upd_marker \in [Vol -> BOOLEAN]
        /\ \A u \in Vol : clean[u] => upd_marker[u] = marker[u]
    BY <1>0, Zenon DEF Types, Marked
  <2>2. CASE ChangeFails(m)
    <3>1. /\ upd_marker' \in [Vol -> BOOLEAN]
          /\ \A u \in Vol : u # v => upd_marker'[u] = upd_marker[u]
      BY <2>1, <2>2, Zenon DEF ChangeFails, Record
    <3>2. marker' = marker \/ marker' = upd_marker'
      BY <2>2, Zenon DEF ChangeFails
    <3> QED
      BY <2>1, <3>1, <3>2, Zenon
  <2>3. CASE UNCHANGED <<marker, upd_marker>>
    BY <2>1, <2>3, Zenon
  <2> QED
    BY <2>2, <2>3, Zenon
<1>4. \/ pc' = "main" /\ pad' = 0 /\ ff' = 0 /\ buf.off = -1 /\ call' = call
      \/ pc' = "idle" /\ pad' = 0 /\ ff' = 0
  BY Zenon DEF ReturnError, Idle
<1>5. Types'
  <2>1. /\ pc' \in {"idle", "fill", "main", "start", "wipe", "more", "clear", "dead"}
        /\ pad' \in Nat /\ ff' \in Nat /\ failed' \in BOOLEAN
    <3>1. 0 \in Nat
      OBVIOUS
    <3> QED
      BY <1>1, <1>4, <3>1, Zenon
  <2> QED
    BY <1>0, <1>1, <1>2, <1>a, <2>1, Zenon DEF Types, driver
<1>6. Calls' /\ FillsUp'
  BY <1>0, <1>1, <1>4, Zenon
  DEF Calls, FillsUp, Filling, InUbi, SendsData, SendsFill, driver
<1>7. OthersDone' /\ Marked'
  BY <1>0, <1>1, <1>3, <1>a, Zenon DEF OthersDone, Marked, driver
<1>8. Others'
  BY <1>0, <1>1, <1>3, <1>4, <1>a DEF Others, Closed, driver
<1>9. Current'
  BY <1>1, <1>3, <1>4, Zenon DEF Current, Progress, Sound, driver
<1> QED
  BY <1>5, <1>6, <1>7, <1>8, <1>9, Zenon DEF UbiInv

LEMMA StartFailsKeeps == UbiInv /\ StartFails => UbiInv'
<1> SUFFICES ASSUME UbiInv, StartFails PROVE UbiInv'
  OBVIOUS
<1>0. Types
  BY Zenon DEF UbiInv
<1>1. InUbi /\ ReturnError /\ UNCHANGED <<got, want>>
  BY Zenon DEF StartFails, InUbi
<1> PICK v \in Vol : v = last_partno /\ V = v /\ Sects[v] \in Nat \ {0}
  BY <1>1, VolumeInUse, Zenon
<1>2. /\ updating' \in [Vol -> BOOLEAN]
      /\ \A u \in Vol : u # V => updating'[u] = updating[u]
  BY <1>0, Zenon DEF StartFails, Types
<1>3. ChangeFails(TRUE) \/ UNCHANGED <<marker, upd_marker>>
  BY Zenon DEF StartFails
<1>4. got' \in [Vol -> Nat] /\ \A u \in Vol : got'[u] <= want[u]
  BY <1>0, <1>1, Zenon DEF Types
<1> QED
  BY <1>1, <1>2, <1>3, <1>4, FailureKeeps, Zenon

LEMMA TakenType ==
  ASSUME UbiInv, pc = "more", buf.n >= 0, NEW v \in Vol, V = v
  PROVE  /\ Taken \in Nat /\ Taken <= buf.n /\ got[v] + Taken <= want[v]
         /\ Taken = buf.n \/ got[v] + Taken = want[v]
<1>1. buf.n \in Nat /\ got[v] \in Nat /\ want[v] \in Nat /\ got[v] <= want[v]
  BY DEF UbiInv, Calls, InUbi, Types
<1> DEFINE x == buf.n
           y == want[v] - got[v]
<1>2. x \in Nat /\ y \in Nat
  BY <1>1
<1>3. Taken = IF x <= y THEN x ELSE y
  BY <1>2, MinTwo DEF Taken
<1> QED
  BY <1>1, <1>2, <1>3

LEMMA MoreFailsKeeps == UbiInv /\ MoreFails => UbiInv'
<1> SUFFICES ASSUME UbiInv, MoreFails PROVE UbiInv'
  OBVIOUS
<1>0. Types
  BY Zenon DEF UbiInv
<1>1. InUbi /\ ReturnError /\ pc = "more" /\ buf.n >= 0
  BY Zenon DEF MoreFails, InUbi
<1> PICK v \in Vol : v = last_partno /\ V = v /\ Sects[v] \in Nat \ {0}
  BY <1>1, VolumeInUse, Zenon
<1>2. Taken \in Nat /\ got[v] + Taken <= want[v]
  BY <1>1, TakenType, Zenon
<1> PICK c \in 0 .. Taken - 1 : Accept(c)
  BY Zenon DEF MoreFails
<1>3. got[v] \in Nat /\ want[v] \in Nat /\ c \in Nat /\ got[v] + c <= want[v]
  BY <1>0, <1>2 DEF Types
<1>4. got' = [got EXCEPT ![v] = got[v] + c] /\ UNCHANGED <<marker, updating, upd_marker, want>>
  BY Zenon DEF Accept
<1>5. got' \in [Vol -> Nat] /\ \A u \in Vol : got'[u] <= want[u]
  BY <1>0, <1>3, <1>4 DEF Types
<1> QED
  BY <1>0, <1>1, <1>4, <1>5, FailureKeeps, Zenon DEF Types

LEMMA ClearFailsKeeps == UbiInv /\ ClearFails => UbiInv'
<1> SUFFICES ASSUME UbiInv, ClearFails PROVE UbiInv'
  OBVIOUS
<1>0. Types
  BY Zenon DEF UbiInv
<1>1. InUbi /\ ReturnError /\ UNCHANGED <<updating, got, want>>
  BY Zenon DEF ClearFails, InUbi, ubi
<1> PICK v \in Vol : v = last_partno /\ V = v /\ Sects[v] \in Nat \ {0}
  BY <1>1, VolumeInUse, Zenon
<1>2. ChangeFails(FALSE)
  BY Zenon DEF ClearFails
<1> QED
  BY <1>0, <1>1, <1>2, FailureKeeps, Zenon DEF Types

(* What Progress says in UBI, before data is taken. *)
LEMMA BeforeMore ==
  ASSUME UbiInv, pc = "more", NEW v \in Vol, v = last_partno
  PROVE  /\ got[v] \in Nat /\ want[v] \in Nat /\ got[v] <= want[v]
         /\ sent[v] \in Nat /\ written[v] \in Nat /\ Sects[v] \in Nat \ {0} /\ buf.n \in Int
         /\ Sound(v) => /\ want[v] = Sects[v] /\ (updating[v] <=> got[v] < Sects[v])
                        /\ got[v] = Sects[v] \/ got[v] + buf.n >= Reached(v)
         /\ clean[v] => /\ sent[v] <= got[v] /\ content[v] = Whole(sent[v], got[v])
                        /\ \/ got[v] < Sects[v] /\ buf.n > 0 /\ got[v] + buf.n = Reached(v)
                           \/ got[v] = Sects[v] /\ buf.n <= 0 /\ written[v] >= Sects[v]
         /\ clean[v] /\ SendsData => /\ updating[v] /\ sent[v] = got[v] /\ buf.off = got[v]
                                     /\ buf.n = call.n
<1>1. Types /\ Progress(v)
  BY Zenon DEF UbiInv, Current
<1>2. buf.n \in Int
  BY Zenon DEF UbiInv, Calls, InUbi
<1>3. /\ got[v] \in Nat /\ want[v] \in Nat /\ got[v] <= want[v]
      /\ sent[v] \in Nat /\ written[v] \in Nat /\ Sects[v] \in Nat \ {0}
  <2>1. /\ got[v] \in Nat /\ want[v] \in Nat /\ got[v] <= want[v]
        /\ sent[v] \in Nat /\ written[v] \in Nat
    BY <1>1, Zenon DEF Types
  <2> QED
    BY <2>1, UbiAssumption
<1> QED
  BY <1>1, <1>2, <1>3, Zenon DEF Progress

(* At the end the volume has got its whole size. *)
LEMMA BeforeClear ==
  ASSUME UbiInv, pc = "clear", NEW v \in Vol, v = last_partno
  PROVE  /\ got[v] \in Nat /\ want[v] \in Nat /\ written[v] \in Nat /\ Sects[v] \in Nat \ {0}
         /\ Sound(v) => want[v] = Sects[v] /\ got[v] = Sects[v]
         /\ clean[v] => /\ written[v] >= Sects[v] /\ sent[v] <= got[v]
                        /\ content[v] = Whole(sent[v], got[v])
<1>1. Types /\ Progress(v)
  BY Zenon DEF UbiInv, Current
<1> QED
  BY <1>1, UbiAssumption, Zenon DEF Types, Progress

(* The volume table that is written has the markers of the images that are   *)
(* not spoilt as they are on the flash.                                      *)
LEMMA RecordCleared ==
  ASSUME Types, Marked, NEW v \in Vol, V = v, ubi_change_vtbl_record(FALSE)
  PROVE  /\ marker' \in [Vol -> BOOLEAN] /\ upd_marker' = marker'
         /\ \A u \in Vol : u # v /\ clean[u] => marker'[u] = marker[u]
<1>1. marker' = [upd_marker EXCEPT ![v] = FALSE] /\ upd_marker' = marker'
  BY Zenon DEF ubi_change_vtbl_record, Record
<1>2. upd_marker \in [Vol -> BOOLEAN] /\ \A u \in Vol : clean[u] => upd_marker[u] = marker[u]
  BY Zenon DEF Types, Marked
<1> QED
  BY <1>1, <1>2, Zenon

LEMMA ClearKeeps == UbiInv /\ clear_update_marker => UbiInv'
<1> SUFFICES ASSUME UbiInv, clear_update_marker PROVE UbiInv'
  OBVIOUS
<1>0. Types /\ Calls /\ FillsUp /\ Others /\ OthersDone /\ Marked /\ Current
  BY Zenon DEF UbiInv
<1>1. pc = "clear" /\ InUbi
  BY Zenon DEF clear_update_marker, InUbi
<1> PICK v \in Vol : v = last_partno /\ V = v /\ Sects[v] \in Nat \ {0}
  BY <1>1, VolumeInUse, Zenon
<1>2. /\ UNCHANGED <<content, got, want, sent, clean, failed>>
      /\ last_partno' = v /\ UNCHANGED <<last_partno, last_offset, last_name, written, twin>>
      /\ ubi_change_vtbl_record(FALSE) /\ updating' = [updating EXCEPT ![v] = FALSE]
  BY Zenon DEF clear_update_marker, driver, ghosts
<1>3. /\ updating' \in [Vol -> BOOLEAN] /\ updating'[v] = FALSE
      /\ marker' \in [Vol -> BOOLEAN] /\ upd_marker' = marker'
      /\ \A u \in Vol : u # v => /\ clean[u] => marker'[u] = marker[u]
                                /\ updating'[u] = updating[u]
  BY <1>0, <1>2, RecordCleared, Zenon DEF Types
<1>4. \/ pc' = "fill" /\ buf.off = -1 /\ UNCHANGED <<call, pad, ff>>
      \/ pc' = "idle" /\ buf.off # -1 /\ pad' = 0 /\ ff' = 0
  BY Zenon DEF clear_update_marker, Return, Idle, loops
<1>5. Types'
  BY <1>0, <1>2, <1>3, <1>4, SMTT(30) DEF Types
<1>6. Calls' /\ FillsUp'
  BY <1>0, <1>1, <1>2, <1>4, Zenon
  DEF Calls, FillsUp, Filling, InUbi, SendsData, SendsFill
<1>7. OthersDone' /\ Marked'
  BY <1>0, <1>2, <1>3, Zenon DEF OthersDone, Marked
<1>8. Others'
  BY <1>0, <1>2, <1>3, <1>4, Zenon DEF Others, Closed
<1>9. /\ got[v] \in Nat /\ want[v] \in Nat /\ written[v] \in Nat /\ Sects[v] \in Nat \ {0}
      /\ Sound(v) => want[v] = Sects[v] /\ got[v] = Sects[v]
      /\ clean[v] => /\ written[v] >= Sects[v] /\ sent[v] <= got[v]
                     /\ content[v] = Whole(sent[v], got[v])
  BY <1>1, BeforeClear, Zenon
<1>10. Progress(v)'
  BY <1>2, <1>3, <1>4, <1>9, SMTT(30) DEF Progress, Sound, Reached
<1>11. Current'
  BY <1>2, <1>10, Zenon DEF Current
<1> QED
  BY <1>5, <1>6, <1>7, <1>8, <1>11, Zenon DEF UbiInv

LEMMA MoreDiesKeeps == UbiInv /\ MoreDies => UbiInv'
<1> SUFFICES ASSUME UbiInv, MoreDies PROVE UbiInv'
  OBVIOUS
<1>0. Types /\ Calls /\ FillsUp /\ Others /\ OthersDone /\ Marked /\ Current
  BY Zenon DEF UbiInv
<1>1. pc = "more" /\ InUbi /\ buf.n < 0 /\ pc' = "dead"
  BY Zenon DEF MoreDies, InUbi
<1> PICK v \in Vol : v = last_partno /\ V = v /\ Sects[v] \in Nat \ {0}
  BY <1>1, VolumeInUse, Zenon
<1>2. /\ UNCHANGED <<content, marker, updating, got, want, upd_marker, sent, clean, failed, buf, pad, ff>>
      /\ last_partno' = v /\ UNCHANGED <<last_partno, last_offset, last_name, written, twin>>
  BY Zenon DEF MoreDies, driver, ghosts, flash, ubi, loops
<1>3. Types' /\ OthersDone' /\ Marked'
  BY <1>0, <1>1, <1>2, Zenon DEF Types, OthersDone, Marked
<1>4. Calls' /\ FillsUp' /\ Current'
  BY <1>0, <1>1, <1>2, Zenon
  DEF Calls, FillsUp, Filling, InUbi, SendsData, SendsFill, V, Current, Progress
<1>5. Closed(v)
  <2>1. /\ got[v] \in Nat /\ buf.n \in Int
        /\ Sound(v) => (updating[v] <=> got[v] < Sects[v])
        /\ clean[v] => /\ content[v] = Whole(sent[v], got[v])
                       /\ buf.n > 0 \/ got[v] = Sects[v]
    BY <1>1, BeforeMore, Zenon
  <2> QED
    BY <1>1, <2>1 DEF Closed, Sound
<1>6. Others'
  BY <1>0, <1>2, <1>5, Zenon DEF Others, Closed
<1> QED
  BY <1>3, <1>4, <1>6, Zenon DEF UbiInv

LEMMA ClearDiesKeeps == UbiInv /\ ClearDies => UbiInv'
<1> SUFFICES ASSUME UbiInv, ClearDies PROVE UbiInv'
  OBVIOUS
<1>0. Types /\ Calls /\ FillsUp /\ Others /\ OthersDone /\ Marked /\ Current
  BY Zenon DEF UbiInv
<1>1. pc = "clear" /\ InUbi /\ pc' = "dead"
  BY Zenon DEF ClearDies, InUbi
<1> PICK v \in Vol : v = last_partno /\ V = v /\ Sects[v] \in Nat \ {0}
  BY <1>1, VolumeInUse, Zenon
<1>2. /\ UNCHANGED <<content, updating, got, want, sent, clean, failed, buf, pad, ff>>
      /\ last_partno' = v /\ UNCHANGED <<last_partno, last_offset, last_name, written, twin>>
      /\ ubi_change_vtbl_record(FALSE) /\ ~updating[v]
  BY Zenon DEF ClearDies, driver, ghosts, ubi, loops
<1>3. /\ marker' \in [Vol -> BOOLEAN] /\ upd_marker' = marker'
      /\ \A u \in Vol : u # v /\ clean[u] => marker'[u] = marker[u]
  BY <1>0, <1>2, RecordCleared, Zenon
<1>4. Types' /\ OthersDone' /\ Marked'
  BY <1>0, <1>1, <1>2, <1>3, Zenon DEF Types, OthersDone, Marked
<1>5. Calls' /\ FillsUp' /\ Current'
  BY <1>0, <1>1, <1>2, Zenon
  DEF Calls, FillsUp, Filling, InUbi, SendsData, SendsFill, V, Current, Progress
<1>6. clean[v] => content[v] = Whole(sent[v], Sects[v])
  BY <1>1, BeforeClear, Zenon DEF Sound
<1>7. Others'
  BY <1>0, <1>2, <1>3, <1>6, Zenon DEF Others, Closed
<1> QED
  BY <1>4, <1>5, <1>7, Zenon DEF UbiInv
-----------------------------------------------------------------------------
(* ubi_more_update_data keeps it: what it stores continues the image.        *)

LEMMA ConcatIs ==
  ASSUME NEW S, NEW a \in Seq(S), NEW b \in Seq(S), NEW c \in Seq(S),
         Len(c) = Len(a) + Len(b), \A i \in 1 .. Len(a) : c[i] = a[i],
         \A i \in 1 .. Len(b) : c[Len(a) + i] = b[i]
  PROVE  a \o b = c
<1>1. a \o b \in Seq(S) /\ Len(a \o b) = Len(c)
  OBVIOUS
<1>2. ASSUME NEW i \in 1 .. Len(a \o b) PROVE (a \o b)[i] = c[i]
  <2>1. CASE i <= Len(a)
    BY <2>1
  <2>2. CASE i > Len(a)
    <3>1. i - Len(a) \in 1 .. Len(b) /\ Len(a) + (i - Len(a)) = i
      BY <2>2
    <3>2. (a \o b)[i] = b[i - Len(a)]
      BY <2>2, <3>1
    <3> QED
      BY <3>1, <3>2, Zenon
  <2> QED
    BY <2>1, <2>2
<1> DEFINE d == a \o b
<1>3. d \in Seq(S) /\ Len(d) = Len(c) /\ \A i \in 1 .. Len(d) : d[i] = c[i]
  BY <1>1, <1>2, Zenon
<1> HIDE DEF d
<1>4. d = c
  BY <1>3
<1> QED
  BY <1>4, Zenon DEF d

(* Filler behind an image, and the next sectors of an image. *)
FillRun(k)    == [i \in 1 .. k |-> Fill]
DataRun(m, k) == [i \in 1 .. k |-> m + i]

AppendsFill(s, m, k) == Whole(s, m) \o FillRun(k) = Whole(s, m + k)

LEMMA AppendFill ==
  ASSUME NEW m \in Nat, NEW s \in 0 .. m, NEW k \in Nat
  PROVE  AppendsFill(s, m, k)
<1> SUFFICES Whole(s, m) \o FillRun(k) = Whole(s, m + k)
  BY Zenon DEF AppendsFill
<1> DEFINE a == Whole(s, m)
           b == FillRun(k)
           c == Whole(s, m + k)
<1>1. a \in Seq(Item) /\ Len(a) = m /\ c \in Seq(Item) /\ Len(c) = m + k
  BY WholeType, SMTT(30)
<1>2. b \in Seq(Item) /\ Len(b) = k
  BY DEF Item, Fill, FillRun
<1>3. \A i \in 1 .. m : c[i] = a[i]
  BY DEF Whole
<1>4. \A i \in 1 .. k : c[m + i] = b[i]
  <2> TAKE i \in 1 .. k
  <2>1. m + i \in 1 .. (m + k) /\ ~(m + i <= s)
    OBVIOUS
  <2> QED
    BY <2>1, Zenon DEF Whole, FillRun
<1> HIDE DEF a, b, c
<1>5. a \o b = c
  BY <1>1, <1>2, <1>3, <1>4, ConcatIs, Zenon
<1> QED
  BY <1>5, Zenon DEF a, b, c

LEMMA AppendData ==
  ASSUME NEW m \in Nat, NEW k \in Nat
  PROVE  Whole(m, m) \o DataRun(m, k) = Whole(m + k, m + k)
<1> DEFINE a == Whole(m, m)
           b == DataRun(m, k)
           c == Whole(m + k, m + k)
<1>1. a \in Seq(Item) /\ Len(a) = m /\ c \in Seq(Item) /\ Len(c) = m + k
  BY WholeType
<1>2. b \in Seq(Item) /\ Len(b) = k
  <2>1. b \in [1 .. k -> Item]
    BY DEF Item, DataRun
  <2> QED
    BY <2>1
<1>3. \A i \in 1 .. m : c[i] = a[i]
  BY DEF Whole
<1>4. \A i \in 1 .. k : c[m + i] = b[i]
  <2> TAKE i \in 1 .. k
  <2>1. m + i \in 1 .. (m + k) /\ m + i <= m + k
    OBVIOUS
  <2> QED
    BY <2>1, Zenon DEF Whole, DataRun
<1> HIDE DEF a, b, c
<1>5. a \o b = c
  BY <1>1, <1>2, <1>3, <1>4, ConcatIs, Zenon
<1> QED
  BY <1>5, Zenon DEF a, b, c

(* What a volume holds when ubi_more_update_data has taken what it was given. *)
LEMMA TakenIsStored ==
  ASSUME UbiInv, pc = "more", buf.n >= 0, NEW v \in Vol, v = last_partno, V = v, Stored
  PROVE  /\ got' = [got EXCEPT ![v] = got[v] + Taken] /\ got'[v] = got[v] + Taken
         /\ sent' \in [Vol -> Nat] /\ content' \in [Vol -> Seq(Item)]
         /\ \A u \in Vol : u # v => sent'[u] = sent[u] /\ content'[u] = content[u]
         /\ clean[v] => /\ Taken = buf.n /\ sent'[v] <= got'[v]
                        /\ content'[v] = Whole(sent'[v], got'[v])
         /\ clean[v] /\ SendsData => sent'[v] = got'[v]
<1>0. Types /\ Calls
  BY Zenon DEF UbiInv
<1>1. /\ Taken \in Nat /\ Taken <= buf.n /\ got[v] + Taken <= want[v]
      /\ Taken = buf.n \/ got[v] + Taken = want[v]
  BY TakenType, Zenon
<1>2. /\ got[v] \in Nat /\ want[v] \in Nat /\ got[v] <= want[v]
      /\ sent[v] \in Nat /\ written[v] \in Nat /\ Sects[v] \in Nat \ {0} /\ buf.n \in Int
      /\ clean[v] => /\ want[v] = Sects[v]
                     /\ sent[v] <= got[v] /\ content[v] = Whole(sent[v], got[v])
                     /\ \/ got[v] < Sects[v] /\ buf.n > 0 /\ got[v] + buf.n = Reached(v)
                        \/ got[v] = Sects[v] /\ buf.n <= 0 /\ written[v] >= Sects[v]
      /\ clean[v] /\ SendsData => /\ updating[v] /\ sent[v] = got[v] /\ buf.off = got[v]
                                  /\ buf.n = call.n
  BY BeforeMore, Zenon DEF Sound
<1>3. got' = [got EXCEPT ![v] = got[v] + Taken] /\ got'[v] = got[v] + Taken
  BY <1>0, Zenon DEF Stored, Accept, Types
<1>4. clean[v] => Taken = buf.n
  BY <1>1, <1>2 DEF Reached
<1>5. CASE ~clean[v]
  BY <1>0, <1>3, <1>5, Zenon DEF Stored, Types
<1>6. CASE clean[v] /\ buf.off = -1
  <2>1. content' = [content EXCEPT ![v] = @ \o FillRun(Taken)] /\ sent' = sent
    BY <1>6, Zenon DEF Stored, Sector, FillRun
  <2>a. /\ sent[v] \in Nat /\ got[v] \in Nat /\ Taken \in Nat
        /\ sent[v] <= got[v] /\ content[v] = Whole(sent[v], got[v])
        /\ got[v] + Taken \in Nat
    BY <1>1, <1>2, <1>6
  <2>b. Whole(sent[v], got[v]) \o FillRun(Taken)
          = Whole(sent[v], got[v] + Taken)
    <3>1. sent[v] \in 0 .. got[v]
      BY <2>a
    <3>2. AppendsFill(sent[v], got[v], Taken)
      BY <2>a, <3>1, AppendFill, Zenon
    <3> QED
      BY <3>2, Zenon DEF AppendsFill
  <2>2. content[v] \o FillRun(Taken) = Whole(sent[v], got[v] + Taken)
    BY <2>a, <2>b, Zenon
  <2>3. Whole(sent[v], got[v] + Taken) \in Seq(Item)
    BY <2>a, WholeType, Zenon
  <2>4. content' = [content EXCEPT ![v] = Whole(sent[v], got[v] + Taken)]
    BY <2>1, <2>2, Zenon
  <2>5. content' \in [Vol -> Seq(Item)] /\ content'[v] = Whole(sent[v], got[v] + Taken)
        /\ \A u \in Vol : u # v => content'[u] = content[u]
    BY <1>0, <2>3, <2>4, Zenon DEF Types
  <2>6. sent[v] <= got[v] + Taken /\ ~SendsData
    BY <1>1, <1>2, <1>6 DEF SendsData
  <2> QED
    BY <1>0, <1>3, <1>4, <2>1, <2>5, <2>6, Zenon DEF Types
<1>7. CASE clean[v] /\ buf.off # -1
  <2>0. SendsData /\ call.n \in Nat
    BY <1>0, <1>7, Zenon DEF SendsData, InUbi, Calls
  <2>1. content' = [content EXCEPT ![v] = @ \o DataRun(got[v], Taken)]
        /\ sent' = [sent EXCEPT ![v] = got[v] + Taken]
    BY <1>2, <1>4, <1>7, <2>0, Zenon DEF Stored, Sector, DataRun
  <2>a. /\ got[v] \in Nat /\ Taken \in Nat /\ got[v] + Taken \in Nat
        /\ content[v] = Whole(got[v], got[v])
    BY <1>1, <1>2, <1>7, <2>0
  <2>2. content[v] \o DataRun(got[v], Taken)
          = Whole(got[v] + Taken, got[v] + Taken)
    <3>1. Whole(got[v], got[v]) \o DataRun(got[v], Taken)
            = Whole(got[v] + Taken, got[v] + Taken)
      <4>1. PICK m \in Nat, k \in Nat : m = got[v] /\ k = Taken
        BY <2>a, Zenon
      <4>2. Whole(m, m) \o DataRun(m, k) = Whole(m + k, m + k)
        BY AppendData, Zenon
      <4> QED
        BY <4>1, <4>2, Zenon
    <3> QED
      BY <2>a, <3>1, Zenon
  <2>3. Whole(got[v] + Taken, got[v] + Taken) \in Seq(Item)
    BY <2>a, WholeType, Zenon
  <2>4. content' = [content EXCEPT ![v] = Whole(got[v] + Taken, got[v] + Taken)]
    BY <2>1, <2>2, Zenon
  <2>5. /\ content' \in [Vol -> Seq(Item)] /\ sent' \in [Vol -> Nat]
        /\ content'[v] = Whole(got[v] + Taken, got[v] + Taken)
        /\ sent'[v] = got[v] + Taken
        /\ \A u \in Vol : u # v => content'[u] = content[u] /\ sent'[u] = sent[u]
    <3>1. content \in [Vol -> Seq(Item)] /\ sent \in [Vol -> Nat]
      BY <1>0, Zenon DEF Types
    <3>2. /\ content' \in [Vol -> Seq(Item)]
          /\ content'[v] = Whole(got[v] + Taken, got[v] + Taken)
          /\ \A u \in Vol : u # v => content'[u] = content[u]
      BY <2>3, <2>4, <3>1, Zenon
    <3>3. /\ sent' \in [Vol -> Nat] /\ sent'[v] = got[v] + Taken
          /\ \A u \in Vol : u # v => sent'[u] = sent[u]
      BY <2>a, <2>1, <3>1, Zenon
    <3> QED
      BY <3>2, <3>3, Zenon
  <2> QED
    BY <1>3, <1>4, <2>a, <2>5
<1> QED
  BY <1>5, <1>6, <1>7, Zenon

LEMMA MoreKeeps == UbiInv /\ ubi_more_update_data => UbiInv'
<1> SUFFICES ASSUME UbiInv, ubi_more_update_data PROVE UbiInv'
  OBVIOUS
<1>0. Types /\ Calls /\ FillsUp /\ Others /\ OthersDone /\ Marked /\ Current
  BY Zenon DEF UbiInv
<1>1. pc = "more" /\ InUbi /\ buf.n >= 0 /\ Stored
  BY Zenon DEF ubi_more_update_data, InUbi
<1> PICK v \in Vol : v = last_partno /\ V = v /\ Sects[v] \in Nat \ {0}
  BY <1>1, VolumeInUse, Zenon
<1>2. /\ UNCHANGED <<marker, updating, want, upd_marker, clean, failed>>
      /\ last_partno' = v /\ UNCHANGED <<last_partno, last_offset, last_name, written, twin>>
  BY <1>1, Zenon DEF Stored, Accept, driver
<1>3. /\ Taken \in Nat /\ Taken <= buf.n /\ got[v] + Taken <= want[v]
      /\ Taken = buf.n \/ got[v] + Taken = want[v]
  BY <1>1, TakenType, Zenon
<1>4. /\ got' = [got EXCEPT ![v] = got[v] + Taken] /\ got'[v] = got[v] + Taken
      /\ sent' \in [Vol -> Nat] /\ content' \in [Vol -> Seq(Item)]
      /\ \A u \in Vol : u # v => sent'[u] = sent[u] /\ content'[u] = content[u]
      /\ clean[v] => /\ Taken = buf.n /\ sent'[v] <= got'[v]
                     /\ content'[v] = Whole(sent'[v], got'[v])
      /\ clean[v] /\ SendsData => sent'[v] = got'[v]
  BY <1>1, TakenIsStored, Zenon
<1>5. /\ got[v] \in Nat /\ want[v] \in Nat /\ got[v] <= want[v]
      /\ sent[v] \in Nat /\ written[v] \in Nat /\ Sects[v] \in Nat \ {0} /\ buf.n \in Int
      /\ Sound(v) => /\ want[v] = Sects[v] /\ (updating[v] <=> got[v] < Sects[v])
                     /\ got[v] = Sects[v] \/ got[v] + buf.n >= Reached(v)
      /\ clean[v] => \/ got[v] < Sects[v] /\ buf.n > 0 /\ got[v] + buf.n = Reached(v)
                     \/ got[v] = Sects[v] /\ buf.n <= 0 /\ written[v] >= Sects[v]
      /\ clean[v] /\ SendsData => buf.off = got[v] /\ buf.n = call.n
  BY <1>1, BeforeMore, Zenon
<1>6. \/ pc' = "clear" /\ got[v] + Taken = want[v] /\ UNCHANGED <<call, pad, ff, buf>>
      \/ /\ pc' = "fill" /\ got[v] + Taken # want[v] /\ buf.off = -1
         /\ UNCHANGED <<call, pad, ff>>
      \/ pc' = "idle" /\ got[v] + Taken # want[v] /\ buf.off # -1 /\ pad' = 0 /\ ff' = 0
  BY Zenon DEF ubi_more_update_data, Return, Idle, loops
<1>7. Types'
  <2>1. got \in [Vol -> Nat] /\ \A u \in Vol : got[u] <= want[u]
    BY <1>0, Zenon DEF Types
  <2>2. got[v] + Taken \in Nat
    BY <1>3, <1>5
  <2>3. got' \in [Vol -> Nat] /\ \A u \in Vol : got'[u] <= want[u]
    BY <1>3, <1>4, <2>1, <2>2, Zenon
  <2>4. /\ pc' \in {"idle", "fill", "main", "start", "wipe", "more", "clear", "dead"}
        /\ pad' \in Nat /\ ff' \in Nat
    <3>1. pad \in Nat /\ ff \in Nat /\ 0 \in Nat
      BY <1>0, Zenon DEF Types
    <3> QED
      BY <1>6, <3>1, Zenon
  <2> QED
    BY <1>0, <1>2, <1>4, <2>3, <2>4, Zenon DEF Types
<1>8. Calls' /\ FillsUp'
  BY <1>0, <1>1, <1>2, <1>6, Zenon
  DEF Calls, FillsUp, Filling, InUbi, SendsData, SendsFill, V
<1>9. OthersDone' /\ Marked'
  BY <1>0, <1>2, Zenon DEF OthersDone, Marked
<1>10. Others'
  <2>1. pc' \notin {"start", "dead"}
    BY <1>6, Zenon
  <2>2. \A u \in Vol : u # v => Closed(u)
    BY <1>0, Zenon DEF Others
  <2> QED
    BY <1>2, <1>4, <2>1, <2>2, Zenon DEF Others, Closed
<1>11. Progress(v)'
  <2>1. CASE pc' = "clear"
    <3>1. clean[v] => written[v] >= Sects[v]
      BY <1>4, <1>5, <1>6, <2>1, SMTT(30) DEF Reached, Sound
    <3>2. SendsData' => SendsData
      BY <1>1, <1>6, <2>1, Zenon DEF SendsData
    <3> QED
      BY <1>2, <1>4, <1>5, <1>6, <2>1, <3>1, <3>2, Zenon DEF Progress, Sound
  <2>2. CASE pc' # "clear"
    <3>1. Taken = buf.n /\ got'[v] < want[v] /\ got[v] < want[v]
      <4>1. got[v] + Taken # want[v]
        BY <1>6, <2>2, Zenon
      <4>2. got'[v] = got[v] + Taken /\ got[v] \in Nat /\ want[v] \in Nat
        BY <1>4, <1>5, Zenon
      <4> QED
        BY <1>3, <4>1, <4>2
    <3>2. Reached(v)' = Reached(v) /\ Sound(v)' = Sound(v)
      BY <1>2, Zenon DEF Reached, Sound
    <3>3. /\ Sound(v) => /\ want'[v] = Sects[v] /\ got'[v] >= Reached(v)
                         /\ updating'[v] <=> got'[v] < Sects[v]
          /\ clean[v] => got'[v] = Reached(v) /\ written[v] = got'[v]
      <4>1. got'[v] = got[v] + buf.n /\ want' = want /\ updating' = updating
        BY <1>2, <1>4, <3>1, Zenon
      <4> QED
        BY <1>5, <3>1, <4>1, SMTT(30) DEF Sound, Reached
    <3>4. pc' = "idle" /\ clean[v] => sent'[v] = got'[v] /\ last_offset = got'[v]
      <4>1. pc' = "idle" => SendsData
        BY <1>1, <1>6, Zenon DEF SendsData
      <4>2. SendsData => buf.off = call.off /\ last_offset = call.off + call.n
        BY <1>0, Zenon DEF Calls
      <4> QED
        BY <1>4, <1>5, <3>1, <4>1, <4>2
    <3>5. clean'[v] => sent'[v] <= got'[v] /\ content'[v] = Whole(sent'[v], got'[v])
      BY <1>2, <1>4, Zenon
    <3> QED
      BY <1>2, <1>6, <2>2, <3>2, <3>3, <3>4, <3>5, Zenon DEF Progress
  <2> QED
    BY <2>1, <2>2, Zenon
<1>12. Current'
  BY <1>2, <1>11, Zenon DEF Current
<1> QED
  BY <1>7, <1>8, <1>9, <1>10, <1>12, Zenon DEF UbiInv
-----------------------------------------------------------------------------

LEMMA StepKeeps == UbiInv /\ [Next]_vars => UbiInv'
<1> SUFFICES ASSUME UbiInv, [Next]_vars PROVE UbiInv'
  OBVIOUS
<1>1. CASE \E v \in Vol, n \in 1 .. MaxSects : \E off \in 0 .. Sects[v] - 1 :
             \/ spinand_mtd_write_ubi(v, off, n)
             \/ WriteOutOfOrder(v, off, n) \/ WriteMidway(v, off, n)
  BY <1>1, WriteCallKeeps, WriteOutOfOrderKeeps, StutterKeeps, Zenon DEF WriteMidway
<1>2. CASE \E v \in Vol : spinand_mtd_read_ubi(v)
  BY <1>2, FillCallKeeps DEF spinand_mtd_read_ubi, Called
<1>3. CASE spinand_mtd_flush_last_volume
  BY <1>3, FillCallKeeps, Zenon DEF spinand_mtd_flush_last_volume, Called
<1>4. CASE Step
  BY <1>4, FillRoundKeeps, FillDoneKeeps, WriteMainKeeps, ReadEndKeeps, StartKeeps, WipeKeeps,
     MoreKeeps, ClearKeeps, StartFailsKeeps, MoreFailsKeeps, ClearFailsKeeps, MoreDiesKeeps,
     ClearDiesKeeps, Zenon
  DEF Step
<1>5. CASE PowerCut
  BY <1>5, PowerCutKeeps, Zenon
<1>6. CASE UNCHANGED vars
  BY <1>6, StutterKeeps, Zenon
<1> QED
  BY <1>1, <1>2, <1>3, <1>4, <1>5, <1>6, Zenon DEF Next

LEMMA InvAlways == Spec => []UbiInv
  BY InitInv, StepKeeps, PTL DEF Spec

LEMMA InvReadable == UbiInv => ReadableIsWhole
<1> SUFFICES ASSUME UbiInv, NEW v \in Vol, Readable(v), clean[v]
             PROVE  content[v] = Whole(sent[v], Sects[v])
  BY Zenon DEF ReadableIsWhole
<1>1. ~marker[v] /\ ~updating[v]
  BY Zenon DEF Readable, UbiInv, Marked
<1>2. CASE v # last_partno \/ pc \in {"start", "dead"}
  BY <1>1, <1>2, Zenon DEF UbiInv, Others, Closed
<1>3. CASE v = last_partno /\ pc \notin {"start", "dead"}
  <2>1. Progress(v) /\ Types /\ Sects[v] \in Nat
    BY <1>3, UbiAssumption, Zenon DEF UbiInv, Current
  <2>2. /\ got[v] <= want[v] /\ got[v] \in Nat /\ want[v] \in {0, Sects[v]}
        /\ pc \in {"idle", "fill", "main", "start", "wipe", "more", "clear", "dead"}
    BY <2>1, Zenon DEF Types
  <2>3. got[v] <= Sects[v]
    BY <2>1, <2>2
  <2>4. pc \in {"idle", "fill", "main", "more", "clear"}
    BY <1>1, <1>3, <2>1, <2>2, Zenon DEF Progress
  <2>5. /\ pc # "clear" => (updating[v] <=> got[v] < Sects[v])
        /\ content[v] = Whole(sent[v], got[v])
    BY <2>1, <2>4, Zenon DEF Progress, Sound
  <2>6. pc = "clear" => got[v] = want[v] /\ want[v] = Sects[v]
    BY <2>1, Zenon DEF Progress, Sound
  <2>7. got[v] = Sects[v] /\ content[v] = Whole(sent[v], got[v])
    BY <1>1, <2>1, <2>2, <2>3, <2>5, <2>6, SMTT(30)
  <2> QED
    BY <2>7, Zenon
<1> QED
  BY <1>2, <1>3, Zenon

(* A volume that spinand_mtd_read_ubi can read, with neither vol->upd_marker *)
(* set nor an update going on, holds one whole image, after a power cut too, *)
(* for volumes of every size and wherever MTD parts are in the MBR: what the *)
(* writer sent through spinand_mtd_write_ubi, in order, and the filler of    *)
(* fill_gap behind it.  Excepted are spoilt images: those with a failed      *)
(* operation, or begun where one had left the marker in memory only.         *)
THEOREM ReadableAlwaysWhole == Spec => []ReadableIsWhole
  BY InvAlways, InvReadable, PTL

(* When spinand_mtd_write_ubi turns to another partition, or write_end comes, *)
(* fill_gap has finished the update of the partition written before, unless  *)
(* some UBI operation failed.                                                *)
THEOREM OnlyOneUpdating == Spec => []OneUpdating
<1>1. UbiInv => OneUpdating
  BY Zenon DEF UbiInv, OthersDone, OneUpdating
<1> QED
  BY <1>1, InvAlways, PTL
-----------------------------------------------------------------------------
(* The loops of fill_gap_do, which send filler in rounds of GAP_BUF_MAX_SECTS *)

(* Padding takes less than an erase block and ends with one; that is not     *)
(* past the end of a partition that uses no sector or one of its last block. *)
LEMMA RemainFacts ==
  ASSUME NEW w \in Nat
  PROVE  /\ Remain(w) \in 0 .. LebSects - 1
         /\ Remain(w + Remain(w)) = 0
         /\ \A s \in Nat : w < s /\ s % LebSects \in {0, 1} /\ Remain(w) > 0 => w + Remain(w) <= s
<1> DEFINE L == LebSects
           q == w \div L
           r == w % L
<1>0. L \in Nat \ {0}
  BY UbiAssumption
<1> HIDE DEF L
<1>1. q \in Nat /\ r \in 0 .. L - 1 /\ w = L * q + r
  BY <1>0
<1>2. \A i \in Nat : (L * i) % L = 0
  BY <1>0
<1>3. \A x \in 0 .. L - 1 : x % L = x
  BY <1>0
<1>4. L % L = 0 /\ (L - 0) % L = 0
  BY <1>0
<1> HIDE DEF q, r
<1>5. Remain(w) = (L - r) % L
  BY Zenon DEF Remain, L, r
<1>6. Remain(w) = IF r = 0 THEN 0 ELSE L - r
  <2>1. CASE r = 0
    BY <1>4, <1>5, <2>1
  <2>2. CASE r # 0
    <3>1. L - r \in 0 .. L - 1
      BY <1>0, <1>1, <2>2
    <3> QED
      BY <1>3, <1>5, <2>2, <3>1, Zenon
  <2> QED
    BY <2>1, <2>2, Zenon
<1>7. Remain(w) \in 0 .. L - 1
  BY <1>0, <1>1, <1>6
<1>8. \E i \in Nat : w + Remain(w) = L * i
  <2>1. CASE r = 0
    <3>1. w + Remain(w) = L * q
      BY <1>0, <1>1, <1>6, <2>1
    <3> QED
      BY <1>1, <3>1, Zenon
  <2>2. CASE r # 0
    <3>1. w + Remain(w) = L * q + L /\ L * q + L = L * (q + 1) /\ q + 1 \in Nat
      BY <1>0, <1>1, <1>6, <2>2
    <3> QED
      BY <3>1, Zenon
  <2> QED
    BY <2>1, <2>2, Zenon
<1>9. Remain(w + Remain(w)) = 0
  <2>1. (w + Remain(w)) % L = 0
    BY <1>2, <1>8, Zenon
  <2>2. Remain(w + Remain(w)) = (L - ((w + Remain(w)) % L)) % L
    BY Zenon DEF Remain, L
  <2> QED
    BY <1>4, <2>1, <2>2, Zenon
<1>10. ASSUME NEW s \in Nat, w < s, s % L \in {0, 1}, Remain(w) > 0
       PROVE  w + Remain(w) <= s
  <2> DEFINE p == s \div L
             o == s % L
  <2>1. p \in Nat /\ o \in {0, 1} /\ s = L * p + o
    BY <1>0, <1>10
  <2> HIDE DEF p, o
  <2>2. r >= 1 /\ Remain(w) = L - r
    BY <1>1, <1>6, <1>10
  <2>3. p > q
    <3>1. p <= q => L * p <= L * q
      BY <1>0, <1>1, <2>1
    <3>2. L * p \in Int /\ L * q \in Int
      BY <1>0, <1>1, <2>1
    <3> QED
      BY <1>1, <1>10, <2>1, <2>2, <3>1, <3>2
  <2>4. L * p >= L * q + L
    BY <1>0, <1>1, <2>1, <2>3
  <2> QED
    BY <1>0, <1>1, <2>1, <2>2, <2>4
<1> QED
  BY <1>7, <1>9, <1>10 DEF L

(* The counters of the loops mean something only while fill_gap_do runs. *)
Loops == /\ pad \in 0 .. LebSects - 1
         /\ Filling \/ pc = "dead" \/ (pad = 0 /\ ff = 0)

LEMMA RestartType ==
  ASSUME written \in [Vol -> Nat], NEW v \in Vol, NEW off
  PROVE  /\ Restart(v, off) \in [Vol -> Nat]
         /\ \A u \in Vol : u # v \/ off # 0 => Restart(v, off)[u] = written[u]
<1>1. 0 \in Nat
  OBVIOUS
<1> QED
  BY <1>1, Zenon DEF Restart

LEMMA LoopsKept == UbiInv /\ Loops /\ [Next]_vars => Loops'
<1> SUFFICES ASSUME UbiInv, Loops, [Next]_vars PROVE Loops'
  OBVIOUS
<1>0. /\ LebSects \in Nat \ {0} /\ GapBuf \in Nat \ {0} /\ pad \in Nat /\ ff \in Nat
      /\ 0 \in 0 .. LebSects - 1
  BY UbiAssumption DEF UbiInv, Types
<1> USE DEF Loops, Filling, SendsFill, InUbi, loops
<1>1. ASSUME pc = "idle", NEW w \in [Vol -> Nat], fill_gap(w) PROVE Loops'
  <2>1. last_partno \in Vol => RemainOf(w, last_partno) \in 0 .. LebSects - 1
    <3>1. last_partno \in Vol /\ twin[last_partno] # NoVol => w[twin[last_partno]] \in Nat
      BY Zenon DEF UbiInv, Types
    <3> QED
      BY <1>0, <3>1, RemainFacts, Zenon DEF RemainOf
  <2>2. last_partno \in Vol \cup {NoVol}
    BY Zenon DEF UbiInv, Types
  <2> QED
    BY <1>1, <2>1, <2>2, Zenon DEF fill_gap
<1>2. ASSUME NEW v \in Vol, NEW n \in 1 .. MaxSects, NEW off \in 0 .. Sects[v] - 1,
             \/ spinand_mtd_write_ubi(v, off, n)
             \/ WriteOutOfOrder(v, off, n) \/ WriteMidway(v, off, n)
      PROVE  Loops'
  <2>0. Restart(v, off) \in [Vol -> Nat] /\ written \in [Vol -> Nat]
    BY RestartType, Zenon DEF UbiInv, Types
  <2>1. CASE spinand_mtd_write_ubi(v, off, n) /\ v # last_partno
    BY <1>1, <2>0, <2>1, Zenon DEF spinand_mtd_write_ubi
  <2>2. CASE spinand_mtd_write_ubi(v, off, n) /\ v = last_partno
    BY <2>2, Zenon DEF spinand_mtd_write_ubi
  <2>3. CASE WriteOutOfOrder(v, off, n) \/ WriteMidway(v, off, n)
    BY <2>3, Zenon DEF WriteOutOfOrder, WriteMidway, vars
  <2> QED
    BY <1>2, <2>1, <2>2, <2>3, Zenon
<1>3. ASSUME NEW v \in Vol, spinand_mtd_read_ubi(v) PROVE Loops'
  BY <1>1, <1>3, Zenon DEF spinand_mtd_read_ubi, UbiInv, Types
<1>4. CASE spinand_mtd_flush_last_volume
  BY <1>1, <1>4, Zenon DEF spinand_mtd_flush_last_volume, UbiInv, Types
<1>5. CASE FillPad
  <2>1. Max({0, pad - GapBuf}) \in 0 .. LebSects - 1
    <3>1. Max({0, pad - GapBuf}) = IF 0 >= pad - GapBuf THEN 0 ELSE pad - GapBuf
      BY <1>0, MaxTwo
    <3> QED
      BY <1>0, <3>1
  <2>2. pad' \in 0 .. LebSects - 1 /\ pc' \in {"more", "start"} /\ buf'.off = -1
    BY <1>5, <2>1, Zenon DEF FillPad, Send
  <2> QED
    BY <2>2, Zenon
<1>6. CASE FillFf
  BY <1>6, Zenon DEF FillFf, Send
<1>7. CASE FillDone \/ WriteMain
  BY <1>0, <1>7, Zenon DEF FillDone, WriteMain
<1>8. CASE ReadMain \/ EndMain \/ PowerCut
  BY <1>0, <1>8, Zenon DEF ReadMain, EndMain, PowerCut, Idle
<1>9. CASE ubi_start_update \/ Wipe
  BY <1>9, Zenon DEF ubi_start_update, Wipe
<1>10. CASE ubi_more_update_data \/ clear_update_marker
  BY <1>0, <1>10, Zenon DEF ubi_more_update_data, clear_update_marker, Return, Idle
<1>11. CASE StartFails \/ MoreFails \/ ClearFails
  BY <1>0, <1>11, Zenon DEF StartFails, MoreFails, ClearFails, ReturnError, Idle
<1>12. CASE MoreDies \/ ClearDies \/ UNCHANGED vars
  BY <1>12, Zenon DEF MoreDies, ClearDies, vars
<1> QED
  BY <1>2, <1>3, <1>4, <1>5, <1>6, <1>7, <1>8, <1>9, <1>10, <1>11, <1>12, Zenon DEF Next, Step

(* How far the loops of fill_gap_do get in volume v: padding begins, and     *)
(* goes on, before its end, and what is written past its end completes an    *)
(* erase block.                                                              *)
Counts(v) ==
  /\ pad > 0 => /\ written[v] < Sects[v]
                /\ Sects[v] % LebSects \in {0, 1} => written[v] + pad <= Sects[v]
  /\ written[v] + pad > Sects[v] => Remain(written[v] + pad) = 0
  /\ ff > 0 => written[v] + (pad + ff) = Sects[v]

(* So every round has something to send, to a volume that is being updated,  *)
(* unless fill_gap_do goes by the count of another partition.                *)
Regular(v) == ~EndsInside(v) /\ twin[v] \in {v, NoVol}
Rounds(v) == clean[v] /\ Regular(v) => /\ Counts(v)
                                       /\ pc = "more" => buf.n > 0
                                       /\ pc = "clear" => updating[v]
LastRounds == last_partno \in Vol => Rounds(last_partno)

LEMMA SameCounts ==
  ASSUME NEW v, Counts(v), written'[v] = written[v], UNCHANGED <<pad, ff>>
  PROVE  Counts(v)'
BY Zenon DEF Counts

LEMMA NoCounts ==
  ASSUME NEW v \in Vol, written[v] \in Nat, written[v] <= Sects[v], pad = 0, ff = 0
  PROVE  Counts(v)
BY UbiAssumption DEF Counts

LEMMA GapCounts ==
  ASSUME Types, NEW v \in Vol, v = last_partno, Counts(v), Regular(v), pad = 0,
         NEW w \in [Vol -> Nat], fill_gap(w), w[v] = written[v], written'[v] = written[v]
  PROVE  Counts(v)'
<1> DEFINE x == written[v]
           r == RemainOf(w, v)
<1>0. x \in Nat /\ Sects[v] \in Nat /\ v # NoVol
  BY UbiAssumption, Zenon DEF Types
<1>1. CASE Sects[v] = x
  <2>1. Gap(w, v) = 0
    BY <1>0, <1>1 DEF Gap
  <2> QED
    BY <2>1, SameCounts, Zenon DEF fill_gap, loops
<1>2. CASE Sects[v] # x
  <2> DEFINE z == Sects[v] - x - r
  <2>1. pad' = r /\ ff' = Max({0, z}) /\ written'[v] = x
    <3>1. Gap(w, v) = Sects[v] - x
      BY Zenon DEF Gap
    <3>2. Sects[v] - x # 0
      BY <1>0, <1>2
    <3> QED
      BY <1>0, <3>1, <3>2, Zenon DEF fill_gap
  <2>2. x > Sects[v] => Remain(x) = 0
    BY <1>0 DEF Counts
  <2>3. \/ r = 0 /\ twin[v] = NoVol
        \/ r = Remain(x) /\ twin[v] # NoVol
    BY Zenon DEF Regular, RemainOf
  <2>4. /\ Remain(x) \in 0 .. LebSects - 1 /\ Remain(x + Remain(x)) = 0
        /\ x < Sects[v] /\ Sects[v] % LebSects \in {0, 1} /\ Remain(x) > 0 =>
             x + Remain(x) <= Sects[v]
    BY <1>0, RemainFacts, Zenon
  <2> HIDE DEF r, x
  <2>5. r \in Nat /\ z \in Int
    BY <1>0, <2>3, <2>4
  <2>6. /\ x + r > Sects[v] => Remain(x + r) = 0
        /\ r > 0 => x < Sects[v]
        /\ r > 0 /\ Sects[v] % LebSects \in {0, 1} => x + r <= Sects[v]
    <3>1. CASE r = 0
      BY <1>0, <2>2, <3>1
    <3>2. CASE r = Remain(x)
      BY <1>0, <1>2, <2>2, <2>4, <2>5, <3>2
    <3> QED
      BY <2>3, <3>1, <3>2, Zenon
  <2>7. ff' = IF 0 >= z THEN 0 ELSE z
    <3>1. Max({0, z}) = IF 0 >= z THEN 0 ELSE z
      BY <2>5, MaxTwo
    <3> QED
      BY <2>1, <3>1, Zenon
  <2>8. ff' > 0 => x + (r + ff') = Sects[v]
    BY <1>0, <2>5, <2>7
  <2> QED
    BY <2>1, <2>6, <2>8, Zenon DEF Counts
<1> QED
  BY <1>1, <1>2, Zenon

(* A round of the first loop: the next one, if any, begins before the end. *)
LEMMA PadRound ==
  ASSUME UbiInv, Loops, NEW v \in Vol, v = last_partno, Counts(v), Regular(v), FillPad
  PROVE  Counts(v)' /\ buf'.n > 0
<1> DEFINE k == IF pad <= GapBuf THEN pad ELSE GapBuf
<1>0. /\ written[v] \in Nat /\ Sects[v] \in Nat /\ pad \in Nat /\ ff \in Nat /\ pad > 0
      /\ LebSects \in Nat \ {0} /\ GapBuf \in Nat \ {0} /\ pad < LebSects
  BY UbiAssumption DEF UbiInv, Types, Loops, FillPad
<1>1. Min({pad, GapBuf}) = k
  BY <1>0, MinTwo
<1>2. Max({0, pad - GapBuf}) = pad - k
  <2>1. pad - GapBuf \in Int
    BY <1>0
  <2>2. Max({0, pad - GapBuf}) = IF 0 >= pad - GapBuf THEN 0 ELSE pad - GapBuf
    BY <2>1, MaxTwo
  <2> QED
    BY <1>0, <2>2
<1>a. written \in [Vol -> Nat]
  BY Zenon DEF UbiInv, Types
<1>3. /\ pad' = pad - k /\ written'[v] = written[v] + k /\ ff' = ff
      /\ buf'.n = IF written[v] + k > Sects[v] THEN Sects[v] - written[v] ELSE k
  BY <1>1, <1>2, <1>a, Zenon DEF FillPad, Send
<1>4. k \in Nat \ {0} /\ k <= pad /\ (k = pad \/ k = GapBuf)
  BY <1>0
<1> HIDE DEF k
<1>5. written[v] < Sects[v]
  BY <1>0, Zenon DEF Counts
<1>6. written'[v] + pad' = written[v] + pad /\ written'[v] + (pad' + ff') = written[v] + (pad + ff)
  BY <1>0, <1>3, <1>4
<1>7. pad' > 0 => written'[v] < Sects[v]
  <2>1. CASE Sects[v] % LebSects \in {0, 1}
    BY <1>0, <1>3, <1>4, <2>1 DEF Counts
  <2>2. CASE GapBuf + 1 >= LebSects
    BY <1>0, <1>3, <1>4, <2>2
  <2>3. Sects[v] % LebSects \in {0, 1} \/ GapBuf + 1 >= LebSects
    <3>1. Sects[v] % LebSects \in 0 .. LebSects - 1
      BY <1>0
    <3> QED
      BY <1>0, <3>1 DEF EndsInside, Regular
  <2> QED
    BY <2>1, <2>2, <2>3, Zenon
<1>8. Counts(v)'
  BY <1>0, <1>3, <1>6, <1>7, Zenon DEF Counts
<1> QED
  BY <1>0, <1>3, <1>4, <1>5, <1>8

LEMMA FfRound ==
  ASSUME UbiInv, NEW v \in Vol, v = last_partno, Counts(v), FillFf
  PROVE  Counts(v)' /\ buf'.n > 0
<1> DEFINE k == IF ff <= GapBuf THEN ff ELSE GapBuf
<1>0. /\ written[v] \in Nat /\ Sects[v] \in Nat /\ ff \in Nat /\ ff > 0 /\ pad = 0
      /\ GapBuf \in Nat \ {0}
  BY UbiAssumption DEF UbiInv, Types, FillFf
<1>1. Min({ff, GapBuf}) = k
  BY <1>0, MinTwo
<1>2. Max({0, ff - GapBuf}) = ff - k
  <2>1. ff - GapBuf \in Int
    BY <1>0
  <2>2. Max({0, ff - GapBuf}) = IF 0 >= ff - GapBuf THEN 0 ELSE ff - GapBuf
    BY <2>1, MaxTwo
  <2> QED
    BY <1>0, <2>2
<1>a. written \in [Vol -> Nat]
  BY Zenon DEF UbiInv, Types
<1>3. /\ ff' = ff - k /\ written'[v] = written[v] + k /\ pad' = pad
      /\ buf'.n = IF written[v] + k > Sects[v] THEN Sects[v] - written[v] ELSE k
  BY <1>1, <1>2, <1>a, Zenon DEF FillFf, Send
<1>4. k \in Nat \ {0} /\ k <= ff
  BY <1>0
<1> HIDE DEF k
<1>5. written[v] + ff = Sects[v]
  BY <1>0 DEF Counts
<1> QED
  BY <1>0, <1>3, <1>4, <1>5 DEF Counts

LEMMA CallRounds ==
  ASSUME UbiInv, Loops, LastRounds, pc = "idle", pc' \in {"fill", "main"},
         NEW w \in [Vol -> Nat], fill_gap(w) \/ UNCHANGED loops, UNCHANGED <<last_partno, twin>>,
         \A u \in Vol : u = last_partno => w[u] = written[u] /\ written'[u] = written[u],
         \A u \in Vol : clean'[u] => clean[u]
  PROVE  LastRounds'
<1> SUFFICES ASSUME NEW v \in Vol, v = last_partno, clean'[v], Regular(v)
             PROVE  Counts(v)'
  BY Zenon DEF LastRounds, Rounds, Regular, EndsInside
<1>1. Counts(v) /\ pad = 0 /\ Types /\ w[v] = written[v] /\ written'[v] = written[v]
  BY Zenon DEF LastRounds, Rounds, Loops, Filling, SendsFill, InUbi, UbiInv
<1> QED
  BY <1>1, GapCounts, SameCounts, Zenon DEF loops

LEMMA WriteRounds ==
  ASSUME UbiInv, Loops, WriteMain
  PROVE  LastRounds'
<1> SUFFICES ASSUME NEW v \in Vol, v = call.vol, clean[v]
             PROVE  Counts(v)' /\ buf'.n > 0 /\ pc' # "clear"
  BY Zenon DEF LastRounds, Rounds, Regular, EndsInside, WriteMain, ghosts
<1> DEFINE w == written[v]
<1>1. /\ pad' = 0 /\ ff' = 0 /\ pc' \in {"more", "start"} /\ written'[v] = w + call.n
      /\ buf'.n = IF w + call.n > Sects[v] THEN Sects[v] - w ELSE call.n
  <2>1. written \in [Vol -> Nat]
    BY Zenon DEF UbiInv, Types
  <2> QED
    BY <2>1, Zenon DEF WriteMain, Send, Loops, Filling, SendsFill, InUbi, loops
<1>2. /\ call.n \in Nat \ {0} /\ call.off \in Nat /\ call.off + call.n <= Sects[v]
      /\ call.off = IF v = last_partno THEN last_offset ELSE 0
  BY Zenon DEF WriteMain, UbiInv, Calls
<1>3. /\ v = last_partno => written[v] = last_offset
      /\ v # last_partno => written[v] = 0
  BY Zenon DEF WriteMain, UbiInv, Calls, Current, Progress
<1>4. w = call.off
  BY <1>2, <1>3
<1> HIDE DEF w
<1>5. written'[v] \in Nat /\ written'[v] <= Sects[v] /\ buf'.n > 0
  <2>1. Sects[v] \in Nat
    BY UbiAssumption
  <2> QED
    BY <1>1, <1>2, <1>4, <2>1
<1>6. Counts(v)'
  <2>1. Sects[v] \in Nat
    BY UbiAssumption
  <2> QED
    BY <1>1, <1>5, <2>1 DEF Counts
<1> QED
  BY <1>1, <1>5, <1>6

LEMMA StartRounds ==
  ASSUME UbiInv, Loops, ubi_start_update \/ Wipe
  PROVE  LastRounds'
<1> SUFFICES ASSUME NEW v \in Vol, v = last_partno
             PROVE  Counts(v)' /\ buf'.n > 0 /\ pc' # "clear"
  BY Zenon DEF LastRounds, Rounds, Regular, EndsInside, ubi_start_update, Wipe, driver
<1>1. /\ pc \in {"start", "wipe"} /\ pc' \in {"wipe", "more"}
      /\ UNCHANGED <<written, pad, ff, buf>>
  BY Zenon DEF ubi_start_update, Wipe, driver, loops
<1>2. buf.off = 0 /\ buf.n = call.n /\ written[v] = call.n
  BY <1>1, Zenon DEF UbiInv, Calls
<1>3. InUbi /\ buf.off # -1
  BY <1>1, <1>2 DEF InUbi
<1>4. /\ call.op = "write" /\ call.vol = v /\ call.n \in Nat \ {0} /\ call.off \in Nat
      /\ call.off + call.n <= Sects[v]
  BY <1>3, Zenon DEF UbiInv, Calls, SendsData
<1>5. pad = 0 /\ ff = 0
  BY <1>1, <1>3, Zenon DEF Loops, Filling, SendsFill
<1>6. written[v] \in Nat /\ written[v] <= Sects[v] /\ buf.n > 0
  <2>1. Sects[v] \in Nat
    BY UbiAssumption
  <2> QED
    BY <1>2, <1>4, <2>1
<1> QED
  BY <1>1, <1>5, <1>6, NoCounts, SameCounts, Zenon

LEMMA SentRounds ==
  ASSUME UbiInv, Loops, LastRounds, ubi_more_update_data \/ clear_update_marker
  PROVE  LastRounds'
<1> SUFFICES ASSUME NEW v \in Vol, v = last_partno, clean[v], Regular(v)
             PROVE  Counts(v)' /\ pc' # "more" /\ (pc' = "clear" => updating'[v])
  BY Zenon DEF LastRounds, Rounds, Regular, EndsInside, ubi_more_update_data, clear_update_marker, Stored,
       driver, ghosts
<1>1. Counts(v) /\ (pc = "more" => buf.n > 0)
  BY Zenon DEF LastRounds, Rounds
<1>2. UNCHANGED <<written, pad, ff>>
  BY Zenon DEF ubi_more_update_data, clear_update_marker, Stored, Return, Idle, driver, loops,
       Loops, Filling, SendsFill
<1>3. CASE ubi_more_update_data
  <2>1. pc = "more" /\ UNCHANGED updating /\ pc' # "more"
    BY <1>3, Zenon DEF ubi_more_update_data, Stored, Accept, Return, Idle
  <2>2. updating[v] <=> got[v] < Sects[v]
    BY <2>1, Zenon DEF UbiInv, Current, Progress, Sound
  <2>3. got[v] < Sects[v] \/ buf.n <= 0
    BY <2>1, Zenon DEF UbiInv, Current, Progress
  <2>4. buf.n \in Int
    BY <2>1, Zenon DEF UbiInv, Calls, InUbi
  <2>5. updating[v]
    BY <1>1, <2>1, <2>2, <2>3, <2>4
  <2> QED
    BY <1>1, <1>2, <2>1, <2>5, SameCounts, Zenon
<1>4. CASE clear_update_marker
  <2>1. pc' \in {"fill", "idle"}
    BY <1>4, Zenon DEF clear_update_marker, Return, Idle
  <2> QED
    BY <1>1, <1>2, <2>1, SameCounts, Zenon
<1> QED
  BY <1>3, <1>4, Zenon

LEMMA RoundsKept == UbiInv /\ Loops /\ LastRounds /\ [Next]_vars => LastRounds'
<1> SUFFICES ASSUME UbiInv, Loops, LastRounds, [Next]_vars PROVE LastRounds'
  OBVIOUS
<1>0. Types
  BY Zenon DEF UbiInv
<1>1. ASSUME NEW v \in Vol, NEW n \in 1 .. MaxSects, NEW off \in 0 .. Sects[v] - 1,
             spinand_mtd_write_ubi(v, off, n)
      PROVE  LastRounds'
  <2>1. \A u \in Vol : clean'[u] => clean[u]
    BY <1>0, <1>1, MaySpoil, Zenon DEF spinand_mtd_write_ubi
  <2> DEFINE w == Restart(v, off)
  <2>2. written' = w /\ w \in [Vol -> Nat] /\ pc = "idle" /\ UNCHANGED <<last_partno, twin>>
    BY <1>0, <1>1, RestartType, Zenon DEF spinand_mtd_write_ubi, Types
  <2>3. \A u \in Vol : u = last_partno => w[u] = written[u]
    <3>1. v = last_partno => off # 0
      BY <1>0, <1>1 DEF spinand_mtd_write_ubi, InOrder, Types
    <3> QED
      BY <1>0, <3>1, RestartType, Zenon DEF Types
  <2>4. pc' \in {"fill", "main"} /\ (fill_gap(w) \/ UNCHANGED loops)
    BY <1>1, Zenon DEF spinand_mtd_write_ubi, fill_gap
  <2> HIDE DEF w
  <2> QED
    BY <2>1, <2>2, <2>3, <2>4, CallRounds, Zenon
<1>2. ASSUME NEW v \in Vol, NEW n \in 1 .. MaxSects, NEW off \in 0 .. Sects[v] - 1,
             WriteOutOfOrder(v, off, n)
      PROVE  LastRounds'
  <2>1. CASE off = 0
    BY <1>0, <1>2, <2>1, SpoilTypes, Zenon DEF WriteOutOfOrder, LastRounds, Rounds
  <2>2. CASE off # 0
    BY <1>2, <2>2, SameCounts, Zenon DEF WriteOutOfOrder, Restart, LastRounds, Rounds, Regular,
         EndsInside, Keep, ubi, loops
  <2> QED
    BY <2>1, <2>2, Zenon
<1>3. CASE spinand_mtd_flush_last_volume \/ \E v \in Vol : spinand_mtd_read_ubi(v)
  <2>1. /\ pc = "idle" /\ pc' \in {"fill", "main"} /\ fill_gap(written)
        /\ UNCHANGED <<last_partno, twin, written, clean>>
    BY <1>3, Zenon DEF spinand_mtd_flush_last_volume, spinand_mtd_read_ubi, fill_gap, driver, ghosts
  <2> QED
    BY <1>0, <2>1, CallRounds, Zenon DEF Types
<1>4. CASE FillPad \/ FillFf
  <2> SUFFICES ASSUME NEW v \in Vol, v = last_partno, clean[v], Regular(v)
               PROVE  Counts(v)' /\ buf'.n > 0 /\ pc' # "clear"
    BY <1>4, Zenon DEF LastRounds, Rounds, Regular, EndsInside, FillPad, FillFf, Send, ghosts
  <2>1. Counts(v) /\ pc' # "clear"
    BY <1>4, Zenon DEF LastRounds, Rounds, FillPad, FillFf, Send
  <2> QED
    BY <1>4, <2>1, PadRound, FfRound, Zenon
<1>5. CASE FillDone \/ MoreDies \/ ClearDies
  BY <1>5, SameCounts, Zenon DEF FillDone, MoreDies, ClearDies, LastRounds, Rounds, Regular,
       EndsInside, driver, loops, ghosts
<1>6. CASE ReadMain
  <2>1. UNCHANGED <<written, pad, ff, last_partno, twin, clean>> /\ pc' = "idle"
    BY <1>6, Zenon DEF ReadMain, Idle, Loops, Filling, SendsFill, InUbi, driver, ghosts
  <2> QED
    BY <2>1, SameCounts, Zenon DEF LastRounds, Rounds, Regular, EndsInside
<1>7. CASE EndMain \/ PowerCut
  BY <1>7, UbiAssumption, Zenon DEF EndMain, PowerCut, LastRounds
<1>8. CASE StartFails \/ MoreFails \/ ClearFails
  <2>1. InUbi /\ Spoil(V) /\ UNCHANGED last_partno
    BY <1>8, Zenon DEF StartFails, MoreFails, ClearFails, ReturnError, InUbi, driver
  <2> PICK v \in Vol : v = last_partno /\ V = v
    BY <2>1, VolumeInUse, Zenon
  <2> QED
    BY <1>0, <2>1, SpoilTypes, Zenon DEF LastRounds, Rounds
<1>9. CASE UNCHANGED vars
  BY <1>9, SameCounts, Zenon DEF vars, LastRounds, Rounds, Regular, EndsInside, driver, loops,
       ubi, ghosts
<1> QED
  BY <1>1, <1>2, <1>3, <1>4, <1>5, <1>6, <1>7, <1>8, <1>9, WriteRounds, StartRounds, SentRounds, Zenon
  DEF Next, Step, WriteMidway

LEMMA DiesKept == UbiInv /\ LastRounds /\ DiesOnlyPastEnd /\ [Next]_vars => DiesOnlyPastEnd'
<1> SUFFICES ASSUME UbiInv, LastRounds, DiesOnlyPastEnd, [Next]_vars, pc' = "dead"
             PROVE  EndsInside(V)' \/ ~clean'[V'] \/ twin'[V'] \notin {V', NoVol}
  BY Zenon DEF DiesOnlyPastEnd
<1>1. (MoreDies \/ ClearDies \/ pc = "dead") /\ UNCHANGED <<buf, clean, twin>>
  <2>1. CASE MoreDies \/ ClearDies \/ UNCHANGED vars
    BY <2>1, Zenon DEF MoreDies, ClearDies, vars, driver, ghosts
  <2>2. ASSUME NEW v \in Vol, NEW n \in 1 .. MaxSects, NEW off \in 0 .. Sects[v] - 1,
               \/ spinand_mtd_write_ubi(v, off, n)
               \/ WriteOutOfOrder(v, off, n) \/ WriteMidway(v, off, n)
        PROVE  FALSE
    BY <2>2, Zenon DEF spinand_mtd_write_ubi, WriteOutOfOrder, WriteMidway, vars, fill_gap
  <2>3. ~(spinand_mtd_flush_last_volume \/ \E v \in Vol : spinand_mtd_read_ubi(v))
    BY Zenon DEF spinand_mtd_flush_last_volume, spinand_mtd_read_ubi, fill_gap
  <2>4. ~(FillPad \/ FillFf \/ FillDone \/ WriteMain \/ ReadMain \/ EndMain \/ PowerCut)
    BY Zenon DEF FillPad, FillFf, FillDone, WriteMain, Send, ReadMain, EndMain, PowerCut, Idle
  <2>5. ~(ubi_start_update \/ Wipe \/ ubi_more_update_data \/ clear_update_marker)
    BY Zenon DEF ubi_start_update, Wipe, ubi_more_update_data, clear_update_marker, Return, Idle
  <2>6. ~(StartFails \/ MoreFails \/ ClearFails)
    BY Zenon DEF StartFails, MoreFails, ClearFails, ReturnError, Idle
  <2> QED
    BY <2>1, <2>2, <2>3, <2>4, <2>5, <2>6, Zenon DEF Next, Step
<1>2. CASE pc = "dead"
  BY <1>1, <1>2, Zenon DEF DiesOnlyPastEnd, EndsInside, V
<1>3. CASE MoreDies \/ ClearDies
  <2>1. InUbi
    BY <1>3, Zenon DEF MoreDies, ClearDies, InUbi
  <2> PICK v \in Vol : v = last_partno /\ V = v
    BY <2>1, VolumeInUse, Zenon
  <2>2. buf.n \in Int
    BY <2>1, Zenon DEF UbiInv, Calls
  <2>3. ~(buf.n < 0 /\ buf.n > 0)
    BY <2>2
  <2>4. EndsInside(v) \/ ~clean[v] \/ twin[v] \notin {v, NoVol}
    BY <1>3, <2>3, Zenon DEF MoreDies, ClearDies, LastRounds, Rounds, Regular
  <2> QED
    BY <1>1, <2>4, Zenon DEF EndsInside, V
<1> QED
  BY <1>1, <1>2, <1>3, Zenon

(* What a volume may hold. *)
Sectors(v) == {Old, Fill} \cup 1 .. Sects[v]
Contents == \A v \in Vol : content[v] \in Seq(Sectors(v)) /\ Len(content[v]) <= Sects[v]

LEMMA WholeFits ==
  ASSUME NEW v \in Vol, NEW n \in Nat, NEW size \in Nat, size <= Sects[v]
  PROVE  Whole(n, size) \in Seq(Sectors(v)) /\ Len(Whole(n, size)) <= Sects[v]
<1>0. Sects[v] \in Nat
  BY UbiAssumption
<1>1. Whole(n, size) \in [1 .. size -> Sectors(v)]
  BY <1>0 DEF Whole, Sectors
<1> QED
  BY <1>1

LEMMA ContentsKept == UbiInv /\ UbiInv' /\ Contents /\ [Next]_vars => Contents'
<1> SUFFICES ASSUME UbiInv, UbiInv', Contents, [Next]_vars, NEW v \in Vol
             PROVE  content'[v] \in Seq(Sectors(v)) /\ Len(content'[v]) <= Sects[v]
  BY Zenon DEF Contents, Sectors
<1>0. content \in [Vol -> Seq(Item)] /\ Sects[v] \in Nat
  BY UbiAssumption, Zenon DEF UbiInv, Types
<1>1. CASE content'[v] = content[v]
  BY <1>1, Zenon DEF Contents
<1>2. CASE content'[v] = <<>>
  BY <1>0, <1>2
<1>3. ASSUME NEW u, Spoil(u) \/ Keep PROVE content'[v] = content[v] \/ content'[v] = <<>>
  BY <1>0, <1>3, Zenon DEF Spoil, Keep
<1>4. CASE ubi_more_update_data
  <2> PICK u \in Vol : u = last_partno /\ V = u
    BY <1>4, VolumeInUse, Zenon DEF ubi_more_update_data, InUbi
  <2>1. CASE v # u \/ ~clean[u]
    <3>1. content'[v] = content[v]
      BY <1>0, <1>4, <2>1, Zenon DEF ubi_more_update_data, Stored
    <3> QED
      BY <1>1, <3>1, Zenon
  <2>2. CASE v = u /\ clean[u]
    <3>1. clean'[v] /\ last_partno' = v /\ pc' \in {"clear", "fill", "idle"}
      BY <1>4, <2>2, Zenon DEF ubi_more_update_data, Stored, Return, Idle, driver
    <3>2. content'[v] = Whole(sent'[v], got'[v])
      BY <3>1, Zenon DEF UbiInv, Current, Progress
    <3>3. /\ sent'[v] \in Nat /\ got'[v] \in Nat
          /\ got'[v] <= want'[v] /\ want'[v] \in {0, Sects[v]}
      BY Zenon DEF UbiInv, Types
    <3>4. got'[v] <= Sects[v]
      BY <1>0, <3>3
    <3> QED
      BY <3>2, <3>3, <3>4, WholeFits, Zenon
  <2> QED
    BY <2>1, <2>2, Zenon
<1>5. CASE Wipe
  <2>1. content'[v] = content[v] \/ content'[v] = <<>>
    BY <1>0, <1>5, Zenon DEF Wipe
  <2> QED
    BY <1>1, <1>2, <2>1, Zenon
<1>6. CASE StartFails \/ MoreFails \/ ClearFails
  BY <1>1, <1>2, <1>3, <1>6, Zenon DEF StartFails, MoreFails, ClearFails, ReturnError
<1>7. ASSUME NEW u \in Vol, NEW n \in 1 .. MaxSects, NEW off \in 0 .. Sects[u] - 1,
             spinand_mtd_write_ubi(u, off, n) \/ WriteOutOfOrder(u, off, n)
      PROVE  content'[v] = content[v] \/ content'[v] = <<>>
  BY <1>3, <1>7, Zenon DEF spinand_mtd_write_ubi, WriteOutOfOrder
<1>8. CASE UNCHANGED content
  BY <1>1, <1>8, Zenon
<1>9. CASE ubi_start_update
  <2> DEFINE c == [i \in 1 .. Len(content[v]) |-> Old]
  <2>1. content'[v] = content[v] \/ content'[v] = c
    BY <1>0, <1>9, Zenon DEF ubi_start_update
  <2>2. Len(content[v]) \in Nat /\ Len(content[v]) <= Sects[v]
    BY <1>0 DEF Contents
  <2>3. c \in [1 .. Len(content[v]) -> Sectors(v)]
    BY DEF Sectors
  <2>4. c \in Seq(Sectors(v)) /\ Len(c) <= Sects[v]
    BY <2>2, <2>3
  <2> QED
    BY <1>1, <2>1, <2>4, Zenon
<1> QED
  BY <1>1, <1>2, <1>4, <1>5, <1>6, <1>7, <1>8, <1>9, Zenon DEF Next, Step, vars, flash,
     spinand_mtd_read_ubi, spinand_mtd_flush_last_volume, FillPad, FillFf, FillDone, WriteMain,
     ReadMain, EndMain, clear_update_marker, MoreDies, ClearDies, PowerCut, WriteMidway

RoundsInv == UbiInv /\ Loops /\ LastRounds /\ DiesOnlyPastEnd /\ Contents

LEMMA InitRounds == Init => RoundsInv
<1> SUFFICES ASSUME Init PROVE RoundsInv
  OBVIOUS
<1>1. UbiInv
  BY InitInv, Zenon
<1>2. Loops
  BY UbiAssumption DEF Init, Loops
<1>3. LastRounds /\ DiesOnlyPastEnd
  BY UbiAssumption, Zenon DEF Init, LastRounds, DiesOnlyPastEnd
<1>4. Contents
  <2> SUFFICES ASSUME NEW v \in Vol
               PROVE  content[v] \in Seq(Sectors(v)) /\ Len(content[v]) <= Sects[v]
    BY Zenon DEF Contents
  <2>1. content[v] = Whole(Sects[v], Sects[v]) /\ Sects[v] \in Nat /\ Sects[v] <= Sects[v]
    BY UbiAssumption DEF Init
  <2> QED
    BY <2>1, WholeFits, Zenon
<1> QED
  BY <1>1, <1>2, <1>3, <1>4, Zenon DEF RoundsInv

LEMMA RoundsAlways == Spec => []RoundsInv
<1>1. RoundsInv /\ [Next]_vars => RoundsInv'
  BY StepKeeps, LoopsKept, RoundsKept, DiesKept, ContentsKept, Zenon DEF RoundsInv
<1> QED
  BY <1>1, InitRounds, PTL DEF Spec

(* No UBI volume takes more than its size, and the variables of sunxi-ubi.c  *)
(* and of the volume update keep their types, for volumes of every size and  *)
(* whatever fill_gap pads them with.                                         *)
THEOREM UbiTypes == Spec => []TypeOK
<1>1. RoundsInv => TypeOK
  <2> SUFFICES ASSUME RoundsInv PROVE TypeOK
    OBVIOUS
  <2>1. Types /\ Contents /\ pad \in 0 .. LebSects - 1
    BY Zenon DEF RoundsInv, UbiInv, Loops
  <2>2. pad \in 0 .. LebSects
    BY <2>1, UbiAssumption
  <2>3. \A v \in Vol : got[v] \in 0 .. want[v] /\ want[v] \in {0, Sects[v]}
    BY <2>1 DEF Types
  <2>4. /\ marker \in [Vol -> BOOLEAN] /\ updating \in [Vol -> BOOLEAN]
        /\ upd_marker \in [Vol -> BOOLEAN] /\ written \in [Vol -> Nat]
        /\ last_partno \in Vol \cup {NoVol} /\ last_name \in {last_partno, NoVol} \cup Vol
        /\ pc \in {"idle", "fill", "main", "start", "wipe", "more", "clear", "dead"} /\ ff \in Nat
    BY <2>1, Zenon DEF Types
  <2> QED
    BY <2>1, <2>2, <2>3, <2>4, Zenon DEF TypeOK, Contents, Sectors
<1> QED
  BY <1>1, RoundsAlways, PTL

(* fill_gap_do sends more than a volume takes, so that UBI frees upd_buf a   *)
(* second time or memcpy gets a negative count, only where a partition ends  *)
(* inside an erase block, behind its first sector, or its image is spoilt,   *)
(* or an MTD part before it makes it go by the count of another partition:   *)
(* for all sizes of partitions, erase blocks and GAP_BUF_MAX_SECTS.          *)
THEOREM OnlyPastEndDies == Spec => []DiesOnlyPastEnd
<1>1. RoundsInv => DiesOnlyPastEnd
  BY Zenon DEF RoundsInv
<1> QED
  BY <1>1, RoundsAlways, PTL
=============================================================================
