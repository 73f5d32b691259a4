------------------------------ MODULE UbiVolume ------------------------------
(***************************************************************************)
(* Writing partitions to UBI volumes on SPI NAND: spinand_mtd_write_ubi,   *)
(* spinand_mtd_read_ubi and spinand_mtd_flush_last_volume of               *)
(* drivers/mtd/awnand/sunxi-ubi.c, on the volume update of UBI             *)
(* (drivers/mtd/ubi/upd.c, cmd/ubi.c).                                     *)
(*                                                                         *)
(* A UBI volume can only be replaced as a whole: an update announces its   *)
(* size, sets an update marker on the flash, wipes the volume, and clears  *)
(* the marker with the last byte.  The driver maps sector writes to it.    *)
(* Writes of a partition come in order, starting at offset 0; what a       *)
(* partition did not get is filled up when the next one begins, when it is *)
(* read, or at write_end.                                                  *)
(*                                                                         *)
(* Partitions that are MTD parts are in nand_mbr and ubi_status but not in *)
(* ubi_mbr, whose numbers are smaller behind them.                         *)
(*                                                                         *)
(* The volumes exist, so that plan_wr_sects is the size of the partition.  *)
(* Every UBI operation may fail, and the power may go at every step; the   *)
(* memory does not run out.                                                *)
(***************************************************************************)
EXTENDS Integers, Sequences, FiniteSetsExt

CONSTANTS Vol,          \* the partitions that are UBI volumes
          Sects,        \* their sizes in sectors, nand_mbr->vols[].sects
          LebSects,     \* sectors of a logical erase block
          GapBuf,       \* GAP_BUF_MAX_SECTS
          Layouts,      \* the places MTD parts may have in the MBR, see twin
          MaxSects      \* bound: sectors of one write

NoVol == "none"

ASSUME UbiAssumption == /\ NoVol \notin Vol
                        /\ Sects \in [Vol -> Nat \ {0}]
                        /\ LebSects \in Nat \ {0} /\ GapBuf \in Nat \ {0}
                        /\ MaxSects \in Nat \ {0}
                        /\ Layouts \subseteq [Vol -> Vol \cup {NoVol}]

(* Sector i of the image that is being written, or was written last, is i.   *)
Fill == 0                         \* a sector of filler
Old  == -1                        \* a sector of the image before
Whole(n, size) == [i \in 1 .. size |-> IF i <= n THEN i ELSE Fill]

VARIABLES
  marker,        \* the update markers in the volume table on the flash
  content,       \* what the volumes hold
  updating,      \* vol->updating
  upd_marker,    \* vol->upd_marker, and the marker in ubi->vtbl[]
  got, want,     \* vol->upd_received and vol->upd_bytes
  last_partno,   \* the partition written last
  last_offset,   \* where its next write has to begin
  last_name,     \* the volume whose update has begun
  written,       \* ubi_status->vols[].written_sects
  twin,          \* the partition with the number in nand_mbr that this one has in
                 \* ubi_mbr: itself if no MTD part is before it, NoVol for an MTD part
  pc,            \* "idle", "fill", "main"; "start", "wipe", "more", "clear" in UBI; "dead"
  call,          \* the call being served: operation, partition, offset, sectors
  pad, ff,       \* the counters of the two loops of fill_gap_do
  buf,           \* what write_ubi_volume passes on: volume, sectors, offset or filler
  sent,          \* ghost: sectors of the image of a volume that arrived
  clean,         \* ghost: nothing went wrong with it (if not, content is <<>>)
  failed         \* ghost: some UBI operation failed since the power is on

flash  == <<marker, content>>
ubi    == <<updating, upd_marker, got, want>>
driver == <<last_partno, last_offset, last_name, written, twin>>
loops  == <<pad, ff>>
ghosts == <<sent, clean, failed>>
vars   == <<flash, ubi, driver, pc, call, loops, buf, ghosts>>

NoCall == [op |-> "none", vol |-> NoVol, off |-> 0, n |-> 0]
NoBuf  == [vol |-> NoVol, n |-> 0, off |-> 0]

Init == /\ marker = [v \in Vol |-> FALSE]
        /\ content = [v \in Vol |-> Whole(Sects[v], Sects[v])]
        /\ updating = [v \in Vol |-> FALSE] /\ upd_marker = marker
        /\ got = [v \in Vol |-> 0] /\ want = [v \in Vol |-> 0]
        /\ last_partno = NoVol /\ last_offset = 0 /\ last_name = NoVol
        /\ written = [v \in Vol |-> 0] /\ twin \in Layouts
        /\ pc = "idle" /\ call = NoCall /\ pad = 0 /\ ff = 0 /\ buf = NoBuf
        /\ sent = Sects
        /\ clean = [v \in Vol |-> TRUE] /\ failed = FALSE

-----------------------------------------------------------------------------
(* The calls.  fill_gap fills the partition written last. *)

(* Mutant: a whole erase block behind a full one. *)
RemainWhole(w) == LebSects - (w % LebSects)

(* Up to the end of the erase block first, then up to the end of the volume. *)
Remain(w) == (LebSects - (w % LebSects)) % LebSects

(* What is missing is found with the number of the partition in nand_mbr;    *)
(* the end of the erase block with the one in ubi_mbr, which is the number   *)
(* of its twin.  The count of an MTD part is never other than zero.          *)
Gap(w, v) == Sects[v] - w[v]
RemainOf(w, v) == IF twin[v] = NoVol THEN 0 ELSE Remain(w[twin[v]])

fill_gap(w) ==
  IF last_partno # NoVol /\ Gap(w, last_partno) # 0
  THEN /\ pc' = "fill" /\ pad' = RemainOf(w, last_partno)
       /\ ff' = Max({0, Gap(w, last_partno) - RemainOf(w, last_partno)})
  ELSE pc' = "main" /\ UNCHANGED loops

Called(o, v, off, n) == call' = [op |-> o, vol |-> v, off |-> off, n |-> n]

InOrder(v, off) == off = IF v = last_partno THEN last_offset ELSE 0

(* Nothing more is said of an image with which something went wrong. *)
Spoil(v) == /\ clean' = [clean EXCEPT ![v] = FALSE]
            /\ sent' = [sent EXCEPT ![v] = 0]
            /\ content' = [content EXCEPT ![v] = <<>>]
Keep == UNCHANGED <<clean, sent, content>>

(* The volume was filled up while it was being written. *)
FilledEarly(v) == v = last_partno /\ last_name = v /\ ~updating[v]

(* A write from offset 0 starts the count of sectors again, before anything  *)
(* else is looked at.                                                        *)
Restart(v, off) == IF off = 0 THEN [written EXCEPT ![v] = 0] ELSE written

spinand_mtd_write_ubi(v, off, n) ==
  /\ pc = "idle" /\ off + n <= Sects[v] /\ InOrder(v, off)
  /\ Called("write", v, off, n)
  /\ written' = Restart(v, off)
  /\ IF v = last_partno THEN pc' = "main" /\ UNCHANGED loops ELSE fill_gap(Restart(v, off))
  /\ IF FilledEarly(v) THEN Spoil(v) ELSE Keep
  /\ UNCHANGED <<marker, ubi, last_partno, last_offset, last_name, twin, buf, failed>>

(* A write to the same partition that does not follow on returns 0.          *)
WriteOutOfOrder(v, off, n) ==
  /\ pc = "idle" /\ off + n <= Sects[v] /\ v = last_partno /\ off # last_offset
  /\ written' = Restart(v, off)
  /\ IF off = 0 THEN Spoil(v) ELSE Keep
  /\ UNCHANGED <<marker, ubi, last_partno, last_offset, last_name, twin, pc, call, loops,
                 buf, failed>>

(* A write to another partition that does not begin at its start returns     *)
(* -EINVAL, which the caller, who compares an unsigned result with zero,     *)
(* takes for success.  Nothing has changed.                                  *)
WriteMidway(v, off, n) ==
  /\ pc = "idle" /\ off + n <= Sects[v] /\ v # last_partno /\ off # 0
  /\ UNCHANGED vars

spinand_mtd_read_ubi(v) ==
  /\ pc = "idle" /\ v = last_partno     \* any other read changes nothing
  /\ Called("read", v, 0, 0)
  /\ fill_gap(written)
  /\ UNCHANGED <<flash, ubi, driver, buf, ghosts>>

(* Mutant: write_end only forgets the partition. *)
FlushForgets ==
  /\ pc = "idle" /\ last_partno # NoVol
  /\ Called("end", NoVol, 0, 0) /\ pc' = "main"
  /\ UNCHANGED <<flash, ubi, driver, loops, buf, ghosts>>

spinand_mtd_flush_last_volume ==
  /\ pc = "idle" /\ last_partno # NoVol
  /\ Called("end", NoVol, 0, 0)
  /\ fill_gap(written)
  /\ UNCHANGED <<flash, ubi, driver, buf, ghosts>>

-----------------------------------------------------------------------------
(* write_ubi_volume of k sectors: of image data from offset off, or of       *)
(* filler (off = -1).  The sectors count as written whatever comes of them.  *)
Send(v, k, off) ==
  /\ buf' = [vol |-> v, off |-> off,
             n |-> IF written[v] + k > Sects[v] THEN Sects[v] - written[v] ELSE k]
  /\ pc' = IF last_name = v THEN "more" ELSE "start"
  /\ last_name' = v
  /\ written' = [written EXCEPT ![v] = @ + k] /\ UNCHANGED twin

FillPad == /\ pc = "fill" /\ pad > 0
           /\ Send(last_partno, Min({pad, GapBuf}), -1)
           /\ pad' = Max({0, pad - GapBuf})
           /\ UNCHANGED <<flash, ubi, last_partno, last_offset, call, ff, ghosts>>

FillFf == /\ pc = "fill" /\ pad = 0 /\ ff > 0
          /\ Send(last_partno, Min({ff, GapBuf}), -1)
          /\ ff' = Max({0, ff - GapBuf})
          /\ UNCHANGED <<flash, ubi, last_partno, last_offset, call, pad, ghosts>>

(* Mutant: fill until the count of sectors is right. *)
FillAgain == /\ pc = "fill" /\ pad = 0 /\ ff = 0
             /\ fill_gap(written)
             /\ UNCHANGED <<flash, ubi, driver, call, buf, ghosts>>

FillDone == /\ pc = "fill" /\ pad = 0 /\ ff = 0
            /\ pc' = "main"
            /\ UNCHANGED <<flash, ubi, driver, call, loops, buf, ghosts>>

WriteMain == /\ pc = "main" /\ call.op = "write"
             /\ last_partno' = call.vol /\ last_offset' = call.off + call.n
             /\ Send(call.vol, call.n, call.off)
             /\ UNCHANGED <<flash, ubi, call, loops, ghosts>>

Idle == pc' = "idle" /\ call' = NoCall /\ pad' = 0 /\ ff' = 0 /\ buf' = NoBuf

(* sunxi_ubi_volume_read changes nothing. *)
ReadMain == /\ pc = "main" /\ call.op = "read"
            /\ Idle /\ UNCHANGED <<flash, ubi, driver, ghosts>>

EndMain == /\ pc = "main" /\ call.op = "end"
           /\ Idle
           /\ last_partno' = NoVol /\ last_name' = NoVol
           /\ last_offset' = 0                        \* not looked at any more
           /\ UNCHANGED <<flash, ubi, written, twin, ghosts>>

-----------------------------------------------------------------------------
(* UBI *)
V == buf.vol

Return == IF buf.off = -1 THEN pc' = "fill" /\ buf' = NoBuf /\ UNCHANGED <<call, loops>>
          ELSE Idle

(* A failed fill is given up.  Only a read passes the error on. *)
ReturnError == /\ IF buf.off = -1 /\ call.op # "read"
                  THEN pc' = "main" /\ pad' = 0 /\ ff' = 0 /\ buf' = NoBuf /\ UNCHANGED call
                  ELSE Idle
               /\ Spoil(V) /\ failed' = TRUE
               /\ UNCHANGED driver

(* ubi_change_vtbl_record changes the table in memory, then writes all of    *)
(* it, by an atomic change of the erase block.  When that fails vol and the  *)
(* table in memory have the new marker all the same.                         *)
Record(m) == upd_marker' = [upd_marker EXCEPT ![V] = m]
ubi_change_vtbl_record(m) == Record(m) /\ marker' = upd_marker'
ChangeFails(m) == Record(m) /\ marker' \in {marker, upd_marker'}

(* A marker that is set in memory is taken to be on the flash. *)
set_update_marker == IF upd_marker[V] THEN UNCHANGED <<upd_marker, marker>>
                     ELSE ubi_change_vtbl_record(TRUE)

(* ubi_start_update up to set_update_marker.  An image whose marker is not   *)
(* on the flash is begun as one with which something went wrong.             *)
ubi_start_update ==
  /\ pc = "start" /\ pc' = "wipe"
  /\ updating' = [updating EXCEPT ![V] = TRUE]
  /\ set_update_marker
  /\ content' = [content EXCEPT ![V] = [i \in 1 .. Len(@) |-> Old]]
  /\ sent' = [sent EXCEPT ![V] = 0]
  /\ clean' = [clean EXCEPT ![V] = upd_marker[V] => marker[V]]
  /\ UNCHANGED <<got, want, driver, call, loops, buf, failed>>

Wipe == /\ pc = "wipe" /\ pc' = "more"
        /\ content' = [content EXCEPT ![V] = <<>>]
        /\ got' = [got EXCEPT ![V] = 0] /\ want' = [want EXCEPT ![V] = Sects[V]]
        /\ UNCHANGED <<marker, updating, upd_marker, driver, call, loops, buf, ghosts>>

(* Setting the marker fails, or a block cannot be unmapped: the sizes of the *)
(* update before are still there.                                            *)
StartFails == /\ \/ pc = "start" /\ ~upd_marker[V] /\ ChangeFails(TRUE)
                 \/ pc = "wipe" /\ UNCHANGED <<marker, upd_marker>>
              /\ updating' = [updating EXCEPT ![V] = TRUE]
              /\ UNCHANGED <<got, want>>
              /\ ReturnError

(* ubi_more_update_data takes c of the sectors. *)
Accept(c) == /\ got' = [got EXCEPT ![V] = @ + c]
             /\ UNCHANGED <<marker, updating, upd_marker, want>>

(* Mutant: not cut off at upd_bytes. *)
TakenAll == buf.n

Taken  == Min({buf.n, want[V] - got[V]})
Sector(i) == IF buf.off = -1 THEN Fill ELSE buf.off + i
Stored == /\ Accept(Taken)
          /\ content' = IF clean[V] THEN [content EXCEPT ![V] = @ \o [i \in 1 .. Taken |-> Sector(i)]]
                        ELSE content
          /\ sent' = IF buf.off # -1 /\ clean[V] THEN [sent EXCEPT ![V] = @ + call.n] ELSE sent
          /\ UNCHANGED <<driver, clean, failed>>

(* Mutant: the marker goes when the last erase block begins. *)
MoreEarly ==
  /\ pc = "more" /\ buf.n >= 0
  /\ Stored
  /\ IF got[V] + Taken + LebSects > want[V]
     THEN pc' = "clear" /\ UNCHANGED <<call, loops, buf>> ELSE Return

ubi_more_update_data ==
  /\ pc = "more" /\ buf.n >= 0
  /\ Stored
  /\ IF got[V] + Taken = want[V]
     THEN pc' = "clear" /\ UNCHANGED <<call, loops, buf>> ELSE Return

MoreFails == /\ pc = "more" /\ buf.n >= 0
             /\ \E c \in 0 .. Taken - 1 : Accept(c)
             /\ ReturnError

(* A count below zero is taken for a size by memcpy. *)
MoreDies == /\ pc = "more" /\ buf.n < 0 /\ pc' = "dead"
            /\ UNCHANGED <<flash, ubi, driver, call, loops, buf, ghosts>>

clear_update_marker ==
  /\ pc = "clear"
  /\ ubi_change_vtbl_record(FALSE)
  /\ updating' = [updating EXCEPT ![V] = FALSE]
  /\ Return
  /\ UNCHANGED <<content, got, want, driver, ghosts>>

ClearFails == /\ pc = "clear"
              /\ ChangeFails(FALSE)
              /\ UNCHANGED <<updating, got, want>>
              /\ ReturnError

(* upd_buf is freed a second time when the volume was not being updated. *)
ClearDies == /\ pc = "clear" /\ ~updating[V] /\ pc' = "dead"
             /\ ubi_change_vtbl_record(FALSE)
             /\ UNCHANGED <<content, updating, got, want, driver, call, loops, buf, ghosts>>

(* The power goes, and comes back. *)
PowerCut == /\ updating' = [v \in Vol |-> FALSE] /\ upd_marker' = marker
            /\ got' = [v \in Vol |-> 0] /\ want' = [v \in Vol |-> 0]
            /\ last_partno' = NoVol /\ last_offset' = 0 /\ last_name' = NoVol
            /\ written' = [v \in Vol |-> 0]
            /\ Idle
            /\ failed' = FALSE
            /\ UNCHANGED <<flash, twin, sent, clean>>

Step == \/ FillPad \/ FillFf \/ FillDone \/ WriteMain \/ ReadMain \/ EndMain
        \/ ubi_start_update \/ Wipe \/ ubi_more_update_data \/ clear_update_marker
        \/ StartFails \/ MoreFails \/ ClearFails \/ MoreDies \/ ClearDies

Next == \/ \E v \in Vol, n \in 1 .. MaxSects : \E off \in 0 .. Sects[v] - 1 :
             \/ spinand_mtd_write_ubi(v, off, n)
             \/ WriteOutOfOrder(v, off, n) \/ WriteMidway(v, off, n)
        \/ \E v \in Vol : spinand_mtd_read_ubi(v)
        \/ spinand_mtd_flush_last_volume
        \/ Step
        \/ PowerCut

Spec == Init /\ [][Next]_vars /\ WF_vars(Step)
-----------------------------------------------------------------------------
(* Properties *)

(* The state has its types; no volume gets more than its size. *)
TypeOK == /\ marker \in [Vol -> BOOLEAN] /\ updating \in [Vol -> BOOLEAN]
          /\ upd_marker \in [Vol -> BOOLEAN] /\ written \in [Vol -> Nat]
          /\ \A v \in Vol : /\ content[v] \in Seq({Old, Fill} \cup 1 .. Sects[v])
                            /\ Len(content[v]) <= Sects[v]
                            /\ got[v] \in 0 .. want[v] /\ want[v] \in {0, Sects[v]}
          /\ last_partno \in Vol \cup {NoVol} /\ last_name \in {last_partno, NoVol} \cup Vol
          /\ pc \in {"idle", "fill", "main", "start", "wipe", "more", "clear", "dead"}
          /\ pad \in 0 .. LebSects /\ ff \in Nat

(* A volume that can be read holds one image, whole: what its writer sent,   *)
(* in order, and filler behind it.  A power cut at any moment leaves the old *)
(* image, the new one, or a volume that refuses to be read.  Excepted are    *)
(* images with a failed operation, or begun after one that left the marker   *)
(* in memory only; with a second start that was refused; and with writes     *)
(* after the volume had been read and so filled up.                          *)
Readable(v) == ~upd_marker[v] /\ ~updating[v]
ReadableIsWhole == \A v \in Vol : Readable(v) /\ clean[v] =>
                     content[v] = Whole(sent[v], Sects[v])

(* Unless an operation failed, only the partition written last is being      *)
(* updated: the next partition, and write_end, find the one before closed.   *)
OneUpdating == \A v \in Vol : updating[v] => failed \/ v = last_partno
                                             \/ (pc # "idle" /\ call.vol = v)

(* Every call comes back, or dies in memcpy or vfree. *)
CallReturns == pc # "idle" ~> pc \in {"idle", "dead"}

(* A call dies only on a partition that ends inside an erase block, behind   *)
(* its first sector, where padding the block in rounds of GAP_BUF_MAX_SECTS  *)
(* may get to the end of the partition before the last round; or after an    *)
(* operation on the image failed, a second start was refused or the          *)
(* partition was read half written; or where MTD parts before it make        *)
(* fill_gap_do take the count of another partition for its own.              *)
EndsInside(v) == Sects[v] % LebSects \in 2 .. LebSects - 1 /\ GapBuf + 1 < LebSects
DiesOnlyPastEnd == pc = "dead" => EndsInside(V) \/ ~clean[V] \/ twin[V] \notin {V, NoVol}
=============================================================================
