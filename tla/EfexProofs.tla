----------------------------- MODULE EfexProofs -----------------------------
(***************************************************************************)
(* Proofs about Efex, for hosts of every set of packet formats that use    *)
(* any commands, and for every queue length, page size and flash.          *)
(***************************************************************************)
EXTENDS Efex, TLAPS

(* The write-behind queue: for every queue length, page size and size of the *)
(* flash, and for all data.                                                  *)
(* A function that is not running is not in the middle of anything, and only *)
(* efex_save_buff_to_queue fills the queue; the page being written counts as *)
(* one that has still to be written.                                         *)
Control == /\ op = "none" => at = "drain"
           /\ at = "fill" => op = "save"
           /\ op # "none" => open
           /\ at = "write" /\ op # "all" => todo > 0

(* The rest of a request lies in the flash, and the buffer has been advanced *)
(* as far as the address.                                                    *)
RestInStep == op = "save" => /\ req.start + req.sectors <= NSectors
                             /\ offset = req.start - first

(* Once there is room for the whole request there is room for its rest: no   *)
(* page is refused, although nobody looks at the result of buf_enqueue.      *)
RoomForRest == at = "fill" => req.sectors <= FreeSize * SecPerPage

(* A page ends inside the buffer it was taken from. *)
InBuffer(p) == p.offset + p.sector_num <= NSectors
PagesInBuffer == /\ \A k \in DOMAIN queue : InBuffer(queue[k])
                 /\ at = "write" => InBuffer(Element)

Locals == max_len \in MaxLens /\ Control /\ RestInStep /\ RoomForRest /\ PagesInBuffer

QInv == TypeOK /\ Locals /\ Durable
-----------------------------------------------------------------------------

(* The pages counted for a number of sectors hold them. *)
LEMMA PagesHold ==
  \A n \in Nat : PagesFor(n) \in Nat /\ n <= PagesFor(n) * SecPerPage
<1> TAKE n \in Nat
<1> DEFINE a == n + SecPerPage - 1
           q == a \div SecPerPage
<1>1. a \in Nat /\ SecPerPage \in Nat /\ SecPerPage > 0
  BY QueueAssumption
<1>2. q \in Int /\ a % SecPerPage \in 0 .. (SecPerPage - 1) /\ a = SecPerPage * q + (a % SecPerPage)
  BY <1>1
<1> HIDE DEF q
<1>3. q >= 0
  BY <1>1, <1>2
<1>4. n <= q * SecPerPage
  BY <1>1, <1>2
<1> QED
  BY <1>3, <1>4, <1>2 DEF PagesFor, q

LEMMA SomeRoom == \A n, q \in Nat : n > 0 /\ n <= q * SecPerPage => q > 0
BY QueueAssumption

LEMMA MorePagesHold ==
  \A n, p, q \in Nat : n <= p * SecPerPage /\ p <= q => n <= q * SecPerPage
<1> TAKE n, p, q \in Nat
<1> HAVE n <= p * SecPerPage /\ p <= q
<1>1. q * SecPerPage = p * SecPerPage + (q - p) * SecPerPage
  BY QueueAssumption
<1>2. (q - p) * SecPerPage >= 0
  BY QueueAssumption
<1>3. p * SecPerPage \in Int /\ (q - p) * SecPerPage \in Int
  BY QueueAssumption
<1> QED
  BY <1>1, <1>2, <1>3

USE QueueAssumption DEF Sectors

LEMMA NoRequestType ==
  NoRequest \in [start : 0 .. NSectors, sectors : 0 .. NSectors, data : Data]
BY DEF NoRequest

LEMMA InitInv == QInit => QInv
<1> SUFFICES ASSUME QInit PROVE QInv
  OBVIOUS
<1> USE DEF QInit, Q!FifoInit, Q!Done
<1>2. TypeOK
  <2>1. max_len \in Nat /\ queue \in Seq(Page) /\ Len(queue) = 0
    OBVIOUS
  <2>2. first \in Sectors /\ offset \in 0 .. NSectors
    OBVIOUS
  <2>3. /\ flash \in [Sectors -> Content \cup {Erased, Unknown}]
        /\ accepted \in [Sectors -> Content \cup {Erased, Unknown}]
    OBVIOUS
  <2>4. /\ op \in {"none", "one", "all", "save"} /\ at \in {"drain", "write", "fill"}
        /\ at # "write" /\ todo \in Nat /\ ret \in {0, -1} /\ open \in BOOLEAN
    OBVIOUS
  <2>5. Len(queue) <= max_len /\ req = NoRequest
    BY <2>1
  <2> HIDE DEF QInit
  <2> QED
    BY <2>1, <2>2, <2>3, <2>4, <2>5, NoRequestType, Zenon DEF TypeOK
<1>3. Locals
  BY DEF Locals, Control, RestInStep, RoomForRest, PagesInBuffer
<1>4. Durable
  BY Zenon DEF Durable
<1> QED
  BY <1>2, <1>3, <1>4, Zenon DEF QInv

(* What a page holds for its sectors is the content of a sector. *)
LEMMA PageContent ==
  ASSUME NEW p \in Page, InBuffer(p), NEW s \in SectorsOf(p)
  PROVE  ContentOf(p, s) \in Content
BY DEF Page, InBuffer, SectorsOf, ContentOf, Content

(* buf_enqueue of the next n sectors of a request is not refused, and the    *)
(* page is a good one.                                                       *)
NextPage(n) == [addr |-> req.start, sector_num |-> n, data |-> req.data, offset |-> offset]

LEMMA EnqueuePuts ==
  ASSUME TypeOK, Locals, at = "fill", NEW n \in 1 .. SecPerPage, n <= req.sectors, Enqueue(n)
  PROVE  /\ NextPage(n) \in Page /\ InBuffer(NextPage(n))
         /\ queue' = Append(queue, NextPage(n)) /\ UNCHANGED open
         /\ Len(queue') = Len(queue) + 1 /\ Len(queue') <= max_len
         /\ accepted' = [s \in Sectors |->
                            IF s \in SectorsOf(NextPage(n)) THEN ContentOf(NextPage(n), s)
                            ELSE accepted[s]]
<1>1. /\ req.start \in Nat /\ req.sectors \in Nat /\ req.data \in Data
      /\ offset \in Nat /\ first \in Nat /\ offset = req.start - first
      /\ req.start + req.sectors <= NSectors /\ n \in Nat /\ n > 0
  BY DEF TypeOK, Locals, Control, RestInStep
<1>2. NextPage(n) \in Page /\ InBuffer(NextPage(n))
  BY <1>1, SMTT(30) DEF NextPage, Page, InBuffer
<1>3. FreeSize \in Nat /\ FreeSize > 0
  <2>1. FreeSize \in Nat /\ req.sectors <= FreeSize * SecPerPage
    BY DEF FreeSize, TypeOK, Locals, RoomForRest
  <2> QED
    BY <1>1, <2>1, SomeRoom
<1>4. queue' = Append(queue, NextPage(n)) /\ UNCHANGED open
  BY <1>3, Zenon DEF Enqueue, Q!Put, NextPage
<1>5. Len(queue') = Len(queue) + 1 /\ Len(queue') <= max_len
  BY <1>2, <1>3, <1>4 DEF FreeSize, TypeOK, Locals
<1>6. ASSUME NEW s \in req.start .. (req.start + n - 1)
      PROVE  ContentOf(NextPage(n), s) = <<req.data, s - first>>
  BY <1>1, SMTT(30) DEF ContentOf, NextPage
<1>7. SectorsOf(NextPage(n)) = req.start .. (req.start + n - 1)
  BY Zenon DEF SectorsOf, NextPage
<1> QED
  BY <1>2, <1>4, <1>5, <1>6, <1>7, Zenon DEF Enqueue

(* The same for the whole step, with what the queue then holds. *)
LEMMA EnqueueTypes ==
  ASSUME TypeOK, Locals, at = "fill", NEW n \in 1 .. SecPerPage, n <= req.sectors, Enqueue(n)
  PROVE  /\ queue' \in Seq(Page) /\ \A k \in DOMAIN queue' : InBuffer(queue'[k])
         /\ accepted' \in [Sectors -> Content \cup {Erased, Unknown}]
<1> DEFINE p == NextPage(n)
<1>1. /\ p \in Page /\ InBuffer(p) /\ queue' = Append(queue, p)
      /\ accepted' = [s \in Sectors |-> IF s \in SectorsOf(p) THEN ContentOf(p, s)
                                         ELSE accepted[s]]
  BY EnqueuePuts, Zenon
<1>2. /\ queue \in Seq(Page) /\ \A k \in DOMAIN queue : InBuffer(queue[k])
      /\ accepted \in [Sectors -> Content \cup {Erased, Unknown}]
  BY Zenon DEF TypeOK, Locals, PagesInBuffer
<1> HIDE DEF p
<1>3. queue' \in Seq(Page) /\ \A k \in DOMAIN queue' : InBuffer(queue'[k])
  BY <1>1, <1>2
<1> QED
  BY <1>1, <1>2, <1>3, PageContent, Zenon

LEMMA LenType == TypeOK /\ Locals => /\ max_len \in Nat /\ Len(queue) \in Nat
                                     /\ FreeSize \in Nat
BY DEF TypeOK, Locals, FreeSize

LEMMA EnqueueFullTypes == TypeOK /\ Locals /\ EnqueueFullPage => TypeOK' /\ Locals'
<1> SUFFICES ASSUME TypeOK, Locals, EnqueueFullPage PROVE TypeOK' /\ Locals'
  OBVIOUS
<1>1. SecPerPage \in 1 .. SecPerPage /\ SecPerPage < req.sectors /\ SecPerPage <= req.sectors
  BY SMTT(30) DEF EnqueueFullPage, TypeOK
<1>2. at = "fill" /\ Enqueue(SecPerPage)
  BY Zenon DEF EnqueueFullPage
<1>3. /\ queue' \in Seq(Page) /\ \A k \in DOMAIN queue' : InBuffer(queue'[k])
      /\ accepted' \in [Sectors -> Content \cup {Erased, Unknown}]
  BY <1>1, <1>2, EnqueueTypes, Zenon
<1>4. UNCHANGED open /\ Len(queue') = Len(queue) + 1 /\ Len(queue') <= max_len
  BY <1>1, <1>2, EnqueuePuts, Zenon
<1>5. /\ req.start \in Nat /\ req.sectors \in Nat /\ offset \in Nat /\ first \in Nat
      /\ req.start + req.sectors <= NSectors /\ offset = req.start - first
      /\ req.sectors <= FreeSize * SecPerPage
  BY <1>2 DEF TypeOK, Locals, Control, RestInStep, RoomForRest
<1>6. /\ req'.start = req.start + SecPerPage /\ req'.sectors = req.sectors - SecPerPage
      /\ req'.data = req.data
      /\ req' = [start |-> req'.start, sectors |-> req'.sectors, data |-> req'.data]
  BY Zenon DEF EnqueueFullPage, TypeOK
<1>7. req' \in [start : 0 .. NSectors, sectors : 0 .. NSectors, data : Data]
  BY <1>1, <1>5, <1>6, SMTT(30) DEF TypeOK
<1>8. offset' = offset + SecPerPage /\ offset' \in 0 .. NSectors
  BY <1>1, <1>5 DEF EnqueueFullPage
<1>9. TypeOK'
  BY <1>3, <1>4, <1>7, <1>8, Zenon DEF EnqueueFullPage, TypeOK, Element
<1>10. req'.sectors <= FreeSize' * SecPerPage
  <2>1. FreeSize \in Nat /\ FreeSize' = FreeSize - 1
    BY <1>4, LenType DEF FreeSize, EnqueueFullPage
  <2> QED
    BY <1>5, <1>6, <2>1
<1>11. RestInStep'
  BY <1>5, <1>6, <1>8, <1>1 DEF RestInStep, EnqueueFullPage
<1> QED
  BY <1>3, <1>4, <1>9, <1>10, <1>11, Zenon
  DEF Locals, Control, RoomForRest, PagesInBuffer, EnqueueFullPage

LEMMA EnqueueRestTypes == TypeOK /\ Locals /\ EnqueueRest => TypeOK' /\ Locals'
<1> SUFFICES ASSUME TypeOK, Locals, EnqueueRest PROVE TypeOK' /\ Locals'
  OBVIOUS
<1>1. at = "fill" /\ req.sectors \in Nat /\ req.sectors <= SecPerPage
  BY DEF EnqueueRest, TypeOK
<1>2. /\ queue' \in Seq(Page) /\ \A k \in DOMAIN queue' : InBuffer(queue'[k])
      /\ accepted' \in [Sectors -> Content \cup {Erased, Unknown}]
      /\ UNCHANGED open /\ Len(queue') <= max_len
  <2>1. CASE req.sectors = 0
    BY <2>1 DEF EnqueueRest, TypeOK, Locals, PagesInBuffer
  <2>2. CASE req.sectors > 0
    <3>1. req.sectors \in 1 .. SecPerPage /\ Enqueue(req.sectors)
      BY <1>1, <2>2 DEF EnqueueRest
    <3> QED
      BY <1>1, <3>1, EnqueueTypes, EnqueuePuts
  <2> QED
    BY <1>1, <2>1, <2>2
<1> QED
  BY <1>2, NoRequestType, SMTT(30)
  DEF EnqueueRest, Return, TypeOK, Locals, Control, RestInStep, RoomForRest, PagesInBuffer

LEMMA RoomEnough ==
  ASSUME TypeOK, Room
  PROVE  req.sectors \in Nat /\ FreeSize >= PagesFor(req.sectors)
<1>1. req.sectors \in Nat
  BY DEF TypeOK
<1>2. FreeSize >= PagesFor(req.sectors)
  BY Zenon DEF Room
<1> QED
  BY <1>1, <1>2, Zenon

(* Every step keeps the types and the facts about the locals. *)
LEMMA StepTypes == TypeOK /\ Locals /\ [QNext]_qvars => TypeOK' /\ Locals'
<1> SUFFICES ASSUME TypeOK, Locals, [QNext]_qvars PROVE TypeOK' /\ Locals'
  OBVIOUS
<1> USE DEF TypeOK, Locals, Control, RestInStep, RoomForRest, PagesInBuffer, FreeSize, Element
<1>1. CASE efex_queue_init
  BY <1>1 DEF efex_queue_init, Q!Open, Q!Done
<1>2. CASE efex_queue_exit
  BY <1>2, SMTT(30) DEF efex_queue_exit, Q!Close, Q!Done
<1>3. CASE efex_queue_write_one_page
  BY <1>3, Zenon DEF efex_queue_write_one_page, Call
<1>4. CASE efex_queue_write_all_page
  BY <1>4, Zenon DEF efex_queue_write_all_page, Call
<1>5. CASE \E r \in Requests : Fits(r) /\ efex_save_buff_to_queue(r)
  <2> PICK r \in Requests : Fits(r) /\ efex_save_buff_to_queue(r)
    BY <1>5, Zenon
  <2>1. r.start \in Sectors /\ r.sectors \in 0 .. NSectors
        /\ r \in [start : 0 .. NSectors, sectors : 0 .. NSectors, data : Data]
    BY DEF Requests
  <2>2. PagesFor(r.sectors) \in Nat
    BY <2>1, PagesHold, SMTT(30)
  <2> QED
    BY <2>1, <2>2, SMTT(30) DEF efex_save_buff_to_queue, Call, Fits
<1>6. CASE DequeueNone
  BY <1>6 DEF DequeueNone
<1>7. CASE Dequeue
  <2>1. /\ queue' = Tail(queue) /\ queue # <<>> /\ Element' = Head(queue) /\ at = "drain"
        /\ op # "none" /\ at' = "write"
    BY <1>7, Zenon DEF Dequeue, Q!Take, Q!Done
  <2>2. /\ Head(queue) \in Page /\ InBuffer(Head(queue)) /\ queue' \in Seq(Page)
        /\ Len(queue') = Len(queue) - 1 /\ \A k \in DOMAIN queue' : queue'[k] = queue[k + 1]
        /\ \A k \in DOMAIN queue' : k + 1 \in DOMAIN queue
    BY <2>1
  <2> QED
    BY <1>7, <2>1, <2>2, LenType, SMTT(30) DEF Dequeue, More, Q!Take
<1>8. CASE FlashWrite
  <2>1. flash' \in [Sectors -> Content \cup {Erased, Unknown}]
    BY <1>8, PageContent, Zenon DEF FlashWrite
  <2> QED
    BY <1>8, <2>1, SMTT(30) DEF FlashWrite
<1>9. CASE FlashWriteFails
  BY <1>9, NoRequestType DEF FlashWriteFails, Return
<1>10. CASE Written
  BY <1>10, NoRequestType DEF Written, Return
<1>11. CASE NoRoom
  BY <1>11, NoRequestType, SMTT(30) DEF NoRoom, Return
<1>12. CASE Room
  <2>1. req.sectors \in Nat /\ FreeSize >= PagesFor(req.sectors)
    BY <1>12, RoomEnough, Zenon
  <2>2. PagesFor(req.sectors) \in Nat /\ req.sectors <= PagesFor(req.sectors) * SecPerPage
    BY <2>1, PagesHold, Zenon
  <2>3. FreeSize \in Nat
    BY LenType, Zenon
  <2>4. FreeSize' = FreeSize /\ UNCHANGED req
    BY <1>12, Zenon DEF Room
  <2> HIDE DEF FreeSize
  <2>5. req'.sectors <= FreeSize' * SecPerPage
    BY <2>1, <2>2, <2>3, <2>4, MorePagesHold, Zenon
  <2>6. TypeOK'
    BY <1>12, Zenon DEF Room
  <2>7. RoomForRest'
    BY <2>5, Zenon
  <2>8. (Control /\ RestInStep /\ PagesInBuffer /\ max_len \in MaxLens)'
    BY <1>12, Zenon DEF Room
  <2> QED
    BY <2>6, <2>7, <2>8, Zenon
<1>13. CASE EnqueueFullPage
  BY <1>13, EnqueueFullTypes, Zenon
<1>14. CASE EnqueueRest
  BY <1>14, EnqueueRestTypes, Zenon
<1>15. CASE UNCHANGED qvars
  BY <1>15, Zenon DEF qvars
<1> QED
  BY <1>1, <1>2, <1>3, <1>4, <1>5, <1>6, <1>7, <1>8, <1>9, <1>10, <1>11, <1>12,
     <1>13, <1>14, <1>15, Zenon DEF QNext, QueueStep

(* What Durable says of a sector. *)
SafeIn(s) ==
  \/ \E k \in DOMAIN queue : Newest(k, s) /\ ContentOf(queue[k], s) = accepted[s]
  \/ ~Queued(s) /\ InHand(s) /\ ContentOf(Element, s) = accepted[s]
  \/ ~Queued(s) /\ ~InHand(s) /\ flash[s] \in {accepted[s], Unknown}

(* A page that is put at the end of the queue is the newest for its sectors  *)
(* and leaves the others as they were.                                       *)
LEMMA PutIsDurable ==
  ASSUME TypeOK, NEW s \in Sectors, SafeIn(s), NEW p \in Page,
         queue' = Append(queue, p), at = "fill", at' # "write", UNCHANGED flash,
         accepted'[s] = IF s \in SectorsOf(p) THEN ContentOf(p, s) ELSE accepted[s]
  PROVE  SafeIn(s)'
<1>1. queue \in Seq(Page)
  BY Zenon DEF TypeOK
<1>2. /\ DOMAIN queue' = 1 .. (Len(queue) + 1) /\ DOMAIN queue = 1 .. Len(queue)
      /\ Len(queue) \in Nat /\ queue'[Len(queue) + 1] = p
      /\ \A k \in DOMAIN queue : queue'[k] = queue[k]
  BY <1>1
<1>3. CASE s \in SectorsOf(p)
  BY <1>2, <1>3 DEF SafeIn, Newest
<1>4. CASE s \notin SectorsOf(p)
  <2>1. ASSUME NEW k \in DOMAIN queue, Newest(k, s), ContentOf(queue[k], s) = accepted[s]
        PROVE  k \in DOMAIN queue' /\ Newest(k, s)' /\ ContentOf(queue'[k], s) = accepted'[s]
    BY <1>2, <1>4, <2>1 DEF Newest
  <2>2. ~Queued(s) => ~Queued(s)'
    BY <1>2, <1>4 DEF Queued
  <2> QED
    BY <1>4, <2>1, <2>2, Zenon DEF SafeIn, InHand
<1> QED
  BY <1>3, <1>4, Zenon

(* The oldest page leaves the queue and is then the one in hand. *)
LEMMA TakeIsDurable ==
  ASSUME TypeOK, NEW s \in Sectors, SafeIn(s), at = "drain", at' = "write", queue # <<>>,
         queue' = Tail(queue), Element' = Head(queue), UNCHANGED <<flash, accepted>>
  PROVE  SafeIn(s)'
<1>1. queue \in Seq(Page) /\ Len(queue) \in Nat /\ Len(queue) > 0
  BY DEF TypeOK
<1>2. /\ DOMAIN queue' = 1 .. (Len(queue) - 1) /\ DOMAIN queue = 1 .. Len(queue)
      /\ Element' = queue[1]
      /\ \A k \in DOMAIN queue' : queue'[k] = queue[k + 1]
  BY <1>1
<1>3. ASSUME NEW k \in DOMAIN queue, Newest(k, s), ContentOf(queue[k], s) = accepted[s]
      PROVE  SafeIn(s)'
  <2>1. CASE k = 1
    <3>1. ~Queued(s)'
      BY <1>1, <1>2, <1>3, <2>1 DEF Queued, Newest
    <3> QED
      BY <1>2, <1>3, <2>1, <3>1, Zenon DEF SafeIn, InHand, Newest
  <2>2. CASE k # 1
    <3>1. k - 1 \in DOMAIN queue' /\ queue'[k - 1] = queue[k]
      BY <1>1, <1>2, <2>2
    <3>2. Newest(k - 1, s)'
      BY <1>1, <1>2, <1>3, <3>1 DEF Newest
    <3> QED
      BY <1>3, <3>1, <3>2, Zenon DEF SafeIn
  <2> QED
    BY <2>1, <2>2, Zenon
<1>4. CASE ~Queued(s) /\ ~InHand(s) /\ flash[s] \in {accepted[s], Unknown}
  <2>1. ~Queued(s)' /\ ~InHand(s)'
    BY <1>1, <1>2, <1>4 DEF Queued, InHand
  <2> QED
    BY <1>4, <2>1, Zenon DEF SafeIn
<1> QED
  BY <1>3, <1>4, Zenon DEF SafeIn, InHand

(* The page in hand is written, or what it held is unknown. *)
LEMMA WriteIsDurable ==
  ASSUME TypeOK, NEW s \in Sectors, SafeIn(s), at = "write", at' # "write",
         UNCHANGED <<queue, accepted>>,
         flash'[s] = flash[s] \/ s \in SectorsOf(Element),
         s \in SectorsOf(Element) => flash'[s] \in {ContentOf(Element, s), Unknown}
  PROVE  SafeIn(s)'
BY Zenon DEF SafeIn, Newest, Queued, InHand

LEMMA StepDurable == QInv /\ [QNext]_qvars => Durable'
<1> SUFFICES ASSUME QInv, [QNext]_qvars, open', NEW s \in Sectors PROVE SafeIn(s)'
  BY Zenon DEF Durable, SafeIn
<1>0. TypeOK /\ Locals /\ (open => SafeIn(s))
  BY Zenon DEF QInv, Durable, SafeIn
<1> USE <1>0
<1>1. CASE efex_queue_init
  <2>1. queue' = <<>> /\ accepted' = flash /\ flash' = flash /\ at' = "drain"
    BY <1>1, Zenon DEF efex_queue_init, Q!Open, Locals, Control
  <2>2. ~Queued(s)' /\ ~InHand(s)'
    BY <2>1 DEF Queued, InHand
  <2> QED
    BY <2>1, <2>2, Zenon DEF SafeIn
<1>2. CASE efex_queue_exit
  BY <1>2, Zenon DEF efex_queue_exit, Q!Close
<1>3. CASE /\ open /\ UNCHANGED <<queue, flash, accepted>>
           /\ at # "write" /\ at' # "write"
  BY <1>3, Zenon DEF SafeIn, Newest, Queued, InHand
<1>4. CASE Dequeue
  <2>1. /\ at = "drain" /\ at' = "write" /\ queue # <<>> /\ open
        /\ queue' = Tail(queue) /\ Element' = Head(queue) /\ UNCHANGED <<flash, accepted>>
    BY <1>4, Zenon DEF Dequeue, Q!Take, Q!Done, Element
  <2> QED
    BY <2>1, TakeIsDurable, Zenon
<1>5. CASE FlashWrite
  <2>1. open /\ at = "write" /\ at' # "write" /\ UNCHANGED <<queue, accepted>>
    BY <1>5, Zenon DEF FlashWrite, Locals, Control
  <2>2. flash'[s] = IF s \in SectorsOf(Element) THEN ContentOf(Element, s) ELSE flash[s]
    BY <1>5, Zenon DEF FlashWrite
  <2> QED
    BY <2>1, <2>2, WriteIsDurable, Zenon
<1>6. CASE FlashWriteFails
  <2>1. open /\ at = "write" /\ at' # "write" /\ UNCHANGED <<queue, accepted>>
    BY <1>6, Zenon DEF FlashWriteFails, Return, Locals, Control
  <2>2. flash'[s] = IF s \in SectorsOf(Element) THEN Unknown ELSE flash[s]
    BY <1>6, Zenon DEF FlashWriteFails
  <2> QED
    BY <2>1, <2>2, WriteIsDurable, Zenon
<1>7. ASSUME NEW n \in 1 .. SecPerPage, n <= req.sectors, at = "fill", Enqueue(n),
             UNCHANGED flash, at' # "write"
      PROVE  SafeIn(s)'
  <2>1. open
    BY <1>7, Zenon DEF Locals, Control
  <2>2. /\ NextPage(n) \in Page /\ queue' = Append(queue, NextPage(n))
        /\ accepted'[s] = IF s \in SectorsOf(NextPage(n)) THEN ContentOf(NextPage(n), s)
                          ELSE accepted[s]
    BY <1>7, EnqueuePuts, Zenon
  <2> QED
    BY <1>7, <2>1, <2>2, PutIsDurable, Zenon
<1>8. CASE EnqueueFullPage
  <2>1. /\ SecPerPage \in 1 .. SecPerPage /\ SecPerPage <= req.sectors /\ at = "fill"
        /\ Enqueue(SecPerPage) /\ UNCHANGED flash /\ at' # "write"
    BY <1>8, SMTT(30) DEF EnqueueFullPage, TypeOK
  <2> QED
    BY <2>1, <1>7, Zenon
<1>9. CASE EnqueueRest
  <2>1. CASE req.sectors = 0
    BY <1>9, <2>1, <1>3 DEF EnqueueRest, Return, Locals, Control
  <2>2. CASE req.sectors > 0
    <3>1. /\ req.sectors \in 1 .. SecPerPage /\ req.sectors <= req.sectors /\ at = "fill"
          /\ Enqueue(req.sectors) /\ UNCHANGED flash /\ at' # "write"
      BY <1>9, <2>2 DEF EnqueueRest, Return, TypeOK
    <3> QED
      BY <3>1, <1>7, Zenon
  <2> QED
    BY <2>1, <2>2 DEF TypeOK
<1>10. CASE \/ efex_queue_write_one_page \/ efex_queue_write_all_page
            \/ \E r \in Requests : Fits(r) /\ efex_save_buff_to_queue(r)
  BY <1>10, <1>3, Zenon DEF efex_queue_write_one_page, efex_queue_write_all_page,
                     efex_save_buff_to_queue, Call, Locals, Control
<1>11. CASE DequeueNone \/ Written \/ NoRoom \/ Room
  BY <1>11, <1>3, Zenon DEF DequeueNone, Written, NoRoom, Room, Return, Locals, Control
<1>12. CASE UNCHANGED qvars
  BY <1>12, Zenon DEF qvars, SafeIn, Newest, Queued, InHand, Element
<1> QED
  BY <1>1, <1>2, <1>4, <1>5, <1>6, <1>8, <1>9, <1>10, <1>11, <1>12, Zenon DEF QNext, QueueStep

LEMMA InvAlways == QSpec => []QInv
<1>1. QInv /\ [QNext]_qvars => QInv'
  BY StepTypes, StepDurable, Zenon DEF QInv
<1> QED
  BY <1>1, InitInv, PTL DEF QSpec

(* The variables of efex_queue.c keep their types: in particular the queue   *)
(* never holds more than buf_queue_max_len pages, and no page is longer than *)
(* the buffer of a node.                                                     *)
THEOREM QueueTypes == QSpec => []TypeOK
BY InvAlways, PTL DEF QInv

(* What the host was told is stored is in the newest queued page for its     *)
(* sector, else in the page being written, else in the flash, unless a write *)
(* failed: for every queue length, page size, size of the flash and data.    *)
THEOREM AlwaysDurable == QSpec => []Durable
BY InvAlways, PTL DEF QInv

-----------------------------------------------------------------------------
(* The session. *)
Steps     == {"ZERO", "SEND_DATA", "RECEIVE_DATA", "STATUS", "EXIT"}
DataSteps == {"SEND_DATA", "RECEIVE_DATA"}
NewStates == {"SETUP_NEW", "SEND_DATA_NEW", "RECEIVE_DATA_NEW"}
Kinds     == {"none", "dram", "mbr", "boot", "flag", "mem", "flash", "pmu", "unseq"}
Fitting   == {r \in Requests : Fits(r)}
Trans     == [type : Kinds, recv_size : {0, 2}, last_err : {0, -1},
              app_next_status : Steps, req : Fitting]

(* The data of the command is typed, what a packet asks to store lies in the *)
(* flash, and only a handler that is about to assign something remembers it. *)
SessionTypes == /\ trans \in Trans
                /\ packet.cmd.req \in Fitting /\ cmd_buf.req \in Fitting
                /\ uses \subseteq {"old", "new"} /\ raced \in {0, 1}
                /\ pc # "commit" => nxt = NoAssign
                /\ pc = "commit" => nxt.status # "keep" \/ nxt.step # "keep"

(* The queue works only for a handler that waits for it, and a flush that    *)
(* has returned 0 has emptied it.                                            *)
Flushed == op \in {"none", "all"} /\ (op = "none" /\ ret = 0 => queue = <<>>)
Calls == /\ op # "none" => pc \in {"flush", "page", "save"}
         /\ pc \notin {"start", "done"} => open
         /\ pc = "flush" => Flushed

(* The machine is in states of the formats that the host uses, and without   *)
(* the new one nothing is ever queued.                                       *)
InUse ==
  /\ packet.fmt \in {"old", "new"} => packet.fmt \in uses
  /\ "new" \notin uses => /\ status \notin NewStates /\ nxt.status \notin NewStates
                          /\ pc \notin {"flush", "page", "save"}
                          /\ queue = <<>>
  /\ "old" \notin uses => status # "RECEIVE_DATA" /\ nxt.status # "RECEIVE_DATA"

(* Whoever is to wait in the old format for data that may come knows what    *)
(* the data is: a reset that undid the step has stopped the DMA too.         *)
NextStep == IF nxt.step = "keep" THEN app_step ELSE nxt.step
Meaning == Coming = "RECEIVE_DATA" /\ 1 \in {dma, write_enable} =>
             NextStep \in {"CMD", "RECEIVE_DATA"}

(* As long as no reset was overwritten, a machine that is not idle, or about *)
(* not to be, serves a packet that the host is waiting on.                   *)
Awaited == /\ rx_ready = 1 => host = "wait"
           /\ raced = 0 /\ \/ pc \in {"commit", "flush", "save"}
                           \/ pc \in {"start", "loop", "page"} /\ status # "IDLE"
                => host = "wait"

(* What the session relies on of a packet k that came in step s. *)
Expected(k, s) == k.fmt = "new" => s = "IDLE"

(* As long as no reset was overwritten, the handlers that call the queue     *)
(* find the state they left, a packet is one that was sent in this step, and *)
(* the step is the one that the last command asked for.                      *)
Unraced == raced = 0 =>
  /\ pc = "flush" => status = "SETUP_NEW"
  /\ pc = "save" => status = "RECEIVE_DATA_NEW" /\ dma # 1
  /\ status = "SETUP" \/ (status = "IDLE" /\ rx_ready = 1) => Expected(packet, app_step)
  /\ nxt.status = "SETUP" => Expected(packet, app_step)
  /\ nxt.status \in {"SETUP", "SETUP_NEW"} => nxt.step = "keep"
  /\ "SETUP_NEW" \in {status, nxt.status} => app_step = "IDLE"
  /\ app_step \in DataSteps => trans.app_next_status = app_step
  /\ nxt.step \in DataSteps => trans.app_next_status = nxt.step
  /\ pc = "commit" => nxt.status # "IDLE"

(* As long as no reset was overwritten, a handler that has still to assign a *)
(* step is one of the old format.                                            *)
StepOf == {"RECEIVE_DATA", "SEND_DATA", "STATUS"}
OldSteps == raced = 0 /\ nxt.step # "keep" =>
  /\ status \in StepOf \/ (status = "SETUP" /\ packet.fmt = "old")
  /\ nxt.first = "status" => nxt.status \in StepOf \cup {"keep"}

Machine == /\ SessionTypes /\ Calls /\ InUse /\ Meaning /\ Awaited /\ Unraced
           /\ OldSteps /\ DmaIsAwaited

SessionInv == TypeOK /\ Locals /\ Machine /\ SessionIsDurable /\ VerifyFindsData
-----------------------------------------------------------------------------
(* Packets and commands *)

LEMMA NothingFits == NoRequest \in Fitting
BY QueueAssumption DEF NoRequest, Fitting, Requests, Fits, Sectors

LEMMA PacketFits ==
  ASSUME NEW k \in OldPackets \cup NewPackets \cup {BadPacket}
  PROVE  k.cmd.req \in Fitting /\ k.fmt \in {"old", "new", "bad"}
<1>1. \A c \in Commands \cup {NoCommand} : c.req \in Fitting
  BY NothingFits DEF Commands, NoCommand, Downloads, Fitting
<1> QED
  BY <1>1 DEF OldPackets, NewPackets, BadPacket

LEMMA SentIsExpected ==
  ASSUME NEW k \in OldPackets \cup NewPackets \cup {BadPacket}, HostSends(k)
  PROVE  Expected(k, app_step) /\ (k.fmt \in {"old", "new"} => k.fmt \in uses)
BY Zenon DEF HostSends, OldHost, Expected

(* A command leaves the data of the transfer typed, *)
LEMMA CommandTypes ==
  ASSUME NEW c, trans \in Trans, c.req \in Fitting, op_cmd(c)
  PROVE  trans' \in Trans
<1> USE DEF Trans, Steps, Kinds, Result
<1>1. CASE op_query(c) \/ op_unsupported(c) \/ op_up(c) \/ op_tool_mode(c) \/ op_memset(c)
  BY <1>1, ZenonT(30) DEF op_query, op_unsupported, op_up, op_tool_mode, op_memset
<1>2. CASE op_trans(c)
  BY <1>2, ZenonT(30) DEF op_trans
<1>3. CASE op_down(c)
  <2>1. \A n \in DOMAIN DownType : DownType[n] \in Kinds
    BY DEF DownType
  <2>2. CASE c.name \in DOMAIN DownType /\
             trans' = [trans EXCEPT !.last_err = 0, !.app_next_status = "RECEIVE_DATA",
                                    !.type = DownType[c.name], !.recv_size = 2]
    BY <2>1, <2>2, Zenon
  <2>3. CASE trans' = [trans EXCEPT !.last_err = 0, !.app_next_status = "RECEIVE_DATA",
                                    !.type = "flash", !.req = c.req,
                                    !.recv_size = IF c.req.sectors > 0 THEN 2 ELSE 0]
    BY <2>3, Zenon
  <2> QED
    BY <1>3, <2>2, <2>3, Zenon DEF op_down
<1>4. CASE op_verify_value(c) \/ op_verify_status(c) \/ op_flash_set(c) \/ op_force_erase(c)
  BY <1>4, ZenonT(30) DEF op_verify_value, op_verify_status, op_flash_set, op_force_erase
<1>5. CASE op_pmu(c) \/ op_unseqmem(c)
  BY <1>5, ZenonT(30) DEF op_pmu, op_unseqmem
<1>6. CASE op_no_change(c)
  BY <1>6, Zenon DEF op_no_change
<1> QED
  BY <1>1, <1>2, <1>3, <1>4, <1>5, <1>6, Zenon DEF op_cmd

(* erases the flash or leaves it alone, *)
Erases == UNCHANGED <<flash, accepted>> \/ \E e \in {0, -1} : EraseFlash(e)

LEMMA CommandErases ==
  ASSUME NEW c, op_cmd(c)
  PROVE  Erases
BY Zenon DEF op_cmd, op_query, op_unsupported, op_trans, op_down, op_up, op_verify_value,
       op_verify_status, op_flash_set, op_tool_mode, op_memset, op_pmu, op_unseqmem,
       op_force_erase, op_no_change, Medium, Erases

(* and looks at the flash only if it is one that flushes the queue. *)
LEMMA CommandLooks ==
  ASSUME NEW c, op_cmd(c)
  PROVE  UNCHANGED seen \/ (Flushes(c) /\ Look)
BY Zenon DEF op_cmd, op_query, op_unsupported, op_trans, op_down, op_up, op_verify_value,
       op_verify_status, op_flash_set, op_tool_mode, op_memset, op_pmu, op_unseqmem,
       op_force_erase, op_no_change, Medium, Flushes

-----------------------------------------------------------------------------
(* The machine: one lemma for each handler and each interrupt *)

LEMMA InitMachine == EfexInit => Machine
<1> SUFFICES ASSUME EfexInit PROVE Machine
  OBVIOUS
<1>1. trans \in Trans /\ packet.cmd.req \in Fitting /\ cmd_buf.req \in Fitting
  BY NothingFits, Zenon DEF EfexInit, Trans, Kinds, Steps, NoPacket, NoCommand
<1> QED
  BY <1>1, EfexAssumption
  DEF EfexInit, QInit, Q!FifoInit, Machine, SessionTypes, Calls, InUse, Meaning, Awaited, Unraced,
      OldSteps, DmaIsAwaited, Coming, NextStep, NoAssign, StatusOnly, StatusThenStep, NoPacket,
      NewStates, DataSteps, Expected

(* Between two handlers nothing is left to assign. *)
LEMMA NothingNext ==
  SessionTypes /\ pc # "commit" => nxt.status = "keep" /\ nxt.step = "keep"
BY DEF SessionTypes, NoAssign, StatusOnly, StatusThenStep

LEMMA StartMachine == Machine /\ Start => Machine'
<1> SUFFICES ASSUME Machine, Start PROVE Machine'
  OBVIOUS
<1> USE DEF Start, efex_queue_init, Q!Open, machine, bufs, ghosts, Machine
<1>1. SessionTypes' /\ Calls'
  BY Zenon DEF SessionTypes, Calls
<1>2. InUse' /\ Meaning'
  BY Zenon DEF InUse, Meaning, Coming, NextStep, NewStates
<1>3. Awaited' /\ Unraced' /\ OldSteps' /\ DmaIsAwaited'
  BY Zenon DEF Awaited, Unraced, OldSteps, DmaIsAwaited, Coming
<1> QED
  BY <1>1, <1>2, <1>3, Zenon

LEMMA CommitStatusMachine == Machine /\ CommitStatus => Machine'
<1> SUFFICES ASSUME Machine, CommitStatus PROVE Machine'
  OBVIOUS
<1> USE DEF CommitStatus, Assigned, StatusNext, qvars, bufs, ghosts, NoAssign, StatusOnly,
            StatusThenStep, Machine
<1>1. SessionTypes' /\ Calls'
  BY Zenon DEF SessionTypes, Calls, Flushed
<1>2. InUse' /\ Meaning'
  BY Zenon DEF InUse, Meaning, Coming, NextStep, NewStates
<1>3. Awaited'
  BY Zenon DEF Awaited
<1>4. Unraced' /\ OldSteps'
  BY Zenon DEF Unraced, OldSteps, DataSteps
<1>5. DmaIsAwaited'
  BY Zenon DEF DmaIsAwaited, Coming, Receiving
<1> QED
  BY <1>1, <1>2, <1>3, <1>4, <1>5, Zenon

LEMMA CommitStepMachine == Machine /\ CommitStep => Machine'
<1> SUFFICES ASSUME Machine, CommitStep PROVE Machine'
  OBVIOUS
<1> USE DEF CommitStep, Assigned, StatusNext, qvars, bufs, ghosts, NoAssign, StatusOnly,
            StatusThenStep, Machine
<1>1. SessionTypes' /\ Calls'
  BY Zenon DEF SessionTypes, Calls, Flushed
<1>2. InUse' /\ Meaning'
  BY NothingNext DEF InUse, Meaning, Coming, NextStep, NewStates, SessionTypes
<1>3. Awaited'
  BY Zenon DEF Awaited
<1>4. Unraced' /\ OldSteps'
  <2>1. nxt.step # "keep" /\ pc = "commit"
    BY Zenon DEF SessionTypes
  <2>2. Unraced'
    BY <2>1 DEF Unraced, OldSteps, StepOf, DataSteps, Expected
  <2>3. OldSteps'
    BY <2>1 DEF OldSteps, StepOf
  <2> QED
    BY <2>2, <2>3, Zenon
<1>5. DmaIsAwaited'
  BY Zenon DEF DmaIsAwaited, Coming, Receiving
<1> QED
  BY <1>1, <1>2, <1>3, <1>4, <1>5, Zenon

LEMMA IdleMachine == Machine /\ Idle => Machine'
<1> SUFFICES ASSUME Machine, Idle PROVE Machine'
  OBVIOUS
<1> USE DEF Idle, At, Assign, StatusOnly, StatusThenStep, StepThenStatus, qvars, machine, bufs,
            ghosts, Machine
<1>1. SessionTypes' /\ Calls'
  BY Zenon DEF SessionTypes, Calls, Flushed
<1>2. InUse' /\ Meaning'
  BY Zenon DEF InUse, Meaning, Coming, NextStep, NewStates
<1>3. Awaited'
  BY Zenon DEF Awaited
<1>4. Unraced' /\ OldSteps'
  BY Zenon DEF Unraced, OldSteps, DataSteps, Expected
<1>5. DmaIsAwaited'
  BY Zenon DEF DmaIsAwaited, Coming, Receiving
<1> QED
  BY <1>1, <1>2, <1>3, <1>4, <1>5, Zenon

LEMMA SetupBadMachine == Machine /\ SetupBad => Machine'
<1> SUFFICES ASSUME Machine, SetupBad PROVE Machine'
  OBVIOUS
<1> USE DEF SetupBad, At, Leave, qvars, ghosts, Machine
<1>1. SessionTypes' /\ Calls'
  BY Zenon DEF SessionTypes, Calls, Flushed
<1>2. InUse' /\ Meaning'
  BY Zenon DEF InUse, Meaning, Coming, NextStep, NewStates
<1>3. Awaited'
  BY DEF Awaited
<1>4. Unraced'
  BY DEF Unraced, DataSteps, Expected
<1>6. OldSteps'
  BY NothingNext DEF OldSteps, StepOf
<1>5. DmaIsAwaited'
  BY Zenon DEF DmaIsAwaited, Coming, Receiving
<1> QED
  BY <1>1, <1>2, <1>3, <1>4, <1>5, <1>6, Zenon

LEMMA Setup_NewMachine == Machine /\ Setup_New => Machine'
<1> SUFFICES ASSUME Machine, Setup_New PROVE Machine'
  OBVIOUS
<1> USE DEF Setup_New, At, Assign, StatusOnly, StatusThenStep, StepThenStatus, qvars, machine,
            bufs, ghosts, Machine
<1>1. SessionTypes' /\ Calls'
  BY Zenon DEF SessionTypes, Calls, Flushed
<1>2. InUse' /\ Meaning'
  BY Zenon DEF InUse, Meaning, Coming, NextStep, NewStates
<1>3. Awaited'
  BY Zenon DEF Awaited
<1>4. Unraced' /\ OldSteps'
  BY Zenon DEF Unraced, OldSteps, DataSteps, Expected
<1>5. DmaIsAwaited'
  BY Zenon DEF DmaIsAwaited, Coming, Receiving
<1> QED
  BY <1>1, <1>2, <1>3, <1>4, <1>5, Zenon

LEMMA SetupCmdMachine == Machine /\ SetupCmd => Machine'
<1> SUFFICES ASSUME Machine, SetupCmd PROVE Machine'
  OBVIOUS
<1> USE DEF SetupCmd, AtSetupOld, At, Assign, StatusOnly, StatusThenStep, StepThenStatus, Leave,
            StartDma, qvars, ghosts, Machine
<1>1. SessionTypes' /\ Calls'
  BY DEF SessionTypes, Calls, Flushed
<1>2. InUse' /\ Meaning'
  BY DEF InUse, Meaning, Coming, NextStep, NewStates
<1>3. Awaited'
  BY Zenon DEF Awaited
<1>4. Unraced'
  BY DEF Unraced, DataSteps, Expected
<1>6. OldSteps'
  BY NothingNext DEF OldSteps, StepOf
<1>5. DmaIsAwaited'
  BY DEF DmaIsAwaited, Coming, Receiving
<1> QED
  BY <1>1, <1>2, <1>3, <1>4, <1>5, <1>6, Zenon

LEMMA SetupDataMachine == Machine /\ SetupData => Machine'
<1> SUFFICES ASSUME Machine, SetupData PROVE Machine'
  OBVIOUS
<1> USE DEF SetupData, AtSetupOld, At, Assign, StatusOnly, StatusThenStep, StepThenStatus, Leave,
            StartDma, qvars, ghosts, Machine
<1>1. SessionTypes' /\ Calls'
  <2>1. trans.app_next_status \in Steps
    BY Zenon DEF SessionTypes, Trans
  <2>2. pc' = "commit" => nxt'.step # "keep"
    BY <2>1 DEF Steps
  <2> QED
    BY <2>2 DEF SessionTypes, Calls, Flushed
<1>2. InUse' /\ Meaning'
  BY DEF InUse, Meaning, Coming, NextStep, NewStates, SessionTypes, Trans, Steps
<1>3. Awaited'
  BY Zenon DEF Awaited
<1>4. Unraced' /\ OldSteps'
  BY DEF Unraced, OldSteps, DataSteps, Expected
<1>5. DmaIsAwaited'
  BY DEF DmaIsAwaited, Coming, Receiving, Unraced, OldSteps, DataSteps, Expected
<1> QED
  BY <1>1, <1>2, <1>3, <1>4, <1>5, Zenon

LEMMA SetupStatusMachine == Machine /\ SetupStatus => Machine'
<1> SUFFICES ASSUME Machine, SetupStatus PROVE Machine'
  OBVIOUS
<1> USE DEF SetupStatus, AtSetupOld, At, Assign, StatusOnly, StatusThenStep, StepThenStatus,
            qvars, machine, bufs, ghosts, Machine
<1>1. SessionTypes' /\ Calls'
  BY DEF SessionTypes, Calls, Flushed
<1>2. InUse' /\ Meaning'
  BY DEF InUse, Meaning, Coming, NextStep, NewStates
<1>3. Awaited'
  BY Zenon DEF Awaited
<1>4. Unraced'
  BY DEF Unraced, DataSteps, Expected
<1>6. OldSteps'
  BY NothingNext DEF OldSteps, StepOf
<1>5. DmaIsAwaited'
  BY Zenon DEF DmaIsAwaited, Coming, Receiving
<1> QED
  BY <1>1, <1>2, <1>3, <1>4, <1>5, <1>6, Zenon

LEMMA SendDataMachine == Machine /\ SendData => Machine'
<1> SUFFICES ASSUME Machine, SendData PROVE Machine'
  OBVIOUS
<1> USE DEF SendData, At, Assign, StatusOnly, StatusThenStep, StepThenStatus, qvars, machine,
            ghosts, Machine
<1>1. SessionTypes' /\ Calls'
  BY DEF SessionTypes, Calls, Flushed
<1>2. InUse' /\ Meaning'
  BY DEF InUse, Meaning, Coming, NextStep, NewStates
<1>3. Awaited'
  BY DEF Awaited
<1>4. Unraced'
  BY DEF Unraced, DataSteps, Expected
<1>6. OldSteps'
  BY NothingNext DEF OldSteps, StepOf
<1>5. DmaIsAwaited'
  BY Zenon DEF DmaIsAwaited, Coming, Receiving
<1> QED
  BY <1>1, <1>2, <1>3, <1>4, <1>5, <1>6, Zenon

LEMMA SendDataNewMachine == Machine /\ SendDataNew => Machine'
<1> SUFFICES ASSUME Machine, SendDataNew PROVE Machine'
  OBVIOUS
<1> USE DEF SendDataNew, At, Assign, StatusOnly, StatusThenStep, StepThenStatus, qvars, machine,
            ghosts, Machine
<1>1. SessionTypes' /\ Calls'
  BY Zenon DEF SessionTypes, Calls, Flushed
<1>2. InUse' /\ Meaning'
  BY Zenon DEF InUse, Meaning, Coming, NextStep, NewStates
<1>3. Awaited'
  BY DEF Awaited
<1>4. Unraced' /\ OldSteps'
  BY Zenon DEF Unraced, OldSteps, DataSteps, Expected
<1>5. DmaIsAwaited'
  BY Zenon DEF DmaIsAwaited, Coming, Receiving
<1> QED
  BY <1>1, <1>2, <1>3, <1>4, <1>5, Zenon

LEMMA ReceiveTimeoutMachine == Machine /\ ReceiveTimeout => Machine'
<1> SUFFICES ASSUME Machine, ReceiveTimeout PROVE Machine'
  OBVIOUS
<1> USE DEF ReceiveTimeout, At, qvars, machine, bufs, ghosts, Machine
<1>1. SessionTypes' /\ Calls'
  BY Zenon DEF SessionTypes, Calls, Flushed
<1>2. InUse' /\ Meaning'
  BY Zenon DEF InUse, Meaning, Coming, NextStep, NewStates
<1>3. Awaited'
  BY Zenon DEF Awaited
<1>4. Unraced' /\ OldSteps'
  BY Zenon DEF Unraced, OldSteps, DataSteps, Expected
<1>5. DmaIsAwaited'
  BY Zenon DEF DmaIsAwaited, Coming, Receiving
<1> QED
  BY <1>1, <1>2, <1>3, <1>4, <1>5, Zenon

LEMMA StatusMachine == Machine /\ Status => Machine'
<1> SUFFICES ASSUME Machine, Status PROVE Machine'
  OBVIOUS
<1> USE DEF Status, At, SendCsw, qvars, Machine
<1>1. SessionTypes' /\ Calls'
  BY NothingFits, Zenon DEF SessionTypes, Calls, Flushed, NoPacket, NoCommand
<1>2. InUse' /\ Meaning'
  BY Zenon DEF InUse, Meaning, Coming, NextStep, NewStates, NoPacket
<1>3. Awaited'
  BY DEF Awaited
<1>4. Unraced'
  BY Zenon DEF Unraced, DataSteps, Expected, NoPacket
<1>6. OldSteps'
  BY NothingNext, Zenon DEF OldSteps
<1>5. DmaIsAwaited'
  BY Zenon DEF DmaIsAwaited, Coming, Receiving
<1> QED
  BY <1>1, <1>2, <1>3, <1>4, <1>5, <1>6, Zenon

LEMMA ExitMachine == Machine /\ Exit => Machine'
<1> SUFFICES ASSUME Machine, Exit PROVE Machine'
  OBVIOUS
<1> USE DEF Exit, At, SendCsw, Leave, qvars, machine, Machine
<1>1. SessionTypes' /\ Calls'
  BY NothingFits, Zenon DEF SessionTypes, Calls, Flushed, NoPacket, NoCommand
<1>2. InUse' /\ Meaning'
  BY Zenon DEF InUse, Meaning, Coming, NextStep, NewStates, NoPacket
<1>3. Awaited'
  BY DEF Awaited
<1>4. Unraced' /\ OldSteps'
  BY Zenon DEF Unraced, OldSteps, DataSteps, Expected, NoPacket
<1>5. DmaIsAwaited'
  BY Zenon DEF DmaIsAwaited, Coming, Receiving
<1> QED
  BY <1>1, <1>2, <1>3, <1>4, <1>5, Zenon

LEMMA DmaDoneMachine == Machine /\ DmaDone => Machine'
<1> SUFFICES ASSUME Machine, DmaDone PROVE Machine'
  OBVIOUS
<1> USE DEF DmaDone, Running, qvars, ghosts, Machine
<1>1. SessionTypes' /\ Calls'
  BY Zenon DEF SessionTypes, Calls, Flushed
<1>2. InUse' /\ Meaning'
  BY Zenon DEF InUse, Meaning, Coming, NextStep, NewStates
<1>3. Awaited'
  BY Zenon DEF Awaited
<1>4. Unraced' /\ OldSteps'
  BY Zenon DEF Unraced, OldSteps, DataSteps, Expected
<1>5. DmaIsAwaited'
  BY DEF DmaIsAwaited
<1> QED
  BY <1>1, <1>2, <1>3, <1>4, <1>5, Zenon

LEMMA ResetMachine == Machine /\ Reset => Machine'
<1> SUFFICES ASSUME Machine, Reset PROVE Machine'
  OBVIOUS
<1> USE DEF Reset, Overwritten, qvars, Machine
<1>1. SessionTypes' /\ Calls'
  BY Zenon DEF SessionTypes, Calls, Flushed
<1>2. InUse' /\ Meaning'
  <2>1. dma' # 1 /\ write_enable' # 1
    OBVIOUS
  <2> QED
    BY <2>1, Zenon DEF InUse, Meaning, NewStates
<1>3. Awaited'
  BY DEF Awaited
<1>4. Unraced'
  BY NothingNext DEF Unraced, DataSteps, Expected
<1>6. OldSteps'
  BY NothingNext DEF OldSteps
<1>5. DmaIsAwaited'
  BY DEF DmaIsAwaited, Coming, Receiving
<1> QED
  BY <1>1, <1>2, <1>3, <1>4, <1>5, <1>6, Zenon

(* A packet comes only when the host waits for nothing: in a session without *)
(* overwritten resets the machine is idle then.                              *)
LEMMA PacketMachine ==
  ASSUME NEW k \in OldPackets \cup NewPackets \cup {BadPacket}, Machine, RxPacket(k)
  PROVE  Machine'
<1> USE DEF RxPacket, Running, qvars, machine, ghosts, Machine
<1>0. /\ k.cmd.req \in Fitting
      /\ k.fmt \in {"old", "new", "bad"} /\ (k.fmt \in {"old", "new"} => k.fmt \in uses)
      /\ Expected(k, app_step)
  BY PacketFits, SentIsExpected, Zenon
<1>1. SessionTypes' /\ Calls'
  BY <1>0, Zenon DEF SessionTypes, Calls, Flushed
<1>2. InUse' /\ Meaning'
  BY <1>0, Zenon DEF InUse, Meaning, Coming, NextStep, NewStates
<1>3. Awaited'
  BY Zenon DEF Awaited
<1>4. Unraced'
  BY <1>0, Zenon DEF Unraced, DataSteps, Awaited, SessionTypes, NoAssign, StatusOnly, StatusThenStep
<1>6. OldSteps'
  BY NothingNext, Zenon DEF OldSteps, Awaited
<1>5. DmaIsAwaited'
  BY Zenon DEF DmaIsAwaited, Coming, Receiving
<1> QED
  BY <1>1, <1>2, <1>3, <1>4, <1>5, <1>6, Zenon

(* The command decides the next step. *)
LEMMA ReceiveCmdMachine == Machine /\ ReceiveCmd => Machine'
<1> SUFFICES ASSUME Machine, ReceiveCmd PROVE Machine'
  OBVIOUS
<1> USE DEF ReceivedOld, At, Assign, StatusOnly, StatusThenStep, StepThenStatus, queueRest,
            machine, bufs, Machine
<1>0. trans' \in Trans
  <2>1. CASE RequestSize # 2
    BY <2>1, Zenon DEF ReceiveCmd, SessionTypes
  <2>2. CASE RequestSize = 2
    BY <2>2, CommandTypes, Zenon DEF ReceiveCmd, SessionTypes
  <2> QED
    BY <2>1, <2>2, Zenon
<1>a. /\ pc = "loop" /\ status = "RECEIVE_DATA" /\ write_enable = 1 /\ app_step = "CMD"
      /\ pc' = "commit" /\ nxt'.status = "STATUS" /\ nxt'.step = trans'.app_next_status
      /\ nxt'.first = "step"
      /\ UNCHANGED <<queueRest, machine, cmd_buf, bufs, host, raced, stray, uses>>
  BY Zenon DEF ReceiveCmd
<1>1. SessionTypes' /\ Calls'
  BY <1>0, <1>a, Zenon DEF SessionTypes, Calls, Flushed
<1>2. InUse' /\ Meaning'
  BY <1>a, Zenon DEF InUse, Meaning, Coming, NextStep, NewStates
<1>3. Awaited'
  BY <1>a, Zenon DEF Awaited
<1>4. Unraced'
  BY <1>a, Zenon DEF Unraced, DataSteps, Expected
<1>6. OldSteps'
  BY <1>a DEF OldSteps, StepOf, machine
<1>5. DmaIsAwaited'
  BY <1>a DEF DmaIsAwaited, Coming, Receiving
<1> QED
  BY <1>1, <1>2, <1>3, <1>4, <1>5, <1>6, Zenon

LEMMA FinishTypesKept == trans \in Trans /\ DramReceived =>
                           trans' \in Trans /\ trans'.app_next_status = trans.app_next_status
BY Zenon DEF DramReceived, dram_data_recv_finish, FinishErrors, Trans

(* The end of a transfer: the status comes next. *)
Ends == /\ pc = "loop" /\ status \in {"RECEIVE_DATA", "RECEIVE_DATA_NEW"} /\ write_enable = 1
        /\ trans' \in Trans /\ trans'.app_next_status = trans.app_next_status
        /\ app_step' \in {"STATUS", "IDLE", app_step}
        /\ pc' = "commit" /\ nxt'.status = "STATUS" /\ nxt'.step = "keep"
        /\ UNCHANGED <<queueRest, status, write_enable, cmd_buf, bufs, host, raced, stray, uses>>

LEMMA EndsMachine == Machine /\ Ends => Machine'
<1> SUFFICES ASSUME Machine, Ends PROVE Machine'
  OBVIOUS
<1> USE DEF Ends, queueRest, machine, bufs, Machine
<1>1. SessionTypes' /\ Calls'
  BY Zenon DEF SessionTypes, Calls, Flushed
<1>2. InUse' /\ Meaning'
  BY Zenon DEF InUse, Meaning, Coming, NextStep, NewStates
<1>3. Awaited'
  BY Zenon DEF Awaited
<1>4. Unraced' /\ OldSteps'
  BY Zenon DEF Unraced, OldSteps, DataSteps, Expected
<1>5. DmaIsAwaited'
  BY DEF DmaIsAwaited, Coming, Receiving
<1> QED
  BY <1>1, <1>2, <1>3, <1>4, <1>5, Zenon

LEMMA ReceiveEnds == Machine /\ (ReceiveDram \/ ReceiveFlash \/ ReceiveNewDram) => Ends
<1> SUFFICES ASSUME Machine PROVE ReceiveDram \/ ReceiveFlash \/ ReceiveNewDram => Ends
  OBVIOUS
<1> USE DEF Ends, Assign, StatusOnly, StatusThenStep, StepThenStatus, At, ReceivedOld, ghosts
<1>0. trans \in Trans
  BY Zenon DEF Machine, SessionTypes
<1>1. ASSUME ReceiveDram PROVE Ends
  BY <1>0, <1>1, FinishTypesKept, Zenon DEF ReceiveDram
<1>2. ASSUME ReceiveFlash PROVE Ends
  <2>1. [trans EXCEPT !.last_err = -1] \in Trans
    BY <1>0, Zenon DEF Trans
  <2>2. [trans EXCEPT !.last_err = -1].app_next_status = trans.app_next_status
    BY <1>0, Zenon DEF Trans
  <2>3. trans' = trans \/ trans' = [trans EXCEPT !.last_err = -1]
    BY <1>2, Zenon DEF ReceiveFlash
  <2>4. /\ pc' = "commit" /\ nxt'.status = "STATUS" /\ nxt'.step = "keep"
        /\ app_step' \in {"STATUS", "IDLE"}
    BY <1>2, Zenon DEF ReceiveFlash
  <2>5. /\ pc = "loop" /\ status = "RECEIVE_DATA" /\ write_enable = 1
        /\ UNCHANGED <<queueRest, status, write_enable, cmd_buf, bufs, host, raced, stray, uses>>
    BY <1>2, Zenon DEF ReceiveFlash
  <2> QED
    BY <1>0, <2>1, <2>2, <2>3, <2>4, <2>5, Zenon
<1>3. ASSUME ReceiveNewDram PROVE Ends
  BY <1>0, <1>3, FinishTypesKept, Zenon DEF ReceiveNewDram, machine
<1> QED
  BY <1>1, <1>2, <1>3, Zenon

LEMMA SavedMachine == Machine /\ Saved => Machine'
<1> SUFFICES ASSUME Machine, Saved PROVE Machine'
  OBVIOUS
<1> USE DEF Assign, StatusOnly, StatusThenStep, StepThenStatus, qvars, machine, bufs, Machine
<1>0. trans' \in Trans /\ trans'.app_next_status = trans.app_next_status
  BY Zenon DEF Saved, SessionTypes, Trans
<1>a. /\ pc = "save" /\ op = "none"
      /\ pc' = "commit" /\ nxt'.status = "STATUS" /\ nxt'.step = "keep"
      /\ UNCHANGED <<qvars, machine, cmd_buf, bufs, host, raced, stray, uses>>
  BY Zenon DEF Saved
<1>1. SessionTypes' /\ Calls'
  BY <1>0, <1>a, Zenon DEF SessionTypes, Calls, Flushed
<1>2. InUse' /\ Meaning'
  BY <1>a, Zenon DEF InUse, Meaning, Coming, NextStep, NewStates
<1>3. Awaited'
  BY <1>a, Zenon DEF Awaited
<1>4. Unraced' /\ OldSteps'
  BY <1>0, <1>a, Zenon DEF Unraced, OldSteps, DataSteps, Expected
<1>5. DmaIsAwaited'
  BY <1>a, Zenon DEF DmaIsAwaited, Coming, Receiving, Unraced, OldSteps
<1> QED
  BY <1>1, <1>2, <1>3, <1>4, <1>5, Zenon

LEMMA PageWrittenMachine == Machine /\ PageWritten => Machine'
<1> SUFFICES ASSUME Machine, PageWritten PROVE Machine'
  OBVIOUS
<1> USE DEF PageWritten, qvars, machine, bufs, Machine
<1>1. SessionTypes' /\ Calls'
  BY Zenon DEF SessionTypes, Calls, Flushed
<1>2. InUse' /\ Meaning'
  BY Zenon DEF InUse, Meaning, Coming, NextStep, NewStates
<1>3. Awaited' /\ Unraced' /\ OldSteps'
  BY Zenon DEF Awaited, Unraced, OldSteps, Expected
<1>4. DmaIsAwaited'
  BY Zenon DEF DmaIsAwaited, Coming
<1> QED
  BY <1>1, <1>2, <1>3, <1>4, Zenon

(* A command of the new format ends the session, because it failed or has no *)
(* data to receive, waits for its data, or goes on to what the low half of   *)
(* its next step says.                                                       *)
Rejects == /\ pc' = "done" /\ nxt' = nxt /\ rx_ready' = 0 /\ status' = "IDLE"
           /\ UNCHANGED <<write_enable, dma>>
NoData  == /\ pc' = "done" /\ nxt' = nxt /\ write_enable' = 0
           /\ UNCHANGED <<dma, rx_ready, status>>
Waits   == /\ pc' = "commit" /\ nxt'.status = "RECEIVE_DATA_NEW" /\ nxt'.step = "keep"
           /\ write_enable' = 0 /\ dma' = 1
           /\ UNCHANGED <<rx_ready, status>>
GoesOn  == /\ pc' = "commit" /\ nxt'.status \in {"SEND_DATA_NEW", "STATUS", "EXIT"}
           /\ nxt'.step = "keep"
           /\ UNCHANGED <<write_enable, dma, rx_ready, status>>

LEMMA SetupNewCases ==
  Machine /\ SetupNewCmd =>
    /\ trans' \in Trans
    /\ \/ pc = "loop" /\ status = "SETUP_NEW"
       \/ pc = "flush"
    /\ op = "none"
    /\ Rejects \/ NoData \/ Waits \/ GoesOn
    /\ cmd_buf' = NoCommand
    /\ UNCHANGED <<queueRest, app_step, packet, host, raced, stray, uses>>
<1> SUFFICES ASSUME Machine, SetupNewCmd
             PROVE  /\ trans' \in Trans
                    /\ \/ pc = "loop" /\ status = "SETUP_NEW"
                       \/ pc = "flush"
                    /\ op = "none"
                    /\ Rejects \/ NoData \/ Waits \/ GoesOn
                    /\ cmd_buf' = NoCommand
                    /\ UNCHANGED <<queueRest, app_step, packet, host, raced, stray, uses>>
  OBVIOUS
<1>1. trans' \in Trans
  BY CommandTypes, Zenon DEF SetupNewCmd, Machine, SessionTypes
<1>2. /\ \/ pc = "loop" /\ status = "SETUP_NEW"
         \/ pc = "flush" /\ op = "none"
      /\ cmd_buf' = NoCommand
      /\ UNCHANGED <<queueRest, app_step, packet, host, raced, stray, uses>>
  BY Zenon DEF SetupNewCmd, At
<1>3. op = "none"
  BY <1>2, Zenon DEF Machine, Calls
<1>4. trans'.app_next_status \in Steps
  BY <1>1, Zenon DEF Trans
<1>5. Rejects \/ NoData \/ Waits \/ GoesOn
  BY <1>4 DEF SetupNewCmd, StartDma, Assign, StatusOnly, StatusThenStep, Leave, Rejects, NoData,
    Waits, GoesOn, Steps
<1> QED
  BY <1>1, <1>2, <1>3, <1>5, Zenon

LEMMA SetupNewCmdMachine == Machine /\ SetupNewCmd => Machine'
<1> SUFFICES ASSUME Machine, SetupNewCmd PROVE Machine'
  OBVIOUS
<1> USE DEF queueRest, Machine
<1>0. /\ trans' \in Trans
      /\ \/ pc = "loop" /\ status = "SETUP_NEW"
         \/ pc = "flush"
      /\ op = "none"
      /\ Rejects \/ NoData \/ Waits \/ GoesOn
      /\ cmd_buf' = NoCommand
      /\ UNCHANGED <<queueRest, app_step, packet, host, raced, stray, uses>>
  BY SetupNewCases, Zenon
<1> USE DEF Rejects, NoData, Waits, GoesOn
<1>1. SessionTypes' /\ Calls'
  <2>1. nxt'.status # "keep" \/ pc' # "commit"
    BY <1>0
  <2>2. NoCommand.req \in Fitting
    BY NothingFits, Zenon DEF NoCommand
  <2> QED
    BY <1>0, <2>1, <2>2, Zenon DEF SessionTypes, Calls, NoAssign
<1>2. InUse' /\ Meaning'
  BY <1>0 DEF InUse, Meaning, Coming, NextStep, NewStates
<1>3. Awaited'
  BY <1>0 DEF Awaited
<1>4. Unraced'
  BY <1>0 DEF Unraced, DataSteps, Expected, SessionTypes, NoAssign, StatusOnly, StatusThenStep
<1>6. OldSteps'
  BY <1>0, NothingNext DEF OldSteps
<1>5. DmaIsAwaited'
  BY <1>0 DEF DmaIsAwaited, Coming, Receiving, Unraced, OldSteps
<1> QED
  BY <1>1, <1>2, <1>3, <1>4, <1>5, <1>6, Zenon

(* The three calls of the queue. *)
LEMMA CallMachine == Machine /\ (SetupNewFlush \/ ReceiveNewWait \/ ReceiveNewFlash) => Machine'
<1> SUFFICES ASSUME Machine, SetupNewFlush \/ ReceiveNewWait \/ ReceiveNewFlash PROVE Machine'
  OBVIOUS
<1> USE DEF machine, bufs, ghosts, Machine
<1>0. /\ pc = "loop"
      /\ \/ status = "SETUP_NEW" /\ pc' = "flush" /\ op' = "all"
         \/ status = "RECEIVE_DATA_NEW" /\ pc' = "page"
         \/ status = "RECEIVE_DATA_NEW" /\ pc' = "save" /\ write_enable = 1
      /\ cmd_buf' \in {cmd_buf, packet.cmd}
      /\ UNCHANGED <<open, queue, machine, trans, csw, bufs, nxt, host, ghosts>>
  BY Zenon DEF SetupNewFlush, ReceiveNewWait, ReceiveNewFlash, At, Call, efex_queue_write_all_page,
         efex_queue_write_one_page, efex_save_buff_to_queue
<1>1. SessionTypes' /\ Calls'
  BY <1>0, Zenon DEF SessionTypes, Calls, Flushed
<1>2. InUse' /\ Meaning'
  BY <1>0, Zenon DEF InUse, Meaning, Coming, NextStep, NewStates
<1>3. Awaited'
  BY <1>0, Zenon DEF Awaited
<1>4. Unraced' /\ OldSteps'
  BY <1>0 DEF Unraced, OldSteps, Expected, DmaIsAwaited, Coming
<1>5. DmaIsAwaited'
  BY <1>0, Zenon DEF DmaIsAwaited, Coming
<1> QED
  BY <1>1, <1>2, <1>3, <1>4, <1>5, Zenon

LEMMA QueueKeepsOpen == QueueStep => UNCHANGED open
BY Zenon DEF QueueStep, DequeueNone, Dequeue, FlashWrite, FlashWriteFails, Written, NoRoom, Room,
       EnqueueFullPage, EnqueueRest, Enqueue, Q!Take, Q!Put, Q!Refuse

(* While a flush runs, it ends with an empty queue or with an error. *)
LEMMA FlushStep == Control /\ Flushed /\ QueueStep => Flushed'
<1> SUFFICES ASSUME Control, Flushed, QueueStep PROVE Flushed'
  OBVIOUS
<1> USE DEF Control, Flushed
<1>1. op = "all" /\ at # "fill"
  BY Zenon DEF QueueStep, DequeueNone, Dequeue, FlashWrite, FlashWriteFails, Written, NoRoom, Room,
         EnqueueFullPage, EnqueueRest
<1>2. CASE DequeueNone \/ Dequeue \/ FlashWrite
  BY <1>1, <1>2, Zenon DEF DequeueNone, Dequeue, FlashWrite
<1>3. CASE FlashWriteFails
  BY <1>1, <1>3 DEF FlashWriteFails, Return
<1>4. CASE Written
  BY <1>1, <1>4, Zenon DEF Written, More, Return
<1> QED
  BY <1>1, <1>2, <1>3, <1>4, Zenon DEF QueueStep, NoRoom, Room, EnqueueFullPage, EnqueueRest

LEMMA QueueMachine == Control /\ Machine /\ QueueRuns => Machine'
<1> SUFFICES ASSUME Control, Machine, QueueRuns PROVE Machine'
  OBVIOUS
<1> USE DEF machine, bufs, ghosts, Machine
<1>0. /\ pc \in {"flush", "page", "save"} /\ open' = open
      /\ pc = "flush" => Flushed'
      /\ UNCHANGED <<machine, trans, csw, cmd_buf, bufs, pc, nxt, host, ghosts>>
  BY QueueKeepsOpen, FlushStep, Zenon DEF QueueRuns, Calls
<1>1. SessionTypes' /\ Calls'
  BY <1>0, Zenon DEF SessionTypes, Calls
<1>2. InUse' /\ Meaning'
  BY <1>0, Zenon DEF InUse, Meaning, Coming, NextStep
<1>3. Awaited' /\ Unraced' /\ OldSteps' /\ DmaIsAwaited'
  BY <1>0, Zenon DEF Awaited, Unraced, OldSteps, Expected, DmaIsAwaited, Coming
<1> QED
  BY <1>1, <1>2, <1>3, Zenon

LEMMA OverMachine == Machine /\ Over => Machine'
<1> SUFFICES ASSUME Machine, Over PROVE Machine'
  OBVIOUS
<1> USE DEF Over, efex_queue_exit, Q!Close, machine, bufs, ghosts, Machine
<1>1. SessionTypes' /\ Calls'
  BY Zenon DEF SessionTypes, Calls
<1>2. InUse' /\ Meaning'
  BY Zenon DEF InUse, Meaning, Coming, NextStep
<1>3. Awaited' /\ Unraced' /\ OldSteps' /\ DmaIsAwaited'
  BY Zenon DEF Awaited, Unraced, OldSteps, Expected, DmaIsAwaited, Coming
<1> QED
  BY <1>1, <1>2, <1>3, Zenon

LEMMA StutterMachine == Machine /\ UNCHANGED vars => Machine'
<1> SUFFICES ASSUME Machine, UNCHANGED vars PROVE Machine'
  OBVIOUS
<1> USE DEF vars, qvars, machine, bufs, ghosts, Machine
<1>1. SessionTypes' /\ Calls'
  BY Zenon DEF SessionTypes, Calls, Flushed
<1>2. InUse' /\ Meaning'
  BY Zenon DEF InUse, Meaning, Coming, NextStep
<1>3. Awaited' /\ Unraced' /\ OldSteps' /\ DmaIsAwaited'
  BY DEF Awaited, Unraced, OldSteps, Expected, DmaIsAwaited, Coming
<1> QED
  BY <1>1, <1>2, <1>3, Zenon

LEMMA MachineStep == Control /\ Machine /\ [EfexNext]_vars => Machine'
<1> SUFFICES ASSUME Control, Machine, [EfexNext]_vars PROVE Machine'
  OBVIOUS
<1>1. CASE Start \/ CommitStatus \/ CommitStep \/ Idle \/ SetupBad \/ Setup_New
           \/ SetupCmd \/ SetupData
  BY <1>1, StartMachine, CommitStatusMachine, CommitStepMachine, IdleMachine, SetupBadMachine,
    Setup_NewMachine,
     SetupCmdMachine, SetupDataMachine
<1>2. CASE SetupStatus \/ SendData \/ SendDataNew \/ ReceiveTimeout \/ Status \/ Exit
  BY <1>2, SetupStatusMachine, SendDataMachine, SendDataNewMachine, ReceiveTimeoutMachine,
     StatusMachine, ExitMachine, Zenon
<1>3. CASE ReceiveCmd \/ ReceiveDram \/ ReceiveFlash \/ ReceiveNewDram
  BY <1>3, ReceiveCmdMachine, ReceiveEnds, EndsMachine, Zenon
<1>4. CASE SetupNewFlush \/ SetupNewCmd \/ ReceiveNewWait \/ PageWritten \/ ReceiveNewFlash
           \/ Saved \/ QueueRuns
  BY <1>4, CallMachine, SetupNewCmdMachine, PageWrittenMachine, SavedMachine, QueueMachine, Zenon
<1>5. CASE Interrupt
  BY <1>5, PacketMachine, DmaDoneMachine, ResetMachine, Zenon DEF Interrupt
<1>6. CASE Over
  BY <1>6, OverMachine, Zenon
<1>7. CASE SetupSpin \/ Ended \/ UNCHANGED vars
  BY <1>7, StutterMachine, Zenon DEF SetupSpin, Ended
<1> QED
  BY <1>1, <1>2, <1>3, <1>4, <1>5, <1>6, <1>7, Zenon DEF EfexNext, MainLoop, Handler

-----------------------------------------------------------------------------
(* The queue and the flash *)

(* Erasing the flash between two calls of the queue. *)
LEMMA EraseInv ==
  ASSUME TypeOK, Locals, op = "none", UNCHANGED queueRest, Erases
  PROVE  TypeOK' /\ Locals' /\ (Durable => Durable')
<1> USE DEF queueRest
<1>1. /\ flash' \in [Sectors -> Content \cup {Erased, Unknown}]
      /\ accepted' \in [Sectors -> Content \cup {Erased, Unknown}]
  BY Zenon DEF TypeOK, Erases, EraseFlash
<1>2. TypeOK'
  BY <1>1, Zenon DEF TypeOK, Element
<1>3. Locals'
  BY Zenon DEF Locals, Control, RestInStep, RoomForRest, FreeSize, PagesInBuffer, Element
<1>4. ASSUME Durable PROVE Durable'
  <2> SUFFICES ASSUME open, NEW s \in Sectors
               PROVE  \/ \E k \in DOMAIN queue : Newest(k, s) /\ ContentOf(queue[k], s) = accepted'[s]
                      \/ ~Queued(s) /\ flash'[s] \in {accepted'[s], Unknown}
    BY Zenon DEF Durable, Newest, Queued, InHand, Locals, Control
  <2>1. CASE UNCHANGED <<flash, accepted>>
    BY <1>4, <2>1, Zenon DEF Durable, InHand, Locals, Control
  <2>2. CASE \E e \in {0, -1} : EraseFlash(e)
    <3>1. CASE Queued(s)
      BY <1>4, <2>2, <3>1, Zenon DEF Durable, EraseFlash
    <3>2. CASE ~Queued(s)
      BY <2>2, <3>2, Zenon DEF EraseFlash
    <3> QED
      BY <3>1, <3>2, Zenon
  <2> QED
    BY <2>1, <2>2, Zenon DEF Erases
<1> QED
  BY <1>2, <1>3, <1>4, Zenon

LEMMA PartIsContent == ASSUME NEW d \in Data, NEW k \in Sectors PROVE <<d, k>> \in Content
BY DEF Content

(* The old format writes to the flash past an empty queue. *)
LEMMA DirectInv ==
  ASSUME TypeOK, Locals, op = "none", trans.req \in Fitting, ReceiveFlash
  PROVE  TypeOK' /\ Locals' /\ (queue = <<>> /\ Durable => Durable')
<1> DEFINE r == trans.req
           In(s) == s \in r.start .. (r.start + r.sectors - 1)
           New(s) == IF DataSent THEN <<r.data, s - r.start>> ELSE Unknown
<1> USE DEF queueRest
<1>0. UNCHANGED queueRest
  BY Zenon DEF ReceiveFlash
<1>1. r.start \in Sectors /\ r.data \in Data /\ r.sectors \in Nat
  BY DEF Fitting, Requests
<1>2. \A s \in Sectors : In(s) => <<r.data, s - r.start>> \in Content
  <2>1. \A s \in Sectors : In(s) => s - r.start \in Sectors
    BY <1>1, QueueAssumption DEF Sectors
  <2> QED
    BY <1>1, <2>1, PartIsContent, Zenon
<1>3. \/ /\ flash' = [s \in Sectors |-> IF In(s) THEN New(s) ELSE flash[s]]
         /\ accepted' = [s \in Sectors |-> IF In(s) THEN New(s) ELSE accepted[s]]
      \/ /\ flash' = [s \in Sectors |-> IF In(s) THEN Unknown ELSE flash[s]]
         /\ accepted' = accepted
  BY Zenon DEF ReceiveFlash
<1>a. \A s \in Sectors : In(s) => New(s) \in Content \cup {Unknown}
  BY <1>2, Zenon
<1> HIDE DEF In, New, r
<1>4. /\ flash' \in [Sectors -> Content \cup {Erased, Unknown}]
      /\ accepted' \in [Sectors -> Content \cup {Erased, Unknown}]
  <2> DEFINE C == Content \cup {Erased, Unknown}
  <2>1. flash \in [Sectors -> C] /\ accepted \in [Sectors -> C] /\ Unknown \in C
    BY Zenon DEF TypeOK
  <2>2. \A s \in Sectors : In(s) => New(s) \in C
    BY <1>a, Zenon
  <2> HIDE DEF C
  <2>4. flash' \in [Sectors -> C] /\ accepted' \in [Sectors -> C]
    BY <1>3, <2>1, <2>2, Zenon
  <2> QED
    BY <2>4, Zenon DEF C
<1>5. TypeOK'
  BY <1>0, <1>4, Zenon DEF TypeOK, Element
<1>6. Locals'
  BY <1>0, Zenon DEF Locals, Control, RestInStep, RoomForRest, FreeSize, PagesInBuffer, Element
<1>7. ASSUME queue = <<>>, Durable PROVE Durable'
  <2>1. at # "write"
    BY Zenon DEF Locals, Control
  <2>2. open => \A s \in Sectors : flash[s] \in {accepted[s], Unknown}
    BY <1>7, <2>1 DEF Durable, InHand
  <2>3. open => \A s \in Sectors : flash'[s] \in {accepted'[s], Unknown}
    BY <1>3, <2>2, Zenon
  <2> QED
    BY <1>0, <1>7, <2>1, <2>3 DEF Durable, Queued, InHand
<1> QED
  BY <1>5, <1>6, <1>7, Zenon

(* What a step of the session does to the queue and the flash: a step of     *)
(* EfexQueue, erasing the flash, or writing to it past the queue.            *)
LEMMA QueueEffects ==
  ASSUME SessionInv, [EfexNext]_vars
  PROVE  \/ [QNext]_qvars
         \/ op = "none" /\ UNCHANGED queueRest /\ Erases
         \/ op = "none" /\ ReceiveFlash
<1>0. pc = "loop" => op = "none"
  BY Zenon DEF SessionInv, Machine, Calls
<1>1. CASE Start \/ Over \/ SetupNewFlush \/ ReceiveNewWait \/ QueueRuns
  BY <1>1, Zenon DEF Start, Over, SetupNewFlush, ReceiveNewWait, QueueRuns, QNext
<1>2. CASE ReceiveNewFlash
  <2>1. trans.req \in Requests /\ Fits(trans.req)
    BY Zenon DEF SessionInv, Machine, SessionTypes, Trans, Fitting
  <2> QED
    BY <1>2, <2>1, Zenon DEF ReceiveNewFlash, QNext
<1>3. CASE ReceiveCmd
  <2>1. UNCHANGED queueRest /\ op = "none"
    BY <1>0, <1>3, Zenon DEF ReceiveCmd, ReceivedOld, At
  <2>2. Erases
    BY <1>3, CommandErases, Zenon DEF ReceiveCmd, Erases, Medium
  <2> QED
    BY <2>1, <2>2, Zenon
<1>4. CASE SetupNewCmd
  <2>1. UNCHANGED queueRest /\ op = "none"
    BY <1>4, SetupNewCases, Zenon DEF SessionInv
  <2>2. Erases
    BY <1>4, CommandErases, Zenon DEF SetupNewCmd
  <2> QED
    BY <2>1, <2>2, Zenon
<1>5. CASE ReceiveDram \/ ReceiveNewDram
  <2>1. UNCHANGED queueRest /\ op = "none" /\ DramReceived
    BY <1>0, <1>5, Zenon DEF ReceiveDram, ReceiveNewDram, ReceivedOld, At
  <2>2. trans \in Trans
    BY Zenon DEF SessionInv, Machine, SessionTypes
  <2>3. trans' \in Trans
    BY <2>1, <2>2, FinishTypesKept, Zenon
  <2>4. trans'.last_err \in {0, -1}
    BY <2>3, Zenon DEF Trans
  <2>5. Erases
    BY <2>1, <2>4, Zenon DEF DramReceived, dram_data_recv_finish, Erases
  <2> QED
    BY <2>1, <2>5, Zenon
<1>6. CASE ReceiveFlash
  BY <1>0, <1>6, Zenon DEF ReceiveFlash, ReceivedOld, At
<1>7. CASE CommitStatus \/ CommitStep \/ Idle \/ SetupBad \/ Setup_New \/ SetupCmd
           \/ SetupData \/ SetupStatus
           \/ SendData \/ SendDataNew \/ PageWritten \/ Saved \/ Status \/ Exit
  BY <1>7, Zenon DEF CommitStatus, CommitStep, Idle, SetupBad, Setup_New, SetupCmd, SetupData,
    SetupStatus, SendData,
              SendDataNew, PageWritten, Saved, Status, Exit
<1>8. CASE SetupSpin \/ ReceiveTimeout \/ Interrupt \/ Ended \/ UNCHANGED vars
  BY <1>8, Zenon DEF SetupSpin, ReceiveTimeout, Interrupt, RxPacket, DmaDone, Reset, Ended, vars
<1> QED
  BY <1>1, <1>2, <1>3, <1>4, <1>5, <1>6, <1>7, <1>8, Zenon DEF EfexNext, MainLoop, Handler

LEMMA UsesKept == [EfexNext]_vars => uses' = uses
BY Zenon DEF EfexNext, MainLoop, Handler, Start, CommitStatus, CommitStep, Idle, SetupBad,
  Setup_New, SetupCmd, SetupData,
       SetupStatus, SendData, ReceiveCmd, ReceiveDram, ReceiveFlash, SetupNewFlush, SetupNewCmd,
       SendDataNew, ReceiveNewWait, PageWritten, ReceiveNewDram, ReceiveNewFlash, Saved, Status,
       Exit, QueueRuns, SetupSpin, ReceiveTimeout, Interrupt, RxPacket, DmaDone, Reset, Over, Ended,
       vars, ghosts

(* A host that uses the old format only has an empty queue. *)
LEMMA OldHasNoQueue ==
  Machine /\ uses # {"old", "new"} /\ status = "RECEIVE_DATA" => queue = <<>>
BY Zenon DEF Machine, SessionTypes, InUse

LEMMA QueueInv ==
  ASSUME SessionInv, [EfexNext]_vars
  PROVE  TypeOK' /\ Locals' /\ SessionIsDurable'
<1>1. CASE [QNext]_qvars
  <2>1. TypeOK' /\ Locals'
    BY <1>1, StepTypes, Zenon DEF SessionInv
  <2>2. Durable => Durable'
    BY <1>1, StepDurable, Zenon DEF SessionInv, QInv
  <2> QED
    BY <2>1, <2>2, UsesKept, Zenon DEF SessionInv, SessionIsDurable
<1>2. CASE op = "none" /\ UNCHANGED queueRest /\ Erases
  BY <1>2, EraseInv, UsesKept, Zenon DEF SessionInv, SessionIsDurable
<1>3. CASE op = "none" /\ ReceiveFlash
  <2>1. trans.req \in Fitting
    BY Zenon DEF SessionInv, Machine, SessionTypes, Trans
  <2>2. status = "RECEIVE_DATA"
    BY <1>3, Zenon DEF ReceiveFlash, ReceivedOld, At
  <2> QED
    BY <1>3, <2>1, <2>2, DirectInv, OldHasNoQueue, UsesKept, Zenon DEF SessionInv, SessionIsDurable
<1> QED
  BY <1>1, <1>2, <1>3, QueueEffects, Zenon

-----------------------------------------------------------------------------
(* What verify_value and set_off find *)

(* With an empty queue the flash holds what the host sent. *)
LEMMA LookFindsData ==
  ASSUME SessionInv, uses # {"old", "new"}, queue = <<>>, op = "none", open
  PROVE  \A s \in Sectors : flash[s] \in {accepted[s], Unknown}
<1>1. Durable /\ at # "write"
  BY Zenon DEF SessionInv, SessionIsDurable, Locals, Control
<1> QED
  BY <1>1 DEF Durable, InHand

LEMMA VerifyCommand ==
  ASSUME SessionInv, uses # {"old", "new"}, ReceiveCmd \/ SetupNewCmd
  PROVE  UNCHANGED <<seen, werr>> \/ seen' = "good" \/ werr' # "none"
<1>0. Machine
  BY Zenon DEF SessionInv
<1>1. CASE ReceiveCmd
  <2>1. pc = "loop" /\ status = "RECEIVE_DATA" /\ werr' = werr
    BY <1>1, Zenon DEF ReceiveCmd, ReceivedOld, At
  <2>2. queue = <<>> /\ op = "none" /\ open
    BY <1>0, <2>1, OldHasNoQueue, Zenon DEF Machine, Calls
  <2>3. CASE RequestSize # 2
    BY <1>1, <2>1, <2>3, Zenon DEF ReceiveCmd, Medium
  <2>4. CASE RequestSize = 2
    <3>1. UNCHANGED seen \/ Look
      BY <1>1, <2>4, CommandLooks, Zenon DEF ReceiveCmd
    <3> QED
      BY <2>1, <2>2, <3>1, LookFindsData, Zenon DEF Look
  <2> QED
    BY <2>3, <2>4, Zenon
<1>2. CASE SetupNewCmd
  <2>2. CASE At("SETUP_NEW") /\ ~Flushes(packet.cmd) /\ op_cmd(packet.cmd) /\ UNCHANGED werr
    BY <2>2, CommandLooks, Zenon
  <2>3. CASE pc = "flush" /\ op = "none" /\ op_cmd(cmd_buf) /\ WriteReturned
    <3>0. UNCHANGED seen \/ Look
      BY <2>3, CommandLooks, Zenon
    <3>1. CASE ret # 0
      BY <2>3, <3>1, Zenon DEF WriteReturned
    <3>2. CASE ret = 0
      <4>1. queue = <<>> /\ open /\ werr' = werr
        BY <1>0, <2>3, <3>2, Zenon DEF Machine, Calls, Flushed, WriteReturned
      <4> QED
        BY <2>3, <3>0, <4>1, LookFindsData, Zenon DEF Look
    <3> QED
      BY <3>1, <3>2, Zenon
  <2> QED
    BY <1>2, <2>2, <2>3, Zenon DEF SetupNewCmd
<1> QED
  BY <1>1, <1>2, Zenon

LEMMA VerifyInv ==
  ASSUME SessionInv, [EfexNext]_vars
  PROVE  VerifyFindsData'
<1> SUFFICES ASSUME uses # {"old", "new"}
             PROVE  seen' = "stale" => werr' # "none"
  BY UsesKept, Zenon DEF VerifyFindsData
<1>0. seen = "stale" => werr # "none"
  BY Zenon DEF SessionInv, VerifyFindsData
<1>1. CASE ReceiveCmd \/ SetupNewCmd
  BY <1>0, <1>1, VerifyCommand, Zenon
<1>2. CASE PageWritten \/ Saved
  BY <1>0, <1>2, Zenon DEF PageWritten, Saved, WriteReturned
<1>3. CASE Status \/ Exit
  BY <1>0, <1>3, Zenon DEF Status, Exit, SendCsw
<1>4. CASE Start \/ CommitStatus \/ CommitStep \/ Idle \/ SetupBad \/ Setup_New \/ SetupCmd
           \/ SetupData \/ SetupStatus
           \/ SendData \/ SendDataNew \/ ReceiveDram \/ ReceiveFlash \/ SetupNewFlush
           \/ ReceiveNewWait \/ ReceiveNewDram \/ ReceiveNewFlash \/ QueueRuns
  BY <1>0, <1>4, Zenon DEF Start, CommitStatus, CommitStep, Idle, SetupBad, Setup_New, SetupCmd,
    SetupData, SetupStatus,
       SendData, SendDataNew, ReceiveDram, ReceiveFlash, SetupNewFlush, ReceiveNewWait,
       ReceiveNewDram, ReceiveNewFlash, QueueRuns, ghosts
<1>5. CASE SetupSpin \/ ReceiveTimeout \/ Interrupt \/ Over \/ Ended \/ UNCHANGED vars
  BY <1>0, <1>5, Zenon DEF SetupSpin, ReceiveTimeout, Interrupt, RxPacket, DmaDone, Reset, Over,
    Ended,
       vars, ghosts
<1> QED
  BY <1>1, <1>2, <1>3, <1>4, <1>5, Zenon DEF EfexNext, MainLoop, Handler

-----------------------------------------------------------------------------
(* The theorems *)

LEMMA InitSession == EfexInit => SessionInv
<1> SUFFICES ASSUME EfexInit PROVE SessionInv
  OBVIOUS
<1>1. QInv
  BY InitInv, Zenon DEF EfexInit
<1>2. VerifyFindsData
  BY Zenon DEF EfexInit, VerifyFindsData
<1> QED
  BY <1>1, <1>2, InitMachine, Zenon DEF SessionInv, QInv, SessionIsDurable

LEMMA StepSession == SessionInv /\ [EfexNext]_vars => SessionInv'
<1> SUFFICES ASSUME SessionInv, [EfexNext]_vars PROVE SessionInv'
  OBVIOUS
<1>1. Machine'
  BY MachineStep, Zenon DEF SessionInv, Locals
<1> QED
  BY <1>1, QueueInv, VerifyInv, Zenon DEF SessionInv

LEMMA SessionAlways == EfexSpec => []SessionInv
BY InitSession, StepSession, PTL DEF EfexSpec

(* The session sends a csw only to a host that waits for one: no packet is   *)
(* answered twice, unless a reset hit a handler whose assignments undid it.  *)
THEOREM StatusAlwaysAwaited == EfexSpec => []StatusIsAwaited
<1>1. SessionInv => StatusIsAwaited
  <2>1. pc = "loop" /\ status # "IDLE" /\ raced = 0 /\ Machine => host = "wait"
    BY Zenon DEF Machine, Awaited
  <2>2. SessionInv => raced \in {0, 1}
    BY Zenon DEF SessionInv, Machine, SessionTypes
  <2> QED
    BY <2>1, <2>2, Zenon DEF SessionInv, StatusIsAwaited, At
<1> QED
  BY <1>1, SessionAlways, PTL

(* No handler looks at the receive buffer while a DMA is filling it, and     *)
(* every DMA is waited for, except one that a host announced where it should *)
(* have asked for data.                                                      *)
THEOREM DmaAlwaysAwaited == EfexSpec => []DmaIsAwaited
<1>1. SessionInv => DmaIsAwaited
  BY Zenon DEF SessionInv, Machine
<1> QED
  BY <1>1, SessionAlways, PTL

(* What arrives in the old format is a command or its data, whatever resets  *)
(* do to the handlers.                                                       *)
THEOREM DataAlwaysMeant == EfexSpec => []DataHasMeaning
<1>1. SessionInv => DataHasMeaning
  <2>1. SessionInv /\ pc = "loop" => Coming = status /\ NextStep = app_step
    BY NothingNext, Zenon DEF SessionInv, Machine, Coming, NextStep
  <2> QED
    BY <2>1 DEF SessionInv, Machine, Meaning, DataHasMeaning, ReceivedOld, At
<1> QED
  BY <1>1, SessionAlways, PTL

(* What the host was told is stored is in the flash or will get there, over  *)
(* all commands, errors and resets of a session in one format.               *)
THEOREM SessionAlwaysDurable == EfexSpec => []SessionIsDurable
<1>1. SessionInv => SessionIsDurable
  BY Zenon DEF SessionInv
<1> QED
  BY <1>1, SessionAlways, PTL

(* verify_value and set_off find in the flash what a host of one format has  *)
(* sent, unless the write of a queued page failed.                           *)
THEOREM VerifyAlwaysFindsData == EfexSpec => []VerifyFindsData
<1>1. SessionInv => VerifyFindsData
  BY Zenon DEF SessionInv
<1> QED
  BY <1>1, SessionAlways, PTL
=============================================================================
