----------------------------- MODULE EfexQueue -----------------------------
(***************************************************************************)
(* drivers/sunxi_usb/efex_queue.c: what the USB download protocol puts     *)
(* between the data it has acknowledged and the flash.  The pages wait in  *)
(* the queue of buf_queue.c, used here through what BufFifo promises.      *)
(*                                                                         *)
(* Every flash write and every queue operation is a step: a write takes    *)
(* long, and the USB interrupt may come between any two of them.           *)
(***************************************************************************)
EXTENDS Integers, Sequences, FiniteSetsExt

CONSTANTS MaxLens,       \* pages the queue can hold, by the kind of flash
          SecPerPage,    \* sectors in a page
          NSectors,      \* sectors of the flash
          Data           \* what the host may send: the buffer of one command

ASSUME QueueAssumption == /\ MaxLens \subseteq Nat \ {0} /\ MaxLens # {}
                          /\ IsFiniteSet(MaxLens)
                          /\ SecPerPage \in Nat \ {0}
                          /\ NSectors \in Nat \ {0}
                          /\ Data # {}

Sectors == 0 .. (NSectors - 1)

(* The content of a sector: the k-th 512 bytes of the buffer of a command. *)
Content == {<<d, k>> : d \in Data, k \in Sectors}
Erased  == <<"erased">>
Unknown == <<"unknown">>     \* what a failed write leaves behind

(* struct buf_element: buff points offset sectors into the buffer data. *)
Page == [addr : Sectors, sector_num : 1 .. SecPerPage, data : Data, offset : Sectors]
SectorsOf(p)   == p.addr .. (p.addr + p.sector_num - 1)
ContentOf(p, s) == <<p.data, p.offset + (s - p.addr)>>

Requests == [start : Sectors, sectors : 0 .. NSectors, data : Data]
NoRequest == [start |-> 0, sectors |-> 0, data |-> CHOOSE d \in Data : TRUE]

VARIABLES
  max_len,              \* buf_queue_max_len, set by buf_queue_init
  open, queue, reply,   \* the queue of buf_queue.c
  flash,                \* content of every sector
  accepted,             \* what the host was told is stored in every sector
  op,                   \* the function that is running
  at,                   \* where it is: "drain", "write" or "fill"
  todo,                 \* pages it has still to write
  req, offset,          \* efex_save_buff_to_queue: the rest of the request
  first,                \* and the sector the whole request started at
  ret                   \* what the last function returned

qvars == <<max_len, open, queue, reply, flash, accepted, op, at, todo, req, offset, first, ret>>

Q == INSTANCE BufFifo WITH Elem <- Page, MaxLen <- Max(MaxLens)

FreeSize == max_len - Len(queue)                 \* buf_queue_free_size()
PagesFor(n) == (n + SecPerPage - 1) \div SecPerPage

QInit == /\ max_len \in MaxLens
         /\ Q!FifoInit
         /\ flash = [s \in Sectors |-> Erased]
         /\ accepted = [s \in Sectors |-> Erased]
         /\ op = "none" /\ at = "drain" /\ todo = 0
         /\ req = NoRequest
         /\ offset = 0 /\ first = 0 /\ ret = 0

-----------------------------------------------------------------------------

(* A session promises nothing about what earlier ones were asked to store. *)
efex_queue_init == /\ op = "none" /\ Q!Open
                   /\ accepted' = flash
                   /\ UNCHANGED <<max_len, flash, op, at, todo, req, offset, first, ret>>

(* Pages that are still queued are dropped. *)
efex_queue_exit == /\ op = "none" /\ Q!Close
                   /\ UNCHANGED <<max_len, flash, accepted, op, at, todo, req, offset, first, ret>>

Call(f, n) == /\ op = "none" /\ open
              /\ op' = f /\ at' = "drain" /\ todo' = n
              /\ UNCHANGED <<max_len, open, queue, reply, flash, accepted, ret>>

(* The locals go out of scope. *)
Return(r) == /\ op' = "none" /\ at' = "drain" /\ todo' = 0 /\ ret' = r
             /\ req' = NoRequest /\ offset' = 0 /\ first' = 0

efex_queue_write_one_page == Call("one", 1) /\ UNCHANGED <<req, offset, first>>

efex_queue_write_all_page == Call("all", 0) /\ UNCHANGED <<req, offset, first>>

(* Make room first: as many pages are written as the request lacks. *)
efex_save_buff_to_queue(r) ==
  LET require_page == PagesFor(r.sectors)
  IN  /\ Call("save", IF require_page > FreeSize THEN require_page - FreeSize ELSE 0)
      /\ req' = r /\ offset' = 0 /\ first' = r.start

(* write_all_page goes on until nothing can be dequeued, the others count.   *)
More == IF op = "all" THEN queue # <<>> ELSE todo > 0

(* Mutant: the loop that makes room does not count an empty queue. *)
DequeueNoneStays ==
  /\ op # "none" /\ at = "drain" /\ todo > 0 /\ queue = <<>>
  /\ UNCHANGED qvars

(* Taking a page from an empty queue writes nothing and is no error. *)
DequeueNone == /\ op # "none" /\ at = "drain" /\ todo > 0 /\ queue = <<>>
               /\ todo' = todo - 1
               /\ UNCHANGED <<max_len, open, queue, reply, flash, accepted, op, at, req, offset, first, ret>>

Dequeue == /\ op # "none" /\ at = "drain" /\ More
           /\ Q!Take
           /\ at' = "write"
           /\ UNCHANGED <<max_len, flash, accepted, op, todo, req, offset, first, ret>>

Element == reply.val[1]                         \* buf_queue_element

FlashWrite ==
  /\ at = "write"
  /\ flash' = [s \in Sectors |-> IF s \in SectorsOf(Element)
                                 THEN ContentOf(Element, s) ELSE flash[s]]
  /\ at' = "drain" /\ todo' = (IF op = "all" THEN todo ELSE todo - 1)
  /\ reply' = Q!Done(<<>>)
  /\ UNCHANGED <<max_len, open, queue, accepted, op, req, offset, first, ret>>

(* The page is lost: it has left the queue, and buf_queue_element is not     *)
(* looked at again.                                                          *)
FlashWriteFails ==
  /\ at = "write"
  /\ flash' = [s \in Sectors |-> IF s \in SectorsOf(Element) THEN Unknown ELSE flash[s]]
  /\ Return(-1) /\ reply' = Q!Done(<<>>)
  /\ UNCHANGED <<max_len, open, queue, accepted>>

Written == /\ op \in {"one", "all"} /\ at = "drain" /\ ~More
           /\ Return(0)
           /\ UNCHANGED <<max_len, open, queue, reply, flash, accepted>>

NoRoom == /\ op = "save" /\ at = "drain" /\ todo = 0
          /\ FreeSize < PagesFor(req.sectors)
          /\ Return(-1)
          /\ UNCHANGED <<max_len, open, queue, reply, flash, accepted>>

(* Mutant: the free space is not looked at again. *)
RoomUnchecked ==
  /\ op = "save" /\ at = "drain" /\ todo = 0
  /\ at' = "fill"
  /\ UNCHANGED <<max_len, open, queue, reply, flash, accepted, op, todo, req, offset, first, ret>>

Room == /\ op = "save" /\ at = "drain" /\ todo = 0
        /\ FreeSize >= PagesFor(req.sectors)
        /\ at' = "fill"
        /\ UNCHANGED <<max_len, open, queue, reply, flash, accepted, op, todo, req, offset, first, ret>>

(* buf_enqueue of the next n sectors of the request.  Its return value is    *)
(* not looked at: the host is told the sectors are stored in either case.    *)
Enqueue(n) ==
  /\ IF FreeSize > 0
     THEN Q!Put([addr |-> req.start, sector_num |-> n, data |-> req.data,
                 offset |-> offset])
     ELSE Q!Refuse
  /\ accepted' = [s \in Sectors |->
                    IF s \in req.start .. (req.start + n - 1)
                    THEN <<req.data, s - first>> ELSE accepted[s]]

(* Mutant: the buffer is not advanced with the address. *)
EnqueueFullPageAgain ==
  /\ at = "fill" /\ req.sectors > SecPerPage
  /\ Enqueue(SecPerPage)
  /\ req' = [req EXCEPT !.start = @ + SecPerPage, !.sectors = @ - SecPerPage]
  /\ UNCHANGED <<max_len, flash, op, at, todo, offset, first, ret>>

EnqueueFullPage ==
  /\ at = "fill" /\ req.sectors > SecPerPage
  /\ Enqueue(SecPerPage)
  /\ req' = [req EXCEPT !.start = @ + SecPerPage, !.sectors = @ - SecPerPage]
  /\ offset' = offset + SecPerPage
  /\ UNCHANGED <<max_len, flash, op, at, todo, first, ret>>

(* Mutant: the rest is queued in one piece, however long. *)
EnqueueRestWhole ==
  /\ at = "fill"
  /\ IF req.sectors > 0 THEN Enqueue(req.sectors)
                        ELSE UNCHANGED <<open, queue, reply, accepted>>
  /\ Return(0)
  /\ UNCHANGED <<max_len, flash>>

EnqueueRest ==
  /\ at = "fill" /\ req.sectors <= SecPerPage
  /\ IF req.sectors > 0 THEN Enqueue(req.sectors)
                        ELSE UNCHANGED <<open, queue, reply, accepted>>
  /\ Return(0)
  /\ UNCHANGED <<max_len, flash>>

(* One step of whatever function is running. *)
QueueStep == \/ DequeueNone \/ Dequeue \/ FlashWrite \/ FlashWriteFails
             \/ Written \/ NoRoom \/ Room \/ EnqueueFullPage \/ EnqueueRest

(* A host writes inside the flash. *)
Fits(r) == r.start + r.sectors <= NSectors

QNext == \/ efex_queue_init \/ efex_queue_exit
         \/ efex_queue_write_one_page \/ efex_queue_write_all_page
         \/ \E r \in Requests : Fits(r) /\ efex_save_buff_to_queue(r)
         \/ QueueStep

QSpec == QInit /\ [][QNext]_qvars /\ WF_qvars(QueueStep)
-----------------------------------------------------------------------------
(* Properties *)

(* Queue, flash and the locals of the running function have their types; a   *)
(* page is never longer than the buffer of a queue node.                     *)
TypeOK ==
  /\ open \in BOOLEAN
  /\ queue \in Seq(Page) /\ Len(queue) <= max_len
  /\ flash \in [Sectors -> Content \cup {Erased, Unknown}]
  /\ accepted \in [Sectors -> Content \cup {Erased, Unknown}]
  /\ op \in {"none", "one", "all", "save"} /\ at \in {"drain", "write", "fill"}
  /\ at = "write" => Element \in Page
  /\ todo \in Nat
  /\ req \in [start : 0 .. NSectors, sectors : 0 .. NSectors, data : Data]
  /\ offset \in 0 .. NSectors /\ first \in Sectors
  /\ ret \in {0, -1}

Newest(k, s) == /\ s \in SectorsOf(queue[k])
                /\ \A j \in DOMAIN queue : j > k => s \notin SectorsOf(queue[j])
Queued(s) == \E k \in DOMAIN queue : s \in SectorsOf(queue[k])
InHand(s) == at = "write" /\ s \in SectorsOf(Element)

(* What the host was told is stored is never lost nor overtaken by older     *)
(* data: it is in the newest queued page for the sector, else in the page    *)
(* being written, else in the flash, unless the write of the page failed.    *)
Durable ==
  open => \A s \in Sectors :
    \/ \E k \in DOMAIN queue : Newest(k, s) /\ ContentOf(queue[k], s) = accepted[s]
    \/ ~Queued(s) /\ InHand(s) /\ ContentOf(Element, s) = accepted[s]
    \/ ~Queued(s) /\ ~InHand(s) /\ flash[s] \in {accepted[s], Unknown}

(* Every call returns: the loops of efex_queue.c end on every outcome.       *)
CallReturns == op # "none" ~> op = "none"
=============================================================================
