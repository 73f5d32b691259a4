# TLA+ models of the Tina brandy boot loader

brandy is the boot loader of the Allwinner V821 SDK: an SPL (boot0, sboot), a
U-Boot 2018 with Allwinner's additions, and the production tool ("sprite") built
into that U-Boot, which writes a firmware received over USB, from a card or from a
disk. This directory holds models of the parts of it that keep state across calls,
interrupts, power cuts or failing flash operations. Paths below are relative to
`src/brandy-2.0/u-boot-2018/`.

## 1. Inventory

| Part | Source | State | Operations | What makes it hard | Model |
|---|---|---|---|---|---|
| USB page queue | `drivers/sunxi_usb/buf_queue.c` | ring of nodes, head, tail, length, flag | init, exit, enqueue, dequeue | allocation failing half way, head = tail when full and when empty | BufQueue, BufFifo |
| EFEX write-behind queue | `drivers/sunxi_usb/efex_queue.c` | queued pages | save a buffer, write one, write all | order of overlapping pages, requests larger than the queue, failing writes | EfexQueue |
| EFEX download session | `drivers/sunxi_usb/usb_efex.c` | state, step, transfer data, status word | state loop, some 30 commands, USB callbacks | interrupts inside handlers, resets, two packet formats, stale results | Efex |
| USB device layer | `drivers/sunxi_usb/usb_base_platform.c` | pending packet, endpoints | interrupt, main loop | the other side of those races | Efex, in part |
| SPI-NAND secure storage | `drivers/mtd/awnand/spinand/secure-storage.c` | two mirrored blocks | read, write, check and repair | power cuts and failures between erases and programs | SpinandSecSto |
| Secure storage map, objects | `sprite/sprite_secstorage.c`, `sprite_secure_object.c` | map in memory, dirty flag | init, write, erase, erase all, exit, read | map saved late, items reused | SecStorage |
| MMC secure storage items | `drivers/sunxi_flash/mmc/sdmmc.c` | two copies of each item | write, read with fallback | cuts between the copies | SecStorage, in part |
| Sparse image decoder | `sprite/sparse/sparse.c` | decoder state, bytes carried over | probe, write a piece | every way to cut an image into pieces | Sparse |
| Card and disk production | `sprite/sprite_card.c`, `sprite_auto_update.c` | partition being written | read, write, verify | feeds the decoder | Sparse, in part |
| Fastboot | `drivers/sunxi_usb/usb_fastboot.c` | download state | commands | a second protocol on the same USB layer | planned |
| Flash dispatch | `drivers/sunxi_flash/sunxi_flash.c` | the selected flash | probe, read, write | order of probing | planned |
| Redundant environment | `env/sunxi_flash.c`, `env/common.c` | two copies, serial number | load, save | power cuts, wrap of the serial number, a copy that cannot be read | EnvRedund |
| SPI-NAND boot area | `drivers/mtd/awnand/spinand/sunxi-driver.c`, `../spl/nboot/load_image_nand` | copies of boot0 and of the boot package | download, erase, search of the SPL | bad blocks, power cuts, failing erases | SpinandBoot |
| UBI partition writing | `drivers/mtd/awnand/sunxi-ubi.c`, `drivers/mtd/ubi/upd.c` | the volume being updated, its fill level | write, read, write_end | updates of a whole volume mapped to sector writes, gaps filled late | UbiVolume |
| Boot media recovery | `sdmmc.c`: mirror copies of boot0 | copies of boot0 | download, check, recover | power cuts, retries | disabled in every V821 configuration |
| A/B system switch | `board/sunxi/sunxi_switch_system.c`, `common/android_ab.c` | slot data | switch, try, mark | power cuts between boots | disabled in every V821 configuration |
| NAND translation layers | `drivers/mtd/awnand`, `drivers/sunxi_flash/nand`, apart from the above | mapping tables | | | out of reach: larger than all the rest |
| SPL | `../spl` | | load and check the boot package | sequential, mostly hardware bring-up | SpinandBoot, in part |
| Upstream U-Boot, board setup | | | | no protocol state of this project | not modelled |

How they interact: the USB interrupt hands packets and finished DMAs to the session
(`usb_efex.c`), which runs in the main loop. The session puts data for the flash
into the write-behind queue and acknowledges it at once; pages reach the flash
while the session waits for more data, or when a command needs the flash to be up to
date. The write-behind queue keeps its pages in the ring. Secure storage is a map
and items by name over one of two media: SPI-NAND blocks or MMC sectors. The sparse
decoder stands between the card production and the flash. On SPI NAND the boot area,
the blocks of the secure storage and the UBI volumes lie one behind the other; the two
copies of the environment are UBI volumes, so that a save is a volume update.

### What should hold

* Ring: it is a bounded FIFO; no freed node is touched; exit frees everything, also
  after an init that failed half way.
* Write-behind queue: what the host was told is stored is never lost or overtaken by
  older data; a flush that returns 0 leaves nothing queued; every call returns.
* Session: a status is sent only to a host that waits for one; no handler looks at a
  buffer that is being filled; verify sees what was sent; every packet is answered; a
  write error reaches the host.
* SPI-NAND storage: an acknowledged item survives power cuts; what is read is
  current, and never half of one value and half of another.
* Named keys: keys read as written; saved keys survive power cuts; no name leads to
  another key; a torn first copy is replaced by the second.
* Sparse decoder: however the image is cut, the flash holds what the image stands for;
  carried bytes fit in front of the buffer; nothing is taken for a header that is none.
* Environment: one of the two copies is always good; a boot loads what was saved last.
* Boot area: what was downloaded is what the SPL loads, whatever blocks are bad; an
  interrupted download leaves a copy that starts; the secure storage is not touched;
  downloads and erases come to an end.
* UBI partitions: a volume that can be read holds one whole image; only the partition
  being written is ever half updated; every call returns.

`PROJECT.json` lists the hazards behind these, each at the line where it bites.

## 2. Plan

Done, in this order: the ring with its proofs; the write-behind queue on the abstract
FIFO; the session on the write-behind queue (it EXTENDS EfexQueue, so the composition
is the module itself); the two secure storage layers; the sparse decoder; the redundant
environment; the SPI-NAND boot area with the search of the SPL; the UBI partitions; and
the proofs for the write-behind queue, the environment, the UBI partitions, the two
secure storage layers, the session, the boot area and the sparse decoder.

Next, models: partition download and verification in `sprite_card.c`, composed with
Sparse; the flash dispatch layer and the order of its probes; fastboot's download and
flash commands; the creation of UBI volumes from the partition table (`init_ubi`).

Every safety property and action property that a passing run checks is proved as well
(section 6).

## 3. The modules

**BufFifo** is the abstract queue: open or closed, a sequence of at most MaxLen
elements, and what each call returns. **BufQueue** is `buf_queue.c`: `next` is the
next field of every node, `heap` the nodes allocated at the moment; each iteration of
the loops of `buf_queue_init` and `buf_queue_exit` is a step, and any allocation may
fail. A caller whose init failed goes on to exit, as `sunxi_usb_main_loop` does
(`must_exit`). `IsFifo` is the refinement: the sequence read off the ring, from the
head on, behaves as BufFifo. **BufQueueProofs** has the proofs.

**EfexQueue** is `efex_queue.c` on BufFifo. A page is a sector address, a number of
sectors and where in which buffer its data is. Every dequeue, flash write and enqueue
is a step; a flash write may fail. `accepted` is what the host was told is stored in
every sector. The length of the queue, `max_len`, is one of MaxLens. The proofs
are in EfexProofs.

**Efex** is `usb_efex.c` on EfexQueue. `status` and `app_step` are
`sunxi_usb_efex_status` and `sunxi_usb_efex_app_step`; `trans` is `trans_data` and `cmd` data
that outlives a call; `csw` is the status word. A handler of `sunxi_efex_state_loop`
is an action; its last assignments of `status` and `app_step` are steps of their own, in
the order of the code (`CommitStatus`, `CommitStep`; `nxt` is what is left to assign), and
so is each step of the queue it calls, because the USB interrupt may come in between and
`sunxi_efex_reset` and `sunxi_efex_usb_rx_dma_isr` assign the same variables. `raced`
records that a reset came before such assignments, `stray` that a DMA was started for a
host that announced data where it should have asked for some. `cmd_buf` is the command
while queued pages are written for it. Each command of `__sunxi_usb_efex_op_cmd` is an `op_` operator; commands that leave the same state
behind share one. The host is external: with `Follows = 0` it may give any packet any
length and direction, with `Follows = 1` it keeps to the protocol. `uses` is the set of
packet formats of the host. Left out: the content of answers, the commands that dump or
test a NAND on a device that has one, where chunks of a file go in the receive buffer, `efex_suspend_flag` (nothing ever sets it), code
under SUNXI_USB_30 (not defined), allocation failures of `efex_queue_init`. **EfexProofs**
has the proofs about the queue and the session.

**SpinandSecSto** is the SPI-NAND secure storage: `blk` holds the pages of the two
blocks. A write erases and fills the second block, then copies it over the first; the
first use after a start compares the blocks (`check_secure_storage`) and repairs one.
Every erase and program is a step. A page that is cut short may afterwards fail its
checksum with the magic (`sum`) or without (`bare`), be beyond the ECC (`ecc`), or be
right but at the limit of the ECC (`limit`). The chip reports the last two by positive
results, 32 and 16, and each caller treats them as its code does: the copy stops at them,
the check and the repair choose by them, and a read or a fill passes over them, because
they are not negative. Items are written in any order; `gapcut` records that the power
went during a change while an item below a written one had never been stored. `acked` and
`unacked` are the values of writes that returned 0, and of later ones that did not. What a
read gives is computed by ShownPage, PageResult and ReadReturns0. `chip` says how torn
pages of this chip read and bounds its power cuts and failures. **MCSpinandSecSto** has
seven chips and the symmetry of values,
**SpinandSecStoProofs** the proofs.

**SecStorage** is the map of names with the keys, over two copies of each item on the
MMC. Writing a copy is a step and may be cut or fail. `cur` is what the calls so far
stored, `saved` the same when the storage was last closed; `Void` marks a key that is
being changed, `Gone` one that was erased while the map on the medium still names it.
**MCSecStorage** adds the symmetry of names and values, **SecStorageProofs** the proofs.

**Sparse** is the decoder. A byte of an image is its offset and a sector of the flash
is the offset of its first byte, so a misplaced byte shows. Each round of the loop is a
step. `Expand` is the reference: what the flash has to hold. An image comes with the
offsets of its chunks, in the image (`at`) and on the partition (`to`); IsImage says that
they add up. `Half` stands for 2^31 and `AsInt` for the assignment of an unsigned
difference to an int. **MCSparse** has the images and computes their offsets; sizes are
scaled: 512 bytes are 2, 4K are 4, 8K are 8, headers 3. **SparseProofs** has the proofs.

**EnvRedund** is the environment in the partitions "env" and "env-redund". `copy` is what
they hold: a good copy with its serial number, one with a wrong CRC, or one that cannot
be read. A save is two steps, export and write; a write may fail, be cut off, or be
followed by a `sunxi_flash_write_end` that fails unnoticed. `saved` and `maybe` are what
was saved last and what later saves that did not return 0 were writing. The range of the
serial number is the constant MaxFlag, 255 in the code. **EnvRedundProofs** has the
proofs.

**SpinandBoot** is the boot area of SPI NAND in blocks. A download writes as many copies
of boot0 or of the boot package as fit and skips bad blocks; every erase and program of a
block is a step, may fail, and may be cut off. `load_toc1_from_spinand` is the search of
the SPL. `copies` is how many copies the last complete download has left, `faults` how
many downloads have been spoiled since. **MCSpinandBoot** has the sizes,
**SpinandBootProofs** the proofs.

**UbiVolume** is the driver that maps sector writes to updates of UBI volumes, with the
part of UBI it uses: the update marker, the wipe, the data and the clearing of the marker
are steps of their own, each may fail, and the power may go at every one. The marker on
the flash (`marker`) and the one in memory (`upd_marker`), which a failed change of the
volume table leaves set, are kept apart: a new update trusts the one in memory.
`fill_gap_do` finds the count of written sectors by the number of the volume in `ubi_mbr`,
from which MTD parts are missing; `twin` is the partition that has this number in
`nand_mbr`, where the counts are. Writes come at any offset; those that do not follow on
are refused as in the code, after the count of a write at offset 0 was reset. `content` is
what a volume holds, as sectors of an image or filler; `clean` says that nothing went
wrong with the image. **MCUbiVolume** has the partitions and the layouts with and without
an MTD part, **UbiVolumeProofs** the proofs.

`PROJECT.json` maps every definition to its lines.

## 4. The runs

| Run | Bounds | What it shows |
|---|---|---|
| buf_queue | 4 nodes, 2 elements | The ring is intact whenever the queue is ready, no freed node is used, exit leaves nothing allocated, and the ring implements BufFifo. |
| efex_queue | 1 or 2 pages of 2 sectors, 3 sectors | Durable and CallReturns over all orders of calls and failures. A request may be a page and a rest, pages may overlap, and a request may need more pages than there are (`NoRoom`). |
| efex_session | 1 page, 1 sector, either format | StatusIsAwaited, DmaIsAwaited, DataHasMeaning, SessionIsDurable and VerifyFindsData with a host that gives packets any length and direction, resets between any two assignments and failing writes (923,444 states). |
| efex_commands | all commands but those that change nothing, either format | PacketAnswered with a host that follows the protocol (305,027 states). |
| efex_error | new format | *Violated*: WriteErrorTold. |
| spinand_secsto | 2 items of 2 pages in any order, 2 values; 2 cuts with torn pages of one of the four kinds, 1 cut with pages at and beyond the limit of the ECC, 1 failure with pages beyond it, or 1 cut and 1 failure without torn pages | Survives and ReadIsCurrent (3,329,434 states). |
| sec_storage | 3 names, 2 items, 2 values, 1 fault: a cut or a failing write | KeysAsWritten, KeysSurvive, NoForeignKey (683,822 states). |
| sec_storage_backup | booting, 1 cut | *Violated*: BackupIsRead. |
| sparse | 10 images, pieces of 8 to 13 bytes, 2 images in a row | ImageIsWritten, OnlyItsData, InStep, RestFits, CallReturns (7,649 states). |
| env_redund | serial numbers 0 to 5, 2 values; any number of cuts and failures | BackupSurvives, LatestIsLoaded (103,642 states). |
| spinand_boot | 2 blocks for boot0, 5 for the package of 2 blocks, 2 bad blocks, 1 fault in a row | DownloadedIsLoaded, StillBoots, SecureKept, ComesToAnEnd (3,125,786 states). |
| ubi_volume | partitions of 4 and 2 sectors, erase blocks of 3, with and without an MTD part before them; any number of cuts and failures | ReadableIsWhole, OneUpdating, DiesOnlyPastEnd, CallReturns (546,744 states). |

A run whose module has a TypeOK checks it as well.

Why the bounds are enough to be interesting. Four nodes let head and tail wrap around
with every fill level and let init fail before, between and after nodes. Two pages of
two sectors over three sectors let pages overlap in part and force draining for room; a
request of three sectors needs a full page and a rest, which the shorter queue cannot
hold. With one sector the session has the shortest queue that can lag behind the flash; which of
two contents of a sector is the newer one is told apart by `efex_queue`.
Two pages for an item let a value be half written, two cuts let the repair itself be cut,
and two items let the second one be written first.
Three names on two items fill the map and reuse an erased entry. The pieces are between
the shortest that holds 8K and one that holds more than a chunk with its header, so a
piece ends at every distance from every header and chunk. Six serial numbers are enough
for a wrap and for numbers that are neither neighbours nor at the wrap. The package area
holds two copies and a spare block, so that one bad block is harmless and the second is
not. One partition ends inside its second erase block and the other inside its first, and
a round of the filler is shorter than an erase block, as in the code. With an MTD part
before them the second partition is padded by the count of the first.

SecStorage uses symmetry of Names and Values, SpinandSecSto of Values, SpinandBoot of the
packages: no definition tells two of them apart, and these runs have no liveness property.
The sparse run has no deadlock check: after the last image the model stops. All other
runs check deadlock.

### Where the code and its comments disagree

* `usb_efex.c:2418`, `:2430` "when call efex queue write error,set stauts to tell
  usbtools": the flag is a local variable (2009) that is set in one call of the state
  loop and read in another, so the status reports success.
* `sdmmc.c:1045`, `:1119` "read backup": the map's second copy is never read (the first
  is read again), and while booting a successful read of a key's second copy counts as
  failed, because 0 is compared with the number of blocks.

Four more disagreements are stated as exceptions of properties that hold:

* `sparse_format.h:20`, `:38`: a fill chunk that is a multiple of 512 but not of 4096
  bytes is accepted and written in part, and what follows is misplaced; the same goes for
  an area not cared for that is no multiple of 512 bytes (`WholeAreas` in ImageIsWritten
  and OnlyItsData).
* `sunxi-driver.c:437` "[start, end)": with more bad blocks than spare ones the last copy
  of the package goes on behind the end of its area (the exception of SecureKept).
* `env/common.c:170-171` says that the read of one copy failed "but recovered
  successfully": the serial number of the copy that was read is not taken over, so that
  the next save may count as older than the copy it replaces (the exception of
  LatestIsLoaded).
* `secure-storage.c:229` "both of blk1 and blk2 has no valid data": only the magic of page
  0 of the blocks is looked at, so that a later item whose blocks need a repair gets none
  when no lower one has been stored (`gapcut` in Survives).

### Limits of what holds

SessionIsDurable and VerifyFindsData are about hosts of one format: the old one writes
past the queue. VerifyFindsData makes an exception for pages whose write failed.
StatusIsAwaited, DmaIsAwaited and PacketAnswered say nothing once the last assignments of a
handler undid a reset (`raced`); DataHasMeaning and SessionIsDurable hold then, too. Where
the device is to send data and the packet announces some, the code starts a DMA and goes
on to SEND_DATA: DmaIsAwaited claims only that `write_enable` is 0 during that DMA
(`stray`). PacketAnswered counts the end of the session as an answer: it does not see that
a stale `last_err` ends the session at a verify command, nor that the timeout is looked at
before the data that has arrived.

Survives does not claim anything once the chip reported a failure: a page of the first
block with a wrong checksum is copied over a good one. Nor does it after a power cut during
a change while a lower item had never been stored: the map layer writes its keys before
the map in item 0 is saved, and what is then decided from the first pages may be wrong for
the later ones. ReadIsCurrent holds there page by page, except that a page the ECC could
not repair may be read. Both are about a storage that could be initialised: where a cut
leaves a page with an ECC result and the other block is erased at that page, the check
returns -EINVAL at every start from then on. KeysSurvive says nothing while the first copy of the
map is torn. NoForeignKey leaves out a name erased since the map was last saved: its item
may belong to another key by then, and the name inside the object is not compared.
PacketAnswered leaves out the commands that change nothing (`no_change`), after which an
old-format host can wait for ever.
BackupSurvives makes an exception for a `sunxi_flash_write_end` that failed: the save does
not look at its result. StillBoots counts: as many downloads may be spoiled as there are
copies, less one. ReadableIsWhole and DiesOnlyPastEnd leave out images with a failed
operation, or begun while a failed one had left the update marker in memory only, with a
second start that was refused, and with writes after the volume was read and so filled up.
DiesOnlyPastEnd also leaves out partitions that end inside an erase block of more than
GAP_BUF_MAX_SECTS + 1 sectors, behind its first one, where the filler may get to the end of
the partition before its last round; and partitions behind an MTD part that are padded by
the count of another one (`twin`), where it may, too. A write that begins inside another
partition than the last one returns -EINVAL in an unsigned int, which its callers take for
success; no property is about what callers are told.

No property covers that a read of the flash (`up`) in the new format sees the flash
without the queued pages; that a session which ends without `set_off` drops them; that a
host which mixes the formats overtakes its own pages; chunks of 2^31 bytes and more; and
CRC32 chunks.

## 5. Fairness

* EfexQueue: weak fairness of `QueueStep`: the functions are loops on one processor.
* Sparse: weak fairness of `Loop`, for the same reason.
* UbiVolume: weak fairness of `Step`, for the same reason.
* SpinandBoot: none. That a download ends is a measure that every step decreases
  (ComesToAnEnd).
* Efex: weak fairness of `MainLoop`, which never sleeps. Strong fairness of
  `ReceiveTimeout`: the handler compares the time before anything else, and the clock
  runs; it is disabled only while a page is being written, again and again. Weak fairness
  of `DmaDone` in the old format: there the code has no timeout, and a host that follows
  the protocol sends the data it announced. Nothing is assumed of resets or of the host
  sending packets.

## 6. Proofs

`BufQueueProofs` proves, for every queue length MaxLen > 0 and every set of elements:
TypeCorrect, RingStaysIntact, NoUseAfterFree, ExitFreesAll (`Spec => []P` for TypeOK,
RingIntact, PointersLive, NoLeak) and RingIsFifo (`Spec => IsFifo`). The assumptions are
MaxLenAssumption and NoElemAssumption (the empty cell is no element).

None of the four is inductive. `Inv` adds what the loops rely on: while init runs, and
after it failed, the nodes 0 .. i-1 form a chain that ends with NULL and are exactly the
allocated ones (`Building`); while exit takes down such a chain the allocated nodes are
those from the head to i-1, and the count it may free reaches past the end
(`ExitChain`); while it takes down a full ring the allocated nodes are those less than
`free_cnt` behind the head (`ExitRing`), which is why it stops before it meets a freed
node; between init and exit the ring is closed and the tail is current_len behind the
head (`Ring`); and a closed queue has nothing (`Closed`). InitInv and NextInv show that
it is inductive, with one step for each action.

For the refinement, RingAppend and RingTail say that writing behind the tail appends to
the sequence read off the ring, and that moving the head removes its first element,
also when the positions wrap around. EnqueueIsPut and DequeueIsTake apply them, and
StepIsFifoStep shows that every step is a step of the FIFO or a stutter.

`EnvRedundProofs` proves, for every range of serial numbers of at least three, every set
of environments and every outcome of an interrupted write (EnvAssumption): EnvTypes,
BackupAlwaysSurvives and LatestAlwaysLoaded, the last one an action property. The
inductive invariant EnvInv adds that the copy in use is good while the system is up
(`InUseIsGood`) and `InStep`: without faults the copy a boot would choose is the one that
was saved last or is being replaced, and the serial number in memory is that of the copy
in use or its successor. It carries the comparison of serial numbers over the wrap.

`EfexProofs` first proves QueueTypes and AlwaysDurable for every set of queue lengths,
page size, number of sectors and set of buffers (QueueAssumption). QInv adds to them what
the functions of `efex_queue.c` rely on: which locals mean something at which point
(`Control`), that the rest of a request and its offset add up to the request
(`RestInStep`), that it fits into the free pages once it is being queued (`RoomForRest`)
and that every queued page lies inside its buffer (`PagesInBuffer`). The core is that the
last queued page that covers a sector decides what it will hold, and that appending at the
tail and writing at the head keep that.

It then proves the five safety properties of the session: StatusAlwaysAwaited,
DmaAlwaysAwaited, DataAlwaysMeant, SessionAlwaysDurable and VerifyAlwaysFindsData, for
every set of commands, formats, directions and contents and all sizes of the queue
(EfexAssumption, QueueAssumption). SessionInv consists of what the handlers rely on
(`Machine`) and the last two properties. Machine says that the queue works only for a
handler that waits for it (`Calls`), that the machine is only in states of the formats in
use (`InUse`), that whoever waits for old-format data that is coming or has come knows what it is
(`Meaning`: a reset that undid the step has stopped the DMA, too, and cleared
`write_enable`), that a machine which is not idle serves a packet the host waits on
(`Awaited`), that a handler that was interrupted finds the state it left (`Unraced`), and
that a step is assigned only for the old format, beside a status that fits it
(`OldSteps`); the last three only as long as no reset was overwritten. There is one lemma for each handler and each interrupt. The steps of
the queue keep Durable by the step lemmas of AlwaysDurable; any other step leaves queue
and flash alone, erases the flash together with what the host was told of every sector
that is not queued, or, in the old format, writes while nothing is queued. A flush that
returns 0 has emptied the queue, and one that does not has recorded the failed page, which
is what VerifyAlwaysFindsData rests on. TLC found SessionInv to
hold on the instance of `efex_session` with two
contents, too (2,298,055 states; it is not among the properties of the run).

`UbiVolumeProofs` proves UbiTypes, ReadableAlwaysWhole,
OnlyOneUpdating and OnlyPastEndDies for every number and size of partitions, any MTD parts
between them and every size of erase blocks and of the filler buffer (UbiAssumption). UbiInv says how far the update of the
partition written last has come (`Current`: what UBI received is what the driver counts,
up to the size), that the filler planned reaches the end of the partition (`FillsUp`),
that all other volumes are closed unless an operation failed (`Others`, `OthersDone`), and
that an image in good order has the same marker in memory and on the flash, set while it is
updated (`Marked`), which is what makes a power cut harmless. RoundsInv adds how far the
loops of `fill_gap_do` get: for a partition that is padded by its own count or not at all
(`Regular`), padding begins, and goes on, before the end of the partition, and what goes
past that end completes an erase block, so that a second fill finds nothing to do
(`LastRounds`). With RemainFacts, on what is left of an erase block, it follows that every
round has something to send to a volume that is still being updated. That the loops fill
up a partition whatever count they pad by (`FillsUp`) is why ReadableIsWhole needs no
such condition.

`SpinandSecStoProofs` proves SecStoTypes, AlwaysSurvives and AlwaysCurrent for every number
of items, pages and values and every number of power cuts and failures (SecStoAssumption).
The argument: every page of both blocks that holds something is of a current value
(`PagesIn`); while all is calm, the source of a fill or a copy holds every acknowledged
item with good pages, and a start can repair the blocks whenever the power goes (`Safe`). An interrupted operation
only spoils pages of the block that is being changed, and the other one stays as it was. At
the next start `check_secure_storage` reads both blocks up to the first page at which one
of them is not good. If the items were written in order, everything behind an item never
stored is empty, and that one page decides which block is whole; if they were not, no
change has been cut short since, and the blocks are the same (`Mirror`), so that there is
nothing to decide. What is on the pages during a fill and a copy is in `FillState`,
`CopyState` and `SourceState`; a page at the limit of the ECC is good again once it has been
programmed anew. The existence of the first page that is not good comes from a least-element
lemma (NatMin).

`SecStorageProofs` proves StorageTypes, AlwaysAsWritten, KeysAlwaysSurvive and NeverForeign
for every set of names and values, every number of items and every number of faults
(SecStorageAssumption). StorageInv says that a key has one entry of a map, so that a call
on another key never touches its item; that the map in memory gives no item of a saved and
unerased key to another key (`Agree`), which is why a cut before the map is saved leaves
the old map true; that keys are settled in memory and on the medium (`InMemory`,
`OnMedium`); that a clean dirty flag means that nothing settled has changed (`Changes`);
and whose object an item holds (`OwnInMemory`, `OwnOnMedium`). TLC checked StorageInv with
three names, two values and two faults before it was proved.

`SpinandBootProofs` proves BootTypes, DownloadedAlwaysLoaded, AlwaysStillBoots and the
action properties AlwaysComesToAnEnd and SecureAlwaysKept, for all sizes of the chip, of
its areas and of the packages and any number of bad blocks, cuts and failures
(BootAssumption: a copy may run over the end of its area by all its blocks but one, and
the chip is that much larger). Everything rests on counting: `Rank` is the number of good
blocks of an area up to a block. `Progress` says that the good blocks a download has
passed hold the parts of the image in turn, part by rank, and that a copy begins where the
rank is a multiple of the size, so that it is known how far behind the area the last copy
can get, and that it gets there only if more blocks are bad than the copies leave over.
`Loads` says that the first good blocks of the area then hold one whole package, which is
what the search of the SPL comes to first. For AlwaysStillBoots `Kept` counts the places
where a whole copy can begin: those with an intact copy and the one being written are as
many as the copies left, less one for every spoiled download. Two downloads of packages of
one size put their copies in the same places, so that an interrupted one spoils the copy
it was writing and no other; blocks go bad only while the area is erased (`Erasing`), when
no copy is left to count.

`SparseProofs` proves SparseTypes, ImageAlwaysWritten, AlwaysOnlyItsData, AlwaysInStep and
RestAlwaysFits for every set of images, all sizes of headers, sectors and pieces and every
way to cut an image into them (SparseAssumption: no piece but the last is shorter than 8K,
the room in front of the buffer is at least 8K, chunks are shorter than 2^31 bytes, a fill
chunk has a block). SparseInv says that the bytes from `tmp_buf` on, and those in front of
the buffer between two calls, are the ones that follow in the image (`Bytes`); and that
the decoder expects what comes next there (`Expected`): the header of chunk k, or the rest
of its data, of which `chunk_length` bytes are missing. `Placed` ties the flash to that
position: with whole areas it is written exactly as far as the image has been dealt with,
and never further for any image, which keeps `flash_start` inside the partition. That
offsets are part of an image, with IsImage as an assumption on them, replaces a sum over
its chunks: what a fold computes for every sequence is out of reach of the prover, and TLC
evaluates the assumption for the images of the run. TLC checked SparseInv on the run's
images before it was proved.

Only model-checked: liveness (CallReturns, PacketAnswered), which is out of reach of the
prover. For the boot area, termination is proved in the form of ComesToAnEnd.

## 7. Not modelled

The repository has some 3.2 million lines, nearly all of them upstream U-Boot, drivers of
other chips, file systems and device trees; the models cover the small part of it that
keeps protocol state of its own.

NAND translation layers and UBI itself (too large), upstream U-Boot and board setup (no
protocol state), recovery of boot0 and the A/B switch (disabled in every configuration of
this chip), the parts listed as next in section 2. Within modelled parts: bad-block
scan and choice of the two SPI-NAND blocks; the shell command that clears secure storage
items by number, encryption and write protection of secure objects; CRC32 chunks and fill
chunks without blocks of sparse images (the decoder skips a chunk without blocks before it
looks at its type, so their data would be read as a header); chunks of 2^31 bytes and
more, for which `unenough_length` is negative; sparse images given to fastboot, which
calls the decoder once with the whole image; an environment partition that does not exist,
and the production mode, in which the default environment is used;
`spinand_mtd_upload_uboot`, which only reads; the boot parameters, which
`sun300iw1p1_efex_nandfastboot_defconfig` enables and `spinand_mtd_download_boot0` then
writes to a partition of their own before boot0 (without a checksum in boot0 the download
is refused and changes nothing); the commands `fes_spinand` and `fes_nand` on a device with
a NAND; the creation of UBI volumes, and reading and writing MTD parts.
