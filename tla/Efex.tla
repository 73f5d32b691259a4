-------------------------------- MODULE Efex --------------------------------
(***************************************************************************)
(* drivers/sunxi_usb/usb_efex.c: the download protocol spoken with the     *)
(* production tool.  sunxi_usb_main_loop calls sunxi_efex_state_loop,      *)
(* which looks at sunxi_usb_efex_status and runs one handler; the USB      *)
(* interrupt hands it packets, tells it that a DMA transfer is complete,   *)
(* or resets the state machine behind its back.                            *)
(*                                                                         *)
(* A handler is one step up to a call of efex_queue.c or up to its final   *)
(* assignments to status and app_step, each of which is a step of its own  *)
(* (CommitStatus, CommitStep): a reset that comes in between is            *)
(* overwritten by the rest.                                                *)
(* The build is the one without SUNXI_USB_30 and with the page queue.      *)
(***************************************************************************)
EXTENDS EfexQueue

CONSTANTS Formats,      \* sets of packet formats, "old" or "new", a host may use
          Names,        \* the commands it uses
          Follows       \* 1 when every packet of the host follows the protocol

AllNames == {"query", "unsupported", "trans_up", "trans_down", "trans_none",
             "down_dram", "down_mbr", "down_boot", "down_flag", "down_mem",
             "down_flash", "up", "verify_value", "verify_status", "set_on",
             "set_off", "tool_exit", "tool_stay", "memset", "pmu", "unseq_read",
             "unseq_write", "force_erase", "force_erase_key", "no_change"}

ASSUME EfexAssumption == /\ Formats \subseteq SUBSET {"old", "new"}
                         /\ Names \subseteq AllNames
                         /\ Follows \in {0, 1}

(* Commands that differ in nothing but the data they send back are one, and  *)
(* so are all requests to store no sectors.                                  *)
Downloads == {r \in Requests : Fits(r) /\ (r.sectors = 0 => r = NoRequest)}
Commands == [name : Names \ {"down_flash"}, req : {NoRequest}]
            \cup [name : Names \cap {"down_flash"}, req : Downloads]
NoCommand == [name |-> "none", req |-> NoRequest]

(* A packet in rx_req_buffer.  In the old format (struct sunxi_efex_cbw_t)   *)
(* the command follows by DMA; len 1 stands for less than CBW_MAX_CMD_SIZE,  *)
(* or less than all of the data.                                             *)
OldPackets == [fmt : {"old"}, dir : {"receive", "transmit"}, len : 0 .. 2,
               cmd : Commands \cup {NoCommand}]
NewPackets == [fmt : {"new"}, dir : {"receive"}, len : {2}, cmd : Commands]
BadPacket  == [fmt |-> "bad", dir |-> "receive", len |-> 0, cmd |-> NoCommand]
NoPacket   == [fmt |-> "none", dir |-> "receive", len |-> 0, cmd |-> NoCommand]

VARIABLES
  status,           \* sunxi_usb_efex_status: IDLE, SETUP, SEND_DATA, RECEIVE_DATA, STATUS,
                    \* EXIT, and of the new format SETUP_NEW, SEND_DATA_NEW, RECEIVE_DATA_NEW
  app_step,         \* sunxi_usb_efex_app_step: 0, IDLE, CMD, SEND_DATA, RECEIVE_DATA, STATUS, EXIT
  write_enable,     \* sunxi_usb_efex_write_enable
  trans,                            \* trans_data
  csw,                              \* csw.status
  cmd_buf,                          \* the command while queued pages are written
  rx_ready, packet,                 \* sunxi_ubuf
  dma,                              \* 1 while a receive DMA is running
  pc,                               \* where the main loop is
  nxt,                              \* what the running handler has yet to assign
  host,                             \* "idle", or "wait" for the status of a packet
  werr,                             \* did writing a queued page fail, was the host told
  seen,                             \* what verify or set_off last found in the flash
  raced,                            \* a reset came in the middle of a handler
  stray,                            \* the DMA was asked for instead of data to be sent
  uses                              \* the packet formats this host uses

machine == <<status, app_step, write_enable>>
bufs    == <<rx_ready, packet, dma>>
ghosts  == <<werr, seen, raced, stray, uses>>
vars == <<qvars, machine, trans, csw, cmd_buf, bufs, pc, nxt, host, ghosts>>

(* The last assignments of a handler, in the order the code has them. *)
StatusThenStep(s, t) == [status |-> s, step |-> t, first |-> "status"]
StepThenStatus(t, s) == [status |-> s, step |-> t, first |-> "step"]
StatusOnly(s) == StatusThenStep(s, "keep")
NoAssign == StatusOnly("keep")

(* Types that carry SUNXI_EFEX_TRANS_FINISH_TAG, and what their data is.     *)
FinishTypes == {"mbr", "boot", "flag", "mem", "pmu", "unseq"}

EfexInit ==
  /\ QInit
  /\ status = "IDLE" /\ app_step = "IDLE" /\ write_enable = 0
  /\ trans = [type |-> "none", recv_size |-> 0, last_err |-> 0,
              app_next_status |-> "ZERO", req |-> NoRequest]
  /\ csw = 0 /\ cmd_buf = NoCommand
  /\ rx_ready = 0 /\ packet = NoPacket /\ dma = 0
  /\ pc = "start" /\ nxt = NoAssign
  /\ host = "idle"
  /\ werr = "none" /\ seen = "good" /\ raced = 0 /\ stray = 0
  /\ uses \in Formats

(* sunxi_efex_init; the queue is the last thing it sets up. *)
Start == /\ pc = "start"
         /\ efex_queue_init
         /\ pc' = "loop"
         /\ UNCHANGED <<machine, trans, csw, cmd_buf, bufs, nxt, host, ghosts>>

Running == pc \notin {"start", "done", "fel"}

-----------------------------------------------------------------------------
(* __sunxi_usb_efex_op_cmd: one operator per kind of command *)

Result(err, step) == trans' = [trans EXCEPT !.last_err = err, !.app_next_status = step]
Medium == <<flash, accepted, seen>>

(* Commands whose answer is data: verify_dev, is_ready, get_cmd_set_ver, run,*)
(* query_storage, flash_size_probe, query_secure, query_info of the log.     *)
op_query(c) == c.name = "query" /\ Result(0, "SEND_DATA") /\ UNCHANGED Medium

op_unsupported(c) == c.name = "unsupported" /\ Result(-1, "STATUS") /\ UNCHANGED Medium

op_trans(c) ==
  /\ \/ c.name = "trans_up" /\ Result(0, "SEND_DATA")
     \/ c.name = "trans_none" /\ Result(0, "STATUS")
     \/ /\ c.name = "trans_down"
        /\ trans' = [trans EXCEPT !.last_err = 0, !.app_next_status = "RECEIVE_DATA",
                                  !.type = "dram", !.recv_size = 2]
  /\ UNCHANGED Medium

(* The type of the data is kept for when it has arrived.  Where the chunks   *)
(* of a file go in the receive buffer is not modelled.                       *)
DownType == [down_dram |-> "dram", down_mbr |-> "mbr", down_boot |-> "boot",
             down_flag |-> "flag", down_mem |-> "mem"]

op_down(c) ==
  /\ \/ /\ c.name \in DOMAIN DownType
        /\ trans' = [trans EXCEPT !.last_err = 0, !.app_next_status = "RECEIVE_DATA",
                                  !.type = DownType[c.name], !.recv_size = 2]
     \/ /\ c.name = "down_flash"
        /\ trans' = [trans EXCEPT !.last_err = 0, !.app_next_status = "RECEIVE_DATA",
                                  !.type = "flash", !.req = c.req,
                                  !.recv_size = IF c.req.sectors > 0 THEN 2 ELSE 0]
  /\ UNCHANGED Medium

(* Reads the flash directly; the read may fail. *)
op_up(c) == /\ c.name = "up"
            /\ \E err \in {0, -1} : Result(err, "SEND_DATA")
            /\ UNCHANGED Medium

(* What the flash now holds is what the host sent, as far as writes worked.  *)
Look == seen' = IF \A s \in Sectors : flash[s] \in {accepted[s], Unknown}
                THEN "good" ELSE "stale"

(* verify_value leaves last_err as the command before it did. *)
op_verify_value(c) == /\ c.name = "verify_value"
                      /\ Result(trans.last_err, "SEND_DATA")
                      /\ Look
                      /\ UNCHANGED <<flash, accepted>>

op_verify_status(c) == /\ c.name = "verify_status"
                       /\ Result(trans.last_err, "SEND_DATA")
                       /\ UNCHANGED Medium

(* sunxi_sprite_init and sunxi_sprite_exit may fail. *)
op_flash_set(c) ==
  /\ c.name \in {"set_on", "set_off"}
  /\ \E err \in {0, -1} : Result(err, "STATUS")
  /\ IF c.name = "set_off" THEN Look ELSE UNCHANGED seen
  /\ UNCHANGED <<flash, accepted>>

op_tool_mode(c) == /\ \/ c.name = "tool_exit" /\ Result(0, "EXIT")
                      \/ c.name = "tool_stay" /\ Result(0, "STATUS")
                   /\ UNCHANGED Medium

op_memset(c) == c.name = "memset" /\ Result(0, "STATUS") /\ UNCHANGED Medium

op_pmu(c) == /\ c.name = "pmu"
             /\ trans' = [trans EXCEPT !.last_err = 0, !.app_next_status = "RECEIVE_DATA",
                                       !.type = "pmu", !.recv_size = 2]
             /\ UNCHANGED Medium

(* A read fails unless an unseqmem_write has set up the addresses before. *)
op_unseqmem(c) ==
  /\ \E err \in {0, -1} :
       trans' = [trans EXCEPT !.last_err = IF c.name = "unseq_read" THEN err ELSE 0,
                              !.app_next_status = IF c.name = "unseq_read"
                                                  THEN "SEND_DATA" ELSE "RECEIVE_DATA",
                              !.type = "unseq", !.recv_size = 2]
  /\ c.name \in {"unseq_read", "unseq_write"}
  /\ UNCHANGED Medium

(* Erasing does not discard the pages that are still queued. *)
EraseFlash(e) ==
  /\ flash' = [s \in Sectors |-> IF e = 0 THEN Erased ELSE Unknown]
  /\ accepted' = [s \in Sectors |-> IF Queued(s) THEN accepted[s] ELSE Erased]

op_force_erase(c) ==
  /\ \E err \in {0, -1} :
       /\ Result(err, "STATUS")
       /\ \/ c.name = "force_erase" /\ EraseFlash(err)
          \/ c.name = "force_erase_key" /\ UNCHANGED <<flash, accepted>>
  /\ UNCHANGED seen

(* query_info with another tag, and the NAND commands without a NAND, return *)
(* with last_err and app_next_status of the command before.                  *)
op_no_change(c) == c.name = "no_change" /\ UNCHANGED <<trans, Medium>>

op_cmd(c) == \/ op_query(c) \/ op_unsupported(c) \/ op_trans(c) \/ op_down(c) \/ op_up(c)
             \/ op_verify_value(c) \/ op_verify_status(c) \/ op_flash_set(c)
             \/ op_tool_mode(c) \/ op_memset(c) \/ op_pmu(c) \/ op_unseqmem(c)
             \/ op_force_erase(c) \/ op_no_change(c)

(* What dram_data_recv_finish makes of last_err, by the type of the data. *)
FinishErrors == CASE trans.type \in {"mbr", "boot"} -> {0, -1}
                  [] trans.type = "pmu"             -> {-1}
                  [] trans.type = "mem"             -> {0}
                  [] OTHER                          -> {trans.last_err}

(* A good MBR may erase the flash before it is written. *)
dram_data_recv_finish ==
  /\ \E err \in FinishErrors : trans' = [trans EXCEPT !.last_err = err]
  /\ \/ UNCHANGED <<flash, accepted>>
     \/ trans.type = "mbr" /\ EraseFlash(trans'.last_err)

DramReceived == IF trans.type \in FinishTypes
                THEN dram_data_recv_finish
                ELSE UNCHANGED <<trans, flash, accepted>>

-----------------------------------------------------------------------------
(* sunxi_efex_state_loop *)

(* The parts of the queue's state that no handler touches itself. *)
queueRest == <<max_len, open, queue, reply, op, at, todo, req, offset, first, ret>>

At(s) == pc = "loop" /\ status = s
Leave == pc' = "done" /\ UNCHANGED nxt       \* a return other than 0
Assign(a) == pc' = "commit" /\ nxt' = a

StatusNext == nxt.status # "keep" /\ (nxt.step = "keep" \/ nxt.first = "status")
Assigned(a) == nxt' = a /\ pc' = IF a = NoAssign THEN "loop" ELSE "commit"

CommitStatus == /\ pc = "commit" /\ StatusNext
                /\ status' = nxt.status
                /\ Assigned(StatusThenStep("keep", nxt.step))
                /\ UNCHANGED <<qvars, app_step, write_enable, trans, csw, cmd_buf, bufs,
                               host, ghosts>>

(* Mutant: the step is forgotten. *)
StepForgotten == /\ pc = "commit" /\ ~StatusNext
                 /\ Assigned(StatusOnly(nxt.status))
                 /\ UNCHANGED <<qvars, machine, trans, csw, cmd_buf, bufs, host, ghosts>>

CommitStep == /\ pc = "commit" /\ ~StatusNext
              /\ app_step' = nxt.step
              /\ Assigned(StatusOnly(nxt.status))
              /\ UNCHANGED <<qvars, status, write_enable, trans, csw, cmd_buf, bufs,
                             host, ghosts>>

Idle == /\ At("IDLE") /\ rx_ready = 1
        /\ Assign(StatusOnly("SETUP"))
        /\ UNCHANGED <<qvars, machine, trans, csw, cmd_buf, bufs, host, ghosts>>

(* Neither format, or a bad signature: the session ends. *)
SetupBad == /\ At("SETUP") /\ packet.fmt = "bad"
            /\ rx_ready' = 0 /\ status' = "IDLE"
            /\ Leave
            /\ UNCHANGED <<qvars, app_step, write_enable, trans, csw, cmd_buf, packet,
                           dma, host, ghosts>>

Setup_New == /\ At("SETUP") /\ packet.fmt = "new"
             /\ Assign(StatusOnly("SETUP_NEW"))
             /\ UNCHANGED <<qvars, machine, trans, csw, cmd_buf, bufs, host, ghosts>>

AtSetupOld == At("SETUP") /\ packet.fmt = "old"

Min2(a, b) == IF a < b THEN a ELSE b

(* Mutant: the flag of the last transfer is not cleared. *)
StartDmaStale(n, a) ==
  /\ IF n > 0 THEN dma' = 1 /\ Assign(a) ELSE Leave /\ UNCHANGED dma
  /\ UNCHANGED write_enable

(* Start a DMA of n units, or end the session when there is none. *)
StartDma(n, a) ==
  /\ write_enable' = 0
  /\ IF n > 0 THEN dma' = 1 /\ Assign(a) ELSE Leave /\ UNCHANGED dma

RequestSize == Min2(packet.len, 2)

SetupCmd ==
  /\ AtSetupOld /\ app_step = "IDLE"
  /\ IF packet.dir = "receive"
     THEN StartDma(RequestSize, StatusThenStep("RECEIVE_DATA", "CMD"))
     ELSE Leave /\ UNCHANGED <<write_enable, dma>>
  /\ UNCHANGED <<qvars, status, app_step, trans, csw, cmd_buf, rx_ready, packet, host, ghosts>>

(* The low half of the next step is the next status.  A DMA is started       *)
(* whenever the packet says so, also when the next status is not to receive. *)
SetupData ==
  /\ AtSetupOld /\ app_step \in {"SEND_DATA", "RECEIVE_DATA"}
  /\ LET t == trans.app_next_status
         a == StepThenStatus(t, IF t = "ZERO" THEN "IDLE" ELSE t)
     IN  IF packet.dir = "receive"
         THEN /\ StartDma(Min2(packet.len, trans.recv_size), a)
              /\ stray' = IF dma' = 1 /\ t # "RECEIVE_DATA" THEN 1 ELSE stray
         ELSE /\ Assign(a)
              /\ UNCHANGED <<write_enable, dma, stray>>
  /\ UNCHANGED <<qvars, status, app_step, trans, csw, cmd_buf, rx_ready, packet, host,
                 werr, seen, raced, uses>>

SetupStatus ==
  /\ AtSetupOld
  /\ \/ app_step = "STATUS" /\ packet.dir = "transmit"
        /\ Assign(StatusThenStep("SEND_DATA", "IDLE"))
     \/ app_step = "EXIT" /\ Assign(StatusOnly("SEND_DATA"))
  /\ UNCHANGED <<qvars, machine, trans, csw, cmd_buf, bufs, host, ghosts>>

(* No branch applies: the same packet is looked at again and again. *)
SetupSpin ==
  /\ AtSetupOld
  /\ \/ app_step = "STATUS" /\ packet.dir = "receive"
     \/ app_step \in {"ZERO", "CMD"}
  /\ UNCHANGED vars

SendData ==
  /\ At("SEND_DATA")
  /\ rx_ready' = IF packet.len > 0 THEN 0 ELSE rx_ready
  /\ \/ app_step = "SEND_DATA" /\ Assign(StatusThenStep("STATUS", "STATUS"))
     \/ app_step = "EXIT" /\ Assign(StatusOnly("EXIT"))
     \/ app_step \notin {"SEND_DATA", "EXIT"} /\ Assign(StatusOnly("STATUS"))
  /\ UNCHANGED <<qvars, machine, trans, csw, cmd_buf, packet, dma, host, ghosts>>

(* RECEIVE_DATA while write_enable is 0 changes nothing: it waits.  There is *)
(* no branch for other steps than the two below: DataHasMeaning.             *)
ReceivedOld == At("RECEIVE_DATA") /\ write_enable = 1

ReceiveCmd ==
  /\ ReceivedOld /\ app_step = "CMD"
  /\ IF RequestSize # 2
     THEN csw' = -1 /\ UNCHANGED <<trans, Medium>>
     ELSE op_cmd(packet.cmd) /\ csw' = trans'.last_err
  /\ Assign(StepThenStatus(trans'.app_next_status, "STATUS"))
  /\ UNCHANGED <<queueRest, machine, cmd_buf, bufs, host, werr, raced, stray, uses>>

(* The result of the transfer of a file is not in this csw. *)
ReceiveDram ==
  /\ ReceivedOld /\ app_step = "RECEIVE_DATA" /\ trans.type # "flash"
  /\ app_step' = "STATUS" /\ csw' = 0
  /\ DramReceived
  /\ Assign(StatusOnly("STATUS"))
  /\ UNCHANGED <<queueRest, status, write_enable, cmd_buf, bufs, host, ghosts>>

(* The host sent the data, and all of it: else the buffer is written with    *)
(* what it held before.                                                      *)
DataSent == packet.dir = "receive" /\ packet.len >= trans.recv_size

(* The old format writes at once, past the queue. *)
ReceiveFlash ==
  /\ ReceivedOld /\ app_step = "RECEIVE_DATA" /\ trans.type = "flash"
  /\ LET r == trans.req
         In(s) == s \in r.start .. (r.start + r.sectors - 1)
         New(s) == IF DataSent THEN <<r.data, s - r.start>> ELSE Unknown
     IN  \/ /\ flash' = [s \in Sectors |-> IF In(s) THEN New(s) ELSE flash[s]]
            /\ accepted' = [s \in Sectors |-> IF In(s) THEN New(s) ELSE accepted[s]]
            /\ csw' = 0 /\ app_step' = "STATUS" /\ UNCHANGED trans
         \/ /\ flash' = [s \in Sectors |-> IF In(s) THEN Unknown ELSE flash[s]]
            /\ csw' = -1 /\ trans' = [trans EXCEPT !.last_err = -1]
            /\ app_step' = "IDLE"
            /\ UNCHANGED accepted
  /\ Assign(StatusOnly("STATUS"))
  /\ UNCHANGED <<queueRest, status, write_enable, cmd_buf, bufs, host, ghosts>>

(* Mutant: closing the flash does not write the queued pages. *)
FlushesToVerify(c) == c.name = "verify_value"

(* SETUP_NEW.  verify_value and set_off write all queued pages first. *)
Flushes(c) == c.name \in {"verify_value", "set_off"}

SetupNewFlush ==
  /\ At("SETUP_NEW") /\ Flushes(packet.cmd)
  /\ cmd_buf' = packet.cmd
  /\ efex_queue_write_all_page
  /\ pc' = "flush"
  /\ UNCHANGED <<machine, trans, csw, bufs, nxt, host, ghosts>>

(* The result of writing queued pages; a failure has yet to be told. *)
WriteReturned == werr' = IF ret = 0 \/ werr = "untold" THEN werr ELSE "pending"

(* efex_write_error_flag is a local of this call: nothing keeps it.          *)
(* Afterwards cmd_buf is not looked at again.                                *)
SetupNewCmd ==
  /\ \/ At("SETUP_NEW") /\ ~Flushes(packet.cmd) /\ op_cmd(packet.cmd) /\ UNCHANGED werr
     \/ pc = "flush" /\ op = "none" /\ op_cmd(cmd_buf) /\ WriteReturned
  /\ cmd_buf' = NoCommand
  /\ csw' = trans'.last_err
  /\ LET step == trans'.app_next_status
     IN  IF csw' # 0 \/ step = "ZERO"
         THEN /\ Leave /\ rx_ready' = 0 /\ status' = "IDLE"
              /\ UNCHANGED <<write_enable, dma>>
         ELSE /\ IF step = "RECEIVE_DATA"
                 THEN StartDma(trans'.recv_size, StatusOnly("RECEIVE_DATA_NEW"))
                 ELSE /\ Assign(StatusOnly(IF step = "SEND_DATA" THEN "SEND_DATA_NEW" ELSE step))
                      /\ UNCHANGED <<write_enable, dma>>
              /\ UNCHANGED <<rx_ready, status>>
  /\ UNCHANGED <<queueRest, app_step, packet, host, raced, stray, uses>>

SendDataNew ==
  /\ At("SEND_DATA_NEW")
  /\ rx_ready' = 0
  /\ Assign(StatusOnly("STATUS"))
  /\ UNCHANGED <<qvars, machine, trans, csw, cmd_buf, packet, dma, host, ghosts>>

(* The host took more than 30 s; sunxi_board_run_fel does not return. *)
ReceiveTimeout ==
  /\ At("RECEIVE_DATA_NEW")
  /\ pc' = "fel"
  /\ UNCHANGED <<qvars, machine, trans, csw, cmd_buf, bufs, nxt, host, ghosts>>

(* While it waits for the DMA it writes one page. *)
ReceiveNewWait ==
  /\ At("RECEIVE_DATA_NEW") /\ write_enable = 0
  /\ efex_queue_write_one_page
  /\ pc' = "page"
  /\ UNCHANGED <<machine, trans, csw, cmd_buf, bufs, nxt, host, ghosts>>

PageWritten ==
  /\ pc = "page" /\ op = "none"
  /\ WriteReturned
  /\ pc' = "loop"
  /\ UNCHANGED <<qvars, machine, trans, csw, cmd_buf, bufs, nxt, host, seen, raced, stray, uses>>

ReceiveNewDram ==
  /\ At("RECEIVE_DATA_NEW") /\ write_enable = 1 /\ trans.type # "flash"
  /\ DramReceived
  /\ csw' = trans'.last_err
  /\ Assign(StatusOnly("STATUS"))
  /\ UNCHANGED <<queueRest, machine, cmd_buf, bufs, host, ghosts>>

ReceiveNewFlash ==
  /\ At("RECEIVE_DATA_NEW") /\ write_enable = 1 /\ trans.type = "flash"
  /\ efex_save_buff_to_queue(trans.req)
  /\ pc' = "save"
  /\ UNCHANGED <<machine, trans, csw, cmd_buf, bufs, nxt, host, ghosts>>

Saved ==
  /\ pc = "save" /\ op = "none"
  /\ trans' = [trans EXCEPT !.last_err = IF ret = 0 THEN @ ELSE -1]
  /\ csw' = trans'.last_err
  /\ WriteReturned
  /\ Assign(StatusOnly("STATUS"))
  /\ UNCHANGED <<qvars, machine, cmd_buf, bufs, host, seen, raced, stray, uses>>

(* efex_write_error_flag is 0 here, whatever happened to queued pages.  The  *)
(* packet and csw are not looked at again.                                   *)
SendCsw == /\ werr' = CASE werr = "pending" /\ csw = -1 -> "told"
                        [] werr = "pending" /\ csw = 0  -> "untold"
                        [] OTHER                        -> werr
           /\ rx_ready' = 0 /\ packet' = NoPacket /\ csw' = 0
           /\ host' = "idle"

(* Mutant: the machine stays in STATUS. *)
StatusStays ==
  /\ At("STATUS")
  /\ SendCsw
  /\ UNCHANGED <<qvars, machine, trans, cmd_buf, dma, pc, nxt, seen, raced, stray, uses>>

Status == /\ At("STATUS")
          /\ status' = "IDLE"
          /\ SendCsw
          /\ UNCHANGED <<qvars, app_step, write_enable, trans, cmd_buf, dma, pc, nxt, seen,
                         raced, stray, uses>>

Exit == /\ At("EXIT")
        /\ SendCsw
        /\ Leave
        /\ UNCHANGED <<qvars, machine, trans, cmd_buf, dma, seen, raced, stray, uses>>

(* The function of efex_queue.c that the handler has called goes on. *)
QueueRuns == /\ pc \in {"flush", "page", "save"} /\ QueueStep
             /\ UNCHANGED <<machine, trans, csw, cmd_buf, bufs, pc, nxt, host, ghosts>>

Handler == \/ CommitStatus \/ CommitStep \/ Idle \/ SetupBad \/ Setup_New \/ SetupCmd \/ SetupData
           \/ SetupStatus \/ SendData \/ ReceiveCmd \/ ReceiveDram \/ ReceiveFlash
           \/ SetupNewFlush \/ SetupNewCmd \/ SendDataNew
           \/ ReceiveNewWait \/ PageWritten \/ ReceiveNewDram \/ ReceiveNewFlash
           \/ Saved \/ Status \/ Exit \/ QueueRuns
MainLoop == Start \/ Handler

-----------------------------------------------------------------------------
(* The USB interrupt, and the host behind it *)

(* In the old format a host that follows the protocol announces a command    *)
(* when the device is idle, its data in the direction the command asked for, *)
(* and then collects the status.  Any other host may give every packet any   *)
(* direction and any length.                                                 *)
OldHost(k) ==
  /\ k.cmd # NoCommand <=> app_step = "IDLE"
  /\ Follows = 1 => /\ k.len = 2
                    /\ k.dir = IF app_step \in {"IDLE", "RECEIVE_DATA"}
                               THEN "receive" ELSE "transmit"

HostSends(k) == /\ k.fmt \in uses \/ (k.fmt = "bad" /\ Follows = 0)
                /\ k.fmt = "old" => OldHost(k)
                /\ k.fmt = "new" => app_step = "IDLE"

(* eprx_recv_op: a packet is taken when none is pending. *)
RxPacket(k) ==
  /\ Running /\ host = "idle" /\ rx_ready = 0 /\ dma = 0
  /\ HostSends(k)
  /\ packet' = k /\ rx_ready' = 1
  /\ host' = "wait"
  /\ UNCHANGED <<qvars, machine, trans, csw, cmd_buf, dma, pc, nxt, ghosts>>

(* Mutant: the end of a DMA counts only once the machine waits for it. *)
DmaDoneIfAwaited ==
  /\ Running /\ dma = 1
  /\ dma' = 0
  /\ write_enable' = IF status \in {"RECEIVE_DATA", "RECEIVE_DATA_NEW"} THEN 1 ELSE 0
  /\ stray' = 0
  /\ UNCHANGED <<qvars, status, app_step, trans, csw, cmd_buf, rx_ready, packet, pc,
                 nxt, host, werr, seen, raced, uses>>

(* sunxi_efex_usb_rx_dma_isr *)
DmaDone ==
  /\ Running /\ dma = 1
  /\ dma' = 0 /\ write_enable' = 1 /\ stray' = 0
  /\ UNCHANGED <<qvars, status, app_step, trans, csw, cmd_buf, rx_ready, packet, pc,
                 nxt, host, werr, seen, raced, uses>>

(* The handler that is interrupted will overwrite what sunxi_efex_reset did. *)
Overwritten == pc \in {"commit", "flush", "save"}

(* Mutant: a reset of the bus empties the queue. *)
ResetDropsQueue ==
  /\ Running
  /\ dma' = 0 /\ rx_ready' = 0 /\ write_enable' = 0
  /\ status' = "IDLE" /\ app_step' = "IDLE"
  /\ queue' = <<>>
  /\ host' = "idle"
  /\ raced' = (IF Overwritten THEN 1 ELSE raced) /\ stray' = 0
  /\ UNCHANGED <<max_len, open, reply, flash, accepted, op, at, todo, req, offset, first, ret,
                 trans, csw, cmd_buf, packet, pc, nxt, werr, seen, uses>>

Reset ==
  /\ Running
  /\ dma' = 0 /\ rx_ready' = 0 /\ write_enable' = 0
  /\ status' = "IDLE" /\ app_step' = "IDLE"
  /\ host' = "idle"
  /\ raced' = (IF Overwritten THEN 1 ELSE raced) /\ stray' = 0
  /\ UNCHANGED <<qvars, trans, csw, cmd_buf, packet, pc, nxt, werr, seen, uses>>

Interrupt == (\E k \in OldPackets \cup NewPackets \cup {BadPacket} : RxPacket(k))
             \/ DmaDone \/ Reset

(* sunxi_usb_exit, sunxi_efex_exit: pages that are still queued are dropped. *)
Over == /\ pc = "done" /\ open
        /\ efex_queue_exit
        /\ UNCHANGED <<machine, trans, csw, cmd_buf, bufs, pc, nxt, host, ghosts>>

Ended == (pc = "fel" \/ (pc = "done" /\ ~open)) /\ UNCHANGED vars

EfexNext == MainLoop \/ SetupSpin \/ ReceiveTimeout \/ Interrupt \/ Over \/ Ended

(* The loop never sleeps; the host sends the data it announced, except that  *)
(* the new format needs no such promise: the clock runs.                     *)
EfexSpec == /\ EfexInit /\ [][EfexNext]_vars
            /\ WF_vars(MainLoop)
            /\ SF_vars(ReceiveTimeout)
            /\ WF_vars(DmaDone /\ packet.fmt = "old")

-----------------------------------------------------------------------------
(* Properties *)

(* A csw answers a packet the host is waiting on, so every packet gets at    *)
(* most one, unless a reset hit a handler whose assignments undid it.        *)
StatusIsAwaited == At("STATUS") \/ At("EXIT") => host = "wait" \/ raced = 1

(* No handler looks at the receive buffer while a DMA is filling it: from    *)
(* its start to its end write_enable is 0, and the machine waits for it,     *)
(* unless it was a host that should have asked for data who announced some   *)
(* instead.                                                                  *)
Receiving == {"RECEIVE_DATA", "RECEIVE_DATA_NEW"}
Coming == IF pc = "commit" /\ nxt.status # "keep" THEN nxt.status ELSE status
DmaIsAwaited == dma = 1 /\ raced = 0 => /\ write_enable = 0
                                        /\ stray = 0 => Coming \in Receiving

(* In the old format what has arrived is always known to be a command or its *)
(* data, even when resets hit handlers.                                      *)
DataHasMeaning == ReceivedOld => app_step \in {"CMD", "RECEIVE_DATA"}

(* Durable of EfexQueue, whatever the session does: commands, errors, resets. *)
(* A host that uses both formats is left out: the old one writes past the    *)
(* queue of the new one.                                                     *)
SessionIsDurable == uses # {"old", "new"} => Durable

(* What verify_value computes its checksum over, and what set_off leaves     *)
(* behind, is what the host sent: no accepted page is still queued, unless   *)
(* the write of a queued page failed or the host uses both formats.          *)
VerifyFindsData == uses # {"old", "new"} /\ seen = "stale" => werr # "none"

(* A packet of a host that follows the protocol is answered, or the session  *)
(* ends; only a reset that hits the middle of a handler can prevent that.    *)
PacketAnswered == (Running /\ host = "wait") ~> (host = "idle" \/ ~Running \/ raced = 1)

(* The comment in the STATUS and EXIT cases: when writing queued pages has   *)
(* failed, the csw tells the tool.                                           *)
WriteErrorTold == werr # "untold"
=============================================================================
