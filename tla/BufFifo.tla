------------------------------ MODULE BufFifo ------------------------------
(***************************************************************************)
(* What the page queue of the USB download path promises its users: a      *)
(* bounded first-in first-out queue that is opened, used and closed.       *)
(* BufQueue, the ring of drivers/sunxi_usb/buf_queue.c, implements it.     *)
(***************************************************************************)
EXTENDS Naturals, Sequences

CONSTANTS Elem,     \* what a caller may queue: address, sectors and data of a page
          MaxLen    \* buf_queue_max_len

VARIABLES open,     \* a successful init has not been followed by an exit
          queue,    \* the elements, oldest first
          reply     \* what the last call returned

fifoVars == <<open, queue, reply>>

Done(v)   == [ret |-> 0, val |-> v]
Refused   == [ret |-> 1, val |-> <<>>]

FifoInit == open = FALSE /\ queue = <<>> /\ reply = Done(<<>>)

Open == /\ ~open
        /\ open' = TRUE
        /\ queue' = <<>>
        /\ reply' = Done(<<>>)

Close == /\ open' = FALSE
         /\ queue' = <<>>
         /\ reply' = Done(<<>>)

Refuse == /\ reply' = Refused
          /\ UNCHANGED <<open, queue>>

Put(e) == /\ open
          /\ Len(queue) < MaxLen
          /\ queue' = Append(queue, e)
          /\ reply' = Done(<<>>)
          /\ UNCHANGED open

Take == /\ open
        /\ queue # <<>>
        /\ queue' = Tail(queue)
        /\ reply' = Done(<<Head(queue)>>)
        /\ UNCHANGED open

FifoNext == Open \/ Close \/ Refuse \/ (\E e \in Elem : Put(e)) \/ Take

FifoSpec == FifoInit /\ [][FifoNext]_fifoVars
=============================================================================
