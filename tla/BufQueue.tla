------------------------------ MODULE BufQueue ------------------------------
(***************************************************************************)
(* drivers/sunxi_usb/buf_queue.c: the queue of flash pages that separates  *)
(* receiving data over USB from writing it.  The queue is a circular       *)
(* linked list of buf_queue_max_len nodes allocated one by one by          *)
(* buf_queue_init and freed one by one by buf_queue_exit; each iteration   *)
(* of those two loops is a step here.                                      *)
(*                                                                         *)
(* The caller is sunxi_usb_main_loop: it never leaves a failed init        *)
(* without calling exit (usb_base_platform.c, lines 1490-1496).            *)
(***************************************************************************)
EXTENDS Naturals, Sequences

CONSTANTS Elem, MaxLen, NoElem

ASSUME MaxLenAssumption == MaxLen \in Nat \ {0}
ASSUME NoElemAssumption == NoElem \notin Elem

Nodes == 0 .. (MaxLen - 1)      \* the i-th node buf_queue_init allocates
NULL  == MaxLen

VARIABLES
  buf_queue_init_flag, buf_queue_current_len,
  buf_queue_head, buf_queue_tail,
  next,         \* the next field of every node
  element,      \* the element field of every node
  heap,         \* the nodes that are allocated and not yet freed
  pc,           \* "idle", or the loop that is running
  i,            \* the nodes that init has linked
  free_cnt,     \* the nodes that exit may still free
  must_exit,    \* the last init failed: the caller goes on to exit
  reply         \* what the last call returned

pointers == <<buf_queue_head, buf_queue_tail, next>>
vars == <<buf_queue_init_flag, buf_queue_current_len, buf_queue_head,
          buf_queue_tail, next, element, heap, pc, i, free_cnt,
          must_exit, reply>>

Done(v) == [ret |-> 0, val |-> v]
Refused == [ret |-> 1, val |-> <<>>]

buf_queue_empty == buf_queue_current_len = 0
buf_queue_full  == buf_queue_current_len = MaxLen

Init == /\ buf_queue_init_flag = 0
        /\ buf_queue_current_len = 0
        /\ buf_queue_head = NULL /\ buf_queue_tail = NULL
        /\ next = [n \in Nodes |-> NULL]
        /\ element = [n \in Nodes |-> NoElem]
        /\ heap = {}
        /\ pc = "idle" /\ i = 0 /\ free_cnt = 0 /\ must_exit = 0
        /\ reply = Done(<<>>)

-----------------------------------------------------------------------------
(* buf_queue_init *)

InitAlready ==
  /\ pc = "idle" /\ buf_queue_init_flag = 1
  /\ reply' = Refused
  /\ UNCHANGED <<buf_queue_init_flag, buf_queue_current_len, pointers, element,
                 heap, pc, i, free_cnt, must_exit>>

(* The base buffer may not be available: nothing is linked. *)
InitStart ==
  /\ pc = "idle" /\ buf_queue_init_flag = 0 /\ must_exit = 0
  /\ buf_queue_head' = NULL /\ buf_queue_tail' = NULL
  /\ i' = 0
  /\ \/ pc' = "init" /\ UNCHANGED <<must_exit, reply>>
     \/ must_exit' = 1 /\ reply' = Refused /\ UNCHANGED pc
  /\ UNCHANGED <<buf_queue_init_flag, buf_queue_current_len, next, element, heap,
                 free_cnt>>

(* One iteration: allocate node i and link it behind the tail. *)
InitNode ==
  /\ pc = "init" /\ i < MaxLen
  /\ heap' = heap \cup {i}
  /\ element' = [element EXCEPT ![i] = NoElem]
  /\ IF buf_queue_tail = NULL
     THEN /\ buf_queue_head' = i
          /\ next' = [next EXCEPT ![i] = NULL]
     ELSE /\ next' = [next EXCEPT ![i] = NULL, ![buf_queue_tail] = i]
          /\ UNCHANGED buf_queue_head
  /\ buf_queue_tail' = i
  /\ i' = i + 1
  /\ UNCHANGED <<buf_queue_init_flag, buf_queue_current_len, pc, free_cnt, must_exit,
                 reply>>

InitNodeFails ==
  /\ pc = "init" /\ i < MaxLen
  /\ pc' = "idle" /\ must_exit' = 1 /\ reply' = Refused
  /\ UNCHANGED <<buf_queue_init_flag, buf_queue_current_len, pointers, element,
                 heap, i, free_cnt>>

InitCloseKeepsHead ==
  /\ pc = "init" /\ i = MaxLen
  /\ next' = [next EXCEPT ![buf_queue_tail] = buf_queue_head]
  /\ buf_queue_current_len' = 0
  /\ buf_queue_init_flag' = 1
  /\ pc' = "idle" /\ reply' = Done(<<>>)
  /\ UNCHANGED <<buf_queue_head, buf_queue_tail, element, heap, i, free_cnt, must_exit>>

InitClose ==
  /\ pc = "init" /\ i = MaxLen
  /\ next' = [next EXCEPT ![buf_queue_tail] = buf_queue_head]
  /\ buf_queue_head' = buf_queue_tail
  /\ buf_queue_current_len' = 0
  /\ buf_queue_init_flag' = 1
  /\ pc' = "idle" /\ reply' = Done(<<>>)
  /\ UNCHANGED <<buf_queue_tail, element, heap, i, free_cnt, must_exit>>

-----------------------------------------------------------------------------
(* buf_queue_exit: also called after a failed init *)

ExitStartOneMore ==
  /\ pc = "idle"
  /\ pc' = "exit" /\ free_cnt' = MaxLen + 1 /\ reply' = Done(<<>>)
  /\ UNCHANGED <<buf_queue_init_flag, buf_queue_current_len, pointers, element,
                 heap, i, must_exit>>

ExitStartOneLess ==
  /\ pc = "idle"
  /\ pc' = "exit" /\ free_cnt' = MaxLen - 1 /\ reply' = Done(<<>>)
  /\ UNCHANGED <<buf_queue_init_flag, buf_queue_current_len, pointers, element,
                 heap, i, must_exit>>

ExitStart ==
  /\ pc = "idle"
  /\ pc' = "exit" /\ free_cnt' = MaxLen /\ reply' = Done(<<>>)
  /\ UNCHANGED <<buf_queue_init_flag, buf_queue_current_len, pointers, element,
                 heap, i, must_exit>>

ExitNode ==
  /\ pc = "exit" /\ buf_queue_head # NULL /\ free_cnt > 0
  /\ heap' = heap \ {buf_queue_head}
  /\ buf_queue_head' = next[buf_queue_head]
  /\ free_cnt' = free_cnt - 1
  /\ UNCHANGED <<buf_queue_init_flag, buf_queue_current_len, buf_queue_tail,
                 next, element, pc, i, must_exit, reply>>

ExitEnd ==
  /\ pc = "exit" /\ (buf_queue_head = NULL \/ free_cnt = 0)
  /\ buf_queue_head' = NULL /\ buf_queue_tail' = NULL
  /\ buf_queue_current_len' = 0
  /\ buf_queue_init_flag' = 0
  /\ pc' = "idle" /\ i' = 0 /\ must_exit' = 0
  /\ UNCHANGED <<next, element, heap, free_cnt, reply>>

-----------------------------------------------------------------------------
(* buf_enqueue, buf_dequeue: used between a successful init and exit *)

Ready == pc = "idle" /\ buf_queue_init_flag = 1

EnqueueFull ==
  /\ Ready /\ buf_queue_full
  /\ reply' = Refused
  /\ UNCHANGED <<buf_queue_init_flag, buf_queue_current_len, pointers, element,
                 heap, pc, i, free_cnt, must_exit>>

EnqueueUnguarded(e) ==
  /\ Ready
  /\ LET pelem == IF buf_queue_empty THEN buf_queue_head ELSE buf_queue_tail
     IN  element' = [element EXCEPT ![pelem] = e]
  /\ buf_queue_tail' = next[buf_queue_tail]
  /\ buf_queue_current_len' = buf_queue_current_len + 1
  /\ reply' = Done(<<>>)
  /\ UNCHANGED <<buf_queue_init_flag, buf_queue_head, next, heap, pc, i, free_cnt, must_exit>>

EnqueueAtHead(e) ==
  /\ Ready /\ ~buf_queue_full
  /\ element' = [element EXCEPT ![buf_queue_head] = e]
  /\ buf_queue_tail' = next[buf_queue_tail]
  /\ buf_queue_current_len' = buf_queue_current_len + 1
  /\ reply' = Done(<<>>)
  /\ UNCHANGED <<buf_queue_init_flag, buf_queue_head, next, heap, pc, i, free_cnt, must_exit>>

buf_enqueue(e) ==
  /\ Ready /\ ~buf_queue_full
  /\ LET pelem == IF buf_queue_empty THEN buf_queue_head ELSE buf_queue_tail
     IN  element' = [element EXCEPT ![pelem] = e]
  /\ buf_queue_tail' = next[buf_queue_tail]
  /\ buf_queue_current_len' = buf_queue_current_len + 1
  /\ reply' = Done(<<>>)
  /\ UNCHANGED <<buf_queue_init_flag, buf_queue_head, next, heap, pc, i, free_cnt, must_exit>>

DequeueEmpty ==
  /\ Ready /\ buf_queue_empty
  /\ reply' = Refused
  /\ UNCHANGED <<buf_queue_init_flag, buf_queue_current_len, pointers, element,
                 heap, pc, i, free_cnt, must_exit>>

buf_dequeue ==
  /\ Ready /\ ~buf_queue_empty
  /\ reply' = Done(<<element[buf_queue_head]>>)
  /\ buf_queue_head' = next[buf_queue_head]
  /\ buf_queue_current_len' = buf_queue_current_len - 1
  /\ UNCHANGED <<buf_queue_init_flag, buf_queue_tail, next, element, heap, pc, i,
                 free_cnt, must_exit>>

Next == \/ InitAlready \/ InitStart \/ InitNode \/ InitNodeFails \/ InitClose
        \/ ExitStart \/ ExitNode \/ ExitEnd
        \/ EnqueueFull \/ (\E e \in Elem : buf_enqueue(e))
        \/ DequeueEmpty \/ buf_dequeue

Spec == Init /\ [][Next]_vars

-----------------------------------------------------------------------------
(* Properties *)

(* The node k links behind node n, going round the ring. *)
Pos(n, k) == IF n + k >= MaxLen THEN n + k - MaxLen ELSE n + k

(* Every pointer is NULL or a node, every counter within the queue's length. *)
TypeOK ==
  /\ buf_queue_init_flag \in {0, 1} /\ must_exit \in {0, 1}
  /\ buf_queue_current_len \in 0 .. MaxLen
  /\ buf_queue_head \in Nodes \cup {NULL} /\ buf_queue_tail \in Nodes \cup {NULL}
  /\ next \in [Nodes -> Nodes \cup {NULL}]
  /\ element \in [Nodes -> Elem \cup {NoElem}]
  /\ heap \subseteq Nodes
  /\ pc \in {"idle", "init", "exit"}
  /\ i \in 0 .. MaxLen /\ free_cnt \in 0 .. MaxLen

(* Between init and exit the list is one ring of all the nodes, and the tail *)
(* is exactly buf_queue_current_len nodes behind the head: so buf_enqueue    *)
(* may write to the head of an empty queue and to the tail otherwise         *)
(* (buf_queue.c:197-204), the two being the same node when it is empty.      *)
RingIntact ==
  Ready => /\ buf_queue_head \in Nodes
           /\ next = [n \in Nodes |-> Pos(n, 1)]
           /\ buf_queue_tail = Pos(buf_queue_head, buf_queue_current_len)

(* No node is read, written or freed after it was freed: the two pointers of *)
(* an open queue, and the node the loop of buf_queue_exit frees next, are    *)
(* allocated, also when exit cleans up after an init that failed half way.   *)
PointersLive ==
  /\ Ready => {buf_queue_head, buf_queue_tail} \subseteq heap
  /\ pc = "exit" /\ buf_queue_head # NULL /\ free_cnt > 0 => buf_queue_head \in heap

(* buf_queue_exit frees every node that init allocated, wherever the head    *)
(* stands in the ring and however far a failed init got.                     *)
NoLeak == pc = "idle" /\ buf_queue_init_flag = 0 /\ must_exit = 0 => heap = {}

(* The ring behaves as a bounded first-in first-out queue. *)
Opened   == buf_queue_init_flag = 1 /\ pc # "exit"
Contents == IF Opened
            THEN [k \in 1 .. buf_queue_current_len |->
                     element[Pos(buf_queue_head, k - 1)]]
            ELSE <<>>
Fifo == INSTANCE BufFifo WITH open <- Opened, queue <- Contents
IsFifo == Fifo!FifoSpec
=============================================================================
