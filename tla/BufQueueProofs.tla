--------------------------- MODULE BufQueueProofs ---------------------------
(***************************************************************************)
(* Proofs about BufQueue, for a queue of any length and any elements.      *)
(***************************************************************************)
EXTENDS BufQueue, SequenceTheorems, TLAPS

(* How far node n is behind node h, going round the ring. *)
Dist(h, n) == IF n >= h THEN n - h ELSE n - h + MaxLen

(* The list that init has built so far: nodes 0 .. i-1, in order, ended by NULL. *)
ChainOK == /\ \A k \in Nodes : k + 1 < i => next[k] = k + 1
           /\ \A k \in Nodes : k + 1 = i => next[k] = NULL

Closed == buf_queue_init_flag = 0 /\ must_exit = 0 /\ pc = "idle" =>
            /\ buf_queue_head = NULL /\ buf_queue_tail = NULL
            /\ heap = {} /\ i = 0

Building == pc = "init" \/ (must_exit = 1 /\ pc = "idle") =>
              /\ buf_queue_init_flag = 0
              /\ pc = "init" => must_exit = 0
              /\ ChainOK
              /\ \A k \in Nodes : k \in heap <=> k < i
              /\ i = 0 => buf_queue_head = NULL /\ buf_queue_tail = NULL
              /\ i > 0 => buf_queue_head = 0 /\ buf_queue_tail = i - 1

Ring == buf_queue_init_flag = 1 =>
          /\ must_exit = 0
          /\ buf_queue_head \in Nodes
          /\ next = [n \in Nodes |-> Pos(n, 1)]
          /\ pc \in {"idle", "exit"}
          /\ pc = "idle" => /\ heap = Nodes
                            /\ buf_queue_tail = Pos(buf_queue_head, buf_queue_current_len)

ExitChain == pc = "exit" /\ buf_queue_init_flag = 0 =>
               /\ ChainOK
               /\ \A k \in Nodes : k \in heap <=> (buf_queue_head <= k /\ k < i)
               /\ buf_queue_head # NULL => /\ buf_queue_head < i
                                           /\ buf_queue_head + free_cnt = MaxLen

ExitRing == pc = "exit" /\ buf_queue_init_flag = 1 =>
              \A n \in Nodes : n \in heap <=> Dist(buf_queue_head, n) < free_cnt

Inv == TypeOK /\ Closed /\ Building /\ Ring /\ ExitChain /\ ExitRing

USE MaxLenAssumption, NoElemAssumption DEF Nodes, NULL

LEMMA InitInv == Init => Inv
BY DEF Init, Inv, TypeOK, Closed, Building, Ring, ExitChain, ExitRing, ChainOK

LEMMA NextInv == Inv /\ [Next]_vars => Inv'
<1> SUFFICES ASSUME Inv, [Next]_vars PROVE Inv'
  OBVIOUS
<1> USE DEF Inv, TypeOK
<1>1. CASE InitAlready \/ EnqueueFull \/ DequeueEmpty
  <2>1. UNCHANGED <<buf_queue_init_flag, buf_queue_current_len, buf_queue_head,
                    buf_queue_tail, next, element, heap, pc, i, free_cnt, must_exit>>
    BY <1>1 DEF InitAlready, EnqueueFull, DequeueEmpty, pointers
  <2>2. TypeOK'
    BY <2>1
  <2>3. Closed' /\ Building'
    BY <2>1 DEF Closed, Building, ChainOK
  <2>4. Ring' /\ ExitChain' /\ ExitRing'
    BY <2>1 DEF Ring, ExitChain, ExitRing, ChainOK, Pos, Dist
  <2> QED
    BY <2>2, <2>3, <2>4
<1>2. CASE InitStart
  BY <1>2 DEF InitStart, Closed, Building, Ring, ExitChain, ExitRing, ChainOK
<1>3. CASE InitNode
  <2>1. TypeOK'
    BY <1>3 DEF InitNode, Building
  <2>2. Closed' /\ Ring' /\ ExitChain' /\ ExitRing'
    BY <1>3 DEF InitNode, Closed, Building, Ring, ExitChain, ExitRing, ChainOK
  <2>3. Building'
    BY <1>3 DEF InitNode, Building, ChainOK
  <2> QED
    BY <2>1, <2>2, <2>3
<1>4. CASE InitNodeFails
  BY <1>4 DEF InitNodeFails, pointers, Closed, Building, Ring, ExitChain, ExitRing, ChainOK
<1>5. CASE InitClose
  <2>1. i = MaxLen /\ buf_queue_head = 0 /\ buf_queue_tail = MaxLen - 1 /\ must_exit = 0
    BY <1>5 DEF InitClose, Building
  <2>2. heap = Nodes
    BY <1>5, <2>1 DEF InitClose, Building
  <2>3. next' = [n \in Nodes |-> Pos(n, 1)]
    <3>1. ASSUME NEW n \in Nodes PROVE next'[n] = Pos(n, 1)
      BY <1>5, <2>1 DEF InitClose, Building, ChainOK, Pos
    <3>2. next' \in [Nodes -> Nodes \cup {NULL}]
      BY <1>5, <2>1 DEF InitClose
    <3> QED
      BY <3>1, <3>2
  <2>4. Ring'
    <3>1. buf_queue_tail' = Pos(buf_queue_head', 0)
      BY <1>5, <2>1 DEF InitClose, Pos
    <3> QED
      BY <1>5, <2>1, <2>2, <2>3, <3>1, SMTT(30) DEF InitClose, Ring
  <2>5. TypeOK'
    BY <1>5, <2>1 DEF InitClose
  <2> QED
    BY <1>5, <2>1, <2>4, <2>5 DEF InitClose, Closed, Building, ExitChain, ExitRing
<1>6. CASE ExitStart
  BY <1>6 DEF ExitStart, pointers, Closed, Building, Ring, ExitChain, ExitRing, ChainOK, Dist
<1>7. CASE ExitNode
  <2>1. TypeOK' /\ Closed' /\ Building'
    BY <1>7 DEF ExitNode, Closed, Building
  <2>2. CASE buf_queue_init_flag = 0
    <3>1. /\ buf_queue_head \in Nodes /\ buf_queue_head < i
          /\ buf_queue_head + free_cnt = MaxLen
      BY <1>7, <2>2 DEF ExitNode, ExitChain
    <3>2. next[buf_queue_head] = IF buf_queue_head + 1 < i THEN buf_queue_head + 1 ELSE NULL
      <4>1. ChainOK
        BY <1>7, <2>2 DEF ExitNode, ExitChain
      <4>2. CASE buf_queue_head + 1 < i
        BY <3>1, <4>1, <4>2 DEF ChainOK
      <4>3. CASE ~(buf_queue_head + 1 < i)
        <5>1. buf_queue_head + 1 = i
          BY <3>1, <4>3
        <5> QED
          BY <3>1, <4>1, <4>3, <5>1 DEF ChainOK
      <4> QED
        BY <4>2, <4>3
    <3>3. ChainOK'
      BY <1>7, <2>2 DEF ExitNode, ExitChain, ChainOK
    <3>4. \A k \in Nodes : k \in heap' <=> (buf_queue_head' <= k /\ k < i')
      BY <1>7, <2>2, <3>1, <3>2 DEF ExitNode, ExitChain
    <3> QED
      BY <1>7, <2>1, <2>2, <3>1, <3>2, <3>3, <3>4 DEF ExitNode, Ring, ExitChain, ExitRing
  <2>3. CASE buf_queue_init_flag = 1
    <3>1. next[buf_queue_head] = Pos(buf_queue_head, 1) /\ buf_queue_head \in Nodes
      BY <1>7, <2>3 DEF ExitNode, Ring
    <3>2. buf_queue_head' \in Nodes
      BY <1>7, <3>1 DEF ExitNode, Pos
    <3>3. ASSUME NEW n \in Nodes
          PROVE  (n \in heap)' <=> Dist(buf_queue_head', n) < free_cnt'
      <4>1. n \in heap <=> Dist(buf_queue_head, n) < free_cnt
        BY <1>7, <2>3 DEF ExitNode, ExitRing
      <4> QED
        BY <1>7, <3>1, <4>1 DEF ExitNode, Dist, Pos
    <3> QED
      BY <1>7, <2>1, <2>3, <3>2, <3>3, SMTT(30) DEF ExitNode, Ring, ExitChain, ExitRing
  <2> QED
    BY <2>2, <2>3
<1>8. CASE ExitEnd
  BY <1>8, SMTT(30) DEF ExitEnd, Closed, Building, Ring, ExitChain, ExitRing, ChainOK, Dist
<1>9. ASSUME NEW e \in Elem, buf_enqueue(e) PROVE Inv'
  BY <1>9, SMTT(30) DEF buf_enqueue, Ready, buf_queue_full, buf_queue_empty, Closed, Building, Ring,
     ExitChain, ExitRing, ChainOK, Pos
<1>10. CASE buf_dequeue
  <2>1. next[buf_queue_head] = Pos(buf_queue_head, 1) /\ buf_queue_head \in Nodes
    BY <1>10 DEF buf_dequeue, Ready, Ring
  <2>2. buf_queue_head' \in Nodes /\ TypeOK'
    BY <1>10, <2>1 DEF buf_dequeue, buf_queue_empty, Pos
  <2>3. Ring'
    BY <1>10, <2>1, <2>2, SMTT(30) DEF buf_dequeue, buf_queue_empty, Ready, Ring, Pos
  <2> QED
    BY <1>10, <2>2, <2>3, SMTT(30) DEF buf_dequeue, Ready, Closed, Building, ExitChain, ExitRing
<1>11. CASE UNCHANGED vars
  BY <1>11, SMTT(30) DEF vars, Closed, Building, Ring, ExitChain, ExitRing, ChainOK
<1> QED
  BY <1>1, <1>2, <1>3, <1>4, <1>5, <1>6, <1>7, <1>8, <1>9, <1>10, <1>11 DEF Next

(* Every pointer and counter of the page queue keeps its range. *)
THEOREM TypeCorrect == Spec => []TypeOK
<1>1. Inv => TypeOK
  BY DEF Inv
<1> QED
  BY InitInv, NextInv, <1>1, PTL DEF Spec

(* The ring of buf_queue.c is intact whenever the queue is open, for every   *)
(* queue length.                                                             *)
THEOREM RingStaysIntact == Spec => []RingIntact
<1>1. Inv => RingIntact
  BY DEF Inv, Ring, Ready, RingIntact
<1> QED
  BY InitInv, NextInv, <1>1, PTL DEF Spec

(* buf_queue_exit never frees a node twice and the queue never uses a freed  *)
(* one.                                                                      *)
THEOREM NoUseAfterFree == Spec => []PointersLive
<1>1. Inv => PointersLive
  <2> SUFFICES ASSUME Inv PROVE PointersLive
    OBVIOUS
  <2>1. Ready => {buf_queue_head, buf_queue_tail} \subseteq heap
    BY DEF Inv, TypeOK, Ring, Ready, Pos
  <2>2. ASSUME pc = "exit", buf_queue_head # NULL, free_cnt > 0
        PROVE  buf_queue_head \in heap
    BY <2>2 DEF Inv, TypeOK, ExitChain, ExitRing, Dist
  <2> QED
    BY <2>1, <2>2 DEF PointersLive
<1> QED
  BY InitInv, NextInv, <1>1, PTL DEF Spec

(* Every node init allocated is freed by the time exit returns. *)
THEOREM ExitFreesAll == Spec => []NoLeak
<1>1. Inv => NoLeak
  BY DEF Inv, Closed, NoLeak
<1> QED
  BY InitInv, NextInv, <1>1, PTL DEF Spec
-----------------------------------------------------------------------------
(* The ring implements the queue of BufFifo. *)

Cell == Elem \cup {NoElem}

RingSeq(el, h, n) == [k \in 1 .. n |-> el[Pos(h, k - 1)]]

(* What a caller needs to know of the n elements from node h on.             *)
RingFacts(el, h, n) ==
  /\ RingSeq(el, h, n) \in Seq(Cell)
  /\ Len(RingSeq(el, h, n)) = n
  /\ \A k \in 1 .. n : RingSeq(el, h, n)[k] = el[Pos(h, k - 1)]

(* The n elements from node h on form a sequence of length n.               *)
LEMMA RingSeqIsSeq ==
  \A el \in [Nodes -> Cell], h \in Nodes, n \in 0 .. MaxLen : RingFacts(el, h, n)
<1>1. TAKE el \in [Nodes -> Cell], h \in Nodes, n \in 0 .. MaxLen
<1>2. \A k \in 1 .. n : Pos(h, k - 1) \in Nodes
  BY DEF Pos
<1>3. \A k \in 1 .. n : el[Pos(h, k - 1)] \in Cell
  BY <1>2
<1>4. RingSeq(el, h, n) \in [1 .. n -> Cell] /\ n \in Nat
  BY <1>3 DEF RingSeq
<1>5. RingSeq(el, h, n) \in Seq(Cell) /\ Len(RingSeq(el, h, n)) = n
  BY <1>4 DEF RingSeq
<1>6. \A k \in 1 .. n : RingSeq(el, h, n)[k] = el[Pos(h, k - 1)]
  BY DEF RingSeq
<1> QED
  BY <1>5, <1>6 DEF RingFacts

LEMMA OpenContents ==
  ASSUME Inv, Opened
  PROVE  /\ Contents = RingSeq(element, buf_queue_head, buf_queue_current_len)
         /\ element \in [Nodes -> Cell]
         /\ buf_queue_head \in Nodes
         /\ buf_queue_current_len \in 0 .. MaxLen
BY DEF Contents, RingSeq, Inv, TypeOK, Ring, Opened, Cell

(* Writing behind the last element appends.                                  *)
LEMMA RingAppend ==
  ASSUME NEW el \in [Nodes -> Cell], NEW h \in Nodes, NEW n \in 0 .. (MaxLen - 1),
         NEW e \in Cell
  PROVE  RingSeq([el EXCEPT ![Pos(h, n)] = e], h, n + 1) = Append(RingSeq(el, h, n), e)
<1> DEFINE el2 == [el EXCEPT ![Pos(h, n)] = e]
           s == RingSeq(el, h, n)
           t == RingSeq(el2, h, n + 1)
<1>1. el2 \in [Nodes -> Cell] /\ n + 1 \in 0 .. MaxLen /\ n \in 0 .. MaxLen
  <2>1. el2 \in [Nodes -> Cell]
    OBVIOUS
  <2>2. n + 1 \in 0 .. MaxLen /\ n \in 0 .. MaxLen
    OBVIOUS
  <2> QED
    BY <2>1, <2>2
<1>2. s \in Seq(Cell) /\ Len(s) = n /\ \A k \in 1 .. n : s[k] = el[Pos(h, k - 1)]
  <2>1. RingFacts(el, h, n)
    BY <1>1, RingSeqIsSeq
  <2> QED
    BY <2>1 DEF RingFacts
<1>4. \A k \in 1 .. n : Pos(h, k - 1) \in Nodes /\ Pos(h, k - 1) # Pos(h, n)
  BY DEF Pos
<1>5. Pos(h, n) \in Nodes /\ Pos(h, (n + 1) - 1) = Pos(h, n)
  BY DEF Pos
<1>6. \A k \in 1 .. n : el2[Pos(h, k - 1)] = el[Pos(h, k - 1)]
  BY <1>4
<1>7. el2[Pos(h, n)] = e
  BY <1>5
<1> HIDE DEF el2
<1>3. /\ t \in Seq(Cell) /\ Len(t) = n + 1
      /\ \A k \in 1 .. (n + 1) : t[k] = el2[Pos(h, k - 1)]
  <2>1. RingFacts(el2, h, n + 1)
    BY <1>1, RingSeqIsSeq
  <2> QED
    BY <2>1 DEF RingFacts
<1> HIDE DEF s, t
<1>8. /\ Append(s, e) \in Seq(Cell) /\ Len(Append(s, e)) = n + 1
      /\ \A k \in 1 .. n : Append(s, e)[k] = s[k]
      /\ Append(s, e)[n + 1] = e
  BY <1>2, AppendProperties
<1>9. \A k \in 1 .. n : t[k] = Append(s, e)[k]
  <2>1. TAKE k \in 1 .. n
  <2>2. t[k] = el2[Pos(h, k - 1)]
    BY <1>3
  <2>3. el2[Pos(h, k - 1)] = el[Pos(h, k - 1)]
    BY <1>6
  <2>4. Append(s, e)[k] = el[Pos(h, k - 1)]
    BY <1>2, <1>8
  <2> QED
    BY <2>2, <2>3, <2>4
<1>10. t[n + 1] = Append(s, e)[n + 1]
  BY <1>3, <1>5, <1>7, <1>8
<1>11. \A k \in 1 .. Len(t) : t[k] = Append(s, e)[k]
  <2>1. TAKE k \in 1 .. Len(t)
  <2>2. k \in 1 .. n \/ k = n + 1
    BY <1>3
  <2> QED
    BY <2>2, <1>9, <1>10
<1>12. t = Append(s, e)
  BY <1>3, <1>8, <1>11, SeqEqual
<1> QED
  BY <1>12 DEF s, t, el2

(* Moving the head one node on drops the first element.                      *)
LEMMA RingTail ==
  ASSUME NEW el \in [Nodes -> Cell], NEW h \in Nodes, NEW n \in 1 .. MaxLen
  PROVE  /\ RingSeq(el, h, n) # <<>>
         /\ Head(RingSeq(el, h, n)) = el[h]
         /\ RingSeq(el, Pos(h, 1), n - 1) = Tail(RingSeq(el, h, n))
<1> DEFINE s == RingSeq(el, h, n)
           t == RingSeq(el, Pos(h, 1), n - 1)
<1>1. Pos(h, 1) \in Nodes /\ n \in 0 .. MaxLen /\ n - 1 \in 0 .. MaxLen
  BY DEF Pos
<1>2. s \in Seq(Cell) /\ Len(s) = n /\ \A k \in 1 .. n : s[k] = el[Pos(h, k - 1)]
  <2>1. RingFacts(el, h, n)
    BY <1>1, RingSeqIsSeq
  <2> QED
    BY <2>1 DEF RingFacts
<1>3. /\ t \in Seq(Cell) /\ Len(t) = n - 1
      /\ \A k \in 1 .. (n - 1) : t[k] = el[Pos(Pos(h, 1), k - 1)]
  <2>1. RingFacts(el, Pos(h, 1), n - 1)
    BY <1>1, RingSeqIsSeq
  <2> QED
    BY <2>1 DEF RingFacts
<1>4. \A k \in 1 .. (n - 1) : Pos(Pos(h, 1), k - 1) = Pos(h, (k + 1) - 1)
  BY DEF Pos
<1>5. Pos(h, 1 - 1) = h
  BY DEF Pos
<1> HIDE DEF s, t
<1>6. s # <<>>
  BY <1>2, EmptySeq
<1>7. /\ Head(s) = s[1]
      /\ Tail(s) \in Seq(Cell) /\ Len(Tail(s)) = n - 1
      /\ \A k \in 1 .. (n - 1) : Tail(s)[k] = s[k + 1]
  BY <1>2, <1>6, HeadTailProperties
<1>8. Head(s) = el[h]
  <2>1. 1 \in 1 .. n
    OBVIOUS
  <2>2. s[1] = el[Pos(h, 1 - 1)]
    BY <1>2, <2>1
  <2> QED
    BY <1>5, <1>7, <2>2
<1>9. \A k \in 1 .. (n - 1) : t[k] = Tail(s)[k]
  <2>1. TAKE k \in 1 .. (n - 1)
  <2>2. t[k] = el[Pos(h, (k + 1) - 1)]
    BY <1>3, <1>4
  <2>3. k + 1 \in 1 .. n
    OBVIOUS
  <2>4. s[k + 1] = el[Pos(h, (k + 1) - 1)]
    BY <1>2, <2>3
  <2> QED
    BY <1>7, <2>2, <2>4
<1>10. t = Tail(s)
  BY <1>3, <1>7, <1>9, SeqEqual
<1> QED
  BY <1>6, <1>8, <1>10 DEF s, t

LEMMA EnqueueIsPut ==
  ASSUME Inv, NEW e \in Elem, buf_enqueue(e)
  PROVE  Fifo!Put(e)
<1>1. Opened /\ Opened' /\ buf_queue_current_len < MaxLen /\ e \in Cell
  BY DEF buf_enqueue, Ready, Opened, buf_queue_full, Inv, TypeOK, Cell
<1>2. /\ Contents = RingSeq(element, buf_queue_head, buf_queue_current_len)
      /\ element \in [Nodes -> Cell]
      /\ buf_queue_head \in Nodes
      /\ buf_queue_current_len \in 0 .. (MaxLen - 1)
  BY <1>1, OpenContents
<1>3. buf_queue_tail = Pos(buf_queue_head, buf_queue_current_len)
  BY DEF buf_enqueue, Ready, Inv, Ring
<1>4. (IF buf_queue_empty THEN buf_queue_head ELSE buf_queue_tail)
        = Pos(buf_queue_head, buf_queue_current_len)
  BY <1>2, <1>3 DEF buf_queue_empty, Pos
<1>5. /\ element' = [element EXCEPT ![Pos(buf_queue_head, buf_queue_current_len)] = e]
      /\ buf_queue_head' = buf_queue_head
      /\ buf_queue_current_len' = buf_queue_current_len + 1
  BY <1>4 DEF buf_enqueue
<1>6. Contents' = RingSeq(element', buf_queue_head', buf_queue_current_len')
  BY <1>1 DEF Contents, RingSeq
<1>7. Contents' = Append(Contents, e)
  <2> DEFINE el == element
             h == buf_queue_head
             n == buf_queue_current_len
  <2>1. Contents' = RingSeq([el EXCEPT ![Pos(h, n)] = e], h, n + 1)
    BY <1>5, <1>6
  <2>2. RingSeq([el EXCEPT ![Pos(h, n)] = e], h, n + 1) = Append(RingSeq(el, h, n), e)
    BY <1>1, <1>2, RingAppend, Zenon
  <2> QED
    BY <1>2, <2>1, <2>2
<1>8. Len(Contents) < MaxLen
  <2>1. RingFacts(element, buf_queue_head, buf_queue_current_len)
    BY <1>2, RingSeqIsSeq
  <2> QED
    BY <1>1, <1>2, <2>1 DEF RingFacts
<1> QED
  BY <1>1, <1>7, <1>8 DEF Fifo!Put, Fifo!Done, Done, buf_enqueue

LEMMA DequeueIsTake ==
  ASSUME Inv, buf_dequeue
  PROVE  Fifo!Take
<1>1. Opened /\ Opened'
  BY DEF buf_dequeue, Ready, Opened
<1>2. /\ Contents = RingSeq(element, buf_queue_head, buf_queue_current_len)
      /\ element \in [Nodes -> Cell]
      /\ buf_queue_head \in Nodes
      /\ buf_queue_current_len \in 1 .. MaxLen
  BY <1>1, OpenContents DEF buf_dequeue, buf_queue_empty
<1>3. /\ buf_queue_head' = Pos(buf_queue_head, 1)
      /\ buf_queue_current_len' = buf_queue_current_len - 1
      /\ element' = element
  BY <1>2 DEF buf_dequeue, Ready, Inv, Ring
<1>4. Contents' = RingSeq(element', buf_queue_head', buf_queue_current_len')
  BY <1>1 DEF Contents, RingSeq
<1>5. /\ Contents # <<>>
      /\ Head(Contents) = element[buf_queue_head]
      /\ Contents' = Tail(Contents)
  BY <1>2, <1>3, <1>4, RingTail
<1> QED
  BY <1>1, <1>5 DEF Fifo!Take, Fifo!Done, Done, buf_dequeue

(* Every step of the ring is a step of the queue or leaves it unchanged.     *)
LEMMA StepIsFifoStep ==
  ASSUME Inv, [Next]_vars
  PROVE  [Fifo!FifoNext]_(Fifo!fifoVars)
<1> USE DEF Fifo!fifoVars
<1>1. CASE InitAlready \/ EnqueueFull \/ DequeueEmpty \/ InitNodeFails
  <2>1. Opened' = Opened /\ Contents' = Contents /\ reply' = Refused
    BY <1>1 DEF InitAlready, EnqueueFull, DequeueEmpty, InitNodeFails, pointers, Ready,
       Opened, Contents, Inv, Building
  <2> QED
    BY <2>1 DEF Fifo!FifoNext, Fifo!Refuse, Fifo!Refused, Refused
<1>2. CASE InitStart
  <2>1. Opened' = Opened /\ Contents' = Contents /\ (reply' = Refused \/ reply' = reply)
    BY <1>2 DEF InitStart, Opened, Contents
  <2> QED
    BY <2>1 DEF Fifo!FifoNext, Fifo!Refuse, Fifo!Refused, Refused
<1>3. CASE InitNode \/ ExitNode \/ ExitEnd
  <2>1. ~Opened /\ ~Opened'
    BY <1>3 DEF InitNode, ExitNode, ExitEnd, Opened, Inv, Building
  <2> QED
    BY <1>3, <2>1 DEF Contents, InitNode, ExitNode, ExitEnd, Opened
<1>4. CASE InitClose
  <2>1. ~Opened /\ Opened' /\ buf_queue_current_len' = 0 /\ reply' = Done(<<>>)
    BY <1>4 DEF InitClose, Opened, Inv, Building
  <2>2. Contents' = <<>>
    BY <2>1 DEF Contents
  <2> QED
    BY <2>1, <2>2 DEF Fifo!FifoNext, Fifo!Open, Fifo!Done, Done
<1>5. CASE ExitStart
  BY <1>5 DEF ExitStart, Opened, Contents, Fifo!FifoNext, Fifo!Close, Fifo!Done, Done
<1>6. ASSUME NEW e \in Elem, buf_enqueue(e) PROVE Fifo!FifoNext
  BY <1>6, EnqueueIsPut DEF Fifo!FifoNext
<1>7. CASE buf_dequeue
  BY <1>7, DequeueIsTake DEF Fifo!FifoNext
<1>8. CASE UNCHANGED vars
  BY <1>8 DEF vars, pointers, Opened, Contents
<1> QED
  BY <1>1, <1>2, <1>3, <1>4, <1>5, <1>6, <1>7, <1>8 DEF Next

(* The ring of buf_queue.c is a first-in first-out queue: every page that    *)
(* buf_enqueue accepted is handed out by buf_dequeue once, unchanged and in  *)
(* order, and both refuse exactly when the queue is full or empty.           *)
THEOREM RingIsFifo == Spec => IsFifo
<1>1. Init => Fifo!FifoInit
  BY DEF Init, Fifo!FifoInit, Fifo!Done, Done, Opened, Contents
<1>2. Inv /\ [Next]_vars => [Fifo!FifoNext]_(Fifo!fifoVars)
  BY StepIsFifoStep
<1> QED
  BY <1>1, <1>2, InitInv, NextInv, PTL DEF Spec, IsFifo, Fifo!FifoSpec
=============================================================================
