----------------------------- MODULE GpsTaskProofs -----------------------------
(***************************************************************************)
(* Proofs about the GPS task on the UART driver, for any sizes of FIFO,    *)
(* ring buffer, queue and line buffer that the assumptions admit, and any  *)
(* stream.                                                                 *)
(***************************************************************************)
EXTENDS GpsTask, SequenceTheorems, TLAPS

-----------------------------------------------------------------------------
(* The inductive invariant.                                                *)

\* The item being copied out of the ring lies in it; nothing is held without
\* an item.
Item ==
    /\ rx_cur_remain <= Len(ring)
    /\ rx_cur_remain = 0 => held = 0

\* How far the current read has come.
Reading ==
    /\ pc = "wait" => want = 0
    /\ pc = "read" => copy_len + want = ev.size

\* The bytes an event announces, and what was announced before event i.
Announces(e) == IF e.type = "UART_DATA" THEN e.size ELSE 0
AnnBefore(i) == IF i = 1 THEN ev.ann ELSE queue[i - 1].ann

\* The events in the queue account for every byte announced.
Chain ==
    /\ \A i \in 1 .. Len(queue) :
         queue[i].ann = AnnBefore(i) + Announces(queue[i])
    /\ announced = AnnBefore(Len(queue) + 1)
    /\ ev.ann <= announced
    /\ \A i \in 1 .. Len(queue) : queue[i].ann <= announced

\* Nothing is announced that was not put into the ring, the task reads just
\* what was announced, and a lag is never made up for.
Lagged(e) == e.ann <= e.pushed /\ e.pushed - e.ann <= Lag
Account ==
    /\ popped + want = ev.ann
    /\ announced <= popped + Len(ring)
    /\ Lagged(ev)
    /\ \A i \in 1 .. Len(queue) : Lagged(queue[i])

\* The parts of the pipeline are in the order of arrival.
Ascending(s) == \A i, j \in 1 .. Len(s) : i < j => s[i] < s[j]
Below(s, t) == \A i \in 1 .. Len(s), j \in 1 .. Len(t) : s[i] < t[j]
Arrived(s) == \A i \in 1 .. Len(s) : s[i] <= arrived
Order ==
    /\ Ascending(ring) /\ Ascending(rx_fifo) /\ Below(ring, rx_fifo)
    /\ Arrived(ring) /\ Arrived(rx_fifo)
    /\ rx_buffer_full_flg =>
         /\ Ascending(stash) /\ Below(ring, stash) /\ Below(stash, rx_fifo)
         /\ Arrived(stash)

\* No byte that is still to be read belongs to a sentence before v.
FromOn(v, s) == \A i \in 1 .. Len(s) : v <= Stream[s[i]].s
NotOlder(v) ==
    /\ FromOn(v, ring) /\ FromOn(v, rx_fifo)
    /\ rx_buffer_full_flg => FromOn(v, stash)
    /\ \A n \in arrived + 1 .. MaxBytes : v <= Stream[n].s

Past ==
    /\ \A i \in LineIdx : NotOlder(line[i].s)
    /\ NotOlder(applied)
    /\ line[1].k = "bd" => applied <= line[1].s

LastByte == line[LineSize - 1].k # "nl"

GpsInv == /\ TypeOK /\ Item /\ Reading /\ Chain /\ Account
          /\ Order /\ Past /\ LastByte
-----------------------------------------------------------------------------
(* Types of the parts, in the form the proofs use them.                    *)
LEMMA SeqTypes ==
    ASSUME TypeOK
    PROVE  /\ rx_fifo \in Seq(1 .. MaxBytes) /\ stash \in Seq(1 .. MaxBytes)
           /\ ring \in Seq(1 .. MaxBytes) /\ queue \in Seq(Event)
BY DEF TypeOK, Bytes

(* Sizes and positions are numbers within their limits.                    *)
LEMMA Numbers ==
    ASSUME TypeOK
    PROVE  /\ arrived \in Nat /\ arrived <= MaxBytes /\ MaxBytes \in Nat
           /\ Len(rx_fifo) \in Nat /\ Len(rx_fifo) <= FifoLen
           /\ Len(stash) \in Nat /\ Len(stash) <= FifoLen
           /\ Len(ring) \in Nat
           /\ held \in Nat /\ held + Len(ring) <= RingSize
           /\ rd \in Nat /\ rd < RingSize /\ RingSize \in Nat /\ RingSize > 0
           /\ rx_cur_remain \in Nat /\ want \in Nat /\ want <= FifoLen
           /\ FifoLen \in Nat /\ FifoLen > 0 /\ LineSize \in Nat
           /\ LineSize > 3 /\ FifoLen < LineSize /\ FifoLen < RingSize
           /\ popped \in Nat /\ announced \in Nat
           /\ Len(queue) \in Nat /\ Len(queue) <= QueueLen
           /\ QueueLen \in Nat /\ copy_len \in Nat /\ copy_len <= FifoLen
           /\ errors \in Nat
<1>1. /\ Len(rx_fifo) \in Nat /\ Len(stash) \in Nat /\ Len(ring) \in Nat
      /\ Len(queue) \in Nat
  BY SeqTypes, LenProperties
<1>. QED  BY <1>1, UartAssumption, GpsAssumption DEF TypeOK, FreeSize

(* So are the numbers in an event.                                         *)
LEMMA EventTypesOK ==
    ASSUME TypeOK
    PROVE  /\ ev \in Event /\ ev.ann \in Nat /\ ev.pushed \in Nat
           /\ ev.size \in 0 .. FifoLen
           /\ \A i \in 1 .. Len(queue) :
                /\ queue[i] \in Event /\ queue[i].ann \in Nat
                /\ queue[i].pushed \in Nat /\ queue[i].size \in 0 .. FifoLen
<1>1. ev \in Event /\ \A i \in 1 .. Len(queue) : queue[i] \in Event
  BY SeqTypes, ElementOfSeq DEF TypeOK
<1>. QED  BY <1>1 DEF Event

(* An iteration of uart_read_bytes takes bytes off the front of the ring   *)
(* and may add the stash behind them.                                      *)
LEMMA ReadStep ==
    ASSUME TypeOK, Item, ReadIteration
    PROVE  /\ CopyLen \in Nat /\ CopyLen <= want /\ CopyLen <= Len(ring)
           /\ ItemSize \in Nat /\ CopyLen <= ItemSize /\ ItemSize <= Len(ring)
           /\ \E rest \in Seq(1 .. MaxBytes) :
                /\ Len(rest) = Len(ring) - CopyLen
                /\ \A i \in 1 .. Len(rest) : rest[i] = ring[i + CopyLen]
                /\ ring' = IF PushStash THEN rest \o stash ELSE rest
           /\ ring' \in Seq(1 .. MaxBytes)
           /\ Len(ring') = Len(ring) - CopyLen
                              + (IF PushStash THEN Len(stash) ELSE 0)
<1>0. ContiguousSize \in Nat /\ ContiguousSize <= Len(ring)
  <2>1. Len(ring) \in Nat /\ rd \in Nat /\ rd < RingSize /\ RingSize \in Nat
    BY Numbers
  <2>. QED  BY <2>1 DEF ContiguousSize
<1>1. ItemSize \in Nat /\ ItemSize <= Len(ring)
  <2>1. rx_cur_remain \in Nat
    BY Numbers
  <2>. QED  BY <1>0, <2>1 DEF ItemSize, Item
<1>2. CopyLen \in Nat /\ CopyLen <= want /\ CopyLen <= ItemSize
  <2>1. want \in Nat
    BY Numbers
  <2>. QED  BY <1>1, <2>1 DEF CopyLen
<1>3. CopyLen <= Len(ring)
  <2>1. Len(ring) \in Nat
    BY Numbers
  <2>. QED  BY <1>1, <1>2, <2>1
<1> DEFINE n == CopyLen
           rest == SubSeq(ring, n + 1, Len(ring))
<1>4. ring' = IF PushStash THEN rest \o stash ELSE rest
  BY DEF ReadIteration, CopyOut
<1> HIDE DEF n
<1>5. /\ rest \in Seq(1 .. MaxBytes) /\ Len(rest) = Len(ring) - n
      /\ \A i \in 1 .. Len(rest) : rest[i] = ring[i + n]
  <2>1. n \in Nat /\ n <= Len(ring) /\ Len(ring) \in Nat
    BY <1>2, <1>3, Numbers DEF n
  <2>2. \A i \in n + 1 .. Len(ring) : ring[i] \in 1 .. MaxBytes
    <3>1. ring \in Seq(1 .. MaxBytes)
      BY SeqTypes
    <3>2. \A i \in 1 .. Len(ring) : ring[i] \in 1 .. MaxBytes
      BY <3>1, ElementOfSeq
    <3>. QED  BY <2>1, <3>2
  <2>3. n + 1 \in Int /\ Len(ring) \in Int
    BY <2>1
  <2>4. /\ rest \in Seq(1 .. MaxBytes)
        /\ Len(rest) = IF n + 1 <= Len(ring) THEN Len(ring) - (n + 1) + 1 ELSE 0
        /\ \A i \in 1 .. Len(ring) - (n + 1) + 1 : rest[i] = ring[n + 1 + i - 1]
    BY <2>2, <2>3, SubSeqProperties
  <2>. QED  BY <2>1, <2>4
<1> HIDE DEF rest
<1>6. /\ ring' \in Seq(1 .. MaxBytes)
      /\ Len(ring') = Len(ring) - n + (IF PushStash THEN Len(stash) ELSE 0)
  <2>1. stash \in Seq(1 .. MaxBytes) /\ Len(stash) \in Nat /\ Len(ring) \in Nat
        /\ n \in Nat
    BY <1>2, SeqTypes, Numbers DEF n
  <2>2. rest \o stash \in Seq(1 .. MaxBytes)
        /\ Len(rest \o stash) = Len(rest) + Len(stash)
    BY <1>5, <2>1, ConcatProperties
  <2>3. CASE PushStash
    BY <1>4, <1>5, <2>1, <2>2, <2>3
  <2>4. CASE ~PushStash
    BY <1>4, <1>5, <2>1, <2>4
  <2>. QED  BY <2>3, <2>4
<1>. QED  BY <1>1, <1>2, <1>3, <1>4, <1>5, <1>6 DEF n

(* Sending an event, or dropping it, keeps the queue an account of what    *)
(* was announced.                                                          *)
LEMMA SendChain ==
    ASSUME TypeOK, Chain, NEW t \in EventTypes, NEW n \in 0 .. FifoLen,
           NEW m \in Nat, SendEvent(t, n, m), ev' = ev
    PROVE  /\ queue' \in Seq(Event) /\ Len(queue') <= QueueLen
           /\ announced' \in Nat /\ Chain'
           /\ \/ UNCHANGED <<queue, announced>>
              \/ /\ announced' = announced + IF t = "UART_DATA" THEN n ELSE 0
                 /\ Len(queue') = Len(queue) + 1
                 /\ \A i \in 1 .. Len(queue) : queue'[i] = queue[i]
                 /\ queue'[Len(queue) + 1].pushed = m
                 /\ queue'[Len(queue) + 1].ann = announced'
<1>0. Len(queue) <= QueueLen
  BY DEF TypeOK
<1>1. CASE Len(queue) < QueueLen
  <2> DEFINE e == [type |-> t, size |-> n, pushed |-> m, ann |-> announced']
  <2>1. /\ announced' = announced + (IF t = "UART_DATA" THEN n ELSE 0)
        /\ queue' = Append(queue, e)
    BY <1>1 DEF SendEvent
  <2>2. announced' \in Nat /\ announced <= announced'
    <3>1. announced \in Nat /\ n \in Nat
      BY Numbers
    <3>. QED  BY <2>1, <3>1
  <2>3. /\ e \in Event /\ e.pushed = m /\ e.ann = announced'
        /\ Announces(e) = IF t = "UART_DATA" THEN n ELSE 0
    BY <2>2 DEF Event, Announces
  <2> HIDE DEF e
  <2>4. /\ queue' \in Seq(Event) /\ Len(queue') = Len(queue) + 1
        /\ \A i \in 1 .. Len(queue) : queue'[i] = queue[i]
        /\ queue'[Len(queue) + 1] = e
    BY <2>1, <2>3, SeqTypes, AppendProperties
  <2>5. Len(queue) \in Nat /\ announced \in Nat /\ QueueLen \in Nat
        /\ ev.ann \in Nat
        /\ \A i \in 1 .. Len(queue) : queue[i].ann \in Nat
    BY Numbers, EventTypesOK
  <2>6. \A i \in 1 .. Len(queue) + 1 : AnnBefore(i)' = AnnBefore(i)
    BY <2>4, <2>5 DEF AnnBefore
  <2>7. Chain'
    <3>1. ASSUME NEW i \in 1 .. Len(queue')
          PROVE  /\ queue'[i].ann = AnnBefore(i)' + Announces(queue'[i])
                 /\ queue'[i].ann <= announced'
      <4>1. CASE i \in 1 .. Len(queue)
        <5>1. queue'[i] = queue[i] /\ AnnBefore(i)' = AnnBefore(i)
          BY <2>4, <2>5, <2>6, <4>1
        <5>2. queue[i].ann = AnnBefore(i) + Announces(queue[i])
              /\ queue[i].ann <= announced
          BY <4>1 DEF Chain
        <5>. QED  BY <2>2, <2>5, <4>1, <5>1, <5>2
      <4>2. CASE i = Len(queue) + 1
        <5>1. AnnBefore(i)' = announced
          BY <2>4, <2>5, <2>6, <4>2 DEF Chain
        <5>. QED  BY <2>1, <2>2, <2>3, <2>4, <4>2, <5>1
      <4>. QED  BY <2>4, <2>5, <4>1, <4>2
    <3>2. AnnBefore(Len(queue) + 1)' = announced'
      <4>1. queue'[Len(queue') + 1 - 1].ann = announced' /\ Len(queue') + 1 # 1
        BY <2>3, <2>4, <2>5
      <4>. QED  BY <4>1 DEF AnnBefore
    <3>3. ev'.ann <= announced'
      BY <2>2, <2>5 DEF Chain
    <3>. QED  BY <3>1, <3>2, <3>3 DEF Chain, Announces
  <2>. QED  BY <1>1, <2>1, <2>2, <2>3, <2>4, <2>5, <2>7
<1>2. CASE ~(Len(queue) < QueueLen)
  <2>1. UNCHANGED <<queue, announced, ev>>
    BY <1>2 DEF SendEvent
  <2>2. Chain'
    BY <2>1 DEF Chain, AnnBefore, Announces
  <2>. QED  BY <1>0, <2>1, <2>2, SeqTypes, Numbers
<1>. QED  BY <1>1, <1>2

(* A byte that arrives goes behind all others, or is lost.                 *)
LEMMA ByteInv == ASSUME GpsInv, Byte PROVE GpsInv'
<1> USE DEF GpsInv
<1>0. /\ arrived < MaxBytes /\ arrived' = arrived + 1
      /\ UNCHANGED <<rx_intr, stash, rx_buffer_full_flg, ring, rd, held,
                     rx_cur_remain, queue, want, errors, popped, announced>>
      /\ UNCHANGED <<pc, line, copy_len, ev, applied>>
  BY DEF Byte, Receive, task
<1>1. arrived \in Nat /\ MaxBytes \in Nat /\ arrived' \in 1 .. MaxBytes
  <2>1. arrived \in Nat /\ MaxBytes \in Nat
    BY Numbers
  <2>2. arrived < MaxBytes /\ arrived' = arrived + 1
    BY <1>0
  <2>. QED  BY <2>1, <2>2
<1>2. /\ rx_ovf' \in {rx_ovf, TRUE}
      /\ \/ rx_fifo' = rx_fifo
         \/ Len(rx_fifo) < FifoLen /\ rx_fifo' = Append(rx_fifo, arrived + 1)
  BY DEF Byte, Receive
<1>3. /\ rx_fifo' \in Seq(1 .. MaxBytes) /\ Len(rx_fifo') <= FifoLen
      /\ Len(rx_fifo') \in Nat
      /\ \A i \in 1 .. Len(rx_fifo') :
           \/ i \in 1 .. Len(rx_fifo) /\ rx_fifo'[i] = rx_fifo[i]
           \/ i = Len(rx_fifo) + 1 /\ rx_fifo'[i] = arrived + 1
  <2>0. /\ rx_fifo \in Seq(1 .. MaxBytes) /\ arrived + 1 \in 1 .. MaxBytes
        /\ Len(rx_fifo) \in Nat /\ FifoLen \in Nat /\ Len(rx_fifo) <= FifoLen
    BY <1>0, <1>1, SeqTypes, Numbers
  <2>1. CASE rx_fifo' = rx_fifo
    BY <2>0, <2>1
  <2>2. CASE Len(rx_fifo) < FifoLen /\ rx_fifo' = Append(rx_fifo, arrived + 1)
    <3>1. /\ rx_fifo' \in Seq(1 .. MaxBytes)
          /\ Len(rx_fifo') = Len(rx_fifo) + 1
          /\ \A i \in 1 .. Len(rx_fifo) : rx_fifo'[i] = rx_fifo[i]
          /\ rx_fifo'[Len(rx_fifo) + 1] = arrived + 1
      BY <2>0, <2>2, AppendProperties
    <3>. QED  BY <2>0, <2>2, <3>1
  <2>. QED  BY <1>2, <2>1, <2>2
<1>4. TypeOK'
  <2>1. arrived' \in 0 .. MaxBytes
    BY <1>1
  <2>2. {rx_ovf, rx_intr, rx_buffer_full_flg}' \subseteq BOOLEAN
    BY <1>0, <1>2 DEF TypeOK
  <2>3. FreeSize' = FreeSize
    BY <1>0 DEF FreeSize
  <2>. QED  BY <1>0, <1>3, <2>1, <2>2, <2>3 DEF TypeOK, Bytes
<1>5. Item' /\ Reading' /\ LastByte'
  BY <1>0 DEF Item, Reading, LastByte
<1>6. Chain' /\ Account'
  BY <1>0 DEF Chain, AnnBefore, Announces, Account, Lagged, Lag
<1>7. Order'
  <2>1. /\ Ascending(ring)' /\ Arrived(ring)'
        /\ rx_buffer_full_flg' =>
             Ascending(stash)' /\ Below(ring, stash)' /\ Arrived(stash)'
    <3>1. /\ \A i \in 1 .. Len(ring) : ring[i] \in Nat
          /\ \A i \in 1 .. Len(stash) : stash[i] \in Nat
      BY <1>1, SeqTypes, ElementOfSeq
    <3>. QED  BY <1>0, <1>1, <3>1 DEF Order, Ascending, Below, Arrived
  <2>2. /\ \A i \in 1 .. Len(rx_fifo) :
             rx_fifo[i] \in Nat /\ rx_fifo[i] <= arrived
        /\ \A i, j \in 1 .. Len(rx_fifo) : i < j => rx_fifo[i] < rx_fifo[j]
        /\ Len(rx_fifo) \in Nat
    <3>1. rx_fifo \in Seq(1 .. MaxBytes) /\ Len(rx_fifo) \in Nat
      BY SeqTypes, Numbers
    <3>2. \A i \in 1 .. Len(rx_fifo) : rx_fifo[i] \in 1 .. MaxBytes
      BY <3>1, ElementOfSeq
    <3>. QED  BY <1>1, <3>1, <3>2 DEF Order, Ascending, Arrived
  <2>3. Ascending(rx_fifo)' /\ Arrived(rx_fifo)'
    <3>1. ASSUME NEW i \in 1 .. Len(rx_fifo')
          PROVE  rx_fifo'[i] <= arrived'
      <4>1. arrived \in Nat /\ arrived' = arrived + 1
        BY <1>0, <1>1
      <4>2. \/ i \in 1 .. Len(rx_fifo) /\ rx_fifo'[i] = rx_fifo[i]
            \/ rx_fifo'[i] = arrived + 1
        BY <1>3
      <4>3. CASE rx_fifo'[i] = arrived + 1
        BY <4>1, <4>3
      <4>4. CASE i \in 1 .. Len(rx_fifo) /\ rx_fifo'[i] = rx_fifo[i]
        <5>1. rx_fifo[i] \in Nat /\ rx_fifo[i] <= arrived
          BY <2>2, <4>4
        <5>. QED  BY <4>1, <4>4, <5>1
      <4>. QED  BY <4>2, <4>3, <4>4
    <3>2. ASSUME NEW i \in 1 .. Len(rx_fifo'), NEW j \in 1 .. Len(rx_fifo'), i < j
          PROVE  rx_fifo'[i] < rx_fifo'[j]
      <4>1. i \in 1 .. Len(rx_fifo) /\ rx_fifo'[i] = rx_fifo[i]
        BY <1>3, <2>2, <3>2
      <4>2. \/ j \in 1 .. Len(rx_fifo) /\ rx_fifo'[j] = rx_fifo[j]
            \/ rx_fifo'[j] = arrived + 1
        BY <1>3
      <4>3. rx_fifo[i] \in Nat /\ rx_fifo[i] <= arrived
        BY <2>2, <4>1
      <4>4. CASE rx_fifo'[j] = arrived + 1
        BY <1>1, <4>1, <4>3, <4>4
      <4>5. CASE j \in 1 .. Len(rx_fifo) /\ rx_fifo'[j] = rx_fifo[j]
        BY <2>2, <3>2, <4>1, <4>5
      <4>. QED  BY <4>2, <4>4, <4>5
    <3>. QED  BY <3>1, <3>2 DEF Ascending, Arrived
  <2>4. ASSUME NEW q \in Seq(1 .. MaxBytes), Below(q, rx_fifo), Arrived(q)
        PROVE  \A i \in 1 .. Len(q), j \in 1 .. Len(rx_fifo') : q[i] < rx_fifo'[j]
    <3>1. \A i \in 1 .. Len(q) : q[i] \in Nat
      BY <1>1, ElementOfSeq
    <3>2. \A i \in 1 .. Len(q) : q[i] < arrived + 1
      BY <1>1, <2>4, <3>1 DEF Arrived
    <3>. QED  BY <1>3, <2>4, <3>2 DEF Below
  <2>5. Below(ring, rx_fifo)'
    BY <1>0, <2>4, SeqTypes DEF Order, Below
  <2>6. rx_buffer_full_flg' => Below(stash, rx_fifo)'
    BY <1>0, <2>4, SeqTypes DEF Order, Below
  <2>. QED  BY <2>1, <2>3, <2>5, <2>6 DEF Order
<1>8. Past'
  <2>1. ASSUME NEW v, NotOlder(v)
        PROVE  /\ \A i \in 1 .. Len(rx_fifo') : v <= Stream[rx_fifo'[i]].s
               /\ \A n \in arrived' + 1 .. MaxBytes : v <= Stream[n].s
    <3>1. arrived + 1 \in arrived + 1 .. MaxBytes
      BY <1>0, <1>1
    <3>2. v <= Stream[arrived + 1].s
      BY <2>1, <3>1 DEF NotOlder
    <3>3. \A i \in 1 .. Len(rx_fifo') : v <= Stream[rx_fifo'[i]].s
      BY <1>3, <2>1, <3>2 DEF NotOlder, FromOn
    <3>4. \A n \in arrived' + 1 .. MaxBytes : n \in arrived + 1 .. MaxBytes
      BY <1>0, <1>1
    <3>. QED  BY <2>1, <3>3, <3>4 DEF NotOlder
  <2>2. /\ \A i \in LineIdx : NotOlder(line[i].s)'
        /\ NotOlder(applied)'
    BY <1>0, <2>1 DEF Past, NotOlder, FromOn
  <2>. QED  BY <1>0, <2>2 DEF Past
<1>. QED  BY <1>4, <1>5, <1>6, <1>7, <1>8

(* What the interrupt handler moves, and the event it sends.               *)
LEMMA IsrStep ==
    ASSUME TypeOK, Isr
    PROVE  /\ UNCHANGED <<arrived, rd, held, rx_cur_remain, want, popped>>
           /\ ring' \in Seq(1 .. MaxBytes) /\ held + Len(ring') <= RingSize
           /\ \/ UNCHANGED <<queue, announced>> /\ Len(ring') = Len(ring)
              \/ \E t \in EventTypes, n \in 0 .. FifoLen :
                   /\ SendEvent(t, n, popped + Len(ring'))
                   /\ Len(ring') = Len(ring) + (IF t = "UART_DATA" THEN n ELSE 0)
           /\ \/ UNCHANGED <<ring, stash, rx_buffer_full_flg>>
                 /\ rx_fifo' \in {rx_fifo, << >>}
              \/ /\ rx_buffer_full_flg = FALSE /\ rx_buffer_full_flg' = FALSE
                 /\ rx_fifo' = << >> /\ stash' = rx_fifo
                 /\ ring' = ring \o rx_fifo
              \/ /\ rx_buffer_full_flg = FALSE /\ rx_buffer_full_flg' = TRUE
                 /\ rx_fifo' = << >> /\ stash' = rx_fifo /\ ring' = ring
           /\ rx_ovf' \in {rx_ovf, FALSE} /\ rx_intr' \in {rx_intr, FALSE}
           /\ errors' \in {errors} \cup (0 .. MaxErrors)
<1>0. /\ ring \in Seq(1 .. MaxBytes) /\ rx_fifo \in Seq(1 .. MaxBytes)
      /\ Len(ring) \in Nat /\ Len(rx_fifo) \in Nat
      /\ Len(rx_fifo) \in 0 .. FifoLen /\ 0 \in 0 .. FifoLen
      /\ held \in Nat /\ held + Len(ring) <= RingSize /\ RingSize \in Nat
      /\ popped \in Nat
  BY SeqTypes, Numbers
<1>f. rx_buffer_full_flg \in BOOLEAN
  BY DEF TypeOK
<1>1. CASE IsrRx /\ rx_buffer_full_flg
  <2>1. /\ UNCHANGED <<rx_fifo, stash, rx_buffer_full_flg, ring, queue,
                       announced, arrived, rx_ovf, rd, held, rx_cur_remain,
                       want, errors, popped>>
        /\ rx_intr' = FALSE
    BY <1>1 DEF IsrRx
  <2>. QED  BY <1>0, <2>1
<1>2. CASE IsrRx /\ ~rx_buffer_full_flg /\ CheckItemFits(rx_fifo)
  <2>1. /\ UNCHANGED <<rx_buffer_full_flg, arrived, rx_ovf, rd, held, rx_intr,
                       rx_cur_remain, want, errors, popped>>
        /\ stash' = rx_fifo /\ rx_fifo' = << >> /\ ring' = ring \o rx_fifo
        /\ SendEvent("UART_DATA", Len(rx_fifo),
                     popped + Len(ring) + Len(rx_fifo))
    BY <1>2 DEF IsrRx
  <2>2. ring' \in Seq(1 .. MaxBytes) /\ Len(ring') = Len(ring) + Len(rx_fifo)
    BY <1>0, <2>1, ConcatProperties
  <2>3. held + Len(ring') <= RingSize
    BY <1>0, <1>2, <2>2 DEF CheckItemFits, FreeSize
  <2>4. popped + Len(ring) + Len(rx_fifo) = popped + Len(ring')
    BY <1>0, <2>2
  <2>5. SendEvent("UART_DATA", Len(rx_fifo), popped + Len(ring'))
    BY <2>1, <2>4
  <2>6. \E t \in EventTypes, n \in 0 .. FifoLen :
          /\ SendEvent(t, n, popped + Len(ring'))
          /\ Len(ring') = Len(ring) + (IF t = "UART_DATA" THEN n ELSE 0)
    <3>1. "UART_DATA" \in EventTypes
      BY DEF EventTypes
    <3>. QED  BY <1>0, <2>2, <2>5, <3>1
  <2>7. rx_buffer_full_flg = FALSE /\ rx_buffer_full_flg' = FALSE
    BY <1>f, <1>2, <2>1
  <2>. QED  BY <2>1, <2>2, <2>3, <2>6, <2>7
<1>3. CASE IsrRx /\ ~rx_buffer_full_flg /\ ~CheckItemFits(rx_fifo)
  <2>1. /\ UNCHANGED <<arrived, rx_ovf, rd, held, rx_cur_remain, want, errors,
                       popped, ring>>
        /\ rx_buffer_full_flg' = TRUE /\ rx_intr' = FALSE
        /\ stash' = rx_fifo /\ rx_fifo' = << >>
        /\ SendEvent("UART_BUFFER_FULL", Len(rx_fifo), popped + Len(ring))
    BY <1>3 DEF IsrRx
  <2>2. \E t \in EventTypes, n \in 0 .. FifoLen :
          /\ SendEvent(t, n, popped + Len(ring'))
          /\ Len(ring') = Len(ring) + (IF t = "UART_DATA" THEN n ELSE 0)
    <3>1. "UART_BUFFER_FULL" \in EventTypes /\ "UART_BUFFER_FULL" # "UART_DATA"
          /\ Len(ring) + 0 = Len(ring)
      BY <1>0 DEF EventTypes
    <3>. QED  BY <1>0, <2>1, <3>1
  <2>3. rx_buffer_full_flg = FALSE
    BY <1>f, <1>3
  <2>. QED  BY <1>0, <2>1, <2>2, <2>3
<1>4. CASE IsrOverflow
  <2>1. /\ UNCHANGED <<arrived, rx_intr, stash, rx_buffer_full_flg, ring, rd,
                       held, rx_cur_remain, want, errors, popped>>
        /\ rx_fifo' = << >> /\ rx_ovf' = FALSE
        /\ SendEvent("UART_FIFO_OVF", 0, popped + Len(ring))
    BY <1>4 DEF IsrOverflow
  <2>2. "UART_FIFO_OVF" \in EventTypes /\ "UART_FIFO_OVF" # "UART_DATA"
        /\ Len(ring) + 0 = Len(ring)
    BY <1>0 DEF EventTypes
  <2>. QED  BY <1>0, <2>1, <2>2
<1>5. CASE IsrLineError
  <2>1. /\ UNCHANGED <<arrived, rx_fifo, rx_ovf, rx_intr, stash,
                       rx_buffer_full_flg, ring, rd, held, rx_cur_remain, want,
                       popped>>
        /\ SendEvent("UART_ERR", 0, popped + Len(ring))
        /\ errors < MaxErrors /\ errors' = errors + 1
    BY <1>5 DEF IsrLineError
  <2>2. "UART_ERR" \in EventTypes /\ "UART_ERR" # "UART_DATA"
        /\ Len(ring) + 0 = Len(ring)
    BY <1>0 DEF EventTypes
  <2>3. errors' \in 0 .. MaxErrors
    <3>1. errors \in Nat /\ MaxErrors \in Nat
      BY Numbers, UartAssumption
    <3>. QED  BY <2>1, <3>1
  <2>. QED  BY <1>0, <2>1, <2>2, <2>3
<1>. QED  BY <1>1, <1>2, <1>3, <1>4, <1>5 DEF Isr

(* An element of a concatenation is one of either part.                    *)
LEMMA ConcatElement ==
    ASSUME NEW S, NEW a \in Seq(S), NEW b \in Seq(S), NEW i \in 1 .. Len(a \o b)
    PROVE  \/ i \in 1 .. Len(a) /\ (a \o b)[i] = a[i]
           \/ i - Len(a) \in 1 .. Len(b) /\ (a \o b)[i] = b[i - Len(a)]
<1>1. Len(a) \in Nat /\ Len(b) \in Nat
  BY LenProperties
<1>2. /\ Len(a \o b) = Len(a) + Len(b)
      /\ \A j \in 1 .. Len(a) + Len(b) :
           (a \o b)[j] = IF j <= Len(a) THEN a[j] ELSE b[j - Len(a)]
  BY ConcatProperties
<1>. QED  BY <1>1, <1>2

(* Two ascending sequences, one below the other, make an ascending one.    *)
LEMMA ConcatAscending ==
    ASSUME NEW a \in Seq(1 .. MaxBytes), NEW b \in Seq(1 .. MaxBytes),
           Ascending(a), Ascending(b), Below(a, b)
    PROVE  Ascending(a \o b)
<1> SUFFICES ASSUME NEW i \in 1 .. Len(a \o b), NEW j \in 1 .. Len(a \o b), i < j
             PROVE  (a \o b)[i] < (a \o b)[j]
  BY DEF Ascending
<1>0. Len(a) \in Nat
  BY LenProperties
<1>1. /\ \/ i \in 1 .. Len(a) /\ (a \o b)[i] = a[i]
         \/ i - Len(a) \in 1 .. Len(b) /\ (a \o b)[i] = b[i - Len(a)]
      /\ \/ j \in 1 .. Len(a) /\ (a \o b)[j] = a[j]
         \/ j - Len(a) \in 1 .. Len(b) /\ (a \o b)[j] = b[j - Len(a)]
  BY ConcatElement
<1>2. CASE j \in 1 .. Len(a) /\ (a \o b)[j] = a[j]
  <2>1. i \in 1 .. Len(a) /\ (a \o b)[i] = a[i]
    BY <1>0, <1>1, <1>2
  <2>. QED  BY <1>2, <2>1 DEF Ascending
<1>3. CASE j - Len(a) \in 1 .. Len(b) /\ (a \o b)[j] = b[j - Len(a)]
  <2>1. CASE i \in 1 .. Len(a) /\ (a \o b)[i] = a[i]
    BY <1>3, <2>1 DEF Below
  <2>2. CASE i - Len(a) \in 1 .. Len(b) /\ (a \o b)[i] = b[i - Len(a)]
    <3>1. i - Len(a) < j - Len(a)
      BY <1>0
    <3>. QED  BY <1>3, <2>2, <3>1 DEF Ascending
  <2>. QED  BY <1>1, <2>1, <2>2
<1>. QED  BY <1>1, <1>2, <1>3

(* What holds of both parts holds of the concatenation.                    *)
LEMMA ConcatBelow ==
    ASSUME NEW a \in Seq(1 .. MaxBytes), NEW b \in Seq(1 .. MaxBytes)
    PROVE  /\ \A c : Below(a, c) /\ Below(b, c) => Below(a \o b, c)
           /\ Arrived(a) /\ Arrived(b) => Arrived(a \o b)
           /\ \A v : FromOn(v, a) /\ FromOn(v, b) => FromOn(v, a \o b)
<1>1. \A i \in 1 .. Len(a \o b) :
        \/ \E m \in 1 .. Len(a) : (a \o b)[i] = a[m]
        \/ \E m \in 1 .. Len(b) : (a \o b)[i] = b[m]
  BY ConcatElement
<1>. QED  BY <1>1 DEF Below, Arrived, FromOn

(* The interrupt handler keeps the invariant, also when the ring or the    *)
(* queue is full.                                                          *)
LEMMA InterruptInv == ASSUME GpsInv, Interrupt PROVE GpsInv'
<1> USE DEF GpsInv
<1>0. Isr /\ UNCHANGED <<pc, line, copy_len, ev, applied>>
  BY DEF Interrupt, task
<1>1. /\ UNCHANGED <<arrived, rd, held, rx_cur_remain, want, popped>>
      /\ ring' \in Seq(1 .. MaxBytes) /\ held + Len(ring') <= RingSize
      /\ rx_ovf' \in {rx_ovf, FALSE} /\ rx_intr' \in {rx_intr, FALSE}
      /\ errors' \in {errors} \cup (0 .. MaxErrors)
  BY <1>0, IsrStep
<1>2. \/ UNCHANGED <<queue, announced>> /\ Len(ring') = Len(ring)
      \/ \E t \in EventTypes, n \in 0 .. FifoLen :
           /\ SendEvent(t, n, popped + Len(ring'))
           /\ Len(ring') = Len(ring) + (IF t = "UART_DATA" THEN n ELSE 0)
  BY <1>0, IsrStep
<1>3. \/ UNCHANGED <<ring, stash, rx_buffer_full_flg>>
         /\ rx_fifo' \in {rx_fifo, << >>}
      \/ /\ rx_buffer_full_flg = FALSE /\ rx_buffer_full_flg' = FALSE
         /\ rx_fifo' = << >> /\ stash' = rx_fifo
         /\ ring' = ring \o rx_fifo
      \/ /\ rx_buffer_full_flg = FALSE /\ rx_buffer_full_flg' = TRUE
         /\ rx_fifo' = << >> /\ stash' = rx_fifo /\ ring' = ring
  BY <1>0, IsrStep
<1>n. /\ Len(ring) \in Nat /\ Len(ring') \in Nat /\ popped \in Nat
      /\ announced \in Nat /\ FifoLen \in Nat /\ RingSize \in Nat
      /\ held \in Nat /\ Len(queue) \in Nat
  BY <1>1, Numbers, LenProperties
<1>s. /\ ring \in Seq(1 .. MaxBytes) /\ rx_fifo \in Seq(1 .. MaxBytes)
      /\ stash \in Seq(1 .. MaxBytes)
  BY SeqTypes
<1>e. Len(<< >>) = 0 /\ << >> \in Seq(1 .. MaxBytes)
  BY EmptySeq
<1>4. /\ Len(ring) <= Len(ring') /\ announced' \in Nat /\ Chain'
      /\ queue' \in Seq(Event) /\ Len(queue') <= QueueLen /\ Account'
  <2>1. CASE UNCHANGED <<queue, announced>> /\ Len(ring') = Len(ring)
    <3>1. Chain'
      BY <1>0, <2>1 DEF Chain, AnnBefore, Announces
    <3>2. Account'
      BY <1>0, <1>1, <2>1 DEF Account, Lagged, Lag
    <3>3. Len(ring) <= Len(ring') /\ announced' \in Nat
      BY <1>n, <2>1
    <3>4. queue' \in Seq(Event) /\ Len(queue') <= QueueLen
      BY <2>1, SeqTypes, Numbers
    <3>. QED  BY <3>1, <3>2, <3>3, <3>4
  <2>2. ASSUME NEW t \in EventTypes, NEW n \in 0 .. FifoLen,
               SendEvent(t, n, popped + Len(ring')),
               Len(ring') = Len(ring) + (IF t = "UART_DATA" THEN n ELSE 0)
        PROVE  /\ Len(ring) <= Len(ring') /\ announced' \in Nat /\ Chain'
               /\ queue' \in Seq(Event) /\ Len(queue') <= QueueLen /\ Account'
    <3> DEFINE m == popped + Len(ring')
               d == IF t = "UART_DATA" THEN n ELSE 0
    <3>0. m \in Nat /\ d \in Nat
      BY <1>n
    <3>1. SendEvent(t, n, m) /\ ev' = ev /\ Len(ring') = Len(ring) + d
      BY <1>0, <2>2
    <3>m. m = popped + Len(ring')
      OBVIOUS
    <3> HIDE DEF m
    <3>2. /\ queue' \in Seq(Event) /\ Len(queue') <= QueueLen
          /\ announced' \in Nat /\ Chain'
          /\ \/ UNCHANGED <<queue, announced>>
             \/ /\ announced' = announced + d
                /\ Len(queue') = Len(queue) + 1
                /\ \A i \in 1 .. Len(queue) : queue'[i] = queue[i]
                /\ queue'[Len(queue) + 1].pushed = m
                /\ queue'[Len(queue) + 1].ann = announced'
      BY <3>0, <3>1, SendChain
    <3> HIDE DEF d
    <3>3. announced' \in {announced, announced + d}
      BY <3>2
    <3>4. /\ Lag' = popped + Len(ring) + d - announced'
          /\ Lag = popped + Len(ring) - announced
          /\ announced' <= popped' + Len(ring') /\ Lag <= Lag'
          /\ Lag \in Int /\ Lag' \in Int
      <4>1. Lag' = popped + Len(ring) + d - announced'
        <5>1. popped' = popped /\ Len(ring') = Len(ring) + d
          BY <1>1, <3>1
        <5>2. /\ popped \in Nat /\ Len(ring) \in Nat /\ d \in Nat
              /\ announced' \in Nat
          BY <1>n, <3>0, <3>2
        <5>. QED  BY <5>1, <5>2 DEF Lag
      <4>2. announced <= popped + Len(ring)
        BY DEF Account
      <4>3. Lag = popped + Len(ring) - announced
        BY DEF Lag
      <4>4. /\ popped \in Nat /\ Len(ring) \in Nat /\ announced \in Nat
            /\ d \in Nat
        BY <1>n, <3>0
      <4>5. popped' = popped /\ Len(ring') = Len(ring) + d
        BY <1>1, <3>1
      <4>6. announced' \in Nat /\ announced' <= announced + d
        BY <3>3, <4>4
      <4>7. Lag \in Int /\ Lag' \in Int /\ Lag <= Lag'
        BY <4>1, <4>3, <4>4, <4>6
      <4>8. announced' <= popped' + Len(ring')
        BY <4>2, <4>4, <4>5, <4>6
      <4>. QED  BY <4>1, <4>3, <4>7, <4>8
    <3>5. ASSUME NEW e \in Event, Lagged(e)
          PROVE  e.ann <= e.pushed /\ e.pushed - e.ann <= Lag'
      <4>1. e.ann \in Nat /\ e.pushed \in Nat
        BY DEF Event
      <4>. QED  BY <3>4, <3>5, <4>1 DEF Lagged
    <3>6. Lagged(ev)'
      BY <3>1, <3>5, EventTypesOK DEF Account, Lagged
    <3>7. ASSUME NEW i \in 1 .. Len(queue')
          PROVE  queue'[i].ann <= queue'[i].pushed
                 /\ queue'[i].pushed - queue'[i].ann <= Lag'
      <4>1. ASSUME NEW k \in 1 .. Len(queue)
            PROVE  queue[k].ann <= queue[k].pushed
                   /\ queue[k].pushed - queue[k].ann <= Lag'
        BY <3>5, EventTypesOK DEF Account
      <4>2. CASE UNCHANGED <<queue, announced>>
        BY <4>1, <4>2
      <4>3. CASE i \in 1 .. Len(queue) /\ queue'[i] = queue[i]
        BY <4>1, <4>3
      <4>4. CASE queue'[i].pushed = m /\ queue'[i].ann = announced'
        <5>1. m = popped + Len(ring) + d /\ announced' \in Nat
          BY <1>n, <3>0, <3>1, <3>2, <3>m
        <5>2. Lag' = m - announced' /\ announced' <= m
          BY <1>1, <1>n, <3>0, <3>4, <3>m, <5>1
        <5>. QED  BY <3>0, <4>4, <5>1, <5>2
      <4>. QED  BY <1>n, <3>2, <4>2, <4>3, <4>4
    <3>8. popped' + want' = ev'.ann
      BY <1>0, <1>1 DEF Account
    <3>9. Account'
      BY <3>4, <3>6, <3>7, <3>8 DEF Account, Lagged
    <3>10. Len(ring) <= Len(ring')
      BY <1>n, <3>0, <3>1
    <3>. QED  BY <3>2, <3>9, <3>10
  <2>. QED  BY <1>2, <2>1, <2>2
<1>5. /\ rx_fifo' \in Seq(1 .. MaxBytes) /\ Len(rx_fifo') <= FifoLen
      /\ stash' \in Seq(1 .. MaxBytes) /\ Len(stash') <= FifoLen
  <2>1. Len(rx_fifo) <= FifoLen /\ Len(stash) <= FifoLen /\ 0 <= FifoLen
    BY Numbers
  <2>. QED  BY <1>3, <1>s, <1>e, <2>1
<1>6. TypeOK'
  <2>1. {rx_ovf, rx_intr, rx_buffer_full_flg}' \subseteq BOOLEAN
    <3>1. {rx_ovf, rx_intr, rx_buffer_full_flg} \subseteq BOOLEAN
      BY DEF TypeOK
    <3>2. rx_buffer_full_flg' \in {rx_buffer_full_flg, TRUE, FALSE}
      BY <1>3
    <3>. QED  BY <1>1, <3>1, <3>2
  <2>2. FreeSize' >= 0
    BY <1>1, <1>n DEF FreeSize
  <2>3. errors' \in 0 .. MaxErrors
    BY <1>1 DEF TypeOK
  <2>. QED
    BY <1>0, <1>1, <1>4, <1>5, <2>1, <2>2, <2>3 DEF TypeOK, Bytes
<1>7. Item' /\ Reading' /\ LastByte'
  <2>1. rx_cur_remain <= Len(ring')
    <3>1. rx_cur_remain \in Nat /\ rx_cur_remain <= Len(ring)
      BY Numbers DEF Item
    <3>. QED  BY <1>n, <1>4, <3>1
  <2>. QED  BY <1>0, <1>1, <2>1 DEF Item, Reading, LastByte
<1>8. Order'
  <2>0. \A q : /\ Below(q, << >>) /\ Ascending(<< >>) /\ Arrived(<< >>)
    BY <1>e DEF Below, Ascending, Arrived
  <2>1. \A q : Arrived(q) => (\A i \in 1 .. Len(q) : q[i] <= arrived')
    BY <1>1 DEF Arrived
  <2>2. CASE UNCHANGED <<ring, stash, rx_buffer_full_flg>>
             /\ rx_fifo' \in {rx_fifo, << >>}
    <3>1. Ascending(rx_fifo') /\ Below(ring, rx_fifo') /\ Arrived(rx_fifo')
          /\ (rx_buffer_full_flg => Below(stash, rx_fifo'))
      BY <2>0, <2>2 DEF Order
    <3>. QED  BY <1>1, <2>1, <2>2, <3>1 DEF Order, Ascending, Below, Arrived
  <2>3. CASE /\ rx_buffer_full_flg = FALSE /\ rx_buffer_full_flg' = FALSE
             /\ rx_fifo' = << >> /\ stash' = rx_fifo
             /\ ring' = ring \o rx_fifo
    <3>1. Ascending(ring') /\ Arrived(ring')
      <4>1. /\ Ascending(ring) /\ Ascending(rx_fifo) /\ Below(ring, rx_fifo)
            /\ Arrived(ring) /\ Arrived(rx_fifo)
        BY DEF Order
      <4>2. Ascending(ring \o rx_fifo)
        BY <1>s, <4>1, ConcatAscending
      <4>3. Arrived(ring \o rx_fifo)
        BY <1>s, <4>1, ConcatBelow
      <4>. QED  BY <2>3, <4>2, <4>3
    <3>2. Ascending(rx_fifo') /\ Below(ring', rx_fifo') /\ Arrived(rx_fifo')
      BY <2>0, <2>3
    <3>. QED  BY <1>1, <2>1, <2>3, <3>1, <3>2 DEF Order, Ascending, Below, Arrived
  <2>4. CASE /\ rx_buffer_full_flg = FALSE /\ rx_buffer_full_flg' = TRUE
             /\ rx_fifo' = << >> /\ stash' = rx_fifo /\ ring' = ring
    <3>1. /\ Ascending(rx_fifo') /\ Below(ring', rx_fifo') /\ Arrived(rx_fifo')
          /\ Ascending(stash') /\ Below(ring', stash') /\ Arrived(stash')
          /\ Below(stash', rx_fifo') /\ Ascending(ring') /\ Arrived(ring')
      BY <2>0, <2>4 DEF Order
    <3>. QED  BY <1>1, <2>1, <3>1 DEF Order, Ascending, Below, Arrived
  <2>. QED  BY <1>3, <2>2, <2>3, <2>4
<1>9. Past'
  <2>1. ASSUME NEW v, NotOlder(v)
        PROVE  /\ FromOn(v, ring') /\ FromOn(v, rx_fifo')
               /\ rx_buffer_full_flg' => FromOn(v, stash')
               /\ \A n \in arrived' + 1 .. MaxBytes : v <= Stream[n].s
    <3>1. FromOn(v, ring) /\ FromOn(v, rx_fifo) /\ FromOn(v, << >>)
          /\ (rx_buffer_full_flg => FromOn(v, stash))
          /\ \A n \in arrived' + 1 .. MaxBytes : v <= Stream[n].s
      BY <1>1, <1>e, <2>1 DEF NotOlder, FromOn
    <3>2. FromOn(v, ring \o rx_fifo)
      BY <1>s, <3>1, ConcatBelow
    <3>3. CASE UNCHANGED <<ring, stash, rx_buffer_full_flg>>
               /\ rx_fifo' \in {rx_fifo, << >>}
      BY <3>1, <3>3
    <3>4. CASE /\ rx_buffer_full_flg' = FALSE /\ rx_fifo' = << >>
               /\ ring' = ring \o rx_fifo
      BY <3>1, <3>2, <3>4
    <3>5. CASE rx_fifo' = << >> /\ stash' = rx_fifo /\ ring' = ring
      BY <3>1, <3>5
    <3>. QED  BY <1>3, <3>3, <3>4, <3>5
  <2>2. /\ \A i \in LineIdx : NotOlder(line[i].s)'
        /\ NotOlder(applied)'
    BY <1>0, <2>1 DEF Past, NotOlder, FromOn
  <2>. QED  BY <1>0, <2>2 DEF Past
<1>. QED  BY <1>4, <1>6, <1>7, <1>8, <1>9

(* Taking an event from the queue starts a read of just the bytes that the *)
(* event announces.                                                        *)
LEMMA ReceiveEventInv == ASSUME GpsInv, ReceiveEvent PROVE GpsInv'
<1> USE DEF GpsInv
<1> DEFINE e == Head(queue)
<1>1. /\ pc = "wait" /\ queue # << >> /\ ev' = e /\ queue' = Tail(queue)
      /\ IF HasData(e) THEN pc' = "read" /\ want' = e.size % LineSize
                       ELSE UNCHANGED <<pc, want>>
      /\ copy_len' = 0
  BY DEF ReceiveEvent, TakeEvent
<1>2. UNCHANGED <<arrived, rx_fifo, rx_ovf, rx_intr, stash,
                  rx_buffer_full_flg, ring, rd, held, rx_cur_remain, errors,
                  popped, announced, line, applied>>
  BY DEF ReceiveEvent, TakeEvent
<1>3. /\ e \in Event /\ queue' \in Seq(Event) /\ Len(queue') = Len(queue) - 1
      /\ \A i \in 1 .. Len(queue') : queue'[i] = queue[i + 1]
      /\ e = queue[1] /\ Len(queue) \in Nat \ {0}
  <2>1. queue \in Seq(Event) /\ queue # << >>
    BY <1>1, SeqTypes
  <2>2. Len(queue) \in Nat \ {0}
    BY <2>1, EmptySeq
  <2>3. e = queue[1]
    BY <2>1
  <2>. QED  BY <1>1, <2>1, <2>2, <2>3, HeadTailProperties
<1> HIDE DEF e
<1>4. /\ e.ann \in Nat /\ e.size \in Nat /\ e.size <= FifoLen
      /\ ev.ann \in Nat /\ FifoLen \in Nat /\ LineSize \in Nat
      /\ FifoLen < LineSize /\ popped \in Nat
  <2>1. e.ann \in Nat /\ e.size \in 0 .. FifoLen
    BY <1>3 DEF Event
  <2>2. FifoLen \in Nat /\ LineSize \in Nat /\ FifoLen < LineSize
        /\ popped \in Nat
    BY Numbers
  <2>3. ev.ann \in Nat
    BY EventTypesOK
  <2>. QED  BY <2>1, <2>2, <2>3
<1>5. want = 0 /\ popped = ev.ann
  BY <1>1, <1>4 DEF Reading, Account
<1>6. /\ want' = Announces(e) /\ want' \in 0 .. FifoLen
      /\ pc' \in {"wait", "read"} /\ Reading'
  <2>1. CASE HasData(e)
    <3>1. e.size % LineSize = e.size
      BY <1>4
    <3>2. want' = e.size /\ pc' = "read" /\ Announces(e) = e.size
      BY <1>1, <2>1, <3>1 DEF HasData, Announces
    <3>. QED  BY <1>1, <1>4, <3>2 DEF Reading
  <2>2. CASE ~HasData(e)
    <3>1. want' = 0 /\ pc' = "wait" /\ Announces(e) = 0
      BY <1>1, <1>5, <2>2 DEF HasData, Announces
    <3>. QED  BY <1>4, <3>1 DEF Reading
  <2>. QED  BY <2>1, <2>2
<1>7. e.ann = popped + want'
  <2>1. e.ann = ev.ann + Announces(e)
    BY <1>3 DEF Chain, AnnBefore
  <2>. QED  BY <1>5, <1>6, <2>1
<1>8. TypeOK'
  <2>1. Len(queue') <= QueueLen /\ 0 \in 0 .. FifoLen
    <3>1. Len(queue) <= QueueLen /\ QueueLen \in Nat
      BY Numbers
    <3>. QED  BY <1>3, <1>4, <3>1
  <2>2. FreeSize' = FreeSize
    BY <1>2 DEF FreeSize
  <2>3. {rx_ovf, rx_intr, rx_buffer_full_flg}' \subseteq BOOLEAN
    BY <1>2 DEF TypeOK
  <2>. QED  BY <1>1, <1>2, <1>3, <1>6, <2>1, <2>2, <2>3 DEF TypeOK, Bytes
<1>9. Chain'
  <2>1. \A i \in 1 .. Len(queue') + 1 : AnnBefore(i)' = AnnBefore(i + 1)
    <3> SUFFICES ASSUME NEW i \in 1 .. Len(queue') + 1
                 PROVE  (IF i = 1 THEN ev'.ann ELSE queue'[i - 1].ann)
                            = IF i + 1 = 1 THEN ev.ann ELSE queue[i + 1 - 1].ann
      BY DEF AnnBefore
    <3>1. i \in Nat /\ i + 1 # 1 /\ i + 1 - 1 = i
      BY <1>3
    <3>2. CASE i = 1
      BY <1>1, <1>3, <3>1, <3>2
    <3>3. CASE i # 1
      <4>1. i - 1 \in 1 .. Len(queue') /\ i - 1 + 1 = i
        BY <1>3, <3>1, <3>3
      <4>. QED  BY <1>3, <3>1, <3>3, <4>1
    <3>. QED  BY <3>2, <3>3
  <2>2. ASSUME NEW i \in 1 .. Len(queue')
        PROVE  /\ queue'[i].ann = AnnBefore(i)' + Announces(queue'[i])
               /\ queue'[i].ann <= announced'
    <3>1. i + 1 \in 1 .. Len(queue) /\ queue'[i] = queue[i + 1]
          /\ i \in 1 .. Len(queue') + 1
      BY <1>3
    <3>. QED  BY <1>2, <2>1, <3>1 DEF Chain
  <2>3. announced' = IF Len(queue') + 1 = 1 THEN ev'.ann
                     ELSE queue'[Len(queue') + 1 - 1].ann
    <3>1. PICK n \in 1 .. Len(queue') + 1 : n = Len(queue') + 1
      BY <1>3
    <3>2. AnnBefore(n)' = AnnBefore(n + 1) /\ n + 1 = Len(queue) + 1
      BY <1>3, <2>1, <3>1
    <3>3. announced' = AnnBefore(n)'
      BY <1>2, <3>2 DEF Chain
    <3>. QED  BY <3>1, <3>3 DEF AnnBefore
  <2>4. ev'.ann <= announced'
    <3>1. 1 \in 1 .. Len(queue)
      BY <1>3
    <3>. QED  BY <1>1, <1>2, <1>3, <3>1 DEF Chain
  <2>. QED  BY <2>2, <2>3, <2>4 DEF Chain, AnnBefore, Announces
<1>10. Account'
  <2>1. Lag' = Lag
    BY <1>2 DEF Lag
  <2>2. \A i \in 1 .. Len(queue') : Lagged(queue[i + 1])
    BY <1>3 DEF Account
  <2>3. Lagged(e)
    BY <1>3 DEF Account
  <2>. QED  BY <1>1, <1>2, <1>3, <1>7, <2>1, <2>2, <2>3 DEF Account, Lagged
<1>11. Item' /\ LastByte'
  BY <1>2 DEF Item, LastByte
<1>12. Order' /\ Past'
  BY <1>2 DEF Order, Ascending, Below, Arrived, Past, NotOlder, FromOn
<1>. QED  BY <1>6, <1>8, <1>9, <1>10, <1>11, <1>12

(* Sentences in the stream are numbered in their order.                    *)
LEMMA StreamOrder ==
    ASSUME NEW i \in 1 .. MaxBytes, NEW j \in 1 .. MaxBytes, i < j
    PROVE  Stream[i].s <= Stream[j].s
BY GpsAssumption

(* Acting upon a line never goes back to an older sentence.                *)
LEMMA HandleLineForward ==
    ASSUME GpsInv, HandleLine
    PROVE  /\ line' \in [LineIdx -> Tokens]
           /\ \A i \in LineIdx : line'[i] \in {Nul, line[i]}
           /\ applied' \in Nat /\ applied \in Nat
           /\ applied' = applied \/ applied' = line[1].s
           /\ line'[1].k = "bd" => applied' <= line'[1].s
           /\ applied <= applied'
<1> USE DEF GpsInv
<1>2. /\ LineSize \in Nat /\ LineSize > 3 /\ 1 \in LineIdx
      /\ LineSize - 1 \in LineIdx /\ line \in [LineIdx -> Tokens]
  BY GpsAssumption DEF LineIdx, TypeOK
<1>3. \/ UNCHANGED <<line, applied>>
      \/ /\ line' = Terminated
         /\ \/ applied' = applied
            \/ applied' = line'[1].s /\ line'[1].k = "bd"
  BY DEF HandleLine, RmcIn
<1>4. Nul \in Tokens /\ Nul.s = 0 /\ Nul.k = "nul"
  BY DEF Nul, Tokens
<1>5. \A i \in LineIdx : Terminated[i] \in {Nul, line[i]}
  BY DEF Terminated
<1>6. /\ line' \in [LineIdx -> Tokens]
      /\ \A i \in LineIdx : line'[i] \in {Nul, line[i]}
  <2>1. Terminated \in [LineIdx -> Tokens]
    BY <1>2, <1>4 DEF Terminated
  <2>. QED  BY <1>2, <1>3, <1>5, <2>1
<1>7. applied' \in Nat /\ applied \in Nat
      /\ (applied' = applied \/ applied' = line[1].s)
      /\ (line'[1].k = "bd" => applied' <= line'[1].s)
      /\ applied <= applied'
  <2>1. applied \in Nat /\ line[1].s \in Nat
    BY <1>2 DEF TypeOK, Tokens
  <2>2. line'[1] = Nul \/ line'[1] = line[1]
    BY <1>2, <1>6
  <2>3. line'[1].k = "bd" => line'[1] = line[1]
    BY <1>4, <2>2
  <2>4. line'[1] = line[1] /\ line'[1].k = "bd" => applied <= line[1].s
    BY DEF Past
  <2>5. CASE applied' = applied
    BY <2>1, <2>3, <2>4, <2>5
  <2>6. CASE applied' = line'[1].s /\ line'[1].k = "bd"
    BY <2>1, <2>3, <2>4, <2>6
  <2>. QED  BY <1>3, <2>5, <2>6
<1>. QED  BY <1>6, <1>7

(* Handling the line changes neither the driver nor the account.           *)
LEMMA HandleLineInv == ASSUME GpsInv, HandleLine PROVE GpsInv'
<1> USE DEF GpsInv
<1>1. /\ UNCHANGED <<arrived, rx_fifo, rx_ovf, rx_intr, stash,
                     rx_buffer_full_flg, ring, rd, held, rx_cur_remain, queue,
                     want, errors, popped, announced>>
      /\ UNCHANGED <<copy_len, ev>> /\ pc' = "wait" /\ want = 0
  BY DEF HandleLine, driver
<1>2. /\ LineSize - 1 \in LineIdx /\ 1 \in LineIdx
      /\ Nul.s = 0 /\ Nul.k = "nul"
  BY GpsAssumption DEF LineIdx, Nul
<1>6. /\ line' \in [LineIdx -> Tokens]
      /\ \A i \in LineIdx : line'[i] \in {Nul, line[i]}
  BY HandleLineForward
<1>7. /\ applied' \in Nat
      /\ applied' = applied \/ applied' = line[1].s
      /\ line'[1].k = "bd" => applied' <= line'[1].s
  BY HandleLineForward
<1>8. TypeOK'
  <2>1. FreeSize' = FreeSize
    BY <1>1 DEF FreeSize
  <2>2. {rx_ovf, rx_intr, rx_buffer_full_flg}' \subseteq BOOLEAN
    BY <1>1 DEF TypeOK
  <2>. QED  BY <1>1, <1>6, <1>7, <2>1, <2>2 DEF TypeOK, Bytes
<1>9. Item' /\ Reading' /\ LastByte'
  BY <1>1, <1>2, <1>6 DEF Item, Reading, LastByte
<1>10. Chain' /\ Account'
  BY <1>1 DEF Chain, AnnBefore, Announces, Account, Lagged, Lag
<1>11. Order'
  BY <1>1 DEF Order, Ascending, Below, Arrived
<1>12. Past'
  <2>1. NotOlder(0)
    <3>1. \A n \in 1 .. MaxBytes : Stream[n].s \in Nat
      BY GpsAssumption
    <3>2. arrived \in Nat /\ MaxBytes \in Nat
      BY Numbers
    <3>3. /\ \A i \in 1 .. Len(ring) : ring[i] \in 1 .. MaxBytes
          /\ \A i \in 1 .. Len(rx_fifo) : rx_fifo[i] \in 1 .. MaxBytes
          /\ \A i \in 1 .. Len(stash) : stash[i] \in 1 .. MaxBytes
      BY SeqTypes, ElementOfSeq
    <3>4. \A n \in arrived + 1 .. MaxBytes : n \in 1 .. MaxBytes
      BY <3>2
    <3>. QED  BY <3>1, <3>3, <3>4 DEF NotOlder, FromOn
  <2>2. \A v : NotOlder(v) => /\ FromOn(v, ring') /\ FromOn(v, rx_fifo')
                              /\ rx_buffer_full_flg' => FromOn(v, stash')
                              /\ \A n \in arrived' + 1 .. MaxBytes :
                                   v <= Stream[n].s
    BY <1>1 DEF NotOlder
  <2>3. ASSUME NEW i \in LineIdx PROVE NotOlder(line'[i].s)
    BY <1>2, <1>6, <2>1 DEF Past
  <2>4. NotOlder(applied')
    BY <1>2, <1>7 DEF Past
  <2>5. /\ \A i \in LineIdx : NotOlder(line[i].s)'
        /\ NotOlder(applied)'
    BY <2>2, <2>3, <2>4 DEF NotOlder, FromOn
  <2>. QED  BY <1>7, <2>5 DEF Past
<1>. QED  BY <1>8, <1>9, <1>10, <1>11, <1>12

(* An iteration of uart_read_bytes keeps the invariant: it copies what is  *)
(* oldest, and the stash that may follow is younger than what is left.     *)
LEMMA ReadLineInv == ASSUME GpsInv, ReadLine PROVE GpsInv'
<1> USE DEF GpsInv
<1> DEFINE n == CopyLen
<1>1. /\ ReadIteration /\ pc = "read"
      /\ line' = [i \in LineIdx |->
                    IF i >= copy_len /\ i < copy_len + n
                    THEN Stream[ring[i - copy_len + 1]] ELSE line[i]]
      /\ copy_len' = copy_len + n
      /\ UNCHANGED <<pc, ev, applied>>
  BY DEF ReadLine
<1>2. /\ want' = want - n /\ popped' = popped + n
      /\ rx_cur_remain' = ItemSize - n
      /\ held' = IF ItemSize = n THEN 0 ELSE held + n
      /\ rd' = IF ItemSize = n THEN (rd + held + n) % RingSize ELSE rd
      /\ rx_buffer_full_flg' = (rx_buffer_full_flg /\ ~PushStash)
      /\ rx_intr' = (rx_intr \/ PushStash)
      /\ UNCHANGED <<arrived, rx_fifo, rx_ovf, stash, queue, errors, announced>>
  BY <1>1 DEF ReadIteration, CopyOut
<1>3. /\ n \in Nat /\ n <= want /\ n <= Len(ring) /\ ItemSize \in Nat
      /\ n <= ItemSize /\ ItemSize <= Len(ring)
      /\ ring' \in Seq(1 .. MaxBytes)
      /\ Len(ring') = Len(ring) - n + (IF PushStash THEN Len(stash) ELSE 0)
  BY <1>1, ReadStep
<1>4. PICK rest \in Seq(1 .. MaxBytes) :
        /\ Len(rest) = Len(ring) - n
        /\ \A i \in 1 .. Len(rest) : rest[i] = ring[i + n]
        /\ ring' = IF PushStash THEN rest \o stash ELSE rest
  BY <1>1, ReadStep
<1>5. PushStash => /\ rx_buffer_full_flg /\ ItemSize = n
                   /\ Len(stash) <= RingSize - (Len(ring) - n)
  BY DEF PushStash
<1> HIDE DEF n
<1>6. /\ Len(ring) \in Nat /\ Len(stash) \in Nat /\ Len(stash) <= FifoLen
      /\ FifoLen \in Nat /\ RingSize \in Nat /\ RingSize > 0
      /\ want \in Nat /\ want <= FifoLen /\ popped \in Nat
      /\ held \in Nat /\ held + Len(ring) <= RingSize /\ rd \in Nat
      /\ rd < RingSize /\ announced \in Nat /\ copy_len \in Nat
  BY Numbers
<1>7. /\ Len(ring') \in Nat /\ Len(ring') >= Len(ring) - n
      /\ popped + Len(ring) <= popped' + Len(ring')
      /\ popped' + want' = popped + want
      /\ want' \in 0 .. FifoLen /\ popped' \in Nat
  <2> DEFINE more == IF PushStash THEN Len(stash) ELSE 0
  <2>1. more \in Nat
    BY <1>6
  <2>2. /\ Len(ring') = Len(ring) - n + more /\ want' = want - n
        /\ popped' = popped + n
    BY <1>2, <1>3
  <2>3. n \in Nat /\ n <= want /\ n <= Len(ring)
    BY <1>3
  <2> HIDE DEF more
  <2>. QED  BY <1>6, <2>1, <2>2, <2>3
<1>8. copy_len + want = ev.size /\ ev.size \in 0 .. FifoLen
  BY <1>1, EventTypesOK DEF Reading
<1>9. copy_len' + want' = ev'.size /\ copy_len' \in 0 .. FifoLen
  BY <1>1, <1>2, <1>3, <1>6, <1>8
<1>10. /\ ItemSize # n => held + n + Len(ring) - n <= RingSize
       /\ held' \in Nat /\ held' + Len(ring') <= RingSize
       /\ held' \in 0 .. RingSize
       /\ rx_cur_remain' \in 0 .. RingSize /\ rx_cur_remain' <= Len(ring')
       /\ rx_cur_remain' = 0 => held' = 0
  <2>1. CASE PushStash
    BY <1>2, <1>3, <1>5, <1>6, <1>7, <2>1
  <2>2. CASE ~PushStash
    BY <1>2, <1>3, <1>6, <1>7, <2>2
  <2>. QED  BY <2>1, <2>2
<1>11. rd' \in 0 .. RingSize - 1
  <2>1. rd + held + n \in Nat
    BY <1>3, <1>6
  <2>2. (rd + held + n) % RingSize \in 0 .. RingSize - 1
    BY <1>6, <2>1
  <2>. QED  BY <1>2, <1>6, <2>2
<1>12. \A i \in 1 .. Len(ring) : ring[i] \in 1 .. MaxBytes
  BY SeqTypes, ElementOfSeq
<1>13. ASSUME NEW i \in LineIdx
       PROVE  \/ line'[i] = line[i]
              \/ /\ i < copy_len + n
                 /\ \E m \in 1 .. Len(ring) : m <= n /\ line'[i] = Stream[ring[m]]
  <2>1. line'[i] = IF i >= copy_len /\ i < copy_len + n
                   THEN Stream[ring[i - copy_len + 1]] ELSE line[i]
    BY <1>1
  <2>2. i \in Int
    BY GpsAssumption DEF LineIdx
  <2>3. CASE i >= copy_len /\ i < copy_len + n
    <3>1. i - copy_len + 1 \in 1 .. Len(ring) /\ i - copy_len + 1 <= n
      BY <1>3, <1>6, <2>2, <2>3
    <3>. QED  BY <2>1, <2>3, <3>1
  <2>4. CASE ~(i >= copy_len /\ i < copy_len + n)
    BY <2>1, <2>4
  <2>. QED  BY <2>3, <2>4
<1>14. TypeOK'
  <2>1. FreeSize' >= 0
    <3>1. /\ RingSize \in Nat /\ held' \in Nat /\ Len(ring') \in Nat
          /\ held' + Len(ring') <= RingSize
      BY <1>6, <1>7, <1>10
    <3>. QED  BY <3>1 DEF FreeSize
  <2>2. {rx_ovf, rx_intr, rx_buffer_full_flg}' \subseteq BOOLEAN
    <3>1. rx_ovf' \in BOOLEAN
      BY <1>2 DEF TypeOK
    <3>2. rx_intr' \in BOOLEAN /\ rx_buffer_full_flg' \in BOOLEAN
      BY <1>2
    <3>. QED  BY <3>1, <3>2
  <2>3. line' \in [LineIdx -> Tokens]
    <3>1. \A m \in 1 .. MaxBytes : Stream[m] \in Tokens
      BY GpsAssumption DEF Tokens
    <3>2. \A i \in LineIdx : line'[i] \in Tokens
      <4> TAKE i \in LineIdx
      <4>1. line[i] \in Tokens
        BY DEF TypeOK
      <4>. QED  BY <1>12, <1>13, <3>1, <4>1
    <3>3. \E F : line' = [i \in LineIdx |-> F[i]]
      <4>1. line' = [i \in LineIdx |-> line'[i]]
        BY <1>1
      <4>. QED  BY <4>1
    <3>. QED  BY <3>2, <3>3
  <2>. QED  BY <1>1, <1>2, <1>3, <1>7, <1>9, <1>10, <1>11, <2>1, <2>2, <2>3
            DEF TypeOK, Bytes
<1>15. Item' /\ Reading'
  BY <1>1, <1>9, <1>10 DEF Item, Reading
<1>16. Chain'
  BY <1>1, <1>2 DEF Chain, AnnBefore, Announces
<1>17. Account'
  <2>1. Lag <= Lag' /\ Lag \in Int /\ Lag' \in Int
        /\ announced' <= popped' + Len(ring')
    <3>1. Lag = popped + Len(ring) - announced /\ announced' = announced
          /\ Lag' = popped' + Len(ring') - announced
          /\ announced <= popped + Len(ring)
      BY <1>2 DEF Lag, Account
    <3>2. /\ popped \in Nat /\ Len(ring) \in Nat /\ announced \in Nat
          /\ popped' \in Nat /\ Len(ring') \in Nat
          /\ popped + Len(ring) <= popped' + Len(ring')
      BY <1>6, <1>7
    <3>. QED  BY <3>1, <3>2
  <2>2. ASSUME NEW e \in Event, Lagged(e)
        PROVE  e.ann <= e.pushed /\ e.pushed - e.ann <= Lag'
    <3>1. e.ann \in Nat /\ e.pushed \in Nat
      BY DEF Event
    <3>. QED  BY <2>1, <2>2, <3>1 DEF Lagged
  <2>3. \A i \in 1 .. Len(queue) : queue[i].ann <= queue[i].pushed
                                   /\ queue[i].pushed - queue[i].ann <= Lag'
    BY <2>2, EventTypesOK DEF Account
  <2>4. ev.ann <= ev.pushed /\ ev.pushed - ev.ann <= Lag'
    BY <2>2, EventTypesOK DEF Account
  <2>5. popped' + want' = ev'.ann
    BY <1>1, <1>7 DEF Account
  <2>. QED  BY <1>1, <1>2, <2>1, <2>3, <2>4, <2>5 DEF Account, Lagged
<1>18. LastByte'
  <2>1. /\ LineSize \in Nat /\ FifoLen < LineSize /\ LineSize - 1 \in LineIdx
        /\ LineSize > 3
    BY GpsAssumption DEF LineIdx
  <2>2. ~(LineSize - 1 < copy_len + n)
    BY <1>1, <1>6, <1>9, <2>1
  <2>3. line'[LineSize - 1] = line[LineSize - 1]
    BY <1>13, <2>1, <2>2
  <2>. QED  BY <2>3 DEF LastByte
<1>19. \A i \in 1 .. Len(rest) : i + n \in 1 .. Len(ring) /\ rest[i] = ring[i + n]
  BY <1>3, <1>4, <1>6
<1>20. stash \in Seq(1 .. MaxBytes) /\ rx_fifo \in Seq(1 .. MaxBytes)
  BY SeqTypes
<1>21. Order'
  <2>1. /\ Ascending(rest) /\ Below(rest, rx_fifo) /\ Arrived(rest)
        /\ rx_buffer_full_flg => Below(rest, stash)
    <3>1. ASSUME NEW i \in 1 .. Len(rest), NEW j \in 1 .. Len(rest), i < j
          PROVE  rest[i] < rest[j]
      <4>1. i + n < j + n
        BY <1>3, <1>4, <1>6, <3>1
      <4>. QED  BY <1>19, <4>1 DEF Order, Ascending
    <3>. QED  BY <1>19, <3>1 DEF Order, Ascending, Below, Arrived
  <2>2. \A q : Arrived(q) => (\A i \in 1 .. Len(q) : q[i] <= arrived')
    BY <1>2 DEF Arrived
  <2>3. CASE PushStash
    <3>1. ring' = rest \o stash /\ rx_buffer_full_flg' = FALSE
      BY <1>2, <1>4, <2>3
    <3>2. /\ Ascending(stash) /\ Below(rest, stash) /\ Below(stash, rx_fifo)
          /\ Arrived(stash) /\ Ascending(rx_fifo) /\ Arrived(rx_fifo)
      BY <1>5, <2>1, <2>3 DEF Order
    <3>3. Ascending(ring')
      BY <1>20, <2>1, <3>1, <3>2, ConcatAscending
    <3>4. Below(ring', rx_fifo) /\ Arrived(ring')
      BY <1>20, <2>1, <3>1, <3>2, ConcatBelow
    <3>. QED
      BY <1>2, <2>2, <3>1, <3>2, <3>3, <3>4 DEF Order, Ascending, Below, Arrived
  <2>4. CASE ~PushStash
    <3>1. ring' = rest /\ (rx_buffer_full_flg' => rx_buffer_full_flg)
      BY <1>2, <1>4, <2>4
    <3>. QED
      BY <1>2, <2>1, <2>2, <3>1 DEF Order, Ascending, Below, Arrived
  <2>. QED  BY <2>3, <2>4
<1>22. Past'
  <2> DEFINE Younger(v) == /\ FromOn(v, rest) /\ FromOn(v, rx_fifo)
                           /\ rx_buffer_full_flg => FromOn(v, stash)
                           /\ \A m \in arrived + 1 .. MaxBytes : v <= Stream[m].s
  <2>1. ASSUME NEW v, NotOlder(v) PROVE Younger(v)
    <3>1. FromOn(v, rest)
      BY <1>19, <2>1 DEF NotOlder, FromOn
    <3>. QED  BY <2>1, <3>1 DEF NotOlder
  <2>2. ASSUME NEW m \in 1 .. Len(ring), m <= n PROVE Younger(Stream[ring[m]].s)
    <3>0. /\ arrived \in Nat /\ MaxBytes \in Nat
          /\ \A i \in 1 .. Len(rx_fifo) : rx_fifo[i] \in 1 .. MaxBytes
          /\ \A i \in 1 .. Len(stash) : stash[i] \in 1 .. MaxBytes
          /\ ring[m] \in 1 .. MaxBytes
      BY <1>12, <1>20, Numbers, ElementOfSeq
    <3>1. FromOn(Stream[ring[m]].s, rest)
      <4>1. ASSUME NEW i \in 1 .. Len(rest)
            PROVE  Stream[ring[m]].s <= Stream[rest[i]].s
        <5>1. m < i + n /\ i + n \in 1 .. Len(ring) /\ rest[i] = ring[i + n]
          BY <1>3, <1>4, <1>6, <1>19, <2>2
        <5>2. ring[m] < ring[i + n] /\ ring[i + n] \in 1 .. MaxBytes
          BY <1>12, <5>1 DEF Order, Ascending
        <5>. QED  BY <3>0, <5>1, <5>2, StreamOrder
      <4>. QED  BY <4>1 DEF FromOn
    <3>2. FromOn(Stream[ring[m]].s, rx_fifo)
      BY <3>0, StreamOrder DEF Order, Below, FromOn
    <3>3. rx_buffer_full_flg => FromOn(Stream[ring[m]].s, stash)
      BY <3>0, StreamOrder DEF Order, Below, FromOn
    <3>4. ASSUME NEW i \in arrived + 1 .. MaxBytes
          PROVE  Stream[ring[m]].s <= Stream[i].s
      <4>1. ring[m] < i /\ i \in 1 .. MaxBytes
        BY <3>0 DEF Order, Arrived
      <4>. QED  BY <3>0, <4>1, StreamOrder
    <3>. QED  BY <3>1, <3>2, <3>3, <3>4
  <2>3. ASSUME NEW v, Younger(v)
        PROVE  /\ FromOn(v, ring') /\ FromOn(v, rx_fifo')
               /\ rx_buffer_full_flg' => FromOn(v, stash')
               /\ \A m \in arrived' + 1 .. MaxBytes : v <= Stream[m].s
    <3>1. CASE PushStash
      <4>1. ring' = rest \o stash /\ rx_buffer_full_flg' = FALSE
        BY <1>2, <1>4, <3>1
      <4>2. FromOn(v, ring')
        BY <1>5, <1>20, <2>3, <3>1, <4>1, ConcatBelow
      <4>. QED  BY <1>2, <2>3, <4>1, <4>2
    <3>2. CASE ~PushStash
      <4>1. ring' = rest /\ (rx_buffer_full_flg' => rx_buffer_full_flg)
        BY <1>2, <1>4, <3>2
      <4>. QED  BY <1>2, <2>3, <4>1
    <3>. QED  BY <3>1, <3>2
  <2>4. ASSUME NEW i \in LineIdx PROVE Younger(line'[i].s)
    <3>1. CASE line'[i] = line[i]
      BY <2>1, <3>1 DEF Past
    <3>2. CASE line'[i] # line[i]
      <4>1. PICK m \in 1 .. Len(ring) : m <= n /\ line'[i] = Stream[ring[m]]
        BY <1>13, <3>2
      <4>. QED  BY <2>2, <4>1
    <3>. QED  BY <3>1, <3>2
  <2>5. Younger(applied') /\ applied' = applied
    BY <1>1, <2>1 DEF Past
  <2>6. line'[1].k = "bd" => applied <= line'[1].s
    <3>0. 1 \in LineIdx
      BY GpsAssumption DEF LineIdx
    <3>1. CASE line'[1] = line[1]
      BY <3>1 DEF Past
    <3>2. CASE line'[1] # line[1]
      <4>1. PICK m \in 1 .. Len(ring) : m <= n /\ line'[1] = Stream[ring[m]]
        BY <1>13, <3>0, <3>2
      <4>. QED  BY <4>1 DEF Past, NotOlder, FromOn
    <3>. QED  BY <3>1, <3>2
  <2> HIDE DEF Younger
  <2>7. /\ \A i \in LineIdx : NotOlder(line[i].s)'
        /\ NotOlder(applied)'
    BY <2>3, <2>4, <2>5 DEF NotOlder, FromOn
  <2>. QED  BY <2>5, <2>6, <2>7 DEF Past
<1>. QED  BY <1>14, <1>15, <1>16, <1>17, <1>18, <1>21, <1>22

(* The driver is installed with everything empty.                          *)
LEMMA GpsInit == Init => GpsInv
<1> SUFFICES ASSUME Init PROVE GpsInv
  OBVIOUS
<1> USE DEF Init, DriverInit
<1>0. Len(<< >>) = 0 /\ << >> \in Seq(1 .. MaxBytes) /\ << >> \in Seq(Event)
  BY EmptySeq
<1>1. NoEvent \in Event /\ NoEvent.ann = 0 /\ NoEvent.pushed = 0
      /\ Nul \in Tokens /\ Nul.s = 0 /\ Nul.k = "nul"
  <2>1. 0 \in 0 .. FifoLen
    BY UartAssumption
  <2>. QED  BY <2>1 DEF NoEvent, Event, EventTypes, Nul, Tokens
<1>2. TypeOK
  <2>1. {rx_ovf, rx_intr, rx_buffer_full_flg} \subseteq BOOLEAN
    OBVIOUS
  <2>2. FreeSize >= 0
    BY <1>0, UartAssumption DEF FreeSize
  <2>3. line \in [LineIdx -> Tokens]
    BY <1>1
  <2>. QED
    BY <1>0, <1>1, <2>1, <2>2, <2>3, UartAssumption DEF TypeOK, Bytes
<1>3. Item /\ Reading /\ LastByte
  <2>1. LineSize - 1 \in LineIdx
    BY GpsAssumption DEF LineIdx
  <2>. QED  BY <1>0, <1>1, <2>1 DEF Item, Reading, LastByte
<1>4. Chain /\ Account
  <2>1. Lag = 0
    BY <1>0 DEF Lag
  <2>. QED  BY <1>0, <1>1, <2>1 DEF Chain, AnnBefore, Account, Lagged
<1>5. Order
  BY <1>0 DEF Order, Ascending, Below, Arrived
<1>6. Past
  <2>1. \A m \in 1 .. MaxBytes : 0 <= Stream[m].s
    BY GpsAssumption
  <2>2. NotOlder(0)
    BY <1>0, <2>1 DEF NotOlder, FromOn
  <2>3. \A i \in LineIdx : line[i] = Nul
    OBVIOUS
  <2>4. line[1].k # "bd"
    <3>1. 1 \in LineIdx
      BY GpsAssumption DEF LineIdx
    <3>. QED  BY <1>1, <2>3, <3>1
  <2>. QED  BY <1>1, <2>2, <2>3, <2>4 DEF Past
<1>. QED  BY <1>2, <1>3, <1>4, <1>5, <1>6 DEF GpsInv

(* Every step keeps the invariant.                                         *)
LEMMA GpsStep == ASSUME GpsInv, [Next]_vars PROVE GpsInv'
<1>1. CASE UNCHANGED vars
  <2>1. UNCHANGED <<arrived, rx_fifo, rx_ovf, rx_intr, stash,
                    rx_buffer_full_flg, ring, rd, held, rx_cur_remain, queue,
                    want, errors, popped, announced, pc, line, copy_len, ev,
                    applied>>
    BY <1>1 DEF vars, driver, task
  <2> USE DEF GpsInv
  <2>2. TypeOK'
    BY <2>1 DEF TypeOK, FreeSize
  <2>3. Item' /\ Reading' /\ LastByte'
    BY <2>1 DEF Item, Reading, LastByte
  <2>4. Chain' /\ Account'
    BY <2>1 DEF Chain, AnnBefore, Announces, Account, Lagged, Lag
  <2>5. Order' /\ Past'
    BY <2>1 DEF Order, Ascending, Below, Arrived, Past, NotOlder, FromOn
  <2>. QED  BY <2>2, <2>3, <2>4, <2>5
<1>. QED
  BY <1>1, ByteInv, InterruptInv, ReceiveEventInv, ReadLineInv, HandleLineInv
     DEF Next, Task

(* The invariant of the GPS task and its driver.                           *)
THEOREM GpsInductive == Spec => []GpsInv
<1>1. GpsInv /\ [Next]_vars => GpsInv'
  BY GpsStep
<1>. QED  BY GpsInit, <1>1, PTL DEF Spec

(* Types: in particular the ring is never overfull, a read never goes      *)
(* beyond the FIFO's size and the queue keeps its length.                  *)
THEOREM GpsTypeCorrect == Spec => []TypeOK
<1>1. GpsInv => TypeOK
  BY DEF GpsInv
<1>. QED  BY <1>1, GpsInductive, PTL

(* uart_read_bytes, called with portMAX_DELAY, never blocks the task.      *)
THEOREM ReadNeverBlocksHolds == Spec => []ReadNeverBlocks
<1>1. GpsInv => ReadNeverBlocks
  <2> SUFFICES ASSUME GpsInv, want > 0, ring = << >> PROVE FALSE
    BY DEF ReadNeverBlocks, ReadBlocked
  <2>1. Len(ring) = 0
    OBVIOUS
  <2>2. popped + want = ev.ann /\ announced <= popped + Len(ring)
        /\ ev.ann <= announced
    BY DEF GpsInv, Account, Chain
  <2>3. popped \in Nat /\ want \in Nat /\ announced \in Nat
    BY Numbers DEF GpsInv
  <2>. QED  BY <2>1, <2>2, <2>3
<1>. QED  BY <1>1, GpsInductive, PTL

(* Without a lag the task reads just the bytes of the event's interrupt.   *)
THEOREM ChunkIsInterruptHolds == Spec => []ChunkIsInterrupt
<1>1. GpsInv => ChunkIsInterrupt
  <2> SUFFICES ASSUME GpsInv, want = 0, Lag = 0 PROVE popped = ev.pushed
    BY DEF ChunkIsInterrupt
  <2>1. popped + want = ev.ann /\ ev.ann <= ev.pushed
        /\ ev.pushed - ev.ann <= Lag
    BY DEF GpsInv, Account, Lagged
  <2>2. popped \in Nat /\ ev.ann \in Nat /\ ev.pushed \in Nat
    BY Numbers, EventTypesOK DEF GpsInv
  <2>. QED  BY <2>1, <2>2
<1>. QED  BY <1>1, GpsInductive, PTL

(* What is still to be read is in the order of arrival.                    *)
THEOREM InOrderHolds == Spec => []InOrder
<1>1. GpsInv => InOrder
  <2> SUFFICES ASSUME GpsInv PROVE InOrder
    OBVIOUS
  <2> DEFINE mid == IF rx_buffer_full_flg THEN stash ELSE << >>
             front == ring \o mid
  <2>1. /\ ring \in Seq(1 .. MaxBytes) /\ rx_fifo \in Seq(1 .. MaxBytes)
        /\ mid \in Seq(1 .. MaxBytes)
    BY SeqTypes, EmptySeq DEF GpsInv
  <2>2. /\ Ascending(mid) /\ Below(ring, mid) /\ Below(mid, rx_fifo)
    <3>1. CASE rx_buffer_full_flg
      BY <3>1 DEF GpsInv, Order
    <3>2. CASE ~rx_buffer_full_flg
      <4>1. mid = << >> /\ Len(mid) = 0
        BY <3>2
      <4>. QED  BY <4>1 DEF Ascending, Below
    <3>. QED  BY <3>1, <3>2
  <2>3. Ascending(ring) /\ Ascending(rx_fifo) /\ Below(ring, rx_fifo)
    BY DEF GpsInv, Order
  <2> HIDE DEF mid
  <2>4. front \in Seq(1 .. MaxBytes)
    BY <2>1, ConcatProperties
  <2>5. Ascending(front)
    BY <2>1, <2>2, <2>3, ConcatAscending
  <2>6. Below(front, rx_fifo)
    BY <2>1, <2>2, <2>3, ConcatBelow
  <2> HIDE DEF front
  <2>7. Ascending(front \o rx_fifo)
    BY <2>1, <2>3, <2>4, <2>5, <2>6, ConcatAscending
  <2>8. front \o rx_fifo \in Seq(1 .. MaxBytes)
    BY <2>1, <2>4, ConcatProperties
  <2>9. Pipeline = front \o rx_fifo
    BY DEF Pipeline, front, mid
  <2>10. DOMAIN Pipeline = 1 .. Len(Pipeline)
    BY <2>8, <2>9, LenProperties
  <2>. QED  BY <2>7, <2>9, <2>10 DEF InOrder, Ascending
<1>. QED  BY <1>1, GpsInductive, PTL

(* The '\0' that readLine writes after a newline is inside the buffer.     *)
THEOREM TerminatorInsideHolds == Spec => []TerminatorInside
<1>1. GpsInv => TerminatorInside
  <2> SUFFICES ASSUME GpsInv, NEW i \in LineIdx, line[i].k = "nl"
               PROVE  i + 1 \in LineIdx
    BY DEF TerminatorInside, Newlines
  <2>1. i # LineSize - 1
    BY DEF GpsInv, LastByte
  <2>. QED  BY <2>1, GpsAssumption DEF LineIdx
<1>. QED  BY <1>1, GpsInductive, PTL

(* The task never goes back to an older sentence.                          *)
THEOREM NeverBackwardsHolds == Spec => NeverBackwards
<1>1. ASSUME GpsInv, [Next]_vars PROVE applied <= applied'
  <2>0. applied \in Nat
    BY <1>1 DEF GpsInv, TypeOK
  <2>1. CASE HandleLine
    BY <1>1, <2>1, HandleLineForward
  <2>2. CASE UNCHANGED applied
    BY <2>0, <2>2
  <2>3. HandleLine \/ UNCHANGED applied
    BY <1>1 DEF Next, Task, Byte, Interrupt, ReceiveEvent, TakeEvent, ReadLine,
                vars, task
  <2>. QED  BY <2>1, <2>2, <2>3
<1>2. GpsInv /\ [Next]_vars => [applied' >= applied]_vars
  <2>1. ASSUME GpsInv, [Next]_vars PROVE applied' >= applied
    <3>1. applied \in Nat /\ applied' \in Nat
      BY <2>1, GpsStep DEF GpsInv, TypeOK
    <3>. QED  BY <1>1, <2>1, <3>1
  <2>. QED  BY <2>1
<1>. QED  BY <1>2, GpsInductive, PTL DEF Spec, NeverBackwards


-----------------------------------------------------------------------------
(* The stop of reception.                                                  *)

\* No event from i on announces bytes.
NoneFrom(i) == \A j \in 1 .. Len(queue) : i <= j => Announces(queue[j]) = 0

\* A full ring is never empty: the item that empties it is returned, and then
\* the stash fits.  If no event is left that announces bytes, all that were
\* announced have been read.
FullInv ==
    /\ rx_buffer_full_flg => Len(ring) > 0
    /\ \A i \in 1 .. Len(queue) + 1 : NoneFrom(i) => announced = AnnBefore(i)

(* What the handler sends is added at the end of the queue, if at all.     *)
LEMMA SendNone ==
    ASSUME TypeOK, NEW t \in EventTypes, NEW n \in 0 .. FifoLen, NEW m \in Nat,
           SendEvent(t, n, m), ev' = ev,
           \A i \in 1 .. Len(queue) + 1 : NoneFrom(i) => announced = AnnBefore(i)
    PROVE  \A i \in 1 .. Len(queue') + 1 :
              NoneFrom(i)' => announced' = AnnBefore(i)'
<1>0. queue \in Seq(Event) /\ Len(queue) \in Nat /\ announced \in Nat /\ n \in Nat
  BY SeqTypes, Numbers, UartAssumption
<1>1. CASE Len(queue) < QueueLen
  <2> DEFINE e == [type |-> t, size |-> n, pushed |-> m, ann |-> announced']
  <2>1. /\ announced' = announced + (IF t = "UART_DATA" THEN n ELSE 0)
        /\ queue' = Append(queue, e)
    BY <1>1 DEF SendEvent
  <2>2. e \in Event
    BY <1>0, <2>1 DEF Event
  <2>3. /\ e.ann = announced' /\ Announces(e) = IF t = "UART_DATA" THEN n ELSE 0
    BY DEF Announces
  <2> HIDE DEF e
  <2>4. /\ Len(queue') = Len(queue) + 1
        /\ \A i \in 1 .. Len(queue) : queue'[i] = queue[i]
        /\ queue'[Len(queue) + 1] = e
    BY <1>0, <2>1, <2>2, AppendProperties
  <2> SUFFICES ASSUME NEW i \in 1 .. Len(queue) + 2, NoneFrom(i)'
               PROVE  announced' = AnnBefore(i)'
    BY <1>0, <2>4
  <2>5. CASE i = Len(queue) + 2
    <3>1. i # 1 /\ i - 1 = Len(queue) + 1
      BY <1>0, <2>5
    <3>. QED  BY <2>3, <2>4, <3>1 DEF AnnBefore
  <2>6. CASE i # Len(queue) + 2
    <3>1. i \in 1 .. Len(queue) + 1 /\ i <= Len(queue) + 1
      BY <1>0, <2>6
    <3>2. Announces(e) = 0
      <4>1. Announces(queue'[Len(queue) + 1]) = 0
        BY <1>0, <2>4, <3>1 DEF NoneFrom, Announces
      <4>. QED  BY <2>4, <4>1
    <3>3. announced' = announced
      BY <1>0, <2>1, <2>3, <3>2
    <3>4. NoneFrom(i)
      <4> SUFFICES ASSUME NEW j \in 1 .. Len(queue), i <= j
                   PROVE  Announces(queue[j]) = 0
        BY DEF NoneFrom
      <4>1. j \in 1 .. Len(queue') /\ queue'[j] = queue[j]
        BY <1>0, <2>4
      <4>2. Announces(queue'[j]) = 0
        BY <4>1 DEF NoneFrom, Announces
      <4>. QED  BY <4>1, <4>2
    <3>5. AnnBefore(i)' = AnnBefore(i)
      <4>1. CASE i = 1
        BY <4>1 DEF AnnBefore
      <4>2. CASE i # 1
        <5>1. i - 1 \in 1 .. Len(queue)
          BY <1>0, <3>1, <4>2
        <5>. QED  BY <2>4, <4>2, <5>1 DEF AnnBefore
      <4>. QED  BY <4>1, <4>2
    <3>. QED  BY <3>1, <3>3, <3>4, <3>5
  <2>. QED  BY <2>5, <2>6
<1>2. CASE ~(Len(queue) < QueueLen)
  <2>1. UNCHANGED <<queue, announced>>
    BY <1>2 DEF SendEvent
  <2>. QED  BY <2>1 DEF NoneFrom, AnnBefore, Announces
<1>. QED  BY <1>1, <1>2

(* The interrupt handler.                                                  *)
LEMMA InterruptFull == ASSUME GpsInv, FullInv, Interrupt PROVE FullInv'
<1> USE DEF GpsInv
<1>0. Isr /\ ev' = ev
  BY DEF Interrupt, task
<1>1. rx_buffer_full_flg' => Len(ring') > 0
  <2>1. Len(ring) \in Nat /\ Len(rx_fifo) \in Nat
    BY Numbers
  <2>2. CASE UNCHANGED <<ring, rx_buffer_full_flg>>
    BY <2>2 DEF FullInv
  <2>3. CASE rx_buffer_full_flg' = FALSE
    BY <2>3
  <2>4. CASE IsrRx /\ ~rx_buffer_full_flg /\ ~CheckItemFits(rx_fifo)
    <3>1. ring' = ring
      BY <2>4 DEF IsrRx
    <3>2. Len(rx_fifo) > RingSize - held - Len(ring)
      <4>1. RingSize \in Nat /\ held \in Nat
        BY Numbers
      <4>. QED  BY <2>1, <2>4, <4>1 DEF CheckItemFits, FreeSize
    <3>3. Len(ring) = 0 => held = 0
      <4>1. rx_cur_remain \in Nat
        BY Numbers
      <4>. QED  BY <2>1, <4>1 DEF Item
    <3>4. Len(rx_fifo) <= FifoLen /\ FifoLen < RingSize /\ FifoLen \in Nat
          /\ RingSize \in Nat
      BY Numbers
    <3>5. Len(ring) # 0
      BY <2>1, <3>2, <3>3, <3>4
    <3>. QED  BY <2>1, <3>1, <3>5
  <2>5. \/ UNCHANGED <<ring, rx_buffer_full_flg>> \/ rx_buffer_full_flg' = FALSE
        \/ (IsrRx /\ ~rx_buffer_full_flg /\ ~CheckItemFits(rx_fifo))
    <3>1. rx_buffer_full_flg \in BOOLEAN
      BY DEF TypeOK
    <3>. QED  BY <1>0, <3>1 DEF Isr, IsrRx, IsrOverflow, IsrLineError
  <2>. QED  BY <2>2, <2>3, <2>4, <2>5
<1>2. \A i \in 1 .. Len(queue') + 1 : NoneFrom(i)' => announced' = AnnBefore(i)'
  <2>1. CASE UNCHANGED <<queue, announced>>
    BY <1>0, <2>1 DEF FullInv, NoneFrom, AnnBefore, Announces
  <2>2. CASE \E t \in EventTypes, n \in 0 .. FifoLen :
               SendEvent(t, n, popped + Len(ring'))
    <3>1. PICK t \in EventTypes, n \in 0 .. FifoLen :
            SendEvent(t, n, popped + Len(ring'))
      BY <2>2
    <3>2. popped + Len(ring') \in Nat
      <4>1. popped \in Nat /\ Len(ring') \in Nat
        BY <1>0, IsrStep, Numbers, LenProperties
      <4>. QED  BY <4>1
    <3>. QED  BY <1>0, <3>1, <3>2, SendNone DEF FullInv
  <2>. QED  BY <1>0, <2>1, <2>2, IsrStep
<1>. QED  BY <1>1, <1>2 DEF FullInv

(* The task takes an event.                                                *)
LEMMA ReceiveEventFull == ASSUME GpsInv, FullInv, ReceiveEvent PROVE FullInv'
<1> USE DEF GpsInv
<1>1. /\ queue # << >> /\ ev' = Head(queue) /\ queue' = Tail(queue)
      /\ UNCHANGED <<rx_buffer_full_flg, ring, announced>>
  BY DEF ReceiveEvent, TakeEvent
<1>2. /\ Len(queue') = Len(queue) - 1 /\ Len(queue) \in Nat \ {0}
      /\ \A i \in 1 .. Len(queue') : queue'[i] = queue[i + 1]
      /\ ev' = queue[1]
  <2>1. queue \in Seq(Event) /\ queue # << >>
    BY <1>1, SeqTypes
  <2>2. Len(queue) \in Nat \ {0}
    BY <2>1, EmptySeq
  <2>3. Head(queue) = queue[1]
    BY <2>1
  <2>. QED  BY <1>1, <2>1, <2>2, <2>3, HeadTailProperties
<1>3. ASSUME NEW i \in 1 .. Len(queue') + 1, NoneFrom(i)'
      PROVE  announced' = AnnBefore(i)'
  <2>1. i + 1 \in 1 .. Len(queue) + 1 /\ i \in Nat \ {0} /\ i <= Len(queue)
    BY <1>2
  <2>2. NoneFrom(i + 1)
    <3> SUFFICES ASSUME NEW j \in 1 .. Len(queue), i + 1 <= j
                 PROVE  Announces(queue[j]) = 0
      BY DEF NoneFrom
    <3>1. j - 1 \in 1 .. Len(queue') /\ i <= j - 1 /\ (j - 1) + 1 = j
      BY <1>2, <2>1
    <3>2. Announces(queue'[j - 1]) = 0
      BY <1>3, <3>1 DEF NoneFrom, Announces
    <3>. QED  BY <1>2, <3>1, <3>2
  <2>3. announced = AnnBefore(i + 1)
    BY <2>1, <2>2 DEF FullInv
  <2>4. AnnBefore(i + 1) = queue[i].ann
    BY <2>1 DEF AnnBefore
  <2>5. AnnBefore(i)' = queue[i].ann
    <3>1. CASE i = 1
      BY <1>2, <3>1 DEF AnnBefore
    <3>2. CASE i # 1
      <4>1. i - 1 \in 1 .. Len(queue') /\ (i - 1) + 1 = i
        BY <1>2, <2>1, <3>2
      <4>. QED  BY <1>2, <3>2, <4>1 DEF AnnBefore
    <3>. QED  BY <3>1, <3>2
  <2>. QED  BY <1>1, <2>3, <2>4, <2>5
<1>. QED  BY <1>1, <1>3 DEF FullInv

(* uart_read_bytes: unless the stash goes into the ring, bytes are left.   *)
LEMMA ReadLineFull == ASSUME GpsInv, FullInv, ReadLine PROVE FullInv'
<1> USE DEF GpsInv
<1>0. ReadIteration /\ UNCHANGED <<ev, queue, announced>>
  BY DEF ReadLine, ReadIteration, CopyOut
<1>1. ASSUME rx_buffer_full_flg' PROVE Len(ring') > 0
  <2>1. rx_buffer_full_flg /\ ~PushStash
    BY <1>0, <1>1 DEF ReadIteration, CopyOut
  <2>2. /\ CopyLen \in Nat /\ ItemSize \in Nat /\ CopyLen <= ItemSize
        /\ ItemSize <= Len(ring) /\ Len(ring') = Len(ring) - CopyLen + 0
    BY <1>0, <2>1, ReadStep
  <2>3. /\ Len(ring) \in Nat /\ Len(stash) \in Nat /\ Len(stash) <= FifoLen
        /\ FifoLen < RingSize /\ FifoLen \in Nat /\ RingSize \in Nat
    BY Numbers
  <2>4. CASE ItemSize = CopyLen
    <3>1. ~(Len(stash) <= RingSize - (Len(ring) - CopyLen))
      BY <2>1, <2>4 DEF PushStash
    <3>. QED  BY <2>2, <2>3, <3>1
  <2>5. CASE ItemSize # CopyLen
    BY <2>2, <2>3, <2>5
  <2>. QED  BY <2>4, <2>5
<1>. QED  BY <1>0, <1>1 DEF FullInv, NoneFrom, AnnBefore, Announces

(* Every step keeps the invariant.                                         *)
LEMMA FullStep == ASSUME GpsInv, FullInv, [Next]_vars PROVE FullInv'
<1>1. CASE UNCHANGED <<rx_buffer_full_flg, ring, queue, announced, ev>>
  BY <1>1 DEF FullInv, NoneFrom, AnnBefore, Announces
<1>2. CASE Interrupt
  BY <1>2, InterruptFull
<1>3. CASE ReceiveEvent
  BY <1>3, ReceiveEventFull
<1>4. CASE ReadLine
  BY <1>4, ReadLineFull
<1>5. Byte \/ HandleLine \/ UNCHANGED vars
      => UNCHANGED <<rx_buffer_full_flg, ring, queue, announced, ev>>
  BY DEF Byte, Receive, HandleLine, vars, driver, task
<1>. QED  BY <1>1, <1>2, <1>3, <1>4, <1>5 DEF Next, Task

(* It holds in every state.                                                *)
THEOREM FullInductive == Spec => []FullInv
<1>1. Init => FullInv
  <2> SUFFICES ASSUME Init PROVE FullInv
    OBVIOUS
  <2>1. rx_buffer_full_flg = FALSE /\ queue = << >> /\ announced = 0
        /\ ev.ann = 0
    BY DEF Init, DriverInit, NoEvent
  <2>2. Len(queue) + 1 = 1
    BY <2>1
  <2>3. \A i \in 1 .. Len(queue) + 1 : i = 1
    BY <2>2
  <2>. QED  BY <2>1, <2>3 DEF FullInv, AnnBefore
<1>2. GpsInv /\ FullInv /\ [Next]_vars => FullInv'
  BY FullStep
<1>. QED  BY <1>1, <1>2, GpsInductive, PTL DEF Spec

(* If the ring is full and the task waits with no event left that          *)
(* announces bytes, then bytes have lost their event: that is the only way *)
(* in which reception comes to a stop.                                     *)
THEOREM StopMeansLag ==
    Spec => [](/\ rx_buffer_full_flg /\ pc = "wait"
               /\ \A i \in DOMAIN queue : ~HasData(queue[i])
               => Deaf)
<1>1. ASSUME GpsInv, FullInv, rx_buffer_full_flg, pc = "wait",
             \A i \in DOMAIN queue : ~HasData(queue[i])
      PROVE  Deaf
  <2> USE <1>1 DEF GpsInv
  <2>1. Len(queue) \in Nat /\ DOMAIN queue = 1 .. Len(queue)
    BY SeqTypes, Numbers, LenProperties
  <2>2. NoneFrom(1)
    <3> SUFFICES ASSUME NEW j \in 1 .. Len(queue)
                 PROVE  Announces(queue[j]) = 0
      BY DEF NoneFrom
    <3>1. ~HasData(queue[j])
      BY <2>1
    <3>. QED  BY <3>1 DEF HasData, Announces
  <2>3. 1 \in 1 .. Len(queue) + 1
    BY <2>1
  <2>4. announced = ev.ann
    BY <2>2, <2>3 DEF FullInv, AnnBefore
  <2>5. want = 0 /\ popped + want = ev.ann
    BY DEF Reading, Account
  <2>6. popped \in Nat /\ Len(ring) \in Nat /\ Len(ring) > 0
    BY Numbers DEF FullInv
  <2>7. Lag > 0
    BY <2>4, <2>5, <2>6 DEF Lag
  <2>. QED  BY <2>7 DEF Deaf
<1>. QED  BY <1>1, GpsInductive, FullInductive, PTL

(* Nothing the receiver, the interrupts or the task do brings reception    *)
(* back: the state is left only by a restart of the chip.                  *)
THEOREM DeafForGood == Spec => [][Deaf => Deaf']_vars
<1>1. ASSUME GpsInv, Deaf, [Next]_vars PROVE Deaf'
  <2> USE <1>1 DEF GpsInv
  <2>1. Len(queue) \in Nat /\ queue \in Seq(Event)
        /\ DOMAIN queue = 1 .. Len(queue)
    BY SeqTypes, Numbers, LenProperties
  <2>2. rx_buffer_full_flg /\ pc = "wait" /\ Lag > 0
        /\ \A i \in 1 .. Len(queue) : ~HasData(queue[i])
    BY <2>1 DEF Deaf
  <2>3. CASE UNCHANGED <<rx_buffer_full_flg, pc, queue, popped, ring, announced>>
    BY <2>2, <2>3 DEF Deaf, Lag, HasData
  <2>4. CASE ReceiveEvent
    <3>1. /\ queue # << >> /\ queue' = Tail(queue)
          /\ UNCHANGED <<rx_buffer_full_flg, popped, ring, announced>>
          /\ ~HasData(Head(queue)) => UNCHANGED pc
      BY <2>4 DEF ReceiveEvent, TakeEvent
    <3>2. Head(queue) = queue[1] /\ Len(queue) \in Nat \ {0}
      BY <2>1, <3>1, EmptySeq
    <3>3. ~HasData(Head(queue))
      BY <2>2, <3>2
    <3>4. /\ queue' \in Seq(Event) /\ Len(queue') = Len(queue) - 1
          /\ \A i \in 1 .. Len(queue') : queue'[i] = queue[i + 1]
      BY <2>1, <3>1, <3>2, HeadTailProperties
    <3>5. \A i \in DOMAIN queue' : ~HasData(queue'[i])
      <4>1. DOMAIN queue' = 1 .. Len(queue')
        BY <3>4, LenProperties
      <4>2. \A i \in 1 .. Len(queue') : i + 1 \in 1 .. Len(queue)
        BY <3>2, <3>4
      <4>. QED  BY <2>2, <3>4, <4>1, <4>2
    <3>6. Lag' = Lag /\ pc' = "wait" /\ rx_buffer_full_flg'
      BY <2>2, <3>1, <3>3 DEF Lag
    <3>. QED  BY <2>2, <3>5, <3>6 DEF Deaf, HasData
  <2>5. CASE Interrupt
    <3>1. UNCHANGED <<rx_buffer_full_flg, pc, popped, ring>>
      BY <2>2, <2>5 DEF Interrupt, Isr, IsrRx, IsrOverflow, IsrLineError, task
    <3>2. CASE UNCHANGED <<queue, announced>>
      BY <2>3, <3>1, <3>2
    <3>3. CASE \E t \in {"UART_FIFO_OVF", "UART_ERR"}, m \in Nat :
                 SendEvent(t, 0, m) /\ Len(queue) < QueueLen
      <4>1. PICK t \in {"UART_FIFO_OVF", "UART_ERR"}, m \in Nat :
              SendEvent(t, 0, m) /\ Len(queue) < QueueLen
        BY <3>3
      <4> DEFINE e == [type |-> t, size |-> 0, pushed |-> m, ann |-> announced']
      <4>2. announced' = announced + 0 /\ queue' = Append(queue, e)
        BY <4>1 DEF SendEvent
      <4>3. announced' = announced /\ announced \in Nat
        BY <4>2, Numbers
      <4>4. e \in Event /\ ~HasData(e)
        BY <4>3, UartAssumption DEF Event, EventTypes, HasData
      <4> HIDE DEF e
      <4>5. /\ Len(queue') = Len(queue) + 1 /\ queue' \in Seq(Event)
            /\ \A i \in 1 .. Len(queue) : queue'[i] = queue[i]
            /\ queue'[Len(queue) + 1] = e
        BY <2>1, <4>2, <4>4, AppendProperties
      <4>6. \A i \in DOMAIN queue' : ~HasData(queue'[i])
        <5>1. DOMAIN queue' = 1 .. Len(queue) + 1
          BY <4>5, LenProperties
        <5>2. \A i \in 1 .. Len(queue) + 1 :
                 i \in 1 .. Len(queue) \/ i = Len(queue) + 1
          BY <2>1
        <5>. QED  BY <2>2, <4>4, <4>5, <5>1, <5>2
      <4>7. Lag' = Lag
        BY <3>1, <4>3 DEF Lag
      <4>. QED  BY <2>2, <3>1, <4>6, <4>7 DEF Deaf, HasData
    <3>4. CASE IsrRx
      BY <2>2, <3>2, <3>4 DEF IsrRx
    <3>5. CASE IsrOverflow \/ IsrLineError
      <4>1. popped + Len(ring) \in Nat
        <5>1. popped \in Nat /\ Len(ring) \in Nat
          BY Numbers
        <5>. QED  BY <5>1
      <4>2. \E t \in {"UART_FIFO_OVF", "UART_ERR"}, m \in Nat : SendEvent(t, 0, m)
        BY <3>5, <4>1 DEF IsrOverflow, IsrLineError
      <4>3. CASE Len(queue) < QueueLen
        BY <3>3, <4>2, <4>3
      <4>4. CASE ~(Len(queue) < QueueLen)
        <5>1. UNCHANGED <<queue, announced>>
          BY <4>2, <4>4 DEF SendEvent
        <5>. QED  BY <3>2, <5>1
      <4>. QED  BY <4>3, <4>4
    <3>. QED  BY <2>5, <3>4, <3>5 DEF Interrupt, Isr
  <2>6. ~ReadLine /\ ~HandleLine
    BY <2>2 DEF ReadLine, HandleLine
  <2>7. Byte \/ UNCHANGED vars
        => UNCHANGED <<rx_buffer_full_flg, pc, queue, popped, ring, announced>>
    BY DEF Byte, Receive, vars, driver, task
  <2>. QED  BY <1>1, <2>3, <2>4, <2>5, <2>6, <2>7 DEF Next, Task
<1>2. GpsInv /\ [Next]_vars => [Deaf => Deaf']_vars
  BY <1>1
<1>. QED  BY <1>2, GpsInductive, PTL DEF Spec
=============================================================================
