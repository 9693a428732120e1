-------------------------------- MODULE GpsTask --------------------------------
(***************************************************************************)
(* The GPS task of src/hw/hw_gps.c on top of the UART driver: the event    *)
(* loop of task_gps and readLine with its static line buffer.              *)
(*                                                                         *)
(* A token stands for the characters of a sentence that the task can tell  *)
(* apart: "hd" the start "$GPRMC,", "bd" the fields, "ck" the "*hh" with   *)
(* the checksum of the fields, "nl" the newline and "xx" the text of any   *)
(* other sentence; "nul" is '\0'.  The fields and the checksum carry the   *)
(* number of their sentence; that a checksum fits only the fields it was   *)
(* computed from is an assumption (an XOR of 8 bits can collide).          *)
(***************************************************************************)
EXTENDS UartRx, FiniteSetsExt

CONSTANTS
    LineSize,    \* sizeof(line), 256
    Stream       \* the tokens the receiver sends

Kinds == {"hd", "bd", "ck", "nl", "xx"}

ASSUME GpsAssumption ==
    /\ LineSize \in Nat /\ LineSize > 3 /\ FifoLen < LineSize
    /\ Stream \in [1 .. MaxBytes -> [k : Kinds, s : Nat]]
    /\ \A i, j \in 1 .. MaxBytes : i < j => Stream[i].s <= Stream[j].s

VARIABLES
    pc,         \* "wait": in xQueueReceive, "read": in readLine
    line,       \* the static buffer of readLine
    copy_len,   \* copy_len of uart_read_bytes
    ev,         \* the event being handled
    applied     \* number of the RMC sentence acted upon last, 0 if none

task == <<pc, line, copy_len, ev, applied>>
vars == <<driver, task>>

Nul == [k |-> "nul", s |-> 0]
NoEvent == [type |-> "UART_ERR", size |-> 0, pushed |-> 0, ann |-> 0]
LineIdx == 0 .. LineSize - 1

Init ==
    /\ DriverInit
    /\ pc = "wait" /\ line = [i \in LineIdx |-> Nul] /\ copy_len = 0
    /\ ev = NoEvent /\ applied = 0

-----------------------------------------------------------------------------
Byte == Receive /\ UNCHANGED task
Interrupt == Isr /\ UNCHANGED task

\* xQueueReceive; then uart_read_bytes is entered for n bytes if the event is
\* to be handled.
TakeEvent(handled, n, from) ==
    /\ pc = "wait" /\ queue # <<>>
    /\ ev' = Head(queue) /\ queue' = Tail(queue)
    /\ IF handled THEN pc' = "read" /\ want' = n ELSE UNCHANGED <<pc, want>>
    /\ copy_len' = from
    /\ UNCHANGED <<arrived, rx_fifo, rx_ovf, rx_intr, stash,
                   rx_buffer_full_flg, ring, rd, held, rx_cur_remain, errors,
                   popped, announced, line, applied>>

HasData(e) == e.type = "UART_DATA" /\ e.size # 0

\* Mutants: one byte is left for the '\0'; the bytes go after those of the last
\* event.
ReceiveEvent_leaveRoom ==
    TakeEvent(HasData(Head(queue)), (Head(queue).size % LineSize) - 1, 0)
ReceiveEvent_keepPtr ==
    TakeEvent(HasData(Head(queue)), Head(queue).size % LineSize,
              copy_len % LineSize)

\* Only a UART_DATA event that announces bytes is handled.
ReceiveEvent ==
    TakeEvent(HasData(Head(queue)), Head(queue).size % LineSize, 0)

\* readLine, first part: uart_read_bytes copies into line from its start.
ReadLine ==
    /\ pc = "read"
    /\ ReadIteration
    /\ line' = [i \in LineIdx |->
                  IF i >= copy_len /\ i < copy_len + CopyLen
                  THEN Stream[ring[i - copy_len + 1]] ELSE line[i]]
    /\ copy_len' = copy_len + CopyLen
    /\ UNCHANGED <<pc, ev, applied>>

\* readLine, second part: the whole buffer is searched for a newline, not only
\* the bytes just read, and the character after it becomes '\0'.
Newlines == {i \in LineIdx : line[i].k = "nl"}
Terminated == LET p == Min(Newlines)
              IN  [i \in LineIdx |-> IF i = p + 1 THEN Nul ELSE line[i]]

\* The sentence minmea_sentence_id and minmea_parse_rmc accept in a buffer that
\* starts a C string: an RMC whose checksum, if there is one, fits; 0 if none.
Ends(tok) == tok.k \in {"nl", "nul"}
RmcIn(l) ==
    IF /\ l[0].k = "hd" /\ l[1].k = "bd"
       /\ Ends(l[2]) \/ (l[2].k = "ck" /\ l[2].s = l[1].s /\ Ends(l[3]))
    THEN l[1].s ELSE 0

\* Mutant: the frame is used although it could not be parsed.
HandleLine_ignoreParse ==
    /\ pc = "read" /\ want = 0
    /\ IF Newlines = {} THEN UNCHANGED <<line, applied>>
       ELSE line' = Terminated /\ applied' = RmcIn(Terminated)
    /\ pc' = "wait"
    /\ UNCHANGED <<driver, copy_len, ev>>

\* Without a newline in the buffer readLine returns an empty string.
HandleLine ==
    /\ pc = "read" /\ want = 0
    /\ IF Newlines = {} THEN UNCHANGED <<line, applied>>
       ELSE /\ line' = Terminated
            /\ applied' = IF RmcIn(Terminated) = 0 THEN applied
                                                   ELSE RmcIn(Terminated)
    /\ pc' = "wait"
    /\ UNCHANGED <<driver, copy_len, ev>>

Task == ReceiveEvent \/ ReadLine \/ HandleLine

Next == Byte \/ Interrupt \/ Task

\* The task has the highest priority: it runs whenever it is not blocked.
Spec == Init /\ [][Next]_vars /\ WF_vars(Task)

-----------------------------------------------------------------------------
Bytes == Seq(1 .. MaxBytes)
Tokens == [k : Kinds \cup {"nul"}, s : Nat]

TypeOK ==
    /\ arrived \in 0 .. MaxBytes /\ errors \in 0 .. MaxErrors
    /\ rx_fifo \in Bytes /\ Len(rx_fifo) <= FifoLen
    /\ stash \in Bytes /\ Len(stash) <= FifoLen
    /\ ring \in Bytes /\ FreeSize >= 0 /\ rd \in 0 .. RingSize - 1
    /\ held \in 0 .. RingSize /\ rx_cur_remain \in 0 .. RingSize
    /\ {rx_ovf, rx_intr, rx_buffer_full_flg} \subseteq BOOLEAN
    /\ queue \in Seq(Event) /\ Len(queue) <= QueueLen /\ ev \in Event
    /\ popped \in Nat /\ announced \in Nat /\ want \in 0 .. FifoLen
    /\ pc \in {"wait", "read"} /\ copy_len \in 0 .. FifoLen
    /\ line \in [LineIdx -> Tokens] /\ applied \in Nat

(* uart_read_bytes is called with portMAX_DELAY, yet the task never blocks *)
(* in it: the bytes an event announces are in the ring when it is handled, *)
(* whatever events were dropped and however often the buffer was full.     *)
ReadNeverBlocks == pc = "read" /\ want > 0 => ~ReadBlocked

(* As long as no bytes lost their event, the task reads for an event       *)
(* exactly the bytes of the interrupt that sent it, so a sentence that     *)
(* follows a pause of the line starts at line[0].                          *)
ChunkIsInterrupt ==
    pc = "read" /\ want = 0 /\ Lag = 0 => popped = ev.pushed

(* The stash never overtakes or duplicates: what is still to be read is in *)
(* the order of arrival.                                                   *)
Pipeline == ring \o (IF rx_buffer_full_flg THEN stash ELSE <<>>) \o rx_fifo
InOrder == \A i, j \in DOMAIN Pipeline : i < j => Pipeline[i] < Pipeline[j]

(* readLine writes '\0' after the newline it finds: that is inside line    *)
(* because the last byte is never written by uart_read_bytes               *)
(* (g_size%256 < 256), hence never a newline.                              *)
TerminatorInside == \A i \in Newlines : i + 1 \in LineIdx

(* A sentence may be acted upon twice, since stale bytes of line are       *)
(* searched too, but never an older one after a newer one.                 *)
NeverBackwards == [][applied' >= applied]_vars

(* A full ring: the stash goes into the ring only when an item was read to *)
(* its end (uart_check_buf_full), the handler sends no data event before   *)
(* that, and task_gps reads only for data events.  If some of the bytes in *)
(* the ring have no event, the events may run out in the middle of the     *)
(* last item: the task waits then, and nothing will wake it.               *)
Deaf ==
    /\ rx_buffer_full_flg /\ pc = "wait" /\ Lag > 0
    /\ \A i \in DOMAIN queue : ~HasData(queue[i])

(* A full ring is drained and the interrupts are enabled again, or bytes   *)
(* have lost their event and reception has stopped for good.               *)
FullEnds == rx_buffer_full_flg ~> (~rx_buffer_full_flg \/ []Deaf)

(* What the handler says of the stash, "send next time" (uart.c:875): it   *)
(* goes into the ring in the end.                                          *)
StashSent == rx_buffer_full_flg ~> ~rx_buffer_full_flg
=============================================================================
