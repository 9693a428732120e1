-------------------------------- MODULE UartRx --------------------------------
(***************************************************************************)
(* The receive side of the ESP-IDF UART driver as the GPS task uses it     *)
(* (esp-idf/components/driver/uart.c and esp_ringbuf/ringbuf.c): the       *)
(* hardware FIFO, the interrupt handler with its stash, the byte ring      *)
(* buffer, the event queue and uart_read_bytes.                            *)
(*                                                                         *)
(* A byte is identified by its position in the received stream.  The       *)
(* interrupt handler is atomic for a task of the same core; an iteration   *)
(* of the loop of uart_read_bytes is one step, because the ring's space is *)
(* freed only when an item is returned, at the end of an iteration.        *)
(***************************************************************************)
EXTENDS Integers, Sequences

CONSTANTS
    FifoLen,     \* UART_FIFO_LEN, 128
    RingSize,    \* rx_buffer_size, 2048
    QueueLen,    \* queue_size, 120
    MaxBytes,    \* bound: bytes the receiver sends
    MaxErrors    \* bound: line errors the hardware reports

ASSUME UartAssumption ==
    /\ FifoLen \in Nat \ {0} /\ QueueLen \in Nat \ {0}
    /\ RingSize \in Nat /\ FifoLen < RingSize   \* checked by uart_driver_install
    /\ MaxBytes \in Nat /\ MaxErrors \in Nat

VARIABLES
    arrived,             \* bytes sent by the receiver so far
    rx_fifo,             \* the hardware FIFO
    rx_ovf,              \* raw status RXFIFO_OVF
    rx_intr,             \* RXFIFO_FULL and RXFIFO_TOUT interrupts enabled
    stash,               \* rx_data_buf, rx_stash_len bytes of it
    rx_buffer_full_flg,
    ring,                \* bytes in rx_ring_buf that were not copied out yet
    rd,                  \* where in the ring's storage the next item starts
    held,                \* bytes of the current item copied out, not yet freed
    rx_cur_remain,       \* bytes of the current item still to be copied
    queue,               \* xQueueUart
    want,                \* length: what uart_read_bytes still has to copy
    errors,              \* line errors so far
    popped,              \* auxiliary: bytes copied out so far
    announced            \* auxiliary: bytes announced by UART_DATA events

driver == <<arrived, rx_fifo, rx_ovf, rx_intr, stash, rx_buffer_full_flg,
            ring, rd, held, rx_cur_remain, queue, want, errors, popped,
            announced>>

EventTypes == {"UART_DATA", "UART_BUFFER_FULL", "UART_FIFO_OVF", "UART_ERR"}

\* Auxiliary fields: pushed and ann count the bytes that had been put into the
\* ring and that had been announced when the event was sent.
Event == [type : EventTypes, size : 0 .. FifoLen, pushed : Nat, ann : Nat]

DriverInit ==
    /\ arrived = 0 /\ rx_fifo = <<>> /\ rx_ovf = FALSE /\ rx_intr = TRUE
    /\ stash = <<>> /\ rx_buffer_full_flg = FALSE
    /\ ring = <<>> /\ rd = 0 /\ held = 0 /\ rx_cur_remain = 0
    /\ queue = <<>> /\ want = 0 /\ errors = 0
    /\ popped = 0 /\ announced = 0

-----------------------------------------------------------------------------
(* The ring buffer, type RINGBUF_TYPE_BYTEBUF.                             *)

\* prvGetFreeSize: the space of an item is occupied until it is returned.
FreeSize == RingSize - held - Len(ring)

CheckItemFits(bytes) == Len(bytes) <= FreeSize

\* prvGetItemByteBuf: all data up to the end of the storage.
ContiguousSize ==
    IF Len(ring) <= RingSize - rd THEN Len(ring) ELSE RingSize - rd

\* rx_buffered_len, which the driver keeps equal to what is in the ring.
rx_buffered_len == Len(ring)

-----------------------------------------------------------------------------
(* The interrupt handler uart_rx_intr_handler_default.                     *)

\* xQueueSendFromISR; an event that does not fit is dropped silently.
SendEvent(type, size, pushed) ==
    IF Len(queue) < QueueLen
    THEN /\ announced' = announced + (IF type = "UART_DATA" THEN size ELSE 0)
         /\ queue' = Append(queue, [type |-> type, size |-> size,
                                    pushed |-> pushed, ann |-> announced'])
    ELSE UNCHANGED <<queue, announced>>

\* A byte arrives; on a full FIFO it is lost and the overflow is latched.
Receive ==
    /\ arrived < MaxBytes
    /\ arrived' = arrived + 1
    /\ IF Len(rx_fifo) < FifoLen
       THEN rx_fifo' = Append(rx_fifo, arrived + 1) /\ UNCHANGED rx_ovf
       ELSE rx_ovf' = TRUE /\ UNCHANGED rx_fifo
    /\ UNCHANGED <<rx_intr, stash, rx_buffer_full_flg, ring, rd, held,
                   rx_cur_remain, queue, want, errors, popped, announced>>

\* RXFIFO_FULL or RXFIFO_TOUT: the line may pause after any byte.
RxPending == rx_intr /\ rx_fifo # <<>>

\* Mutant: the result of the push is not looked at.
IsrRx_ignoreResult ==
    /\ RxPending
    /\ stash' = rx_fifo /\ rx_fifo' = <<>>
    /\ ring' = IF CheckItemFits(rx_fifo) THEN ring \o rx_fifo ELSE ring
    /\ SendEvent("UART_DATA", Len(rx_fifo), popped + Len(ring'))
    /\ UNCHANGED <<arrived, rx_ovf, rx_intr, rx_buffer_full_flg, rd, held,
                   rx_cur_remain, want, errors, popped>>

\* Mutant: after a failed push the handler goes on pushing.
IsrRx_keepGoing ==
    /\ rx_fifo # <<>>
    /\ stash' = IF CheckItemFits(rx_fifo) THEN stash ELSE rx_fifo
    /\ rx_fifo' = <<>>
    /\ ring' = IF CheckItemFits(rx_fifo) THEN ring \o rx_fifo ELSE ring
    /\ rx_buffer_full_flg' = (rx_buffer_full_flg \/ ~CheckItemFits(rx_fifo))
    /\ SendEvent("UART_DATA", Len(rx_fifo), popped + Len(ring'))
    /\ UNCHANGED <<arrived, rx_ovf, rx_intr, rd, held, rx_cur_remain, want,
                   errors, popped>>

IsrRx ==
    /\ RxPending
    /\ IF rx_buffer_full_flg
       THEN /\ rx_intr' = FALSE
            /\ UNCHANGED <<rx_fifo, stash, rx_buffer_full_flg, ring, queue,
                           announced>>
       ELSE /\ stash' = rx_fifo
            /\ rx_fifo' = <<>>
            /\ IF CheckItemFits(rx_fifo)
               THEN /\ ring' = ring \o rx_fifo
                    /\ SendEvent("UART_DATA", Len(rx_fifo),
                                 popped + Len(ring) + Len(rx_fifo))
                    /\ UNCHANGED <<rx_intr, rx_buffer_full_flg>>
               ELSE /\ rx_buffer_full_flg' = TRUE
                    /\ rx_intr' = FALSE
                    /\ SendEvent("UART_BUFFER_FULL", Len(rx_fifo),
                                 popped + Len(ring))
                    /\ UNCHANGED ring
    /\ UNCHANGED <<arrived, rx_ovf, rd, held, rx_cur_remain, want, errors,
                   popped>>

\* RXFIFO_OVF, looked at only when no receive interrupt is pending.
IsrOverflow ==
    /\ rx_ovf /\ ~RxPending
    /\ rx_fifo' = <<>> /\ rx_ovf' = FALSE
    /\ SendEvent("UART_FIFO_OVF", 0, popped + Len(ring))
    /\ UNCHANGED <<arrived, rx_intr, stash, rx_buffer_full_flg, ring, rd, held,
                   rx_cur_remain, want, errors, popped>>

\* BRK_DET, FRM_ERR and PARITY_ERR only report.
IsrLineError ==
    /\ errors < MaxErrors /\ ~RxPending /\ ~rx_ovf
    /\ errors' = errors + 1
    /\ SendEvent("UART_ERR", 0, popped + Len(ring))
    /\ UNCHANGED <<arrived, rx_fifo, rx_ovf, rx_intr, stash,
                   rx_buffer_full_flg, ring, rd, held, rx_cur_remain, want,
                   popped>>

\* Bytes in the ring that no event ever announced or will announce.
Lag == popped + Len(ring) - announced

Isr == IsrRx \/ IsrOverflow \/ IsrLineError

-----------------------------------------------------------------------------
(* uart_read_bytes with portMAX_DELAY.                                     *)

\* xRingbufferReceive blocks while the ring is empty.
ReadBlocked == rx_cur_remain = 0 /\ ring = <<>>

\* One iteration of the loop copies the first CopyLen bytes of ring and returns
\* the item, which frees its space, once all of it is copied.
ItemSize == IF rx_cur_remain = 0 THEN ContiguousSize ELSE rx_cur_remain
CopyLen == IF ItemSize > want THEN want ELSE ItemSize

CopyOut(nextRd, push) ==
    /\ want > 0 /\ ~ReadBlocked
    /\ want' = want - CopyLen
    /\ popped' = popped + CopyLen
    /\ rx_cur_remain' = ItemSize - CopyLen
    /\ held' = IF ItemSize = CopyLen THEN 0 ELSE held + CopyLen
    /\ rd' = IF ItemSize = CopyLen THEN nextRd ELSE rd
    /\ LET rest == SubSeq(ring, CopyLen + 1, Len(ring))
       IN  ring' = IF push THEN rest \o stash ELSE rest
    /\ rx_buffer_full_flg' = (rx_buffer_full_flg /\ ~push)
    /\ rx_intr' = (rx_intr \/ push)
    /\ UNCHANGED <<arrived, rx_fifo, rx_ovf, stash, queue, errors, announced>>

\* uart_check_buf_full, after vRingbufferReturnItem: the stash goes into the
\* ring if it fits, and no event says so.
PushStash ==
    /\ rx_buffer_full_flg /\ ItemSize = CopyLen
    /\ Len(stash) <= RingSize - (Len(ring) - CopyLen)

\* Mutants: the stash is forgotten; the read pointer does not wrap.
ReadIteration_noCheck == CopyOut((rd + held + CopyLen) % RingSize, FALSE)
ReadIteration_noWrap == CopyOut(rd + held + CopyLen, PushStash)

ReadIteration == CopyOut((rd + held + CopyLen) % RingSize, PushStash)
=============================================================================
