------------------------------ MODULE VDBDevice ------------------------------
(***************************************************************************)
(* The receiving half of the VDB serial device: the UART driver of ESP-IDF *)
(* (external, modelled from how vdb_device.cpp uses it), the task that     *)
(* turns UART events into wire packets, and the task that hands packets to *)
(* the registered callback.                                                *)
(*                                                                         *)
(* The brain sends MaxFrames frames.  Byte number i of that stream is the  *)
(* number i itself: what the tasks look at is only whether the byte is the *)
(* 0x00 delimiter (IsZero), and what the properties look at is which bytes *)
(* reach the callback, in which order and in which company.                *)
(*                                                                         *)
(* An operator marked as a slip is a mistake this code could contain and   *)
(* does not; the properties are tested against it.                         *)
(***************************************************************************)
EXTENDS Integers, Sequences, FiniteSets, SequencesExt

CONSTANTS MaxFrames,          \* frames the brain sends (bound)
          FrameLen,           \* non-zero bytes of a frame
          RingSize,           \* receive ring buffer of the driver, BUF_SIZE * 2
          EventQueueLen,      \* length of uart0_queue
          NumIncomingPackets, \* NUM_INCOMING_PACKETS
          MaxChunk            \* most bytes the ISR moves out of the FIFO at once

ASSUME ConstantsAssumption ==
  /\ MaxFrames \in Nat
  /\ {FrameLen, RingSize, EventQueueLen, NumIncomingPackets, MaxChunk}
        \subseteq Nat \ {0}

VARIABLES next,           \* bytes the brain has put on the wire
          lost,           \* bytes dropped by the driver before a task saw them
          ring,           \* the driver's ring buffer
          stash,          \* chunk that did not fit; reception is off while it waits
          uart0_queue,    \* UART events
          task,           \* where uart_event_task is
          event,          \* the event it is handling
          dtmp,           \* bytes read and not yet handled
          inbound_buffer, \* the packet being assembled
          packet_queue,   \* packets for the other task
          handler,        \* packet the packet task holds: <<>> or <<packet>>
          callback,       \* "default" or "take_packet"
          delivered,      \* packets the callback has been given
          discarded       \* packets the queue refused, or the default callback took

driverVars == <<next, lost, ring, stash>>
taskVars   == <<task, event, dtmp, inbound_buffer>>
outVars    == <<handler, callback, delivered>>
vars == <<driverVars, uart0_queue, taskVars, packet_queue, outVars, discarded>>

-----------------------------------------------------------------------------
\* A frame on the wire: 0x00, FrameLen non-zero bytes, 0x00 (what CobsEncode of
\* the brain's copy of this library writes).
WireLen    == FrameLen + 2
StreamLen  == MaxFrames * WireLen
IsZero(i)  == i % WireLen \in {0, WireLen - 1}
Payload(f) == [k \in 1..FrameLen |-> f * WireLen + k]
Frames     == 0..(MaxFrames - 1)

EventTypes == {"data", "fifo_ovf", "buffer_full", "line"}
Events     == [type : EventTypes, size : Nat]
NoEvent    == [type |-> "line", size |-> 0]
WirePacket == Seq(Nat)

Incoming(n) == [k \in 1..n |-> next + k - 1]

Init ==
  /\ next = 0 /\ lost = {} /\ ring = <<>> /\ stash = <<>>
  /\ uart0_queue = <<>>
  /\ task = "wait" /\ event = NoEvent /\ dtmp = <<>> /\ inbound_buffer = <<>>
  /\ packet_queue = <<>>
  /\ handler = <<>> /\ callback = "default" /\ delivered = <<>>
  /\ discarded = {}

-----------------------------------------------------------------------------
(* The driver's interrupt handler.  An event that finds the queue full is lost. *)

Post(type, size) ==
  uart0_queue' = IF Len(uart0_queue) < EventQueueLen
                 THEN Append(uart0_queue, [type |-> type, size |-> size])
                 ELSE uart0_queue

\* Bytes leave the FIFO for the ring buffer and are announced.
IsrData(n) ==
  /\ stash = <<>> /\ next + n <= StreamLen
  /\ Len(ring) + n <= RingSize
  /\ ring' = ring \o Incoming(n)
  /\ next' = next + n
  /\ Post("data", n)
  /\ UNCHANGED <<lost, stash, taskVars, packet_queue, outVars, discarded>>

\* The chunk does not fit: it waits in the stash and reception is switched off.
IsrBufferFull(n) ==
  /\ stash = <<>> /\ next + n <= StreamLen
  /\ Len(ring) + n > RingSize
  /\ stash' = Incoming(n)
  /\ next' = next + n
  /\ Post("buffer_full", 0)
  /\ UNCHANGED <<lost, ring, taskVars, packet_queue, outVars, discarded>>

\* Nobody empties the FIFO in time: it is reset and its bytes are gone.
IsrFifoOverflow(n) ==
  /\ next + n <= StreamLen
  /\ next' = next + n
  /\ lost' = lost \cup Range(Incoming(n))
  /\ Post("fifo_ovf", 0)
  /\ UNCHANGED <<ring, stash, taskVars, packet_queue, outVars, discarded>>

\* Break, parity or frame error, or any other event.
IsrLine ==
  /\ Post("line", 0)
  /\ UNCHANGED <<driverVars, taskVars, packet_queue, outVars, discarded>>

Isr == \/ IsrLine
       \/ \E n \in 1..MaxChunk : IsrData(n) \/ IsrBufferFull(n) \/ IsrFifoOverflow(n)

-----------------------------------------------------------------------------
(* uart_event_task *)

\* xQueueReceive and the switch on the event's type.
TaskReceive ==
  /\ task = "wait" /\ uart0_queue # <<>>
  /\ event' = Head(uart0_queue)
  /\ uart0_queue' = Tail(uart0_queue)
  /\ task' = CASE event'.type = "data" -> "read"
               [] event'.type \in {"fifo_ovf", "buffer_full"} -> "flush"
               [] OTHER -> "wait"
  /\ UNCHANGED <<driverVars, dtmp, inbound_buffer, packet_queue, outVars, discarded>>

\* How many bytes uart_read_bytes is asked for; it waits for all of them.
\* (Slip: one byte less than was announced.)
ReadSizeShort == event.size - 1
ReadSize      == event.size

\* uart_read_bytes: the driver moves the stash behind what is left once it fits.
TaskRead ==
  /\ task = "read" /\ Len(ring) >= ReadSize
  /\ dtmp' = SubSeq(ring, 1, ReadSize)
  /\ LET rest == SubSeq(ring, ReadSize + 1, Len(ring)) IN
       IF Len(rest) + Len(stash) <= RingSize
       THEN ring' = rest \o stash /\ stash' = <<>>
       ELSE ring' = rest /\ stash' = stash
  /\ task' = "bytes"
  /\ UNCHANGED <<next, lost, uart0_queue, event, inbound_buffer, packet_queue,
                 outVars, discarded>>

\* A delimiter ends a packet unless there is nothing to end.  (Slip: size() > 1.)
EndsPacketLong(b) == IsZero(b) /\ Len(inbound_buffer) > 1
EndsPacket(b)     == IsZero(b) /\ inbound_buffer # <<>>

\* packet_queue was created for NUM_INCOMING_PACKETS pointers.  (Slip: one more.)
PacketQueueHasRoomForOneMore == Len(packet_queue) <= NumIncomingPackets
PacketQueueHasRoom           == Len(packet_queue) < NumIncomingPackets

\* inbound_buffer.clear().  (Slip: forgotten.)
NotCleared == inbound_buffer
Cleared    == <<>>

\* One byte of handle_uart_bytes; xQueueSend gives up after four ticks.
TaskByte ==
  /\ task = "bytes" /\ dtmp # <<>>
  /\ dtmp' = Tail(dtmp)
  /\ IF EndsPacket(Head(dtmp))
     THEN /\ IF PacketQueueHasRoom
             THEN /\ packet_queue' = Append(packet_queue, inbound_buffer)
                  /\ UNCHANGED discarded
             ELSE /\ discarded' = discarded \cup {inbound_buffer}
                  /\ UNCHANGED packet_queue
          /\ inbound_buffer' = Cleared
     ELSE /\ inbound_buffer' = IF IsZero(Head(dtmp)) THEN inbound_buffer
                               ELSE Append(inbound_buffer, Head(dtmp))
          /\ UNCHANGED <<packet_queue, discarded>>
  /\ UNCHANGED <<driverVars, uart0_queue, task, event, outVars>>

TaskBytesDone ==
  /\ task = "bytes" /\ dtmp = <<>>
  /\ task' = "wait"
  /\ UNCHANGED <<driverVars, uart0_queue, event, dtmp, inbound_buffer,
                 packet_queue, outVars, discarded>>

\* uart_flush_input.
DropInput ==
  /\ lost' = lost \cup Range(ring) \cup Range(stash)
  /\ ring' = <<>> /\ stash' = <<>>
  /\ UNCHANGED <<next, uart0_queue, packet_queue>>

\* xQueueReset(uart0_queue).  (Slip: the other queue.)
DropPackets == packet_queue' = <<>> /\ UNCHANGED <<driverVars, uart0_queue>>
DropEvents  == uart0_queue' = <<>> /\ UNCHANGED <<driverVars, packet_queue>>

\* Overflow recovery: uart_flush_input, then xQueueReset.  The interrupt handler
\* may run between the two.  (Slip: the two swapped.)
RecoverSwapped ==
  /\ \/ task = "flush" /\ task' = "reset" /\ DropEvents
     \/ task = "reset" /\ task' = "wait" /\ DropInput
  /\ UNCHANGED <<event, dtmp, inbound_buffer, outVars, discarded>>
Recover ==
  /\ \/ task = "flush" /\ task' = "reset" /\ DropInput
     \/ task = "reset" /\ task' = "wait" /\ DropEvents
  /\ UNCHANGED <<event, dtmp, inbound_buffer, outVars, discarded>>

EventTask == TaskReceive \/ TaskRead \/ TaskByte \/ TaskBytesDone \/ Recover

-----------------------------------------------------------------------------
(* packet_handler_thread, and the main task that registers the callback *)

HandlerReceive ==
  /\ handler = <<>> /\ packet_queue # <<>>
  /\ handler' = <<Head(packet_queue)>>
  /\ packet_queue' = Tail(packet_queue)
  /\ UNCHANGED <<driverVars, uart0_queue, taskVars, callback, delivered, discarded>>

HandlerCallback ==
  /\ handler # <<>>
  /\ handler' = <<>>
  /\ IF callback = "default"
     THEN discarded' = discarded \cup {handler[1]} /\ UNCHANGED delivered
     ELSE delivered' = Append(delivered, handler[1]) /\ UNCHANGED discarded
  /\ UNCHANGED <<driverVars, uart0_queue, taskVars, packet_queue, callback>>

PacketTask == HandlerReceive \/ HandlerCallback

RegisterReceiveCallback ==
  /\ callback = "default" /\ callback' = "take_packet"
  /\ UNCHANGED <<driverVars, uart0_queue, taskVars, packet_queue, handler,
                 delivered, discarded>>

\* The bounded stream is over and every task waits.
Quiet ==
  /\ next = StreamLen /\ task = "wait" /\ uart0_queue = <<>>
  /\ packet_queue = <<>> /\ handler = <<>>
  /\ UNCHANGED vars

Next == Isr \/ EventTask \/ PacketTask \/ RegisterReceiveCallback \/ Quiet

Spec == Init /\ [][Next]_vars

\* Both tasks have priority 12, above every other task of the program, and share
\* the processor by time slices: neither is held back for ever.
FairSpec == Spec /\ WF_vars(EventTask) /\ WF_vars(PacketTask)

-----------------------------------------------------------------------------
(* Properties *)

\* Every variable has its type, and the queues respect their capacities.
TypeOK ==
  /\ next \in 0..StreamLen
  /\ lost \in SUBSET Nat
  /\ ring \in Seq(Nat) /\ Len(ring) <= RingSize
  /\ stash \in Seq(Nat)
  /\ uart0_queue \in Seq(Events) /\ Len(uart0_queue) <= EventQueueLen
  /\ task \in {"wait", "read", "bytes", "flush", "reset"}
  /\ event \in Events
  /\ dtmp \in Seq(Nat)
  /\ inbound_buffer \in WirePacket
  /\ packet_queue \in Seq(WirePacket) /\ Len(packet_queue) <= NumIncomingPackets
  /\ handler \in Seq(WirePacket) /\ Len(handler) <= 1
  /\ callback \in {"default", "take_packet"}
  /\ delivered \in Seq(WirePacket)
  /\ discarded \in SUBSET WirePacket

\* The bytes uart_event_task asks for are always in the ring buffer already, so
\* uart_read_bytes(.., event.size, portMAX_DELAY) returns whatever the interrupt
\* handler, the lost events and the overflow recovery do.  (Reset before flush
\* would break this: an event posted in between would outlive its bytes.)
ReadNeverBlocks == task = "read" => Len(ring) >= event.size

\* A frame none of whose bytes the driver dropped, and whose last byte has been
\* handled, was made into one packet of exactly its bytes: rubbish of a torn frame
\* before it never sticks to it, because the leading delimiter closes the rubbish.
HandledUpTo(f) ==
  /\ (f + 1) * WireLen <= next
  /\ \A i \in Range(ring \o stash \o dtmp) : i >= (f + 1) * WireLen
Packets == Range(delivered) \cup Range(packet_queue) \cup Range(handler) \cup discarded
SurvivingFrameBecomesPacket ==
  \A f \in Frames :
    HandledUpTo(f) /\ (\A i \in lost : i \div WireLen # f) => Payload(f) \in Packets

\* The whole path, queues, overflow recovery and callback included, is a lossy link
\* that keeps order: the callback gets each byte at most once, in the order of the
\* wire, in packets that no delimiter is part of, and gets nothing that was not sent.
Link == INSTANCE FrameLink
          WITH Delimiters <- {i \in 0..(StreamLen - 1) : IsZero(i)}, sent <- next
LinkSpec == Link!Spec

\* Bytes announced by a data event that has not been read yet.
AnnouncedBy(queue) ==
  LET upTo[n \in 0..Len(queue)] == IF n = 0 THEN 0 ELSE upTo[n - 1] + queue[n].size
  IN upTo[Len(queue)]
InHand == IF task = "read" THEN event.size ELSE 0
Unannounced == Len(ring) - (AnnouncedBy(uart0_queue) + InHand)

\* Bytes come to lie in the ring buffer with no event to fetch them only when the
\* event queue overflows, when the stash is moved in, or when the interrupt
\* handler ran between the flush and the reset; no other step delays the tail of
\* a frame until later traffic pushes it out.
StrandedOnlyByOverflow ==
  [][Unannounced' > Unannounced
       => Len(uart0_queue) = EventQueueLen \/ task = "reset" \/ stash # <<>>]_vars

\* A packet in the queue is eventually handed to a callback.
QueuedPacketHandled ==
  \A f \in Frames : Payload(f) \in Range(packet_queue)
                      ~> Payload(f) \in Range(delivered) \cup discarded
=============================================================================
