--------------------------- MODULE VDBDevice_proofs ---------------------------
(***************************************************************************)
(* Proofs about VDBDevice for every number and length of frames and every  *)
(* size of the buffers and queues.                                         *)
(***************************************************************************)
EXTENDS VDBDevice, SequenceTheorems, WellFoundedInduction, TLAPS

-----------------------------------------------------------------------------
(* The inductive invariant.  ReadNeverBlocks speaks of the event in hand     *)
(* only; what makes it so is that the announced bytes add up.  Instead of a  *)
(* sum, c[i] is how much of the ring buffer the event in hand and the first  *)
(* i queued events need together.                                            *)

Covers(c) ==
  /\ task = "read" => event.size <= c[0]
  /\ \A i, j \in 0..Len(uart0_queue) :
       i < j => c[i] + uart0_queue[j].size <= c[j]

Covered == \E c \in [0..Len(uart0_queue) -> 0..Len(ring)] : Covers(c)

\* During the recovery the queue still announces bytes that are flushed already.
CoveredUnlessRecovering == task \notin {"flush", "reset"} => Covered

IInv == TypeOK /\ CoveredUnlessRecovering

-----------------------------------------------------------------------------
\* The length of the stream and a chunk of it have their types.
LEMMA StreamLenNat == WireLen \in Nat /\ StreamLen \in Nat
<1>1. WireLen \in Nat
  BY ConstantsAssumption DEF WireLen
<1>2. \A a, b \in Nat : a * b \in Nat
  OBVIOUS
<1>. QED
  BY <1>1, <1>2, ConstantsAssumption DEF StreamLen

LEMMA IncomingType ==
  ASSUME next \in Nat, NEW n \in 1..MaxChunk
  PROVE  /\ Incoming(n) \in Seq(Nat)
         /\ Len(Incoming(n)) = n
         /\ Range(Incoming(n)) \subseteq Nat
<1>1. n \in Nat
  BY ConstantsAssumption
<1>. QED
  BY <1>1 DEF Incoming, Range

\* A sequence has its elements from the set it is a sequence over.
LEMMA RangeType ==
  ASSUME NEW S, NEW s \in Seq(S)
  PROVE  Range(s) \subseteq S
BY DEF Range

\* Posting an event keeps the queue's type and its bound, whether or not there is room.
LEMMA PostType ==
  ASSUME TypeOK, NEW t \in EventTypes, NEW n \in Nat, Post(t, n)
  PROVE  uart0_queue' \in Seq(Events) /\ Len(uart0_queue') <= EventQueueLen
<1>1. [type |-> t, size |-> n] \in Events
  BY DEF Events
<1>. QED
  <2>1. uart0_queue \in Seq(Events) /\ Len(uart0_queue) <= EventQueueLen
    BY DEF TypeOK
  <2>2. Len(uart0_queue) \in Nat /\ EventQueueLen \in Nat
    BY <2>1, LenProperties, ConstantsAssumption
  <2>. DEFINE e == [type |-> t, size |-> n]
              r == Append(uart0_queue, e)
  <2>3. r \in Seq(Events) /\ Len(r) = Len(uart0_queue) + 1
    BY <1>1, <2>1, AppendProperties
  <2>4. IF Len(uart0_queue) < EventQueueLen THEN uart0_queue' = r
                                             ELSE uart0_queue' = uart0_queue
    BY DEF Post
  <2>. HIDE DEF r
  <2>. QED
    BY <2>1, <2>2, <2>3, <2>4

\* What uart_read_bytes takes and leaves.
LEMMA ReadSplit ==
  ASSUME NEW s \in Seq(Nat), NEW n \in Nat, n <= Len(s)
  PROVE  /\ SubSeq(s, 1, n) \in Seq(Nat)
         /\ SubSeq(s, n + 1, Len(s)) \in Seq(Nat)
         /\ Len(SubSeq(s, n + 1, Len(s))) = Len(s) - n
<1>1. \A i \in 1..n : s[i] \in Nat
  OBVIOUS
<1>2. \A i \in (n + 1)..Len(s) : s[i] \in Nat
  OBVIOUS
<1>. QED
  BY <1>1, <1>2, SubSeqProperties

-----------------------------------------------------------------------------
\* Type correctness is inductive by itself.
LEMMA TypeInit == Init => TypeOK
BY StreamLenNat, ConstantsAssumption
   DEF Init, TypeOK, Events, EventTypes, NoEvent, WirePacket

LEMMA TypeNext == TypeOK /\ [Next]_vars => TypeOK'
<1>. SUFFICES ASSUME TypeOK, [Next]_vars PROVE TypeOK'
  OBVIOUS
<1>. USE StreamLenNat
<1>1. ASSUME NEW n \in 1..MaxChunk, IsrData(n) PROVE TypeOK'
  <2>1. n \in Nat /\ next \in Nat
    BY ConstantsAssumption DEF TypeOK
  <2>2. uart0_queue' \in Seq(Events) /\ Len(uart0_queue') <= EventQueueLen
    BY <1>1, <2>1, PostType DEF IsrData, EventTypes
  <2>3. ring' \in Seq(Nat) /\ Len(ring') <= RingSize
    BY <1>1, <2>1, IncomingType, ConstantsAssumption DEF IsrData, TypeOK
  <2>4. next' \in 0..StreamLen
    BY <1>1, <2>1 DEF IsrData
  <2>. QED
    BY <1>1, <2>2, <2>3, <2>4 DEF IsrData, TypeOK, taskVars, outVars
<1>2. ASSUME NEW n \in 1..MaxChunk, IsrBufferFull(n) PROVE TypeOK'
  <2>1. n \in Nat /\ next \in Nat
    BY ConstantsAssumption DEF TypeOK
  <2>2. uart0_queue' \in Seq(Events) /\ Len(uart0_queue') <= EventQueueLen
    BY <1>2, <2>1, PostType DEF IsrBufferFull, EventTypes
  <2>3. stash' \in Seq(Nat)
    BY <1>2, <2>1, IncomingType DEF IsrBufferFull
  <2>4. next' \in 0..StreamLen
    BY <1>2, <2>1 DEF IsrBufferFull
  <2>. QED
    BY <1>2, <2>2, <2>3, <2>4 DEF IsrBufferFull, TypeOK, taskVars, outVars
<1>3. ASSUME NEW n \in 1..MaxChunk, IsrFifoOverflow(n) PROVE TypeOK'
  <2>1. n \in Nat /\ next \in Nat
    BY ConstantsAssumption DEF TypeOK
  <2>2. uart0_queue' \in Seq(Events) /\ Len(uart0_queue') <= EventQueueLen
    BY <1>3, <2>1, PostType DEF IsrFifoOverflow, EventTypes
  <2>3. lost' \in SUBSET Nat
    BY <1>3, <2>1, IncomingType DEF IsrFifoOverflow, TypeOK
  <2>4. next' \in 0..StreamLen
    BY <1>3, <2>1 DEF IsrFifoOverflow
  <2>. QED
    BY <1>3, <2>2, <2>3, <2>4 DEF IsrFifoOverflow, TypeOK, taskVars, outVars
<1>4. ASSUME IsrLine PROVE TypeOK'
  <2>1. uart0_queue' \in Seq(Events) /\ Len(uart0_queue') <= EventQueueLen
    BY <1>4, PostType DEF IsrLine, EventTypes
  <2>2. UNCHANGED <<driverVars, taskVars, packet_queue, outVars, discarded>>
    BY <1>4 DEF IsrLine
  <2>. QED
    BY <2>1, <2>2 DEF TypeOK, driverVars, taskVars, outVars
<1>5. ASSUME TaskReceive PROVE TypeOK'
  <2>1. event' \in Events /\ uart0_queue' \in Seq(Events) /\ Len(uart0_queue') <= EventQueueLen
    <3>1. /\ uart0_queue \in Seq(Events) /\ uart0_queue # <<>>
          /\ Len(uart0_queue) <= EventQueueLen
          /\ event' = Head(uart0_queue) /\ uart0_queue' = Tail(uart0_queue)
      BY <1>5 DEF TaskReceive, TypeOK
    <3>2. /\ Head(uart0_queue) \in Events /\ Tail(uart0_queue) \in Seq(Events)
          /\ Len(Tail(uart0_queue)) = Len(uart0_queue) - 1
      BY <3>1, HeadTailProperties
    <3>3. Len(uart0_queue) \in Nat /\ EventQueueLen \in Nat
      BY <3>1, LenProperties, ConstantsAssumption
    <3>. QED
      BY <3>1, <3>2, <3>3
  <2>2. task' \in {"wait", "read", "bytes", "flush", "reset"}
    BY <1>5, <2>1 DEF TaskReceive, Events, EventTypes
  <2>. QED
    BY <1>5, <2>1, <2>2 DEF TaskReceive, TypeOK, driverVars, outVars
<1>6. ASSUME TaskRead PROVE TypeOK'
  <2>1. event.size \in Nat
    BY DEF TypeOK, Events
  <2>. DEFINE rest == SubSeq(ring, event.size + 1, Len(ring))
  <2>r. rest \in Seq(Nat) /\ Len(rest) <= RingSize
    <3>1. ring \in Seq(Nat) /\ Len(ring) <= RingSize /\ event.size <= Len(ring)
      BY <1>6, <2>1 DEF TaskRead, ReadSize, TypeOK
    <3>2. rest \in Seq(Nat) /\ Len(rest) = Len(ring) - event.size
      BY <3>1, <2>1, ReadSplit
    <3>3. RingSize \in Nat /\ Len(ring) \in Nat
      BY <3>1, ConstantsAssumption
    <3>. QED
      BY <2>1, <3>1, <3>2, <3>3
  <2>2. dtmp' \in Seq(Nat)
    BY <1>6, <2>1, ReadSplit DEF TaskRead, ReadSize, TypeOK
  <2>3. ring' \in Seq(Nat) /\ Len(ring') <= RingSize /\ stash' \in Seq(Nat)
    <3>1. \/ Len(rest) + Len(stash) <= RingSize /\ ring' = rest \o stash /\ stash' = <<>>
          \/ ring' = rest /\ stash' = stash
      BY <1>6 DEF TaskRead, ReadSize
    <3>. HIDE DEF rest
    <3>2. stash \in Seq(Nat)
      BY DEF TypeOK
    <3>3. rest \o stash \in Seq(Nat) /\ Len(rest \o stash) = Len(rest) + Len(stash)
      BY <3>2, <2>r, ConcatProperties
    <3>4. <<>> \in Seq(Nat)
      OBVIOUS
    <3>. QED
      BY <3>1, <3>2, <3>3, <3>4, <2>r
  <2>. QED
    BY <1>6, <2>2, <2>3 DEF TaskRead, TypeOK, outVars
<1>7. ASSUME TaskByte PROVE TypeOK'
  <2>1. Head(dtmp) \in Nat /\ dtmp' \in Seq(Nat)
    BY <1>7 DEF TaskByte, TypeOK
  <2>2. CASE EndsPacket(Head(dtmp))
    <3>1. inbound_buffer' \in WirePacket
      BY <1>7, <2>2 DEF TaskByte, Cleared, WirePacket
    <3>2. /\ packet_queue' \in Seq(WirePacket) /\ Len(packet_queue') <= NumIncomingPackets
          /\ discarded' \in SUBSET WirePacket
      <4>1. /\ inbound_buffer \in WirePacket
            /\ packet_queue \in Seq(WirePacket) /\ Len(packet_queue) <= NumIncomingPackets
            /\ discarded \in SUBSET WirePacket
        BY DEF TypeOK
      <4>2. CASE PacketQueueHasRoom
        <5>1. packet_queue' = Append(packet_queue, inbound_buffer) /\ discarded' = discarded
          BY <1>7, <2>2, <4>2 DEF TaskByte
        <5>. QED
          BY <5>1, <4>1, <4>2, ConstantsAssumption DEF PacketQueueHasRoom
      <4>3. CASE ~PacketQueueHasRoom
        <5>1. packet_queue' = packet_queue /\ discarded' = discarded \cup {inbound_buffer}
          BY <1>7, <2>2, <4>3 DEF TaskByte
        <5>. QED
          BY <5>1, <4>1
      <4>. QED
        BY <4>2, <4>3
    <3>. QED
      BY <1>7, <2>1, <3>1, <3>2 DEF TaskByte, TypeOK, driverVars, outVars
  <2>3. CASE ~EndsPacket(Head(dtmp))
    <3>1. inbound_buffer' \in WirePacket
      <4>1. inbound_buffer \in Seq(Nat)
        BY DEF TypeOK, WirePacket
      <4>2. Append(inbound_buffer, Head(dtmp)) \in Seq(Nat)
        BY <4>1, <2>1
      <4>. QED
        BY <1>7, <2>3, <4>1, <4>2 DEF TaskByte, WirePacket
    <3>. QED
      BY <1>7, <2>1, <2>3, <3>1 DEF TaskByte, TypeOK, driverVars, outVars
  <2>. QED
    BY <2>2, <2>3
<1>8. ASSUME TaskBytesDone PROVE TypeOK'
  BY <1>8 DEF TaskBytesDone, TypeOK, driverVars, outVars
<1>9. ASSUME Recover PROVE TypeOK'
  <2>1. Range(ring) \subseteq Nat /\ Range(stash) \subseteq Nat
    BY RangeType DEF TypeOK
  <2>2. CASE DropInput /\ task' = "reset"
    <3>1. lost' \in SUBSET Nat
      BY <2>1, <2>2 DEF DropInput, TypeOK
    <3>2. ring' \in Seq(Nat) /\ Len(ring') <= RingSize /\ stash' \in Seq(Nat)
      BY <2>2, ConstantsAssumption DEF DropInput
    <3>. QED
      BY <1>9, <2>2, <3>1, <3>2 DEF Recover, DropInput, TypeOK, outVars
  <2>3. CASE DropEvents /\ task' = "wait"
    BY <1>9, <2>3, ConstantsAssumption DEF Recover, DropEvents, TypeOK, driverVars, outVars
  <2>. QED
    BY <1>9, <2>2, <2>3 DEF Recover
<1>10. ASSUME HandlerReceive PROVE TypeOK'
  <2>1. packet_queue \in Seq(WirePacket) /\ packet_queue # <<>>
    BY <1>10 DEF HandlerReceive, TypeOK
  <2>2. /\ Head(packet_queue) \in WirePacket
        /\ Tail(packet_queue) \in Seq(WirePacket)
        /\ Len(Tail(packet_queue)) = Len(packet_queue) - 1
    BY <2>1, HeadTailProperties
  <2>3. /\ packet_queue' \in Seq(WirePacket)
        /\ Len(packet_queue') <= NumIncomingPackets
    BY <1>10, <2>1, <2>2, ConstantsAssumption DEF HandlerReceive, TypeOK
  <2>4. handler' \in Seq(WirePacket) /\ Len(handler') <= 1
    BY <1>10, <2>2 DEF HandlerReceive
  <2>. QED
    BY <1>10, <2>3, <2>4 DEF HandlerReceive, TypeOK, driverVars, taskVars
<1>11. ASSUME HandlerCallback PROVE TypeOK'
  <2>1. handler[1] \in WirePacket
    BY <1>11 DEF HandlerCallback, TypeOK
  <2>2. delivered' \in Seq(WirePacket) /\ discarded' \in SUBSET WirePacket
    <3>1. delivered \in Seq(WirePacket) /\ discarded \in SUBSET WirePacket
      BY DEF TypeOK
    <3>2. Append(delivered, handler[1]) \in Seq(WirePacket)
      BY <2>1, <3>1
    <3>3. discarded \cup {handler[1]} \in SUBSET WirePacket
      BY <2>1, <3>1
    <3>4. \/ discarded' = discarded \cup {handler[1]} /\ delivered' = delivered
          \/ delivered' = Append(delivered, handler[1]) /\ discarded' = discarded
      BY <1>11 DEF HandlerCallback
    <3>. QED
      BY <3>1, <3>2, <3>3, <3>4
  <2>3. handler' \in Seq(WirePacket) /\ Len(handler') <= 1
    BY <1>11 DEF HandlerCallback
  <2>. QED
    BY <1>11, <2>2, <2>3 DEF HandlerCallback, TypeOK, driverVars, taskVars
<1>12. ASSUME RegisterReceiveCallback PROVE TypeOK'
  BY <1>12 DEF RegisterReceiveCallback, TypeOK, driverVars, taskVars
<1>13. ASSUME UNCHANGED vars PROVE TypeOK'
  BY <1>13 DEF vars, TypeOK, driverVars, taskVars, outVars
<1>. QED
  BY <1>1, <1>2, <1>3, <1>4, <1>5, <1>6, <1>7, <1>8, <1>9, <1>10, <1>11, <1>12, <1>13
     DEF Next, Isr, EventTask, PacketTask, Quiet

\* The queues keep their capacities and every variable its type, whatever the
\* interrupt handler and the tasks do.
THEOREM TypeCorrect == Spec => []TypeOK
<1>. QED
  BY TypeInit, TypeNext, PTL DEF Spec
-----------------------------------------------------------------------------
(* The announced bytes are in the ring buffer. *)

LEMMA CoverInit == Init => CoveredUnlessRecovering
<1>. SUFFICES ASSUME Init PROVE Covered
  BY DEF CoveredUnlessRecovering
<1>. DEFINE c == [i \in 0..0 |-> 0]
<1>1. c \in [0..Len(uart0_queue) -> 0..Len(ring)]
  BY DEF Init
<1>2. Covers(c)
  BY DEF Init, Covers
<1>. QED
  BY <1>1, <1>2 DEF Covered

\* Covers survives when the ring buffer does not shrink and the queue does not
\* change; the task may go anywhere but into a read.
LEMMA CoverKept ==
  ASSUME TypeOK, CoveredUnlessRecovering,
         task' \notin {"flush", "reset"} => task \notin {"flush", "reset"},
         task' = "read" => task = "read" /\ event' = event,
         uart0_queue' = uart0_queue, Len(ring') \in Nat, Len(ring) <= Len(ring')
  PROVE  CoveredUnlessRecovering'
<1>. SUFFICES ASSUME task' \notin {"flush", "reset"} PROVE Covered'
  BY DEF CoveredUnlessRecovering
<1>1. PICK c \in [0..Len(uart0_queue) -> 0..Len(ring)] : Covers(c)
  BY DEF CoveredUnlessRecovering, Covered
<1>2. Len(ring) \in Nat
  BY DEF TypeOK
<1>3. c \in [0..Len(uart0_queue') -> 0..Len(ring')]
  BY <1>1, <1>2
<1>4. Covers(c)'
  BY <1>1 DEF Covers
<1>. QED
  BY <1>3, <1>4 DEF Covered

\* An event at the end of the queue that announces no more than the bytes put at
\* the end of the ring buffer with it; lost if the queue is full.
LEMMA CoverPost ==
  ASSUME TypeOK, CoveredUnlessRecovering,
         NEW t \in EventTypes, NEW n \in Nat, Post(t, n),
         UNCHANGED <<task, event>>, Len(ring') \in Nat, Len(ring) + n <= Len(ring')
  PROVE  CoveredUnlessRecovering'
<1>1. Len(ring) \in Nat /\ uart0_queue \in Seq(Events)
  BY DEF TypeOK
<1>2. CASE uart0_queue' = uart0_queue
  BY <1>1, <1>2, CoverKept
<1>3. CASE uart0_queue' = Append(uart0_queue, [type |-> t, size |-> n])
  <2>. SUFFICES ASSUME task' \notin {"flush", "reset"} PROVE Covered'
    BY DEF CoveredUnlessRecovering
  <2>. DEFINE m == Len(uart0_queue)
              e == [type |-> t, size |-> n]
  <2>1. PICK c \in [0..m -> 0..Len(ring)] : Covers(c)
    BY DEF CoveredUnlessRecovering, Covered
  <2>. DEFINE d == [i \in 0..(m + 1) |-> IF i = m + 1 THEN Len(ring') ELSE c[i]]
  <2>2. e \in Events /\ m \in Nat
    BY <1>1 DEF Events
  <2>3. /\ Len(uart0_queue') = m + 1
        /\ uart0_queue'[m + 1].size = n
        /\ \A j \in 1..m : uart0_queue'[j] = uart0_queue[j]
    BY <1>1, <1>3, <2>2
  <2>4. \A i \in 0..m : c[i] \in Nat /\ c[i] <= Len(ring)
    BY <2>1, <1>1
  <2>5. d \in [0..Len(uart0_queue') -> 0..Len(ring')]
    BY <1>1, <2>2, <2>3, <2>4
  <2>6. task' = "read" => event'.size <= d[0]
    BY <2>1, <2>2 DEF Covers
  <2>7. ASSUME NEW i \in 0..(m + 1), NEW j \in 0..(m + 1), i < j
        PROVE  d[i] + uart0_queue'[j].size <= d[j]
    <3>1. CASE j = m + 1
      BY <1>1, <2>2, <2>3, <2>4, <2>7, <3>1
    <3>2. CASE j # m + 1
      <4>1. i \in 0..m /\ j \in 0..m /\ j \in 1..m
        BY <2>2, <2>7, <3>2
      <4>. QED
        BY <2>1, <2>2, <2>3, <2>7, <4>1 DEF Covers
    <3>. QED
      BY <3>1, <3>2
  <2>. HIDE DEF d
  <2>8. PICK f : f = d
    OBVIOUS
  <2>9. Covers(f)'
    BY <2>3, <2>6, <2>7, <2>8 DEF Covers
  <2>. QED
    BY <2>5, <2>8, <2>9 DEF Covered
<1>. QED
  BY <1>2, <1>3 DEF Post

LEMMA CoverNext == IInv /\ [Next]_vars => CoveredUnlessRecovering'
<1>. SUFFICES ASSUME TypeOK, CoveredUnlessRecovering, [Next]_vars
              PROVE  CoveredUnlessRecovering'
  BY DEF IInv
<1>0. Len(ring) \in Nat /\ ring \in Seq(Nat) /\ uart0_queue \in Seq(Events)
  BY DEF TypeOK
<1>1. ASSUME NEW n \in 1..MaxChunk, IsrData(n) PROVE CoveredUnlessRecovering'
  <2>1. n \in Nat /\ next \in Nat
    BY ConstantsAssumption DEF TypeOK
  <2>2. Len(ring') = Len(ring) + n
    <3>1. Incoming(n) \in Seq(Nat) /\ Len(Incoming(n)) = n
      BY <2>1, IncomingType
    <3>2. ring' = ring \o Incoming(n)
      BY <1>1 DEF IsrData
    <3>. QED
      BY <1>0, <3>1, <3>2, ConcatProperties
  <2>. QED
    BY <1>0, <1>1, <2>1, <2>2, CoverPost DEF IsrData, EventTypes, taskVars
<1>2. ASSUME NEW n \in 1..MaxChunk, IsrBufferFull(n) \/ IsrFifoOverflow(n) \/ IsrLine
      PROVE  CoveredUnlessRecovering'
  BY <1>0, <1>2, CoverPost
     DEF IsrBufferFull, IsrFifoOverflow, IsrLine, EventTypes, taskVars, driverVars
<1>3. ASSUME IsrLine PROVE CoveredUnlessRecovering'
  BY <1>0, <1>3, CoverPost DEF IsrLine, EventTypes, taskVars, driverVars
<1>4. ASSUME TaskReceive PROVE CoveredUnlessRecovering'
  <2>. SUFFICES ASSUME task' \notin {"flush", "reset"} PROVE Covered'
    BY DEF CoveredUnlessRecovering
  <2>. DEFINE m == Len(uart0_queue) - 1
  <2>1. PICK c \in [0..Len(uart0_queue) -> 0..Len(ring)] : Covers(c)
    BY <1>4 DEF TaskReceive, CoveredUnlessRecovering, Covered
  <2>. DEFINE d == [i \in 0..m |-> c[i + 1]]
  <2>2. /\ m \in Nat /\ Len(uart0_queue') = m
        /\ event' = uart0_queue[1] /\ event' \in Events
        /\ \A i \in 1..m : uart0_queue'[i] = uart0_queue[i + 1]
        /\ ring' = ring
    BY <1>0, <1>4, HeadTailProperties DEF TaskReceive, driverVars
  <2>3. d \in [0..Len(uart0_queue') -> 0..Len(ring')]
    BY <2>1, <2>2
  <2>4. event'.size <= d[0]
    <3>1. c[0] + uart0_queue[1].size <= c[1]
      BY <2>1, <2>2 DEF Covers
    <3>2. c[0] \in Nat /\ c[1] \in Nat /\ event'.size \in Nat
      BY <1>0, <2>1, <2>2 DEF Events
    <3>. QED
      BY <2>2, <3>1, <3>2
  <2>5. ASSUME NEW i \in 0..m, NEW j \in 0..m, i < j
        PROVE  d[i] + uart0_queue'[j].size <= d[j]
    BY <2>1, <2>2, <2>5 DEF Covers
  <2>. HIDE DEF d
  <2>6. PICK f : f = d
    OBVIOUS
  <2>7. Covers(f)'
    BY <2>2, <2>4, <2>5, <2>6 DEF Covers
  <2>. QED
    BY <2>3, <2>6, <2>7 DEF Covered
<1>5. ASSUME TaskRead PROVE CoveredUnlessRecovering'
  <2>. DEFINE k == event.size
              m == Len(uart0_queue)
              rest == SubSeq(ring, k + 1, Len(ring))
  <2>1. PICK c \in [0..m -> 0..Len(ring)] : Covers(c)
    BY <1>5 DEF TaskRead, CoveredUnlessRecovering, Covered
  <2>. DEFINE d == [i \in 0..m |-> c[i] - k]
  <2>2. k \in Nat /\ m \in Nat /\ uart0_queue' = uart0_queue /\ task' = "bytes"
        /\ k <= Len(ring) /\ k <= c[0]
    BY <1>0, <1>5, <2>1 DEF TaskRead, ReadSize, TypeOK, Events, Covers
  <2>3. rest \in Seq(Nat) /\ Len(rest) = Len(ring) - k
    BY <1>0, <2>2, ReadSplit
  <2>4. Len(ring') \in Nat /\ Len(rest) <= Len(ring')
    <3>1. ring' = rest \o stash \/ ring' = rest
      BY <1>5 DEF TaskRead, ReadSize
    <3>2. stash \in Seq(Nat)
      BY DEF TypeOK
    <3>. HIDE DEF rest
    <3>3. /\ Len(rest) \in Nat /\ Len(stash) \in Nat
          /\ Len(rest \o stash) = Len(rest) + Len(stash)
      BY <2>3, <3>2, ConcatProperties, LenProperties
    <3>. QED
      BY <3>1, <3>3
  <2>. HIDE DEF rest
  <2>5. \A j \in 1..m : uart0_queue[j].size \in Nat
    <3>1. \A j \in 1..m : uart0_queue[j] \in Events
      BY <1>0
    <3>. QED
      BY <3>1 DEF Events
  <2>6. \A i \in 0..m : c[i] \in Nat /\ c[i] <= Len(ring) /\ k <= c[i]
    <3>1. \A i \in 0..m : c[i] \in Nat /\ c[i] <= Len(ring)
      BY <1>0, <2>1
    <3>2. \A i \in 1..m : c[0] + uart0_queue[i].size <= c[i]
      BY <2>1, <2>2 DEF Covers
    <3>3. ASSUME NEW i \in 1..m PROVE k <= c[i]
      <4>1. c[0] \in Nat /\ c[i] \in Nat /\ uart0_queue[i].size \in Nat
        BY <2>2, <2>5, <3>1
      <4>. QED
        BY <2>2, <3>2, <4>1
    <3>. QED
      BY <2>2, <3>1, <3>3
  <2>7. d \in [0..Len(uart0_queue') -> 0..Len(ring')]
    BY <1>0, <2>2, <2>3, <2>4, <2>6
  <2>8. \A i, j \in 0..m : i < j => d[i] + uart0_queue'[j].size <= d[j]
    <3>. SUFFICES ASSUME NEW i \in 0..m, NEW j \in 0..m, i < j
                  PROVE  d[i] + uart0_queue'[j].size <= d[j]
      OBVIOUS
    <3>1. c[i] + uart0_queue[j].size <= c[j]
      BY <2>1 DEF Covers
    <3>2. j \in 1..m
      BY <2>2
    <3>. QED
      BY <2>2, <2>5, <2>6, <3>1, <3>2
  <2>. HIDE DEF d
  <2>9. PICK f : f = d
    OBVIOUS
  <2>10. Covers(f)'
    BY <2>2, <2>8, <2>9 DEF Covers
  <2>. QED
    BY <2>7, <2>9, <2>10 DEF Covered, CoveredUnlessRecovering
<1>6. ASSUME TaskByte \/ TaskBytesDone PROVE CoveredUnlessRecovering'
  BY <1>0, <1>6, CoverKept DEF TaskByte, TaskBytesDone, driverVars
<1>7. ASSUME Recover PROVE CoveredUnlessRecovering'
  <2>1. CASE task' = "reset"
    BY <2>1 DEF CoveredUnlessRecovering
  <2>2. CASE task' = "wait" /\ DropEvents
    <3>. DEFINE c == [i \in 0..0 |-> 0]
    <3>1. uart0_queue' = <<>> /\ Len(ring') \in Nat
      BY <1>0, <2>2 DEF DropEvents, driverVars
    <3>2. c \in [0..Len(uart0_queue') -> 0..Len(ring')]
      BY <3>1
    <3>3. Covers(c)'
      BY <2>2, <3>1 DEF Covers
    <3>. QED
      BY <3>2, <3>3 DEF Covered, CoveredUnlessRecovering
  <2>. QED
    BY <1>7, <2>1, <2>2 DEF Recover
<1>8. ASSUME PacketTask \/ RegisterReceiveCallback \/ UNCHANGED vars
      PROVE  CoveredUnlessRecovering'
  BY <1>0, <1>8, CoverKept
     DEF PacketTask, HandlerReceive, HandlerCallback, RegisterReceiveCallback,
         vars, driverVars, taskVars
<1>. QED
  BY <1>1, <1>2, <1>3, <1>4, <1>5, <1>6, <1>7, <1>8 DEF Next, Isr, EventTask, Quiet

\* uart_read_bytes(.., event.size, portMAX_DELAY) never waits: whatever interrupts,
\* lost events and overflow recoveries came before, and for every size of the ring
\* buffer and the event queue, the bytes asked for are there.
THEOREM ReadsNeverBlock == Spec => []ReadNeverBlocks
<1>1. Init => IInv
  BY TypeInit, CoverInit DEF IInv
<1>2. IInv /\ [Next]_vars => IInv'
  BY TypeNext, CoverNext DEF IInv
<1>3. IInv => ReadNeverBlocks
  <2>. SUFFICES ASSUME IInv, task = "read" PROVE Len(ring) >= event.size
    BY DEF ReadNeverBlocks
  <2>1. PICK c \in [0..Len(uart0_queue) -> 0..Len(ring)] : Covers(c)
    BY DEF IInv, CoveredUnlessRecovering, Covered
  <2>2. Len(uart0_queue) \in Nat /\ Len(ring) \in Nat /\ event.size \in Nat
    BY DEF IInv, TypeOK, Events
  <2>3. c[0] \in 0..Len(ring) /\ event.size <= c[0]
    BY <2>1, <2>2 DEF Covers
  <2>. QED
    BY <2>2, <2>3
<1>. QED
  BY <1>1, <1>2, <1>3, PTL DEF Spec

-----------------------------------------------------------------------------
(* What the queued events announce is a sum over the queue.  Facts about it *)
(* need induction, which is done with sets of numbers here: that < is       *)
(* well-founded on the naturals is a theorem of the library.                *)

\* The least number of a set, and induction, in terms of sets.
LEMMA LeastNumber ==
  ASSUME NEW T \in SUBSET Nat, T # {}
  PROVE  \E n \in T : \A m \in T : n <= m
<1>. DEFINE R == OpToRel(<, Nat)
<1>1. IsWellFoundedOn(R, Nat)
  BY NatLessThanWellFounded DEF OpToRel
<1>2. \A p \in Nat \X Nat : p[1] < p[2] => p \in R
  BY DEF OpToRel
<1>. HIDE DEF R
<1>3. PICK n \in T : \A m \in T : ~ (<<m, n>> \in R)
  BY <1>1, WFMin
<1>4. \A m \in T : ~ (m < n)
  <2>1. \A m \in T : <<m, n>> \in Nat \X Nat
    OBVIOUS
  <2>. QED
    BY <1>2, <1>3, <2>1
<1>. QED
  BY <1>4

LEMMA Induction ==
  ASSUME NEW S, 0 \in S, \A n \in Nat : n \in S => n + 1 \in S
  PROVE  Nat \subseteq S
<1>. SUFFICES ASSUME Nat \ S # {} PROVE FALSE
  OBVIOUS
<1>1. PICK n \in Nat \ S : \A m \in Nat \ S : n <= m
  BY LeastNumber
<1>2. n # 0 /\ n - 1 \in Nat
  BY <1>1
<1>3. n - 1 \in S
  BY <1>1, <1>2
<1>. QED
  BY <1>1, <1>2, <1>3

\* c[i] is what the first i events announce.
SumsUpTo(q, k, c) == c[0] = 0 /\ \A i \in 1..k : c[i] = c[i - 1] + q[i].size

\* There are such sums, and the recursion of AnnouncedBy computes them.
LEMMA SumsExist ==
  ASSUME NEW q \in Seq(Events)
  PROVE  \E c \in [0..Len(q) -> Nat] : SumsUpTo(q, Len(q), c)
<1>. DEFINE S == {k \in Nat : k <= Len(q) => \E c \in [0..k -> Nat] : SumsUpTo(q, k, c)}
<1>1. 0 \in S
  <2>. DEFINE c == [i \in 0..0 |-> 0]
  <2>1. c \in [0..0 -> Nat] /\ SumsUpTo(q, 0, c)
    BY DEF SumsUpTo
  <2>. HIDE DEF c
  <2>. QED
    BY <2>1
<1>2. ASSUME NEW k \in Nat, k \in S PROVE k + 1 \in S
  <2>. SUFFICES ASSUME k + 1 <= Len(q)
                PROVE  \E c \in [0..(k + 1) -> Nat] : SumsUpTo(q, k + 1, c)
    OBVIOUS
  <2>1. PICK c \in [0..k -> Nat] : SumsUpTo(q, k, c)
    BY <1>2
  <2>2. q[k + 1].size \in Nat
    <3>1. q[k + 1] \in Events
      OBVIOUS
    <3>. QED
      BY <3>1 DEF Events
  <2>. DEFINE d == [i \in 0..(k + 1) |-> IF i = k + 1 THEN c[k] + q[k + 1].size ELSE c[i]]
  <2>3. \A i \in 0..k : c[i] \in Nat
    BY <2>1
  <2>4. d \in [0..(k + 1) -> Nat]
    BY <2>2, <2>3
  <2>5. d[0] = 0
    BY <2>1 DEF SumsUpTo
  <2>6. ASSUME NEW i \in 1..(k + 1) PROVE d[i] = d[i - 1] + q[i].size
    <3>1. CASE i = k + 1
      BY <3>1
    <3>2. CASE i \in 1..k
      BY <2>1, <3>2 DEF SumsUpTo
    <3>. QED
      BY <3>1, <3>2
  <2>. QED
    BY <2>4, <2>5, <2>6 DEF SumsUpTo
<1>3. Nat \subseteq S
  <2>. HIDE DEF S
  <2>. QED
    BY <1>1, <1>2, Induction
<1>4. Len(q) \in Nat
  OBVIOUS
<1>. QED
  BY <1>3, <1>4

LEMMA AnnouncedIsSum ==
  ASSUME NEW q \in Seq(Events), NEW c \in [0..Len(q) -> Nat], SumsUpTo(q, Len(q), c)
  PROVE  AnnouncedBy(q) = c[Len(q)]
<1>. DEFINE F(f) == [n \in 0..Len(q) |-> IF n = 0 THEN 0 ELSE f[n - 1] + q[n].size]
            upTo == CHOOSE f : f = F(f)
            S == {n \in Nat : n <= Len(q) => upTo[n] = c[n]}
<1>1. c = F(c)
  BY DEF SumsUpTo
<1>2. upTo = F(upTo)
  BY <1>1
<1>3. AnnouncedBy(q) = upTo[Len(q)]
  BY DEF AnnouncedBy
<1>. HIDE DEF upTo
<1>4. 0 \in S
  BY <1>2 DEF SumsUpTo
<1>5. ASSUME NEW n \in Nat, n \in S PROVE n + 1 \in S
  <2>. SUFFICES ASSUME n + 1 <= Len(q) PROVE upTo[n + 1] = c[n + 1]
    OBVIOUS
  <2>1. upTo[n] = c[n]
    BY <1>5
  <2>2. n + 1 \in 0..Len(q) /\ n + 1 # 0 /\ (n + 1) - 1 = n
    OBVIOUS
  <2>3. upTo[n + 1] = upTo[n] + q[n + 1].size
    BY <1>2, <2>2
  <2>4. c[n + 1] = c[n] + q[n + 1].size
    BY <2>2 DEF SumsUpTo
  <2>. QED
    BY <2>1, <2>3, <2>4
<1>6. Nat \subseteq S
  <2>. HIDE DEF S
  <2>. QED
    BY <1>4, <1>5, Induction
<1>7. Len(q) \in Nat
  OBVIOUS
<1>. QED
  BY <1>3, <1>6, <1>7

\* What an event more, or one less, does to the sum.
LEMMA AnnouncedSums ==
  ASSUME NEW q \in Seq(Events)
  PROVE  /\ AnnouncedBy(q) \in Nat
         /\ q = <<>> => AnnouncedBy(q) = 0
         /\ \A e \in Events : AnnouncedBy(Append(q, e)) = AnnouncedBy(q) + e.size
         /\ q # <<>> => AnnouncedBy(Tail(q)) = AnnouncedBy(q) - Head(q).size
<1>1. PICK c \in [0..Len(q) -> Nat] : SumsUpTo(q, Len(q), c)
  BY SumsExist
<1>. DEFINE m == Len(q)
<1>2. m \in Nat /\ c[m] \in Nat /\ AnnouncedBy(q) = c[m]
  BY <1>1, AnnouncedIsSum
<1>3. q = <<>> => AnnouncedBy(q) = 0
  BY <1>1, <1>2 DEF SumsUpTo
<1>4. ASSUME NEW e \in Events PROVE AnnouncedBy(Append(q, e)) = AnnouncedBy(q) + e.size
  <2>. DEFINE r == Append(q, e)
              d == [i \in 0..(m + 1) |-> IF i = m + 1 THEN c[m] + e.size ELSE c[i]]
  <2>1. r \in Seq(Events) /\ Len(r) = m + 1 /\ r[m + 1] = e /\ \A i \in 1..m : r[i] = q[i]
    OBVIOUS
  <2>2. e.size \in Nat
    BY DEF Events
  <2>3. d \in [0..(m + 1) -> Nat]
    BY <1>1, <1>2, <2>2
  <2>4. SumsUpTo(r, m + 1, d)
    <3>1. d[0] = 0
      BY <1>1, <1>2 DEF SumsUpTo
    <3>2. ASSUME NEW i \in 1..(m + 1) PROVE d[i] = d[i - 1] + r[i].size
      <4>. HIDE DEF r
      <4>1. CASE i = m + 1
        <5>1. m \in 0..(m + 1) /\ m + 1 \in 0..(m + 1) /\ m # m + 1 /\ i - 1 = m
          BY <1>2, <4>1
        <5>2. d[i] = c[m] + e.size /\ d[i - 1] = c[m]
          BY <4>1, <5>1
        <5>. QED
          BY <2>1, <4>1, <5>2
      <4>2. CASE i \in 1..m
        BY <1>1, <1>2, <2>1, <4>2 DEF SumsUpTo
      <4>. QED
        BY <1>2, <4>1, <4>2
    <3>. QED
      BY <3>1, <3>2 DEF SumsUpTo
  <2>5. d[m + 1] = c[m] + e.size
    BY <1>2
  <2>. HIDE DEF r, d
  <2>6. AnnouncedBy(r) = d[m + 1]
    BY <2>1, <2>3, <2>4, AnnouncedIsSum
  <2>. QED
    BY <1>2, <2>5, <2>6 DEF r
<1>5. ASSUME q # <<>> PROVE AnnouncedBy(Tail(q)) = AnnouncedBy(q) - Head(q).size
  <2>. DEFINE r == Tail(q)
              h == Head(q).size
              d == [i \in 0..(m - 1) |-> c[i + 1] - h]
  <2>1. /\ m - 1 \in Nat /\ r \in Seq(Events) /\ Len(r) = m - 1 /\ Head(q) = q[1]
        /\ \A i \in 1..(m - 1) : r[i] = q[i + 1]
    BY <1>5, HeadTailProperties
  <2>2. h \in Nat
    <3>1. q[1] \in Events
      BY <1>2, <2>1
    <3>. QED
      BY <2>1, <3>1 DEF Events
  <2>3. /\ \A i \in 0..m : c[i] \in Nat
        /\ \A i \in 1..m : c[i] = c[i - 1] + q[i].size
        /\ c[0] = 0
    BY <1>1 DEF SumsUpTo
  <2>4. c[1] = h
    BY <1>2, <2>1, <2>2, <2>3
  <2>5. \A i \in 0..(m - 1) : c[i + 1] >= h
    <3>. DEFINE S == {i \in Nat : i <= m - 1 => c[i + 1] >= h}
    <3>1. 0 \in S
      BY <2>2, <2>4
    <3>2. ASSUME NEW i \in Nat, i \in S PROVE i + 1 \in S
      <4>. SUFFICES ASSUME i + 1 <= m - 1 PROVE c[i + 1 + 1] >= h
        OBVIOUS
      <4>1. i + 1 + 1 \in 1..m /\ i + 1 \in 0..m /\ (i + 1 + 1) - 1 = i + 1
        BY <1>2
      <4>2. c[i + 1 + 1] = c[i + 1] + q[i + 1 + 1].size /\ c[i + 1] \in Nat
        BY <2>3, <4>1
      <4>3. q[i + 1 + 1].size \in Nat
        <5>1. q[i + 1 + 1] \in Events
          BY <4>1
        <5>. QED
          BY <5>1 DEF Events
      <4>4. c[i + 1] >= h
        BY <1>2, <3>2
      <4>. QED
        BY <2>2, <4>2, <4>3, <4>4
    <3>3. Nat \subseteq S
      <4>. HIDE DEF S
      <4>. QED
        BY <3>1, <3>2, Induction
    <3>. QED
      BY <3>3
  <2>6. d \in [0..(m - 1) -> Nat]
    BY <1>2, <2>1, <2>2, <2>3, <2>5
  <2>7. SumsUpTo(r, m - 1, d)
    <3>1. d[0] = 0
      BY <2>1, <2>2, <2>4
    <3>2. ASSUME NEW i \in 1..(m - 1) PROVE d[i] = d[i - 1] + r[i].size
      <4>1. /\ i + 1 \in 1..m /\ (i + 1) - 1 = i /\ i \in 0..m /\ i + 1 \in 0..m
            /\ i \in 0..(m - 1) /\ i - 1 \in 0..(m - 1) /\ (i - 1) + 1 = i
        BY <1>2, <2>1
      <4>2. c[i + 1] = c[i] + q[i + 1].size /\ c[i + 1] \in Nat /\ c[i] \in Nat
        BY <2>3, <4>1
      <4>3. r[i].size = q[i + 1].size /\ d[i] = c[i + 1] - h /\ d[i - 1] = c[i] - h
        BY <2>1, <4>1
      <4>4. q[i + 1].size \in Nat
        <5>1. q[i + 1] \in Events
          BY <4>1
        <5>. QED
          BY <5>1 DEF Events
      <4>. HIDE DEF d, r, h, m
      <4>. QED
        BY <2>2, <4>2, <4>3, <4>4
    <3>. QED
      BY <3>1, <3>2 DEF SumsUpTo
  <2>8. d[m - 1] = c[m] - h
    BY <1>2, <2>1
  <2>. HIDE DEF d, r
  <2>9. AnnouncedBy(r) = d[m - 1]
    BY <2>1, <2>6, <2>7, AnnouncedIsSum
  <2>. QED
    BY <1>2, <2>8, <2>9 DEF r
<1>. QED
  BY <1>2, <1>3, <1>4, <1>5

-----------------------------------------------------------------------------
(* Bytes are stranded only by an overflow.  Only data events announce bytes. *)

OnlyDataCounts ==
  \A i \in 1..Len(uart0_queue) : uart0_queue[i].type # "data" => uart0_queue[i].size = 0

\* An event more in the queue, or lost.
LEMMA PostCounts ==
  ASSUME TypeOK, OnlyDataCounts, NEW t \in EventTypes, NEW n \in Nat, Post(t, n),
         t = "data" \/ n = 0
  PROVE  OnlyDataCounts'
<1>. DEFINE e == [type |-> t, size |-> n]
<1>1. uart0_queue \in Seq(Events) /\ Len(uart0_queue) \in Nat
  BY DEF TypeOK
<1>2. CASE uart0_queue' = uart0_queue
  BY <1>2 DEF OnlyDataCounts
<1>3. CASE uart0_queue' = Append(uart0_queue, e)
  <2>1. /\ Len(uart0_queue') = Len(uart0_queue) + 1 /\ uart0_queue'[Len(uart0_queue) + 1] = e
        /\ \A i \in 1..Len(uart0_queue) : uart0_queue'[i] = uart0_queue[i]
    BY <1>1, <1>3
  <2>2. e.type = t /\ e.size = n
    OBVIOUS
  <2>3. ASSUME NEW i \in 1..Len(uart0_queue'), uart0_queue'[i].type # "data"
        PROVE  uart0_queue'[i].size = 0
    <3>1. i \in 1..Len(uart0_queue) \/ i = Len(uart0_queue) + 1
      BY <1>1, <2>1
    <3>. QED
      BY <2>1, <2>2, <2>3, <3>1 DEF OnlyDataCounts
  <2>. QED
    BY <2>3 DEF OnlyDataCounts
<1>. QED
  BY <1>2, <1>3 DEF Post

LEMMA CountsInit == Init => OnlyDataCounts
BY DEF Init, OnlyDataCounts

LEMMA CountsNext == TypeOK /\ OnlyDataCounts /\ [Next]_vars => OnlyDataCounts'
<1>. SUFFICES ASSUME TypeOK, OnlyDataCounts, [Next]_vars PROVE OnlyDataCounts'
  OBVIOUS
<1>1. ASSUME NEW n \in 1..MaxChunk,
             IsrData(n) \/ IsrBufferFull(n) \/ IsrFifoOverflow(n) \/ IsrLine
      PROVE  OnlyDataCounts'
  <2>1. n \in Nat
    BY ConstantsAssumption
  <2>. QED
    BY <1>1, <2>1, PostCounts
       DEF IsrData, IsrBufferFull, IsrFifoOverflow, IsrLine, EventTypes
<1>2. ASSUME IsrLine PROVE OnlyDataCounts'
  BY <1>2, PostCounts DEF IsrLine, EventTypes
<1>3. ASSUME TaskReceive PROVE OnlyDataCounts'
  <2>1. /\ uart0_queue \in Seq(Events) /\ uart0_queue # <<>>
        /\ uart0_queue' = Tail(uart0_queue)
    BY <1>3 DEF TaskReceive, TypeOK
  <2>2. /\ Len(uart0_queue') = Len(uart0_queue) - 1 /\ Len(uart0_queue) \in Nat
        /\ \A i \in 1..Len(uart0_queue') : uart0_queue'[i] = uart0_queue[i + 1]
    BY <2>1, HeadTailProperties
  <2>. QED
    BY <2>2 DEF OnlyDataCounts
<1>4. ASSUME Recover PROVE OnlyDataCounts'
  <2>1. uart0_queue' = uart0_queue \/ uart0_queue' = <<>>
    BY <1>4 DEF Recover, DropInput, DropEvents
  <2>. QED
    BY <2>1 DEF OnlyDataCounts
<1>5. ASSUME UNCHANGED uart0_queue PROVE OnlyDataCounts'
  BY <1>5 DEF OnlyDataCounts
<1>6. CASE TaskRead \/ TaskByte \/ TaskBytesDone \/ PacketTask \/ RegisterReceiveCallback
             \/ UNCHANGED vars
  <2>1. UNCHANGED uart0_queue
    BY <1>6 DEF TaskRead, TaskByte, TaskBytesDone, PacketTask, HandlerReceive,
                HandlerCallback, RegisterReceiveCallback, vars
  <2>. QED
    BY <1>5, <2>1
<1>. QED
  BY <1>1, <1>2, <1>3, <1>4, <1>6 DEF Next, Isr, EventTask, Quiet

\* A new event announces exactly the bytes put into the ring buffer with it, since
\* the queue has room for it.
LEMMA PostUnannounced ==
  ASSUME TypeOK, Len(uart0_queue) # EventQueueLen, NEW t \in EventTypes, NEW n \in Nat,
         Post(t, n), UNCHANGED <<task, event>>, Len(ring') = Len(ring) + n
  PROVE  Unannounced' = Unannounced
<1>1. /\ uart0_queue \in Seq(Events) /\ Len(uart0_queue) < EventQueueLen
      /\ Len(ring) \in Nat /\ event.size \in Nat
  <2>1. /\ uart0_queue \in Seq(Events) /\ Len(uart0_queue) <= EventQueueLen
        /\ ring \in Seq(Nat) /\ event \in Events
    BY DEF TypeOK
  <2>2. Len(uart0_queue) \in Nat /\ Len(ring) \in Nat /\ EventQueueLen \in Nat
    BY <2>1, LenProperties, ConstantsAssumption
  <2>3. event.size \in Nat
    BY <2>1 DEF Events
  <2>. QED
    BY <2>1, <2>2, <2>3
<1>. DEFINE e == [type |-> t, size |-> n]
<1>2. uart0_queue' = Append(uart0_queue, e) /\ e \in Events /\ e.size = n
  BY <1>1 DEF Post, Events
<1>3. AnnouncedBy(uart0_queue') = AnnouncedBy(uart0_queue) + n /\ AnnouncedBy(uart0_queue) \in Nat
  <2>. HIDE DEF e
  <2>. QED
    BY <1>1, <1>2, AnnouncedSums
<1>4. InHand' = InHand /\ InHand \in Nat
  BY <1>1 DEF InHand
<1>. QED
  BY <1>1, <1>3, <1>4 DEF Unannounced

\* Bytes come to lie in the ring buffer unannounced only by an overflow of the event
\* queue or of the ring buffer: neither reading nor the flush nor a line error ever
\* leaves the tail of a frame waiting for later traffic.
THEOREM OnlyOverflowStrands == Spec => StrandedOnlyByOverflow
<1>. DEFINE Step == Unannounced' > Unannounced
                     => Len(uart0_queue) = EventQueueLen \/ task = "reset" \/ stash # <<>>
<1>1. TypeOK /\ OnlyDataCounts /\ [Next]_vars => [Step]_vars
  <2>. SUFFICES ASSUME TypeOK, OnlyDataCounts, Next,
                       Len(uart0_queue) # EventQueueLen, task # "reset", stash = <<>>
                PROVE  ~ (Unannounced' > Unannounced)
    OBVIOUS
  <2>0. /\ uart0_queue \in Seq(Events) /\ ring \in Seq(Nat) /\ Len(ring) \in Nat
        /\ event \in Events /\ event.size \in Nat /\ InHand \in Nat
        /\ AnnouncedBy(uart0_queue) \in Nat /\ Unannounced \in Int
    <3>1. /\ uart0_queue \in Seq(Events) /\ ring \in Seq(Nat) /\ Len(ring) \in Nat
          /\ event \in Events /\ event.size \in Nat
      BY DEF TypeOK, Events
    <3>2. AnnouncedBy(uart0_queue) \in Nat
      BY <3>1, AnnouncedSums
    <3>3. InHand \in Nat
      BY <3>1 DEF InHand
    <3>. QED
      BY <3>1, <3>2, <3>3 DEF Unannounced
  <2>1. ASSUME NEW n \in 1..MaxChunk, IsrData(n) PROVE Unannounced' = Unannounced
    <3>1. n \in Nat /\ next \in Nat
      BY ConstantsAssumption DEF TypeOK
    <3>2. Incoming(n) \in Seq(Nat) /\ Len(Incoming(n)) = n
      BY <3>1, IncomingType
    <3>3. Len(ring') = Len(ring) + n
      BY <2>0, <2>1, <3>2, ConcatProperties DEF IsrData
    <3>. QED
      BY <2>1, <3>1, <3>3, PostUnannounced DEF IsrData, EventTypes, taskVars
  <2>2. ASSUME NEW n \in 1..MaxChunk, IsrBufferFull(n) \/ IsrFifoOverflow(n)
        PROVE  Unannounced' = Unannounced
    <3>1. Len(ring') = Len(ring) + 0 /\ UNCHANGED <<task, event>>
      BY <2>0, <2>2 DEF IsrBufferFull, IsrFifoOverflow, taskVars
    <3>. QED
      BY <2>2, <3>1, PostUnannounced DEF IsrBufferFull, IsrFifoOverflow, EventTypes
  <2>3. ASSUME IsrLine PROVE Unannounced' = Unannounced
    <3>1. Len(ring') = Len(ring) + 0 /\ UNCHANGED <<task, event>>
      BY <2>0, <2>3 DEF IsrLine, taskVars, driverVars
    <3>. QED
      BY <2>3, <3>1, PostUnannounced DEF IsrLine, EventTypes
  <2>4. ASSUME TaskReceive PROVE Unannounced' = Unannounced
    <3>1. /\ task = "wait" /\ uart0_queue # <<>> /\ event' = Head(uart0_queue)
          /\ uart0_queue' = Tail(uart0_queue) /\ ring' = ring
          /\ task' = "read" <=> event'.type = "data"
      BY <2>4 DEF TaskReceive, driverVars
    <3>2. AnnouncedBy(uart0_queue') = AnnouncedBy(uart0_queue) - event'.size
      BY <2>0, <3>1, AnnouncedSums
    <3>3. event' = uart0_queue[1] /\ 1 \in 1..Len(uart0_queue) /\ event' \in Events
      BY <2>0, <3>1, HeadTailProperties, ElementOfSeq
    <3>4. event'.size \in Nat /\ (event'.type # "data" => event'.size = 0)
      BY <3>3 DEF Events, OnlyDataCounts
    <3>5. InHand = 0
      BY <3>1 DEF InHand
    <3>6. InHand' = event'.size
      BY <3>1, <3>4 DEF InHand
    <3>. QED
      BY <2>0, <3>1, <3>2, <3>4, <3>5, <3>6 DEF Unannounced
  <2>5. ASSUME TaskRead PROVE Unannounced' = Unannounced
    <3>. DEFINE rest == SubSeq(ring, event.size + 1, Len(ring))
    <3>1. /\ task = "read" /\ task' = "bytes" /\ event.size <= Len(ring)
          /\ UNCHANGED <<uart0_queue, event>>
          /\ ring' = rest \o stash \/ ring' = rest
      BY <2>0, <2>5 DEF TaskRead, ReadSize
    <3>2. rest \in Seq(Nat) /\ Len(rest) = Len(ring) - event.size
      BY <2>0, <3>1, ReadSplit
    <3>3. Len(ring') = Len(ring) - event.size
      <4>. HIDE DEF rest
      <4>1. rest \o <<>> = rest
        BY <3>2
      <4>. QED
        BY <3>1, <3>2, <4>1
    <3>4. InHand = event.size /\ InHand' = 0
      BY <3>1 DEF InHand
    <3>. QED
      BY <2>0, <3>1, <3>3, <3>4 DEF Unannounced
  <2>6. ASSUME Recover PROVE Unannounced' <= Unannounced
    <3>1. /\ task = "flush" /\ task' = "reset" /\ ring' = <<>>
          /\ UNCHANGED <<uart0_queue, event>>
      BY <2>6 DEF Recover, DropInput
    <3>2. Len(ring') = 0 /\ InHand = 0 /\ InHand' = 0
      BY <3>1 DEF InHand
    <3>. QED
      BY <2>0, <3>1, <3>2 DEF Unannounced
  <2>7. ASSUME TaskByte \/ TaskBytesDone PROVE Unannounced' = Unannounced
    <3>1. task = "bytes" /\ task' # "read" /\ UNCHANGED <<ring, uart0_queue, event>>
      BY <2>7 DEF TaskByte, TaskBytesDone, driverVars
    <3>2. InHand = 0 /\ InHand' = 0
      BY <3>1 DEF InHand
    <3>. QED
      BY <2>0, <3>1, <3>2 DEF Unannounced
  <2>8. ASSUME PacketTask \/ RegisterReceiveCallback \/ Quiet PROVE Unannounced' = Unannounced
    <3>1. UNCHANGED <<ring, uart0_queue, task, event>>
      BY <2>8 DEF PacketTask, HandlerReceive, HandlerCallback, RegisterReceiveCallback,
                  Quiet, vars, driverVars, taskVars
    <3>2. InHand' = InHand
      BY <3>1 DEF InHand
    <3>. QED
      BY <3>1, <3>2 DEF Unannounced
  <2>9. Unannounced' = Unannounced \/ Unannounced' <= Unannounced
    BY <2>1, <2>2, <2>3, <2>4, <2>5, <2>6, <2>7, <2>8 DEF Next, Isr, EventTask
  <2>10. Unannounced' \in Int
    <3>1. TypeOK'
      BY TypeNext
    <3>2. uart0_queue' \in Seq(Events) /\ Len(ring') \in Nat /\ event'.size \in Nat
      BY <3>1 DEF TypeOK, Events
    <3>3. AnnouncedBy(uart0_queue') \in Nat
      BY <3>2, AnnouncedSums
    <3>4. InHand' \in Nat
      BY <3>2 DEF InHand
    <3>. QED
      BY <3>2, <3>3, <3>4 DEF Unannounced
  <2>. QED
    BY <2>0, <2>9, <2>10
<1>. QED
  BY <1>1, TypeInit, TypeNext, CountsInit, CountsNext, PTL DEF Spec, StrandedOnlyByOverflow
=============================================================================
