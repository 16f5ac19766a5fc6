---------------------------- MODULE VDBLink_proofs ----------------------------
(***************************************************************************)
(* What becomes of the bytes of the wire, for every number and length of   *)
(* frames and every size of the buffers and queues: VDBDevice implements   *)
(* FrameLink, and a frame that lost no byte becomes one packet.            *)
(***************************************************************************)
EXTENDS VDBDevice_proofs

-----------------------------------------------------------------------------
(* The inductive invariant of the refinement.  A byte goes from the stash     *)
(* through the ring buffer, dtmp, inbound_buffer, packet_queue and handler to *)
(* delivered, or drops out on the way; wherever two bytes are, the one that   *)
(* is further on was sent first.                                              *)

Earlier(S, T) == \A b \in S, c \in T : b < c
BytesOf(ps)   == UNION {Range(ps[i]) : i \in DOMAIN ps}
Rising(p)     == \A i, j \in DOMAIN p : i < j => p[i] < p[j]

Pending  == Range(dtmp) \cup Range(ring) \cup Range(stash)
Unqueued == Range(inbound_buffer) \cup Pending
Held     == BytesOf(handler) \cup BytesOf(packet_queue) \cup Unqueued

PlacesInOrder ==
  /\ Earlier(Range(ring), Range(stash))
  /\ Earlier(Range(dtmp), Range(ring) \cup Range(stash))
  /\ Earlier(Range(inbound_buffer), Pending)
  /\ Earlier(BytesOf(packet_queue), Unqueued)
  /\ Earlier(BytesOf(handler), BytesOf(packet_queue) \cup Unqueued)
  /\ Earlier(BytesOf(delivered), Held)

QueueInOrder ==
  \A i, j \in DOMAIN packet_queue :
    i < j => Earlier(Range(packet_queue[i]), Range(packet_queue[j]))

AllSent == BytesOf(delivered) \cup Held \subseteq 0..(next - 1)

EachRising == Rising(stash) /\ Rising(ring) /\ Rising(dtmp) /\ Rising(inbound_buffer)

NoDelimiter(p) == \A b \in Range(p) : ~IsZero(b)
Sound(p) == p # <<>> /\ Rising(p) /\ NoDelimiter(p)
PacketsSound ==
  /\ NoDelimiter(inbound_buffer)
  /\ \A p \in Range(packet_queue) \cup Range(handler) : Sound(p)

LinkInv == PlacesInOrder /\ QueueInOrder /\ AllSent /\ EachRising /\ PacketsSound

-----------------------------------------------------------------------------
(* Sequences and what is in them. *)

\* The empty sequence has no bytes, and nothing is out of order in it.
LEMMA EmptyParts ==
  /\ Range(<<>>) = {} /\ BytesOf(<<>>) = {} /\ Rising(<<>>)
BY DEF Range, BytesOf, Rising

\* The first element of a sequence and the rest.
LEMMA HeadAndTail ==
  ASSUME NEW S, NEW s \in Seq(S), s # <<>>
  PROVE  /\ Head(s) \in S /\ Tail(s) \in Seq(S)
         /\ Head(s) \in Range(s)
         /\ Range(s) = {Head(s)} \cup Range(Tail(s))
         /\ BytesOf(s) = Range(Head(s)) \cup BytesOf(Tail(s))
         /\ Len(Tail(s)) = Len(s) - 1
         /\ \A i \in 1..Len(Tail(s)) : Tail(s)[i] = s[i + 1]
<1>1. /\ Head(s) = s[1] /\ Head(s) \in S /\ Tail(s) \in Seq(S)
      /\ Len(Tail(s)) = Len(s) - 1
      /\ \A i \in 1..Len(Tail(s)) : Tail(s)[i] = s[i + 1]
      /\ Len(s) \in Nat /\ Len(s) >= 1
  BY HeadTailProperties
<1>2. DOMAIN s = 1..Len(s) /\ DOMAIN Tail(s) = 1..(Len(s) - 1)
  BY <1>1
<1>3. \A i \in DOMAIN s : i = 1 \/ (i - 1 \in DOMAIN Tail(s) /\ s[i] = Tail(s)[i - 1])
  BY <1>1, <1>2
<1>4. \A i \in DOMAIN Tail(s) : i + 1 \in DOMAIN s /\ Tail(s)[i] = s[i + 1]
  BY <1>1, <1>2
<1>5. 1 \in DOMAIN s
  BY <1>1, <1>2
<1>6. Range(s) = {Head(s)} \cup Range(Tail(s))
  BY <1>1, <1>3, <1>4, <1>5 DEF Range
<1>7. BytesOf(s) = Range(Head(s)) \cup BytesOf(Tail(s))
  <2>1. ASSUME NEW b \in BytesOf(s) PROVE b \in Range(Head(s)) \cup BytesOf(Tail(s))
    <3>1. PICK i \in DOMAIN s : b \in Range(s[i])
      BY <2>1 DEF BytesOf
    <3>. QED
      BY <1>1, <1>3, <3>1 DEF BytesOf
  <2>2. ASSUME NEW b \in Range(Head(s)) PROVE b \in BytesOf(s)
    BY <1>1, <1>5, <2>2 DEF BytesOf
  <2>3. ASSUME NEW b \in BytesOf(Tail(s)) PROVE b \in BytesOf(s)
    <3>1. PICK i \in DOMAIN Tail(s) : b \in Range(Tail(s)[i])
      BY <2>3 DEF BytesOf
    <3>. QED
      BY <1>4, <3>1 DEF BytesOf
  <2>. QED
    BY <2>1, <2>2, <2>3
<1>. QED
  BY <1>1, <1>6, <1>7

\* One element more at the end.
LEMMA AppendParts ==
  ASSUME NEW S, NEW s \in Seq(S), NEW e \in S
  PROVE  /\ Range(Append(s, e)) = Range(s) \cup {e}
         /\ BytesOf(Append(s, e)) = BytesOf(s) \cup Range(e)
         /\ DOMAIN Append(s, e) = 1..(Len(s) + 1)
         /\ Append(s, e)[Len(s) + 1] = e
         /\ \A i \in 1..Len(s) : Append(s, e)[i] = s[i]
<1>. DEFINE t == Append(s, e)
<1>1. /\ DOMAIN s = 1..Len(s) /\ DOMAIN t = 1..(Len(s) + 1) /\ Len(s) \in Nat
      /\ t[Len(s) + 1] = e
      /\ \A i \in 1..Len(s) : t[i] = s[i]
  BY AppendProperties
<1>. HIDE DEF t
<1>2. \A i \in DOMAIN t : i = Len(s) + 1 \/ (i \in DOMAIN s /\ t[i] = s[i])
  BY <1>1
<1>3. \A i \in DOMAIN s : i \in DOMAIN t /\ t[i] = s[i]
  BY <1>1
<1>4. Len(s) + 1 \in DOMAIN t
  BY <1>1
<1>5. Range(t) = Range(s) \cup {e}
  BY <1>1, <1>2, <1>3, <1>4 DEF Range
<1>6. BytesOf(t) = BytesOf(s) \cup Range(e)
  <2>1. ASSUME NEW b \in BytesOf(t) PROVE b \in BytesOf(s) \cup Range(e)
    <3>1. PICK i \in DOMAIN t : b \in Range(t[i])
      BY <2>1 DEF BytesOf
    <3>. QED
      BY <1>1, <1>2, <3>1 DEF BytesOf
  <2>2. ASSUME NEW b \in Range(e) PROVE b \in BytesOf(t)
    BY <1>1, <1>4, <2>2 DEF BytesOf
  <2>3. ASSUME NEW b \in BytesOf(s) PROVE b \in BytesOf(t)
    <3>1. PICK i \in DOMAIN s : b \in Range(s[i])
      BY <2>3 DEF BytesOf
    <3>. QED
      BY <1>3, <3>1 DEF BytesOf
  <2>. QED
    BY <2>1, <2>2, <2>3
<1>. QED
  BY <1>1, <1>5, <1>6 DEF t

\* A sequence of one.
LEMMA Singleton == ASSUME NEW e PROVE Range(<<e>>) = {e} /\ BytesOf(<<e>>) = Range(e)
<1>1. DOMAIN <<e>> = {1} /\ <<e>>[1] = e
  OBVIOUS
<1>. QED
  BY <1>1 DEF Range, BytesOf

\* Later bytes put behind a rising sequence leave it rising.
LEMMA RisingConcat ==
  ASSUME NEW s \in Seq(Nat), NEW t \in Seq(Nat), Rising(s), Rising(t),
         Earlier(Range(s), Range(t))
  PROVE  /\ Rising(s \o t) /\ s \o t \in Seq(Nat)
         /\ Range(s \o t) = Range(s) \cup Range(t)
<1>. DEFINE u == s \o t
<1>0. DOMAIN s = 1..Len(s) /\ DOMAIN t = 1..Len(t)
  OBVIOUS
<1>1. /\ Len(s) \in Nat /\ Len(t) \in Nat /\ u \in Seq(Nat) /\ Len(u) = Len(s) + Len(t)
      /\ \A i \in 1..Len(s) : u[i] = s[i]
      /\ \A i \in (Len(s) + 1)..Len(u) : u[i] = t[i - Len(s)]
      /\ DOMAIN u = 1..Len(u)
  BY ConcatProperties, LenProperties
<1>2. Range(u) = Range(s) \cup Range(t)
  BY RangeConcatenation
<1>. HIDE DEF u
<1>3. ASSUME NEW i \in 1..Len(u), NEW j \in 1..Len(u), i < j PROVE u[i] < u[j]
  <2>1. CASE j <= Len(s)
    <3>1. i \in 1..Len(s) /\ j \in 1..Len(s)
      BY <1>1, <1>3, <2>1
    <3>2. s[i] < s[j]
      BY <1>0, <1>3, <3>1 DEF Rising
    <3>. QED
      BY <1>1, <3>1, <3>2
  <2>2. CASE i <= Len(s) /\ j > Len(s)
    <3>1. i \in 1..Len(s) /\ j \in (Len(s) + 1)..Len(u) /\ j - Len(s) \in 1..Len(t)
      BY <1>1, <2>2
    <3>2. u[i] = s[i] /\ u[j] = t[j - Len(s)]
      BY <1>1, <3>1
    <3>3. s[i] \in Range(s) /\ t[j - Len(s)] \in Range(t)
      BY <1>0, <3>1 DEF Range
    <3>. QED
      BY <3>2, <3>3 DEF Earlier
  <2>3. CASE i > Len(s)
    <3>1. /\ i \in (Len(s) + 1)..Len(u) /\ j \in (Len(s) + 1)..Len(u)
          /\ i - Len(s) \in 1..Len(t) /\ j - Len(s) \in 1..Len(t)
          /\ i - Len(s) < j - Len(s)
      BY <1>1, <1>3, <2>3
    <3>2. u[i] = t[i - Len(s)] /\ u[j] = t[j - Len(s)]
      BY <1>1, <3>1
    <3>. QED
      BY <1>0, <3>1, <3>2 DEF Rising
  <2>4. i \in Int /\ j \in Int /\ Len(s) \in Int
    BY <1>1
  <2>. QED
    BY <2>1, <2>2, <2>3, <2>4
<1>. QED
  BY <1>1, <1>2, <1>3 DEF Rising, u

\* A rising sequence cut in two: both parts rise, and the first comes before the second.
LEMMA RisingSplit ==
  ASSUME NEW s \in Seq(Nat), NEW n \in Nat, n <= Len(s), Rising(s)
  PROVE  LET p == SubSeq(s, 1, n)
             r == SubSeq(s, n + 1, Len(s))
         IN  /\ p \in Seq(Nat) /\ r \in Seq(Nat)
             /\ Rising(p) /\ Rising(r) /\ Earlier(Range(p), Range(r))
             /\ Range(s) = Range(p) \cup Range(r)
<1>. DEFINE p == SubSeq(s, 1, n)
            r == SubSeq(s, n + 1, Len(s))
<1>1. /\ p \in Seq(Nat) /\ Len(p) = n /\ DOMAIN p = 1..n
      /\ \A i \in 1..n : p[i] = s[i]
  <2>1. \A i \in 1..n : s[i] \in Nat
    OBVIOUS
  <2>. QED
    BY <2>1, SubSeqProperties
<1>2. /\ r \in Seq(Nat) /\ Len(r) = Len(s) - n /\ DOMAIN r = 1..(Len(s) - n)
      /\ \A i \in 1..(Len(s) - n) : r[i] = s[i + n]
  <2>1. \A i \in (n + 1)..Len(s) : s[i] \in Nat
    OBVIOUS
  <2>. QED
    BY <2>1, SubSeqProperties
<1>. HIDE DEF p, r
<1>3. DOMAIN s = 1..Len(s) /\ Len(s) \in Nat
  OBVIOUS
<1>4. Rising(p)
  BY <1>1, <1>3 DEF Rising
<1>5. Rising(r)
  <2>. SUFFICES ASSUME NEW i \in 1..(Len(s) - n), NEW j \in 1..(Len(s) - n), i < j
                PROVE  r[i] < r[j]
    BY <1>2 DEF Rising
  <2>1. i + n \in DOMAIN s /\ j + n \in DOMAIN s /\ i + n < j + n
    BY <1>3
  <2>2. s[i + n] < s[j + n]
    BY <2>1 DEF Rising
  <2>. QED
    BY <1>2, <2>2
<1>6. Earlier(Range(p), Range(r))
  <2>. SUFFICES ASSUME NEW i \in 1..n, NEW j \in 1..(Len(s) - n) PROVE p[i] < r[j]
    BY <1>1, <1>2 DEF Earlier, Range
  <2>1. i \in DOMAIN s /\ j + n \in DOMAIN s /\ i < j + n
    BY <1>3
  <2>2. s[i] < s[j + n]
    BY <2>1 DEF Rising
  <2>. QED
    BY <1>1, <1>2, <2>2
<1>7. Range(s) = Range(p) \cup Range(r)
  <2>1. p \o r = SubSeq(s, 1, Len(s))
    <3>1. /\ 1 \in 1..(Len(s) + 1) /\ n \in (1 - 1)..Len(s)
          /\ Len(s) \in n..Len(s)
      BY <1>3
    <3>2. SubSeq(s, 1, n) \o SubSeq(s, n + 1, Len(s)) = SubSeq(s, 1, Len(s))
      BY <3>1, ConcatAdjacentSubSeq
    <3>. QED
      BY <3>2 DEF p, r
  <2>2. p \o r = s
    BY <2>1, SubSeqFull
  <2>3. Range(p \o r) = Range(p) \cup Range(r)
    BY <1>1, <1>2, RangeConcatenation
  <2>. QED
    BY <2>2, <2>3
<1>. QED
  BY <1>1, <1>2, <1>4, <1>5, <1>6, <1>7 DEF p, r

\* The bytes of a chunk are the next ones of the stream, in order.
LEMMA IncomingParts ==
  ASSUME next \in Nat, NEW n \in 1..MaxChunk
  PROVE  /\ Incoming(n) \in Seq(Nat) /\ Rising(Incoming(n))
         /\ Range(Incoming(n)) = next..(next + n - 1)
<1>1. n \in Nat /\ n > 0
  BY ConstantsAssumption
<1>2. /\ DOMAIN Incoming(n) = 1..n
      /\ \A k \in 1..n : Incoming(n)[k] = next + k - 1
  BY DEF Incoming
<1>3. Rising(Incoming(n))
  BY <1>1, <1>2 DEF Rising
<1>4. ASSUME NEW b \in next..(next + n - 1) PROVE b \in Range(Incoming(n))
  <2>1. b - next + 1 \in 1..n /\ next + (b - next + 1) - 1 = b
    BY <1>1
  <2>2. Incoming(n)[b - next + 1] = b
    BY <1>2, <2>1
  <2>. QED
    BY <1>2, <2>1, <2>2 DEF Range
<1>5. ASSUME NEW b \in Range(Incoming(n)) PROVE b \in next..(next + n - 1)
  <2>1. PICK k \in 1..n : b = Incoming(n)[k]
    BY <1>2, <1>5 DEF Range
  <2>. QED
    BY <1>1, <1>2, <2>1
<1>6. Range(Incoming(n)) = next..(next + n - 1)
  BY <1>4, <1>5
<1>. QED
  BY <1>3, <1>6, IncomingType
-----------------------------------------------------------------------------
(* The invariant is inductive. *)

LEMMA LinkInit == Init => LinkInv
<1>. SUFFICES ASSUME Init PROVE LinkInv
  OBVIOUS
<1>1. /\ ring = <<>> /\ stash = <<>> /\ dtmp = <<>> /\ inbound_buffer = <<>>
      /\ packet_queue = <<>> /\ handler = <<>> /\ delivered = <<>>
  BY DEF Init
<1>2. QueueInOrder
  BY <1>1 DEF QueueInOrder
<1>3. PlacesInOrder /\ AllSent /\ EachRising /\ PacketsSound
  BY <1>1, EmptyParts
     DEF PlacesInOrder, Earlier, Pending, Unqueued, Held, AllSent, EachRising,
         PacketsSound, NoDelimiter
<1>. QED
  BY <1>2, <1>3 DEF LinkInv

\* Steps that move no byte.
LEMMA LinkStutter ==
  ASSUME LinkInv, next \in Nat, next' \in Nat, next <= next',
         UNCHANGED <<ring, stash, dtmp, inbound_buffer, packet_queue, handler, delivered>>
  PROVE  LinkInv'
<1>1. PlacesInOrder' /\ QueueInOrder' /\ EachRising' /\ PacketsSound'
  BY DEF LinkInv, PlacesInOrder, QueueInOrder, EachRising, PacketsSound,
         Held, Unqueued, Pending
<1>2. AllSent'
  <2>1. (BytesOf(delivered) \cup Held)' = BytesOf(delivered) \cup Held
    BY DEF Held, Unqueued, Pending
  <2>. QED
    BY <2>1 DEF LinkInv, AllSent
<1>. QED
  BY <1>1, <1>2 DEF LinkInv

\* Bytes that arrive are later than all that came before them.
LEMMA BytesArrive ==
  ASSUME LinkInv, next \in Nat, NEW N, \A b \in N : b \in Nat /\ next <= b,
         UNCHANGED <<dtmp, inbound_buffer, packet_queue, handler, delivered>>,
         Range(ring') \cup Range(stash') = Range(ring) \cup Range(stash) \cup N,
         Earlier(Range(ring'), Range(stash'))
  PROVE  PlacesInOrder'
<1>1. /\ Pending' = Pending \cup N /\ Unqueued' = Unqueued \cup N /\ Held' = Held \cup N
      /\ Range(dtmp) \subseteq Held /\ Range(inbound_buffer) \subseteq Held
      /\ BytesOf(packet_queue) \subseteq Held /\ BytesOf(handler) \subseteq Held
  BY DEF Held, Unqueued, Pending
<1>2. Earlier(BytesOf(delivered) \cup Held, N)
  <2>1. \A b \in BytesOf(delivered) \cup Held : b \in 0..(next - 1)
    BY DEF LinkInv, AllSent
  <2>2. \A b \in 0..(next - 1), c \in N : b < c
    OBVIOUS
  <2>. QED
    BY <2>1, <2>2 DEF Earlier
<1>3. ASSUME NEW X, NEW Y, X \subseteq BytesOf(delivered) \cup Held, Earlier(X, Y)
      PROVE  Earlier(X, Y \cup N)
  BY <1>2, <1>3 DEF Earlier
<1>4. PlacesInOrder
  BY DEF LinkInv
<1>5. Earlier(Range(dtmp'), Range(ring') \cup Range(stash'))
  BY <1>1, <1>3, <1>4 DEF PlacesInOrder
<1>6. Earlier(Range(inbound_buffer'), Pending')
  BY <1>1, <1>3, <1>4 DEF PlacesInOrder
<1>7. Earlier(BytesOf(packet_queue'), Unqueued')
  BY <1>1, <1>3, <1>4 DEF PlacesInOrder
<1>8. Earlier(BytesOf(handler'), BytesOf(packet_queue') \cup Unqueued')
  <2>1. BytesOf(packet_queue') \cup Unqueued' = (BytesOf(packet_queue) \cup Unqueued) \cup N
    BY <1>1
  <2>. QED
    BY <1>1, <1>3, <1>4, <2>1 DEF PlacesInOrder
<1>9. Earlier(BytesOf(delivered'), Held')
  BY <1>1, <1>3, <1>4 DEF PlacesInOrder
<1>. QED
  BY <1>5, <1>6, <1>7, <1>8, <1>9 DEF PlacesInOrder

LEMMA LinkNext == TypeOK /\ LinkInv /\ [Next]_vars => LinkInv'
<1>. SUFFICES ASSUME TypeOK, LinkInv, [Next]_vars PROVE LinkInv'
  OBVIOUS
<1>0. /\ next \in Nat
      /\ ring \in Seq(Nat) /\ stash \in Seq(Nat) /\ dtmp \in Seq(Nat)
      /\ inbound_buffer \in Seq(Nat)
      /\ packet_queue \in Seq(WirePacket) /\ handler \in Seq(WirePacket)
      /\ delivered \in Seq(WirePacket)
  BY StreamLenNat DEF TypeOK, WirePacket
<1>n. BytesOf(delivered) \cup Held \subseteq Nat
  BY DEF LinkInv, AllSent
<1>. USE DEF LinkInv
<1>1. ASSUME NEW n \in 1..MaxChunk, IsrData(n) PROVE LinkInv'
  <2>1. /\ stash = <<>> /\ ring' = ring \o Incoming(n) /\ next' = next + n
        /\ UNCHANGED <<stash, dtmp, inbound_buffer, packet_queue, handler, delivered>>
    BY <1>1 DEF IsrData, taskVars, outVars
  <2>2. n \in Nat /\ n > 0
    BY ConstantsAssumption
  <2>3. /\ Incoming(n) \in Seq(Nat) /\ Rising(Incoming(n))
        /\ Range(Incoming(n)) = next..(next + n - 1)
    BY <1>0, IncomingParts
  <2>4. Range(ring) \subseteq 0..(next - 1)
    BY DEF AllSent, Held, Unqueued, Pending
  <2>5. Earlier(Range(ring), Range(Incoming(n)))
    BY <1>0, <2>3, <2>4 DEF Earlier
  <2>6. Rising(ring') /\ Range(ring') = Range(ring) \cup (next..(next + n - 1))
    BY <1>0, <2>1, <2>3, <2>5, RisingConcat DEF EachRising
  <2>7. Range(stash) = {} /\ Range(stash') = {}
    BY <2>1, EmptyParts
  <2>8. AllSent'
    BY <1>0, <2>1, <2>2, <2>6 DEF AllSent, Held, Unqueued, Pending
  <2>9. PlacesInOrder'
    <3>1. /\ Range(ring') \cup Range(stash')
               = Range(ring) \cup Range(stash) \cup (next..(next + n - 1))
          /\ \A b \in next..(next + n - 1) : b \in Nat /\ next <= b
      BY <1>0, <2>6, <2>7
    <3>2. Earlier(Range(ring'), Range(stash'))
      BY <2>7 DEF Earlier
    <3>. QED
      BY <1>0, <2>1, <3>1, <3>2, BytesArrive
  <2>10. QueueInOrder' /\ EachRising' /\ PacketsSound'
    BY <2>1, <2>6 DEF QueueInOrder, EachRising, PacketsSound
  <2>. QED
    BY <2>8, <2>9, <2>10
<1>2. ASSUME NEW n \in 1..MaxChunk, IsrBufferFull(n) PROVE LinkInv'
  <2>1. /\ stash' = Incoming(n) /\ next' = next + n
        /\ UNCHANGED <<ring, dtmp, inbound_buffer, packet_queue, handler, delivered>>
    BY <1>2 DEF IsrBufferFull, taskVars, outVars
  <2>2. n \in Nat /\ n > 0
    BY ConstantsAssumption
  <2>3. Rising(stash') /\ Range(stash') = next..(next + n - 1)
    BY <1>0, <2>1, IncomingParts
  <2>4. AllSent'
    BY <1>0, <2>1, <2>2, <2>3 DEF AllSent, Held, Unqueued, Pending
  <2>5. PlacesInOrder'
    <3>1. stash = <<>> /\ Range(stash) = {}
      BY <1>2, EmptyParts DEF IsrBufferFull
    <3>2. /\ Range(ring') \cup Range(stash')
               = Range(ring) \cup Range(stash) \cup (next..(next + n - 1))
          /\ \A b \in next..(next + n - 1) : b \in Nat /\ next <= b
      BY <1>0, <2>1, <2>3, <3>1
    <3>3. \A b \in Range(ring) : b \in 0..(next - 1)
      BY DEF AllSent, Held, Unqueued, Pending
    <3>4. Earlier(Range(ring'), Range(stash'))
      <4>1. \A b \in 0..(next - 1), c \in next..(next + n - 1) : b < c
        BY <1>0
      <4>. QED
        BY <2>1, <2>3, <3>3, <4>1 DEF Earlier
    <3>. QED
      BY <1>0, <2>1, <3>2, <3>4, BytesArrive
  <2>6. QueueInOrder' /\ EachRising' /\ PacketsSound'
    BY <2>1, <2>3 DEF QueueInOrder, EachRising, PacketsSound
  <2>. QED
    BY <2>4, <2>5, <2>6
<1>3. ASSUME NEW n \in 1..MaxChunk, IsrFifoOverflow(n) PROVE LinkInv'
  <2>1. n \in Nat /\ next' = next + n
    BY <1>3, ConstantsAssumption DEF IsrFifoOverflow
  <2>. QED
    BY <1>0, <1>3, <2>1, LinkStutter DEF IsrFifoOverflow, taskVars, outVars
<1>4. ASSUME IsrLine \/ TaskReceive \/ TaskBytesDone PROVE LinkInv'
  BY <1>0, <1>4, LinkStutter
     DEF IsrLine, TaskReceive, TaskBytesDone, driverVars, taskVars, outVars
<1>5. ASSUME TaskRead PROVE LinkInv'
  <2>. DEFINE p == SubSeq(ring, 1, event.size)
              r == SubSeq(ring, event.size + 1, Len(ring))
  <2>1. event.size \in Nat /\ event.size <= Len(ring)
    BY <1>0, <1>5 DEF TaskRead, ReadSize, TypeOK, Events
  <2>2. /\ dtmp' = p
        /\ \/ ring' = r \o stash /\ stash' = <<>>
           \/ ring' = r /\ stash' = stash
        /\ UNCHANGED <<next, inbound_buffer, packet_queue, handler, delivered>>
    BY <1>5 DEF TaskRead, ReadSize, outVars
  <2>3. /\ p \in Seq(Nat) /\ r \in Seq(Nat) /\ Rising(p) /\ Rising(r)
        /\ Earlier(Range(p), Range(r)) /\ Range(ring) = Range(p) \cup Range(r)
    BY <1>0, <2>1, RisingSplit DEF EachRising
  <2>. HIDE DEF p, r
  <2>4. Rising(r \o stash) /\ Range(r \o stash) = Range(r) \cup Range(stash)
    <3>1. Earlier(Range(r), Range(stash))
      BY <2>3 DEF PlacesInOrder, Earlier
    <3>. QED
      BY <1>0, <2>3, <3>1, RisingConcat DEF EachRising
  <2>5. /\ Rising(dtmp') /\ Rising(ring') /\ Rising(stash')
        /\ Range(dtmp') = Range(p)
        /\ \/ Range(ring') = Range(r) \cup Range(stash) /\ Range(stash') = {}
           \/ Range(ring') = Range(r) /\ Range(stash') = Range(stash)
    BY <2>2, <2>3, <2>4, EmptyParts DEF EachRising
  <2>6. AllSent'
    BY <2>2, <2>3, <2>5 DEF AllSent, Held, Unqueued, Pending
  <2>7. PlacesInOrder'
    BY <2>2, <2>3, <2>5 DEF PlacesInOrder, Earlier, Held, Unqueued, Pending
  <2>8. QueueInOrder' /\ EachRising' /\ PacketsSound'
    BY <2>2, <2>5 DEF QueueInOrder, EachRising, PacketsSound
  <2>. QED
    BY <2>6, <2>7, <2>8
<1>6. ASSUME TaskByte PROVE LinkInv'
  <2>. DEFINE b == Head(dtmp)
  <2>1. /\ dtmp # <<>> /\ dtmp' = Tail(dtmp)
        /\ UNCHANGED <<next, ring, stash, handler, delivered>>
    BY <1>6 DEF TaskByte, driverVars, outVars
  <2>2. /\ b \in Nat /\ dtmp' \in Seq(Nat) /\ Range(dtmp) = {b} \cup Range(dtmp')
        /\ Rising(dtmp') /\ Earlier({b}, Range(dtmp'))
    <3>1. dtmp \in Seq(Nat) /\ Rising(dtmp) /\ 1 \in Nat /\ 1 <= Len(dtmp)
      BY <1>0, <2>1 DEF EachRising
    <3>2. /\ b = dtmp[1] /\ b \in Nat /\ dtmp' \in Seq(Nat)
          /\ Range(dtmp) = {b} \cup Range(dtmp')
          /\ DOMAIN dtmp = 1..Len(dtmp) /\ DOMAIN dtmp' = 1..(Len(dtmp) - 1)
          /\ \A i \in DOMAIN dtmp' : dtmp'[i] = dtmp[i + 1]
      BY <2>1, <3>1, HeadAndTail
    <3>3. \A i \in DOMAIN dtmp' : i \in Nat /\ i + 1 \in DOMAIN dtmp /\ 1 < i + 1
      <4>1. DOMAIN dtmp = 1..Len(dtmp) /\ DOMAIN dtmp' = 1..(Len(dtmp) - 1)
        BY <3>2
      <4>2. Len(dtmp) \in Nat
        BY <3>1, LenProperties
      <4>. QED
        BY <4>1, <4>2
    <3>4. 1 \in DOMAIN dtmp
      <4>1. DOMAIN dtmp = 1..Len(dtmp) /\ 1 <= Len(dtmp) /\ Len(dtmp) \in Nat
        BY <3>1, <3>2, LenProperties
      <4>. QED
        BY <4>1
    <3>5. Rising(dtmp')
      BY <3>1, <3>2, <3>3 DEF Rising
    <3>6. Earlier({b}, Range(dtmp'))
      BY <3>1, <3>2, <3>3, <3>4 DEF Rising, Earlier, Range
    <3>. QED
      BY <3>2, <3>5, <3>6
  <2>. HIDE DEF b
  <2>3. CASE EndsPacket(b)
    <3>1. /\ inbound_buffer # <<>> /\ inbound_buffer' = <<>>
          /\ \/ packet_queue' = Append(packet_queue, inbound_buffer)
             \/ packet_queue' = packet_queue
      BY <1>6, <2>3 DEF TaskByte, EndsPacket, Cleared, b
    <3>2. Range(inbound_buffer') = {} /\ Rising(inbound_buffer')
      BY <3>1, EmptyParts
    <3>3. CASE packet_queue' = packet_queue
      <4>1. AllSent'
        BY <2>1, <2>2, <3>2, <3>3 DEF AllSent, Held, Unqueued, Pending
      <4>2. PlacesInOrder'
        BY <2>1, <2>2, <3>2, <3>3 DEF PlacesInOrder, Earlier, Held, Unqueued, Pending
      <4>3. QueueInOrder' /\ EachRising' /\ PacketsSound'
        BY <2>1, <2>2, <3>2, <3>3
           DEF QueueInOrder, EachRising, PacketsSound, NoDelimiter
      <4>. QED
        BY <4>1, <4>2, <4>3
    <3>4. CASE packet_queue' = Append(packet_queue, inbound_buffer)
      <4>1. /\ Range(packet_queue') = Range(packet_queue) \cup {inbound_buffer}
            /\ BytesOf(packet_queue') = BytesOf(packet_queue) \cup Range(inbound_buffer)
            /\ DOMAIN packet_queue' = 1..(Len(packet_queue) + 1)
            /\ packet_queue'[Len(packet_queue) + 1] = inbound_buffer
            /\ \A i \in 1..Len(packet_queue) : packet_queue'[i] = packet_queue[i]
        BY <1>0, <3>4, AppendParts DEF WirePacket
      <4>2. AllSent'
        BY <2>1, <2>2, <3>2, <4>1 DEF AllSent, Held, Unqueued, Pending
      <4>3. PlacesInOrder'
        BY <2>1, <2>2, <3>2, <4>1 DEF PlacesInOrder, Earlier, Held, Unqueued, Pending
      <4>4. QueueInOrder'
        <5>. SUFFICES ASSUME NEW i \in DOMAIN packet_queue', NEW j \in DOMAIN packet_queue',
                             i < j
                      PROVE  Earlier(Range(packet_queue'[i]), Range(packet_queue'[j]))
          BY DEF QueueInOrder
        <5>1. DOMAIN packet_queue = 1..Len(packet_queue) /\ Len(packet_queue) \in Nat
          BY <1>0
        <5>2. i \in DOMAIN packet_queue /\ packet_queue'[i] = packet_queue[i]
          BY <4>1, <5>1
        <5>3. CASE j = Len(packet_queue) + 1
          <6>1. Range(packet_queue[i]) \subseteq BytesOf(packet_queue)
            BY <5>2 DEF BytesOf
          <6>2. packet_queue'[j] = inbound_buffer
            BY <4>1, <5>3
          <6>. QED
            BY <5>2, <6>1, <6>2 DEF PlacesInOrder, Earlier, Unqueued
        <5>4. CASE j # Len(packet_queue) + 1
          <6>1. j \in DOMAIN packet_queue /\ packet_queue'[j] = packet_queue[j]
            BY <4>1, <5>1, <5>4
          <6>. QED
            BY <5>2, <6>1 DEF QueueInOrder
        <5>. QED
          BY <5>3, <5>4
      <4>5. EachRising' /\ PacketsSound'
        BY <2>1, <2>2, <3>1, <3>2, <4>1 DEF EachRising, PacketsSound, NoDelimiter, Sound
      <4>. QED
        BY <4>2, <4>3, <4>4, <4>5
    <3>. QED
      BY <3>1, <3>3, <3>4
  <2>4. CASE ~EndsPacket(b)
    <3>1. /\ UNCHANGED packet_queue
          /\ inbound_buffer' = IF IsZero(b) THEN inbound_buffer ELSE Append(inbound_buffer, b)
      BY <1>6, <2>4 DEF TaskByte, b
    <3>2. QueueInOrder'
      BY <3>1 DEF QueueInOrder
    <3>3. /\ Range(inbound_buffer') \subseteq Range(inbound_buffer) \cup {b}
          /\ Rising(inbound_buffer') /\ NoDelimiter(inbound_buffer')
      <4>1. CASE IsZero(b)
        BY <3>1, <4>1 DEF EachRising, PacketsSound
      <4>2. CASE ~IsZero(b)
        <5>1. inbound_buffer' = inbound_buffer \o <<b>>
          BY <1>0, <2>2, <3>1, <4>2, AppendIsConcat
        <5>2. <<b>> \in Seq(Nat) /\ Range(<<b>>) = {b} /\ Rising(<<b>>)
          BY <2>2, Singleton DEF Rising
        <5>3. Earlier(Range(inbound_buffer), Range(<<b>>))
          BY <2>2, <5>2 DEF PlacesInOrder, Earlier, Pending
        <5>4. Rising(inbound_buffer') /\ Range(inbound_buffer') = Range(inbound_buffer) \cup {b}
          BY <1>0, <5>1, <5>2, <5>3, RisingConcat DEF EachRising
        <5>. QED
          BY <4>2, <5>4 DEF PacketsSound, NoDelimiter
      <4>. QED
        BY <4>1, <4>2
    <3>4. AllSent'
      BY <2>1, <2>2, <3>1, <3>3 DEF AllSent, Held, Unqueued, Pending
    <3>5. PlacesInOrder'
      <4>1. Earlier({b}, Range(dtmp') \cup Range(ring) \cup Range(stash))
        BY <2>2 DEF PlacesInOrder, Earlier
      <4>2. /\ Pending' \subseteq Pending /\ Unqueued' \subseteq Unqueued
            /\ Held' \subseteq Held
        BY <2>1, <2>2, <3>1, <3>3 DEF Held, Unqueued, Pending
      <4>3. Earlier(Range(ring'), Range(stash'))
        BY <2>1 DEF PlacesInOrder
      <4>4. Earlier(Range(dtmp'), Range(ring') \cup Range(stash'))
        BY <2>1, <2>2 DEF PlacesInOrder, Earlier
      <4>5. Earlier(Range(inbound_buffer'), Pending')
        BY <2>1, <2>2, <3>3, <4>1, <4>2 DEF PlacesInOrder, Earlier, Pending
      <4>6. Earlier(BytesOf(packet_queue'), Unqueued')
        BY <3>1, <4>2 DEF PlacesInOrder, Earlier
      <4>7. Earlier(BytesOf(handler'), BytesOf(packet_queue') \cup Unqueued')
        BY <2>1, <3>1, <4>2 DEF PlacesInOrder, Earlier
      <4>8. Earlier(BytesOf(delivered'), Held')
        BY <2>1, <4>2 DEF PlacesInOrder, Earlier
      <4>. QED
        BY <4>3, <4>4, <4>5, <4>6, <4>7, <4>8 DEF PlacesInOrder
    <3>6. EachRising' /\ PacketsSound'
      BY <2>1, <2>2, <3>1, <3>3 DEF EachRising, PacketsSound
    <3>. QED
      BY <3>2, <3>4, <3>5, <3>6
  <2>. QED
    BY <2>3, <2>4
<1>7. ASSUME Recover PROVE LinkInv'
  <2>1. CASE DropEvents
    BY <1>0, <1>7, <2>1, LinkStutter DEF Recover, DropEvents, driverVars, outVars
  <2>2. CASE DropInput
    <3>1. /\ ring' = <<>> /\ stash' = <<>>
          /\ UNCHANGED <<next, dtmp, inbound_buffer, packet_queue, handler, delivered>>
      BY <1>7, <2>2 DEF Recover, DropInput, outVars
    <3>2. Range(ring') = {} /\ Range(stash') = {} /\ Rising(ring') /\ Rising(stash')
      BY <3>1, EmptyParts
    <3>3. AllSent'
      BY <3>1, <3>2 DEF AllSent, Held, Unqueued, Pending
    <3>4. PlacesInOrder'
      BY <3>1, <3>2 DEF PlacesInOrder, Earlier, Held, Unqueued, Pending
    <3>5. QueueInOrder' /\ EachRising' /\ PacketsSound'
      BY <3>1, <3>2 DEF QueueInOrder, EachRising, PacketsSound
    <3>. QED
      BY <3>3, <3>4, <3>5
  <2>. QED
    BY <1>7, <2>1, <2>2 DEF Recover
<1>8. ASSUME HandlerReceive PROVE LinkInv'
  <2>. DEFINE p == Head(packet_queue)
  <2>1. /\ handler = <<>> /\ packet_queue # <<>>
        /\ handler' = <<p>> /\ packet_queue' = Tail(packet_queue)
        /\ UNCHANGED <<next, ring, stash, dtmp, inbound_buffer, delivered>>
    BY <1>8 DEF HandlerReceive, driverVars, taskVars
  <2>2. /\ Range(packet_queue) = {p} \cup Range(packet_queue')
        /\ BytesOf(packet_queue) = Range(p) \cup BytesOf(packet_queue')
        /\ packet_queue' \in Seq(WirePacket)
        /\ Len(packet_queue') = Len(packet_queue) - 1
        /\ \A i \in 1..Len(packet_queue') : packet_queue'[i] = packet_queue[i + 1]
        /\ p = packet_queue[1]
    BY <1>0, <2>1, HeadAndTail
  <2>3. Range(handler') = {p} /\ BytesOf(handler') = Range(p)
    BY <2>1, Singleton
  <2>4. BytesOf(handler) = {}
    BY <2>1, EmptyParts
  <2>5. /\ DOMAIN packet_queue = 1..Len(packet_queue) /\ Len(packet_queue) \in Nat
        /\ DOMAIN packet_queue' = 1..(Len(packet_queue) - 1)
    BY <1>0, <2>2
  <2>. HIDE DEF p
  <2>6. \A i \in DOMAIN packet_queue' :
          i \in Nat /\ i + 1 \in DOMAIN packet_queue /\ packet_queue'[i] = packet_queue[i + 1]
    BY <2>2, <2>5
  <2>7. QueueInOrder'
    <3>. SUFFICES ASSUME NEW i \in DOMAIN packet_queue', NEW j \in DOMAIN packet_queue',
                         i < j
                  PROVE  Earlier(Range(packet_queue'[i]), Range(packet_queue'[j]))
      BY DEF QueueInOrder
    <3>1. i + 1 < j + 1
      BY <2>6
    <3>. QED
      BY <2>6, <3>1 DEF QueueInOrder
  <2>8. Earlier(Range(p), BytesOf(packet_queue'))
    <3>. SUFFICES ASSUME NEW c \in BytesOf(packet_queue') PROVE Earlier(Range(p), {c})
      BY DEF Earlier
    <3>1. PICK i \in DOMAIN packet_queue' : c \in Range(packet_queue'[i])
      BY DEF BytesOf
    <3>2. 1 \in DOMAIN packet_queue /\ i + 1 \in DOMAIN packet_queue /\ 1 < i + 1
      BY <2>5, <3>1
    <3>. QED
      BY <2>2, <2>6, <3>1, <3>2 DEF QueueInOrder, Earlier
  <2>9. AllSent'
    BY <2>1, <2>2, <2>3 DEF AllSent, Held, Unqueued, Pending
  <2>10. PlacesInOrder'
    BY <2>1, <2>2, <2>3, <2>4, <2>8 DEF PlacesInOrder, Earlier, Held, Unqueued, Pending
  <2>11. EachRising' /\ PacketsSound'
    BY <2>1, <2>2, <2>3 DEF EachRising, PacketsSound
  <2>. QED
    BY <2>7, <2>9, <2>10, <2>11
<1>9. ASSUME HandlerCallback PROVE LinkInv'
  <2>1. /\ handler # <<>> /\ handler' = <<>>
        /\ delivered' \in {delivered, Append(delivered, handler[1])}
        /\ UNCHANGED <<next, ring, stash, dtmp, inbound_buffer, packet_queue>>
    BY <1>9 DEF HandlerCallback, driverVars, taskVars
  <2>2. BytesOf(handler') = {} /\ Range(handler') = {}
    BY <2>1, EmptyParts
  <2>3. handler[1] \in WirePacket /\ Range(handler[1]) \subseteq BytesOf(handler)
    BY <1>0, <2>1 DEF BytesOf
  <2>4. BytesOf(delivered') \subseteq BytesOf(delivered) \cup BytesOf(handler)
    <3>1. BytesOf(Append(delivered, handler[1])) = BytesOf(delivered) \cup Range(handler[1])
      BY <1>0, <2>3, AppendParts
    <3>. QED
      BY <2>1, <2>3, <3>1
  <2>5. AllSent'
    BY <2>1, <2>2, <2>4 DEF AllSent, Held, Unqueued, Pending
  <2>6. PlacesInOrder'
    BY <2>1, <2>2, <2>4 DEF PlacesInOrder, Earlier, Held, Unqueued, Pending
  <2>7. QueueInOrder' /\ EachRising' /\ PacketsSound'
    BY <2>1, <2>2 DEF QueueInOrder, EachRising, PacketsSound
  <2>. QED
    BY <2>5, <2>6, <2>7
<1>10. ASSUME RegisterReceiveCallback \/ UNCHANGED vars PROVE LinkInv'
  BY <1>0, <1>10, LinkStutter
     DEF RegisterReceiveCallback, vars, driverVars, taskVars, outVars
<1>. QED
  BY <1>1, <1>2, <1>3, <1>4, <1>5, <1>6, <1>7, <1>8, <1>9, <1>10
     DEF Next, Isr, EventTask, PacketTask, Quiet

LEMMA LinkInvariant == Spec => [](TypeOK /\ LinkInv)
<1>. QED
  BY TypeInit, TypeNext, LinkInit, LinkNext, PTL DEF Spec

-----------------------------------------------------------------------------
(* The refinement: bytes reach the wire only from the interrupt handler, and *)
(* a packet is delivered only by the registered callback.                    *)

LEMMA LinkStep == TypeOK /\ LinkInv /\ [Next]_vars => [Link!Next]_<<next, delivered>>
<1>. SUFFICES ASSUME TypeOK, LinkInv, [Next]_vars
              PROVE  Link!Next \/ UNCHANGED <<next, delivered>>
  OBVIOUS
<1>0. next \in Nat
  BY StreamLenNat DEF TypeOK
<1>1. ASSUME NEW n \in 1..MaxChunk, IsrData(n) \/ IsrBufferFull(n) \/ IsrFifoOverflow(n)
      PROVE  Link!Next
  <2>1. n \in Nat /\ n > 0
    BY ConstantsAssumption
  <2>2. next' = next + n /\ delivered' = delivered
    BY <1>1 DEF IsrData, IsrBufferFull, IsrFifoOverflow, outVars
  <2>3. Link!Send
    BY <1>0, <2>1, <2>2 DEF Link!Send
  <2>. QED
    BY <2>3 DEF Link!Next
<1>2. ASSUME HandlerCallback, callback # "default" PROVE Link!Next
  <2>. DEFINE p == handler[1]
  <2>1. /\ handler # <<>> /\ delivered' = Append(delivered, p) /\ next' = next
    BY <1>2 DEF HandlerCallback, driverVars
  <2>2. /\ p \in Seq(Nat) /\ p \in Range(handler) /\ Range(p) \subseteq BytesOf(handler)
        /\ delivered \in Seq(WirePacket)
    BY <2>1 DEF TypeOK, WirePacket, BytesOf, Range
  <2>. HIDE DEF p
  <2>3. p \in Range(delivered')
    BY <2>1, <2>2, AppendParts DEF WirePacket
  <2>4. p # <<>> /\ Rising(p) /\ NoDelimiter(p)
    BY <2>2 DEF LinkInv, PacketsSound, Sound
  <2>5. Link!Ascending(p)
    BY <2>4 DEF Rising, Link!Ascending
  <2>6. Range(p) \subseteq (0..(next - 1)) \ {i \in 0..(StreamLen - 1) : IsZero(i)}
    BY <2>2, <2>4 DEF LinkInv, AllSent, Held, NoDelimiter
  <2>7. ASSUME NEW q \in Range(delivered) PROVE Link!Before(q, p)
    <3>1. PICK i \in DOMAIN delivered : q = delivered[i]
      BY DEF Range
    <3>2. Range(q) \subseteq BytesOf(delivered)
      BY <3>1 DEF BytesOf
    <3>3. Earlier(Range(q), Range(p))
      BY <2>2, <3>2 DEF LinkInv, PlacesInOrder, Earlier, Held
    <3>. QED
      BY <3>3 DEF Earlier, Link!Before, Link!Range, Range
  <2>8. Link!Deliver
    <3>1. Link!Range(p) = Range(p) /\ Link!Range(delivered) = Range(delivered)
          /\ Link!Range(delivered') = Range(delivered')
      BY DEF Link!Range, Range
    <3>. QED
      BY <2>1, <2>3, <2>4, <2>5, <2>6, <2>7, <3>1 DEF Link!Deliver
  <2>. QED
    BY <2>8 DEF Link!Next
<1>3. ASSUME HandlerCallback, callback = "default" PROVE UNCHANGED <<next, delivered>>
  BY <1>3 DEF HandlerCallback, driverVars
<1>4. ASSUME \/ IsrLine \/ EventTask \/ HandlerReceive \/ RegisterReceiveCallback
             \/ UNCHANGED vars
      PROVE  UNCHANGED <<next, delivered>>
  BY <1>4 DEF IsrLine, EventTask, TaskReceive, TaskRead, TaskByte, TaskBytesDone, Recover,
              DropInput, DropEvents, HandlerReceive, RegisterReceiveCallback,
              vars, driverVars, outVars
<1>. QED
  BY <1>1, <1>2, <1>3, <1>4 DEF Next, Isr, PacketTask, Quiet

\* The serial path implements a lossy link that keeps order: with whatever is lost to
\* overflows and full queues, the callback of the packet task gets each byte at most
\* once, in the order of the wire, in non-empty packets that contain no delimiter.
THEOREM ImplementsLink == Spec => LinkSpec
<1>1. Init => Link!Init
  BY DEF Init, Link!Init
<1>. QED
  BY <1>1, LinkStep, LinkInvariant, PTL DEF Spec, LinkSpec, Link!Spec

-----------------------------------------------------------------------------
(* Surviving frames.  HandledTo(x): every byte below x was handled or lost.   *)
(* While the task is inside a frame none of whose bytes is lost,              *)
(* inbound_buffer holds what it has of that frame's payload and nothing else; *)
(* for this the bytes must not vanish, neither from dtmp when it is read      *)
(* again nor anywhere else without being lost.                                *)

HandledTo(x) == x <= next /\ \A i \in Pending : x <= i

Start(f)  == f * WireLen
Unlost(f) == \A i \in lost : i \div WireLen # f

ReadWhenEmpty == task # "bytes" => dtmp = <<>>
Accounted == \A i \in 0..(next - 1) : i \in lost \/ i \in Pending \/ HandledTo(i + 1)

Assembled(f) ==
  /\ HandledTo(Start(f) + WireLen) => Payload(f) \in Packets
  /\ \A k \in 1..(WireLen - 1) :
       HandledTo(Start(f) + k) /\ ~HandledTo(Start(f) + k + 1)
         => inbound_buffer = [j \in 1..(k - 1) |-> Start(f) + j]

FramesAssembled == \A f \in Frames : Unlost(f) => Assembled(f)

SurviveInv == ReadWhenEmpty /\ Accounted /\ FramesAssembled

\* Byte k of frame f belongs to that frame, and is a delimiter if it is its first or last.
LEMMA FrameArithmetic ==
  ASSUME NEW f \in Nat
  PROVE  /\ Start(f) \in Nat /\ Start(f + 1) = Start(f) + WireLen
         /\ \A k \in 0..(WireLen - 1) :
              /\ (Start(f) + k) \div WireLen = f
              /\ IsZero(Start(f) + k) <=> k \in {0, WireLen - 1}
<1>. DEFINE W == WireLen
            s == Start(f)
<1>1. W \in Nat /\ W >= 1
  BY StreamLenNat, ConstantsAssumption DEF WireLen
<1>2. s = f * W
  BY DEF Start
<1>. HIDE DEF W
<1>3. \A a, b \in Nat : a * b \in Nat /\ (a + 1) * b = a * b + b
  OBVIOUS
<1>4. s \in Nat /\ (f + 1) * W = s + W
  BY <1>1, <1>2, <1>3
<1>. HIDE DEF s
<1>5. ASSUME NEW k \in 0..(W - 1) PROVE (s + k) \div W = f /\ (s + k) % W = k
  <2>. DEFINE q == (s + k) \div W
              r == (s + k) % W
  <2>1. q \in Int /\ r \in 0..(W - 1) /\ s + k = W * q + r
    BY <1>1, <1>4
  <2>. HIDE DEF q, r
  <2>2. \A c \in Int : c >= 1 => W * c >= W
    BY <1>1
  <2>3. \A c, d \in Int : W * (c - d) = W * c - W * d
    BY <1>1
  <2>4. f * W = W * f
    BY <1>1
  <2>5. W * (f - q) = r - k
    BY <1>1, <1>2, <1>4, <2>1, <2>3, <2>4
  <2>6. ~(f - q >= 1)
    BY <1>1, <2>1, <2>2, <2>5
  <2>7. ~(q - f >= 1)
    <3>1. W * (q - f) = k - r
      BY <1>1, <1>2, <1>4, <2>1, <2>3, <2>4
    <3>. QED
      BY <1>1, <2>1, <2>2, <3>1
  <2>8. q = f
    BY <2>1, <2>6, <2>7
  <2>9. r = k
    BY <1>1, <1>2, <1>4, <2>1, <2>4, <2>8
  <2>. QED
    BY <2>8, <2>9 DEF q, r
<1>. QED
  BY <1>4, <1>5 DEF s, W, Start, IsZero

\* A step that handles no byte: bytes may be lost, may come in, or move on.
NothingTaken ==
  /\ lost \subseteq lost'
  /\ \A i \in Pending : i \in Pending' \/ i \in lost'
  /\ \A i \in next..(next' - 1) : i \in Pending' \/ i \in lost'
  /\ \A i \in Pending' : i \in Nat /\ (i \in Pending \/ next <= i)

LEMMA NothingHandled ==
  ASSUME next \in Nat, NEW n \in Nat, next' = next + n, NothingTaken,
         inbound_buffer' = inbound_buffer, Packets \subseteq Packets',
         SurviveInv, ReadWhenEmpty'
  PROVE  SurviveInv'
<1>1. ASSUME NEW x \in Nat, HandledTo(x) PROVE HandledTo(x)'
  <2>1. x <= next /\ \A i \in Pending : x <= i
    BY <1>1 DEF HandledTo
  <2>2. ASSUME NEW i \in Pending' PROVE x <= i
    <3>1. i \in Nat /\ (i \in Pending \/ next <= i)
      BY DEF NothingTaken
    <3>. QED
      BY <2>1, <3>1
  <2>3. x <= next'
    BY <2>1
  <2>. QED
    BY <2>2, <2>3 DEF HandledTo
<1>2. ASSUME NEW i \in Nat, i < next', i \notin lost', i \notin Pending'
      PROVE  i \in 0..(next - 1) /\ HandledTo(i + 1)
  <2>1. i \notin next..(next' - 1)
    BY <1>2 DEF NothingTaken
  <2>2. i \in 0..(next - 1)
    BY <1>2, <2>1
  <2>3. i \notin lost /\ i \notin Pending
    BY <1>2 DEF NothingTaken
  <2>. QED
    BY <2>2, <2>3 DEF SurviveInv, Accounted
<1>3. Accounted'
  <2>. SUFFICES ASSUME NEW i \in 0..(next' - 1), i \notin lost', i \notin Pending'
                PROVE  HandledTo(i + 1)'
    BY DEF Accounted
  <2>1. i \in Nat /\ i < next' /\ i + 1 \in Nat
    OBVIOUS
  <2>. QED
    BY <1>1, <1>2, <2>1
<1>4. FramesAssembled'
  <2>. SUFFICES ASSUME NEW f \in Frames, Unlost(f)' PROVE Assembled(f)'
    BY DEF FramesAssembled
  <2>. DEFINE s == Start(f)
  <2>0. f \in Nat /\ WireLen \in Nat
    BY StreamLenNat DEF Frames
  <2>1. s \in Nat /\ \A k \in 0..(WireLen - 1) : (s + k) \div WireLen = f
    BY <2>0, FrameArithmetic
  <2>. HIDE DEF s
  <2>2. Assembled(f)
    <3>1. Unlost(f)
      BY DEF Unlost, NothingTaken
    <3>. QED
      BY <3>1 DEF SurviveInv, FramesAssembled
  <2>3. ASSUME NEW k \in 1..WireLen, HandledTo(s + k)' PROVE HandledTo(s + k)
    <3>. DEFINE i == s + k - 1
    <3>1. /\ k - 1 \in 0..(WireLen - 1) /\ s + (k - 1) = i
          /\ i \in Nat /\ i + 1 = s + k
      BY <2>0, <2>1
    <3>. HIDE DEF i
    <3>2. i \notin lost'
      <4>1. i \div WireLen = f
        BY <2>1, <3>1
      <4>. QED
        BY <4>1 DEF Unlost
    <3>3. i < next' /\ i \notin Pending'
      BY <2>3, <3>1 DEF HandledTo
    <3>. QED
      BY <1>2, <3>1, <3>2, <3>3
  <2>4. HandledTo(s + WireLen)' => Payload(f) \in Packets'
    <3>1. WireLen \in 1..WireLen
      BY ConstantsAssumption DEF WireLen
    <3>. QED
      BY <2>2, <2>3, <3>1 DEF Assembled, s
  <2>5. ASSUME NEW k \in 1..(WireLen - 1), HandledTo(s + k)', ~HandledTo(s + k + 1)'
        PROVE  inbound_buffer' = [j \in 1..(k - 1) |-> s + j]
    <3>1. k \in 1..WireLen /\ s + k + 1 \in Nat
      BY <2>0, <2>1
    <3>2. HandledTo(s + k) /\ ~HandledTo(s + k + 1)
      BY <1>1, <2>3, <2>5, <3>1
    <3>. QED
      BY <2>2, <3>2 DEF Assembled, s
  <2>. QED
    BY <2>4, <2>5 DEF Assembled, s, Payload
<1>. QED
  BY <1>3, <1>4 DEF SurviveInv

LEMMA SurviveInit == Init => SurviveInv
<1>. SUFFICES ASSUME Init PROVE SurviveInv
  OBVIOUS
<1>1. next = 0 /\ lost = {} /\ dtmp = <<>>
  BY DEF Init
<1>2. FramesAssembled
  <2>. SUFFICES ASSUME NEW f \in Frames PROVE Assembled(f)
    BY DEF FramesAssembled
  <2>1. f \in Nat /\ WireLen \in Nat /\ WireLen >= 1
    BY StreamLenNat, ConstantsAssumption DEF Frames, WireLen
  <2>2. Start(f) \in Nat
    BY <2>1, FrameArithmetic
  <2>3. \A k \in 1..WireLen : ~HandledTo(Start(f) + k)
    BY <1>1, <2>1, <2>2 DEF HandledTo
  <2>. QED
    BY <2>1, <2>3 DEF Assembled
<1>. QED
  BY <1>1, <1>2 DEF SurviveInv, ReadWhenEmpty, Accounted

\* A packet that was made is never forgotten: it goes on to the packet task and from
\* there to a callback.
LEMMA PacketsKept ==
  ASSUME TypeOK, HandlerReceive \/ HandlerCallback
  PROVE  Packets \subseteq Packets'
<1>1. packet_queue \in Seq(WirePacket) /\ delivered \in Seq(WirePacket)
      /\ handler \in Seq(WirePacket) /\ Len(handler) <= 1
  BY DEF TypeOK
<1>2. CASE HandlerReceive
  <2>1. /\ packet_queue # <<>> /\ handler = <<>>
        /\ handler' = <<Head(packet_queue)>> /\ packet_queue' = Tail(packet_queue)
        /\ delivered' = delivered /\ discarded' = discarded
    BY <1>2 DEF HandlerReceive
  <2>2. Range(packet_queue) = Range(handler') \cup Range(packet_queue')
    BY <1>1, <2>1, HeadAndTail, Singleton
  <2>3. Range(handler) = {}
    BY <2>1, EmptyParts
  <2>. QED
    BY <2>1, <2>2, <2>3 DEF Packets
<1>3. CASE HandlerCallback
  <2>1. /\ handler # <<>> /\ packet_queue' = packet_queue
        /\ \/ discarded' = discarded \cup {handler[1]} /\ delivered' = delivered
           \/ delivered' = Append(delivered, handler[1]) /\ discarded' = discarded
    BY <1>3 DEF HandlerCallback
  <2>2. handler[1] \in WirePacket /\ Range(handler) = {handler[1]}
    <3>1. DOMAIN handler = {1} /\ handler[1] \in WirePacket
      <4>1. /\ Len(handler) \in Nat /\ Len(handler) # 0 /\ Len(handler) <= 1
            /\ DOMAIN handler = 1..Len(handler)
            /\ \A i \in 1..Len(handler) : handler[i] \in WirePacket
        BY <1>1, <2>1, EmptySeq
      <4>2. \A n \in Nat : n # 0 /\ n <= 1 => n = 1
        OBVIOUS
      <4>3. Len(handler) = 1 /\ 1..1 = {1}
        BY <4>1, <4>2
      <4>. QED
        BY <4>1, <4>3
    <3>. QED
      BY <3>1 DEF Range
  <2>3. Range(Append(delivered, handler[1])) = Range(delivered) \cup {handler[1]}
    BY <1>1, <2>2, AppendParts
  <2>. QED
    BY <2>1, <2>2, <2>3 DEF Packets
<1>. QED
  BY <1>2, <1>3

LEMMA SurviveNext == TypeOK /\ LinkInv /\ SurviveInv /\ [Next]_vars => SurviveInv'
<1>. SUFFICES ASSUME TypeOK, LinkInv, SurviveInv, [Next]_vars PROVE SurviveInv'
  OBVIOUS
<1>0. /\ next \in Nat /\ next = next + 0
      /\ ring \in Seq(Nat) /\ stash \in Seq(Nat) /\ dtmp \in Seq(Nat)
      /\ inbound_buffer \in Seq(Nat) /\ packet_queue \in Seq(WirePacket)
  BY StreamLenNat DEF TypeOK, WirePacket
<1>p. \A i \in Pending : i \in Nat /\ i < next
  BY <1>0 DEF LinkInv, AllSent, Held, Unqueued
<1>i. \A n \in 1..MaxChunk : n \in Nat /\ Range(Incoming(n)) = next..(next + n - 1)
                             /\ Incoming(n) \in Seq(Nat)
  BY <1>0, IncomingParts, ConstantsAssumption
<1>k. \A n \in Nat : \A i \in next..(next + n - 1) : i \in Nat /\ next <= i
  BY <1>0
<1>e. ReadWhenEmpty
  BY DEF SurviveInv
<1>s. ASSUME Pending' = Pending, next' = next, lost' = lost PROVE NothingTaken
  BY <1>0, <1>p, <1>s DEF NothingTaken
<1>1. ASSUME NEW n \in 1..MaxChunk, IsrData(n) PROVE SurviveInv'
  <2>1. /\ n \in Nat /\ next' = next + n /\ ring' = ring \o Incoming(n)
        /\ UNCHANGED <<lost, stash, task, dtmp, inbound_buffer>>
    BY <1>1, <1>i DEF IsrData, taskVars
  <2>2. Range(ring') = Range(ring) \cup (next..(next + n - 1))
    BY <1>0, <1>i, <2>1, RangeConcatenation
  <2>3. Pending' = Pending \cup (next..(next + n - 1))
    BY <2>1, <2>2 DEF Pending
  <2>4. NothingTaken
    BY <1>0, <1>p, <1>k, <2>1, <2>3 DEF NothingTaken
  <2>5. Packets' = Packets
    BY <1>1 DEF IsrData, outVars, Packets
  <2>6. ReadWhenEmpty'
    BY <1>e, <2>1 DEF ReadWhenEmpty
  <2>. QED
    BY <1>0, <2>1, <2>4, <2>5, <2>6, NothingHandled
<1>2. ASSUME NEW n \in 1..MaxChunk, IsrBufferFull(n) PROVE SurviveInv'
  <2>1. /\ n \in Nat /\ next' = next + n /\ stash = <<>> /\ stash' = Incoming(n)
        /\ UNCHANGED <<lost, ring, task, dtmp, inbound_buffer>>
    BY <1>2, <1>i DEF IsrBufferFull, taskVars
  <2>2. Range(stash) = {} /\ Range(stash') = next..(next + n - 1)
    BY <1>i, <2>1, EmptyParts
  <2>3. Pending' = Pending \cup (next..(next + n - 1))
    BY <2>1, <2>2 DEF Pending
  <2>4. NothingTaken
    BY <1>0, <1>p, <1>k, <2>1, <2>3 DEF NothingTaken
  <2>5. Packets' = Packets
    BY <1>2 DEF IsrBufferFull, outVars, Packets
  <2>6. ReadWhenEmpty'
    BY <1>e, <2>1 DEF ReadWhenEmpty
  <2>. QED
    BY <1>0, <2>1, <2>4, <2>5, <2>6, NothingHandled
<1>3. ASSUME NEW n \in 1..MaxChunk, IsrFifoOverflow(n) PROVE SurviveInv'
  <2>1. /\ n \in Nat /\ next' = next + n /\ lost' = lost \cup (next..(next + n - 1))
        /\ UNCHANGED <<ring, stash, task, dtmp, inbound_buffer>>
    BY <1>3, <1>i DEF IsrFifoOverflow, taskVars
  <2>2. Pending' = Pending
    BY <2>1 DEF Pending
  <2>3. NothingTaken
    BY <1>0, <1>p, <2>1, <2>2 DEF NothingTaken
  <2>4. Packets' = Packets
    BY <1>3 DEF IsrFifoOverflow, outVars, Packets
  <2>5. ReadWhenEmpty'
    BY <1>e, <2>1 DEF ReadWhenEmpty
  <2>. QED
    BY <1>0, <2>1, <2>3, <2>4, <2>5, NothingHandled
<1>4. ASSUME TaskRead PROVE SurviveInv'
  <2>. DEFINE p == SubSeq(ring, 1, event.size)
              r == SubSeq(ring, event.size + 1, Len(ring))
  <2>1. event.size \in Nat /\ event.size <= Len(ring) /\ dtmp = <<>>
    BY <1>0, <1>4, <1>e DEF TaskRead, ReadSize, TypeOK, Events, ReadWhenEmpty
  <2>2. /\ dtmp' = p
        /\ \/ ring' = r \o stash /\ stash' = <<>>
           \/ ring' = r /\ stash' = stash
        /\ UNCHANGED <<next, lost, inbound_buffer>> /\ task' = "bytes"
    BY <1>4 DEF TaskRead, ReadSize, outVars
  <2>3. p \in Seq(Nat) /\ r \in Seq(Nat) /\ Range(ring) = Range(p) \cup Range(r)
    BY <1>0, <2>1, RisingSplit DEF LinkInv, EachRising
  <2>. HIDE DEF p, r
  <2>4. Range(r \o stash) = Range(r) \cup Range(stash)
    BY <1>0, <2>3, RangeConcatenation
  <2>5. Range(dtmp) = {} /\ Range(<<>>) = {}
    BY <2>1, EmptyParts
  <2>6. Pending' = Pending
    BY <2>2, <2>3, <2>4, <2>5 DEF Pending
  <2>7. NothingTaken
    BY <1>s, <2>2, <2>6
  <2>8. Packets' = Packets
    BY <1>4 DEF TaskRead, outVars, Packets
  <2>9. ReadWhenEmpty'
    BY <2>2 DEF ReadWhenEmpty
  <2>. QED
    BY <1>0, <2>2, <2>7, <2>8, <2>9, NothingHandled
<1>5. ASSUME TaskByte PROVE SurviveInv'
  <2>0. PICK b : b = Head(dtmp)
    OBVIOUS
  <2>1. /\ dtmp # <<>> /\ dtmp' = Tail(dtmp) /\ task = "bytes"
        /\ UNCHANGED <<next, lost, ring, stash, task, handler, delivered>>
    BY <1>5 DEF TaskByte, driverVars, outVars
  <2>2. b \in Pending /\ b \in Nat /\ b < next
        /\ Pending = {b} \cup Pending' /\ \A i \in Pending' : b < i
    <3>1. b \in Range(dtmp) /\ Range(dtmp) = {b} \cup Range(dtmp')
      BY <1>0, <2>0, <2>1, HeadAndTail
    <3>2. 1 \in Nat /\ 1 <= Len(dtmp) /\ Rising(dtmp)
      BY <1>0, <2>1 DEF LinkInv, EachRising
    <3>3. \A i \in Range(dtmp') : b < i
      <4>1. \A i \in DOMAIN dtmp' : i \in Nat /\ i + 1 \in DOMAIN dtmp /\ dtmp'[i] = dtmp[i + 1]
                                    /\ 1 < i + 1
        BY <1>0, <2>1, HeadAndTail
      <4>2. 1 \in DOMAIN dtmp /\ b = dtmp[1]
        BY <1>0, <2>0, <2>1
      <4>. QED
        BY <4>1, <4>2, <3>2 DEF Rising, Range
    <3>4. \A i \in Range(ring) \cup Range(stash) : b < i
      BY <3>1 DEF LinkInv, PlacesInOrder, Earlier
    <3>5. Pending' = Range(dtmp') \cup Range(ring) \cup Range(stash)
      BY <2>1 DEF Pending
    <3>6. b \in Pending /\ Pending = {b} \cup Pending'
      BY <3>1, <3>5 DEF Pending
    <3>7. \A i \in Pending' : b < i
      BY <3>3, <3>4, <3>5
    <3>. QED
      BY <1>p, <3>6, <3>7
  <2>3. b \notin Pending' /\ \A i \in Pending' : i \in Nat /\ i \in Pending
    <3>1. ~(b < b)
      BY <2>2
    <3>2. \A i \in Pending' : i \in Pending
      BY <2>2
    <3>. QED
      BY <1>p, <2>2, <3>1, <3>2
  <2>4. HandledTo(b) /\ ~HandledTo(b + 1) /\ HandledTo(b + 1)'
    <3>1. \A i \in Pending' : b <= i /\ b + 1 <= i
      BY <2>2, <2>3
    <3>2. \A i \in Pending : b <= i
      BY <2>2, <3>1
    <3>3. b <= next /\ b + 1 <= next /\ ~(b + 1 <= b)
      BY <1>0, <2>2
    <3>4. HandledTo(b)
      BY <3>2, <3>3 DEF HandledTo
    <3>5. ~HandledTo(b + 1)
      BY <2>2, <3>3 DEF HandledTo
    <3>6. HandledTo(b + 1)'
      BY <2>1, <3>1, <3>3 DEF HandledTo
    <3>. QED
      BY <3>4, <3>5, <3>6
  <2>5. ASSUME NEW x \in Nat, HandledTo(x) PROVE HandledTo(x)' /\ x <= b
    BY <2>1, <2>2, <2>3, <2>5 DEF HandledTo
  <2>6. Accounted'
    <3>. SUFFICES ASSUME NEW i \in 0..(next - 1), i \notin lost, i \notin Pending'
                  PROVE  HandledTo(i + 1)'
      BY <2>1 DEF Accounted
    <3>1. i \in Pending \/ HandledTo(i + 1)
      BY DEF SurviveInv, Accounted
    <3>2. i \in Pending => i = b
      BY <2>2
    <3>3. i + 1 \in Nat
      BY <1>0
    <3>4. CASE i = b
      <4>1. i + 1 = b + 1
        BY <3>4
      <4>. QED
        BY <2>4, <4>1
    <3>5. CASE HandledTo(i + 1)
      BY <2>5, <3>3, <3>5
    <3>. QED
      BY <3>1, <3>2, <3>4, <3>5
  <2>7. FramesAssembled'
    <3>. SUFFICES ASSUME NEW f \in Frames, Unlost(f)' PROVE Assembled(f)'
      BY DEF FramesAssembled
    <3>. DEFINE s == Start(f)
    <3>0. f \in Nat /\ WireLen \in Nat /\ WireLen = FrameLen + 2
          /\ FrameLen \in Nat /\ FrameLen > 0
      BY StreamLenNat, ConstantsAssumption DEF Frames, WireLen
    <3>1. s \in Nat
          /\ \A k \in 0..(WireLen - 1) :
               /\ (s + k) \div WireLen = f
               /\ IsZero(s + k) <=> k \in {0, WireLen - 1}
      BY <3>0, FrameArithmetic
    <3>. HIDE DEF s
    <3>2. /\ HandledTo(s + WireLen) => Payload(f) \in Packets
          /\ \A k \in 1..(WireLen - 1) :
               HandledTo(s + k) /\ ~HandledTo(s + k + 1)
                 => inbound_buffer = [j \in 1..(k - 1) |-> s + j]
      <4>1. Unlost(f)
        BY <2>1 DEF Unlost
      <4>. QED
        BY <4>1 DEF SurviveInv, FramesAssembled, Assembled, s
    \* The only byte that can have completed the first k of the frame is the one handled.
    <3>3. ASSUME NEW k \in 1..WireLen, HandledTo(s + k)', ~HandledTo(s + k)
          PROVE  b = s + (k - 1)
      <4>. DEFINE i == s + (k - 1)
      <4>1. /\ k - 1 \in 0..(WireLen - 1)
            /\ i \in Nat /\ i + 1 = s + k
        BY <3>0, <3>1
      <4>. HIDE DEF i
      <4>2. i \notin lost
        <5>1. i \div WireLen = f
          BY <3>1, <4>1 DEF i
        <5>. QED
          BY <2>1, <5>1 DEF Unlost
      <4>3. s + k <= next /\ \A c \in Pending' : s + k <= c
        BY <2>1, <3>3 DEF HandledTo
      <4>4. i \in 0..(next - 1)
        BY <1>0, <4>1, <4>3
      <4>5. i \notin Pending'
        BY <4>1, <4>3
      <4>6. i \in Pending
        BY <3>3, <4>1, <4>2, <4>4 DEF SurviveInv, Accounted
      <4>. QED
        BY <2>2, <4>5, <4>6 DEF i
    <3>4. ASSUME HandledTo(s + WireLen)' PROVE Payload(f) \in Packets'
      <4>1. CASE HandledTo(s + WireLen)
        <5>1. Packets \subseteq Packets'
          <6>1. \/ packet_queue' = packet_queue
                \/ packet_queue' = Append(packet_queue, inbound_buffer)
            BY <1>5 DEF TaskByte
          <6>2. Range(packet_queue) \subseteq Range(packet_queue')
            <7>1. Range(packet_queue) \subseteq Range(Append(packet_queue, inbound_buffer))
              <8>1. inbound_buffer \in WirePacket
                BY <1>0 DEF WirePacket
              <8>. QED
                BY <1>0, <8>1, AppendParts
            <7>. QED
              BY <6>1, <7>1
          <6>3. discarded \subseteq discarded'
            BY <1>5 DEF TaskByte
          <6>. QED
            BY <2>1, <6>2, <6>3 DEF Packets
        <5>. QED
          BY <3>2, <4>1, <5>1
      <4>2. CASE ~HandledTo(s + WireLen)
        <5>1. WireLen \in 1..WireLen /\ WireLen - 1 \in 1..(WireLen - 1)
              /\ WireLen - 1 \in 0..(WireLen - 1)
          BY <3>0
        <5>2. b = s + (WireLen - 1)
          BY <3>3, <3>4, <4>2, <5>1
        <5>3. b + 1 = s + (WireLen - 1) + 1
          BY <3>0, <3>1, <5>2
        <5>4. inbound_buffer = [j \in 1..((WireLen - 1) - 1) |-> s + j]
          BY <2>4, <3>2, <5>1, <5>2, <5>3
        <5>5. inbound_buffer = Payload(f)
          <6>1. (WireLen - 1) - 1 = FrameLen
            BY <3>0
          <6>. QED
            BY <5>4, <6>1 DEF Payload, s, Start
        <5>6. inbound_buffer # <<>>
          <6>1. 1 \in DOMAIN Payload(f)
            BY <3>0 DEF Payload
          <6>. QED
            BY <5>5, <6>1
        <5>7. EndsPacket(b)
          BY <3>1, <5>1, <5>2, <5>6 DEF EndsPacket
        <5>8. \/ packet_queue' = Append(packet_queue, inbound_buffer)
              \/ discarded' = discarded \cup {inbound_buffer}
          BY <1>5, <2>0, <5>7 DEF TaskByte
        <5>9. inbound_buffer \in Range(Append(packet_queue, inbound_buffer))
          BY <1>0, AppendParts DEF WirePacket
        <5>. QED
          BY <5>5, <5>8, <5>9 DEF Packets
      <4>. QED
        BY <4>1, <4>2
    <3>5. ASSUME NEW k \in 1..(WireLen - 1), HandledTo(s + k)', ~HandledTo(s + k + 1)'
          PROVE  inbound_buffer' = [j \in 1..(k - 1) |-> s + j]
      <4>0. /\ k \in 1..WireLen /\ k - 1 \in 0..(WireLen - 1) /\ k \in Nat
            /\ s + k \in Nat /\ s + k + 1 \in Nat
        BY <3>0, <3>1
      <4>1. ~HandledTo(s + k)
        <5>. SUFFICES ASSUME HandledTo(s + k) PROVE FALSE
          OBVIOUS
        <5>1. s + k <= b
          BY <2>5, <4>0
        <5>2. s + k + 1 <= next /\ \A c \in Pending' : s + k + 1 <= c
          BY <1>0, <2>2, <2>3, <4>0, <5>1
        <5>3. HandledTo(s + k + 1)'
          BY <2>1, <5>2 DEF HandledTo
        <5>. QED
          BY <3>5, <5>3
      <4>2. b = s + (k - 1)
        BY <3>3, <3>5, <4>0, <4>1
      <4>3. CASE k = 1
        <5>1. IsZero(b)
          BY <3>1, <4>0, <4>2, <4>3
        <5>2. inbound_buffer' = <<>>
          BY <1>5, <2>0, <5>1 DEF TaskByte, EndsPacket, Cleared
        <5>3. [j \in 1..(k - 1) |-> s + j] = <<>>
          <6>1. 1..(k - 1) = {}
            BY <4>3
          <6>. QED
            BY <6>1
        <5>. QED
          BY <5>2, <5>3
      <4>4. CASE k # 1
        <5>1. k - 1 \in 1..(WireLen - 1) /\ k - 1 \notin {0, WireLen - 1}
          BY <3>0, <4>4
        <5>2. ~IsZero(b)
          BY <3>1, <4>0, <4>2, <5>1
        <5>3. inbound_buffer = [j \in 1..((k - 1) - 1) |-> s + j]
          BY <2>4, <3>2, <4>2, <5>1
        <5>4. inbound_buffer' = Append(inbound_buffer, b)
          BY <1>5, <2>0, <5>2 DEF TaskByte, EndsPacket
        <5>. DEFINE old == [j \in 1..(k - 2) |-> s + j]
                    new == [j \in 1..(k - 1) |-> s + j]
        <5>5. old \in Seq(Nat) /\ Len(old) = k - 2 /\ new \in Seq(Nat) /\ Len(new) = k - 1
              /\ inbound_buffer = old
          <6>1. k - 2 \in Nat /\ k - 1 \in Nat /\ (k - 1) - 1 = k - 2
            BY <4>0, <5>1
          <6>2. \A j \in 1..(k - 1) : s + j \in Nat
            BY <3>1
          <6>. QED
            BY <5>3, <6>1, <6>2
        <5>6. /\ Append(old, b) \in Seq(Nat) /\ Len(Append(old, b)) = k - 1
              /\ Append(old, b)[k - 1] = b
              /\ \A j \in 1..(k - 2) : Append(old, b)[j] = old[j]
          <6>1. (k - 2) + 1 = k - 1
            BY <4>0
          <6>2. old \in Seq(Nat) /\ Len(old) = k - 2
            BY <5>5
          <6>. HIDE DEF old
          <6>3. /\ Append(old, b) \in Seq(Nat) /\ Len(Append(old, b)) = Len(old) + 1
                /\ \A j \in 1..Len(old) : Append(old, b)[j] = old[j]
                /\ Append(old, b)[Len(old) + 1] = b
            BY <2>2, <6>2, AppendProperties
          <6>. QED
            BY <6>1, <6>2, <6>3
        <5>7. \A j \in 1..(k - 1) : Append(old, b)[j] = new[j]
          <6>. SUFFICES ASSUME NEW j \in 1..(k - 1) PROVE Append(old, b)[j] = s + j
            OBVIOUS
          <6>1. CASE j = k - 1
            BY <4>2, <5>6, <6>1
          <6>2. CASE j # k - 1
            <7>1. j \in 1..(k - 2)
              BY <4>0, <6>2
            <7>. QED
              BY <5>6, <7>1
          <6>. QED
            BY <6>1, <6>2
        <5>. HIDE DEF old, new
        <5>8. Append(old, b) = new
          BY <5>5, <5>6, <5>7, SeqEqual
        <5>. QED
          BY <5>4, <5>5, <5>8 DEF new
      <4>. QED
        BY <4>3, <4>4
    <3>. QED
      BY <3>4, <3>5 DEF Assembled, s, Payload
  <2>8. ReadWhenEmpty'
    BY <2>1 DEF ReadWhenEmpty
  <2>. QED
    BY <2>6, <2>7, <2>8 DEF SurviveInv
<1>6. ASSUME \/ IsrLine \/ TaskReceive \/ TaskBytesDone \/ (Recover /\ DropEvents)
             \/ HandlerReceive \/ HandlerCallback \/ RegisterReceiveCallback
             \/ UNCHANGED vars
      PROVE  SurviveInv'
  <2>1. UNCHANGED <<next, lost, ring, stash, dtmp, inbound_buffer>>
    BY <1>6 DEF IsrLine, TaskReceive, TaskBytesDone, Recover, DropEvents, HandlerReceive,
                HandlerCallback, RegisterReceiveCallback, vars, driverVars, taskVars
  <2>2. NothingTaken
    BY <1>s, <2>1 DEF Pending
  <2>3. ReadWhenEmpty'
    BY <1>6, <1>e
       DEF ReadWhenEmpty, IsrLine, TaskReceive, TaskBytesDone, Recover, DropEvents,
           HandlerReceive, HandlerCallback, RegisterReceiveCallback, vars, driverVars, taskVars
  <2>4. Packets \subseteq Packets'
    <3>1. CASE HandlerReceive \/ HandlerCallback
      BY <3>1, PacketsKept
    <3>2. CASE ~(HandlerReceive \/ HandlerCallback)
      BY <1>6, <3>2 DEF IsrLine, TaskReceive, TaskBytesDone, Recover, DropEvents,
                RegisterReceiveCallback, vars, outVars, Packets
    <3>. QED
      BY <3>1, <3>2
  <2>. QED
    BY <1>0, <2>1, <2>2, <2>3, <2>4, NothingHandled
<1>7. ASSUME Recover, DropInput PROVE SurviveInv'
  <2>1. /\ lost' = lost \cup Range(ring) \cup Range(stash)
        /\ ring' = <<>> /\ stash' = <<>>
        /\ UNCHANGED <<next, dtmp, inbound_buffer, packet_queue, outVars, discarded>>
        /\ dtmp = <<>>
    BY <1>7, <1>e DEF Recover, DropInput, ReadWhenEmpty
  <2>2. Range(ring') = {} /\ Range(stash') = {} /\ Range(dtmp) = {} /\ Range(dtmp') = {}
    BY <2>1, EmptyParts
  <2>3. Pending' = {} /\ Pending \subseteq lost'
    BY <2>1, <2>2 DEF Pending
  <2>4. NothingTaken
    <3>1. next..(next' - 1) = {}
      BY <1>0, <2>1
    <3>. QED
      BY <2>1, <2>3, <3>1 DEF NothingTaken
  <2>5. ReadWhenEmpty'
    BY <2>1 DEF ReadWhenEmpty
  <2>6. Packets' = Packets
    BY <2>1 DEF Packets, outVars
  <2>. QED
    BY <1>0, <2>1, <2>4, <2>5, <2>6, NothingHandled
<1>8. ASSUME Recover PROVE SurviveInv'
  <2>1. DropInput \/ DropEvents
    BY <1>8 DEF Recover
  <2>. QED
    BY <1>6, <1>7, <1>8, <2>1
<1>9. ASSUME Isr PROVE SurviveInv'
  BY <1>1, <1>2, <1>3, <1>6, <1>9 DEF Isr
<1>10. ASSUME EventTask PROVE SurviveInv'
  BY <1>4, <1>5, <1>6, <1>8, <1>10 DEF EventTask
<1>11. ASSUME PacketTask PROVE SurviveInv'
  BY <1>6, <1>11 DEF PacketTask
<1>12. ASSUME RegisterReceiveCallback \/ Quiet \/ UNCHANGED vars PROVE SurviveInv'
  BY <1>6, <1>12 DEF Quiet
<1>. QED
  BY <1>9, <1>10, <1>11, <1>12 DEF Next

\* A frame none of whose bytes the driver dropped is handed on as one packet of
\* exactly its bytes, whatever was lost before it and after it.
THEOREM SurvivorBecomesPacket == Spec => []SurvivingFrameBecomesPacket
<1>1. ASSUME TypeOK, SurviveInv PROVE SurvivingFrameBecomesPacket
  <2>. SUFFICES ASSUME NEW f \in Frames, HandledUpTo(f), \A i \in lost : i \div WireLen # f
                PROVE  Payload(f) \in Packets
    BY DEF SurvivingFrameBecomesPacket
  <2>1. f \in Nat
    BY DEF Frames
  <2>2. Start(f) + WireLen = (f + 1) * WireLen
    BY <2>1, FrameArithmetic DEF Start
  <2>3. Range(ring \o stash \o dtmp) = Pending
    <3>1. /\ ring \in Seq(Nat) /\ stash \in Seq(Nat) /\ dtmp \in Seq(Nat)
          /\ ring \o stash \in Seq(Nat)
      BY <1>1, ConcatProperties DEF TypeOK
    <3>2. Range(ring \o stash \o dtmp) = Range(ring) \cup Range(stash) \cup Range(dtmp)
      <4>1. Range(ring \o stash) = Range(ring) \cup Range(stash)
        BY <3>1, RangeConcatenation
      <4>2. Range((ring \o stash) \o dtmp) = Range(ring \o stash) \cup Range(dtmp)
        <5>. DEFINE rs == ring \o stash
        <5>1. rs \in Seq(Nat) /\ dtmp \in Seq(Nat)
          BY <3>1
        <5>. HIDE DEF rs
        <5>2. Range(rs \o dtmp) = Range(rs) \cup Range(dtmp)
          BY <5>1, RangeConcatenation
        <5>. QED
          BY <5>2 DEF rs
      <4>. QED
        BY <4>1, <4>2
    <3>. QED
      BY <3>2 DEF Pending
  <2>4. \A i \in Pending : i >= (f + 1) * WireLen <=> (f + 1) * WireLen <= i
    OBVIOUS
  <2>5. HandledTo(Start(f) + WireLen)
    BY <2>2, <2>3, <2>4 DEF HandledUpTo, HandledTo
  <2>. QED
    BY <1>1, <2>5 DEF SurviveInv, FramesAssembled, Unlost, Assembled
<1>. QED
  BY <1>1, TypeInit, TypeNext, LinkInit, LinkNext, SurviveInit, SurviveNext, PTL DEF Spec
=============================================================================
