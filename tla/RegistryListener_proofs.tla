----------------------- MODULE RegistryListener_proofs -----------------------
(***************************************************************************)
(* Proofs about RegistryListener for any number of channels, any capacity  *)
(* of the link and any number of losses, repetitions, restarts and reboots.*)
(***************************************************************************)
EXTENDS RegistryListener, SequenceTheorems, TLAPS

-----------------------------------------------------------------------------
(* Types *)

LEMMA Constants ==
  /\ NumChannels \in Nat \ {0} /\ LinkLen \in Nat \ {0}
  /\ MaxLosses \in Nat /\ MaxSpurious \in Nat /\ MaxRestarts \in Nat /\ MaxReboots \in Nat
BY RegistryAssumption

LEMMA ChanType ==
  ASSUME NEW p \in Programs, NEW i \in ChannelIDs
  PROVE  Chan(p, i) \in Channel /\ Chan(p, i).id = i /\ Chan(p, i).schema = <<p, i>>
BY DEF Chan, Channel, Schemas

\* What the head of a queue to the board is, and what is left of the queue.
LEMMA Dequeue ==
  ASSUME NEW S, NEW s \in Seq(S), s # <<>>
  PROVE  /\ Head(s) \in S /\ Head(s) = s[1]
         /\ Tail(s) \in Seq(S) /\ Len(Tail(s)) = Len(s) - 1 /\ Len(s) \in Nat
         /\ \A i \in DOMAIN Tail(s) : i + 1 \in DOMAIN s /\ Tail(s)[i] = s[i + 1]
<1>1. /\ Head(s) \in S /\ Tail(s) \in Seq(S) /\ Len(Tail(s)) = Len(s) - 1
      /\ \A i \in 1..Len(Tail(s)) : Tail(s)[i] = s[i + 1]
  BY HeadTailProperties
<1>2. Len(s) \in Nat /\ DOMAIN s = 1..Len(s) /\ DOMAIN Tail(s) = 1..Len(Tail(s))
  BY <1>1, LenProperties
<1>3. Head(s) = s[1]
  BY HeadTailProperties
<1>. QED
  BY <1>1, <1>2, <1>3

LEMMA Enqueue ==
  ASSUME NEW S, NEW s \in Seq(S), NEW e \in S
  PROVE  /\ Append(s, e) \in Seq(S) /\ Len(Append(s, e)) = Len(s) + 1 /\ Len(s) \in Nat
         /\ DOMAIN s = 1..Len(s) /\ DOMAIN Append(s, e) = 1..(Len(s) + 1)
         /\ \A i \in 1..Len(s) : Append(s, e)[i] = s[i]
         /\ Append(s, e)[Len(s) + 1] = e
<1>1. Append(s, e) \in Seq(S)
  BY AppendProperties
<1>. QED
  BY <1>1, AppendProperties, LenProperties

LEMMA TypeInit == Init => TypeOK
<1>. SUFFICES ASSUME Init PROVE TypeOK
  OBVIOUS
<1>1. /\ toBoard \in Seq(FromBrain) /\ Len(toBoard) = 0
      /\ toBrain \in Seq(ChannelIDs) /\ Len(toBrain) = 0
      /\ channels \in Seq(Channel) /\ activeChannels \in Seq(Channel)
      /\ advertised \in Seq(Channel)
  BY EmptySeq DEF Init
<1>2. /\ program \in Programs /\ acked \in 0..NumChannels /\ spurious \in 0..MaxSpurious
      /\ losses \in 0..MaxLosses /\ reboots \in 0..MaxReboots /\ data_mode \in BOOLEAN
      /\ decoded = NoData
  <2>1. /\ program = 0 /\ acked = 0 /\ spurious = 0 /\ losses = 0 /\ reboots = 0
        /\ decoded = NoData
    BY DEF Init
  <2>2. data_mode \in BOOLEAN
    BY DEF Init
  <2>. QED
    BY Constants, <2>1, <2>2 DEF Programs
<1>. QED
  BY Constants, <1>1, <1>2 DEF TypeOK

\* A broadcast appends the channel to the table and acknowledges it, or does nothing.
LEMMA BroadcastCases ==
  ASSUME NEW chan, TakeBroadcast(chan)
  PROVE  /\ UNCHANGED <<advertised, decoded>>
         /\ \/ /\ chan.id <= Len(channels)
               /\ channels' = Append(channels, chan)
               /\ data_mode' = FALSE
               /\ activeChannels' = Append(IF data_mode THEN <<>> ELSE activeChannels, chan)
               /\ toBrain' = Append(toBrain, chan.id)
            \/ UNCHANGED <<channels, activeChannels, data_mode, toBrain>>
BY DEF TakeBroadcast, Store, Refuse, Ack, OnBroadcast, InOrder

LEMMA TypeNext == TypeOK /\ [Next]_vars => TypeOK'
<1>. SUFFICES ASSUME TypeOK, [Next]_vars PROVE TypeOK'
  OBVIOUS
<1>. USE Constants
<1>0. /\ program \in 0..MaxRestarts /\ acked \in 0..NumChannels
      /\ toBoard \in Seq(FromBrain) /\ Len(toBoard) <= LinkLen /\ Len(toBoard) \in Nat
      /\ toBrain \in Seq(ChannelIDs) /\ Len(toBrain) <= LinkLen /\ Len(toBrain) \in Nat
      /\ channels \in Seq(Channel) /\ activeChannels \in Seq(Channel)
      /\ data_mode \in BOOLEAN /\ advertised \in Seq(Channel)
      /\ spurious \in 0..MaxSpurious /\ losses \in 0..MaxLosses /\ reboots \in 0..MaxReboots
      /\ decoded \in [written : Schemas, read : Schemas] \cup {NoData}
  BY DEF TypeOK, Programs
<1>1. ASSUME BrainBroadcast PROVE TypeOK'
  <2>1. acked \in ChannelIDs /\ program \in Programs
    BY <1>0, <1>1 DEF BrainBroadcast, ChannelIDs, Programs
  <2>2. [kind |-> "broadcast", chan |-> Chan(program, acked)] \in FromBrain
    BY <2>1, ChanType DEF FromBrain
  <2>3. /\ toBoard' = Append(toBoard, [kind |-> "broadcast", chan |-> Chan(program, acked)])
        /\ Len(toBoard) < LinkLen
    BY <1>1 DEF BrainBroadcast
  <2>4. toBoard' \in Seq(FromBrain) /\ Len(toBoard') <= LinkLen
    BY <1>0, <2>2, <2>3, AppendProperties
  <2>5. spurious' \in 0..MaxSpurious
    BY <1>0, <1>1 DEF BrainBroadcast
  <2>6. UNCHANGED <<program, acked, toBrain, counters, boardVars>>
    BY <1>1 DEF BrainBroadcast
  <2>. QED
    BY <1>0, <2>4, <2>5, <2>6 DEF TypeOK, counters, boardVars, Programs
<1>2. ASSUME BrainData PROVE TypeOK'
  <2>1. PICK i \in 0..(acked - 1) :
          toBoard' = Append(toBoard, [kind |-> "data", chan |-> Chan(program, i)])
    BY <1>2 DEF BrainData
  <2>2. i \in ChannelIDs /\ program \in Programs
    BY <1>0 DEF ChannelIDs, Programs
  <2>3. [kind |-> "data", chan |-> Chan(program, i)] \in FromBrain
    BY <2>2, ChanType DEF FromBrain
  <2>4. toBoard' \in Seq(FromBrain) /\ Len(toBoard') <= LinkLen
    BY <1>0, <1>2, <2>1, <2>3, AppendProperties DEF BrainData
  <2>5. UNCHANGED <<brainVars, toBrain, counters, boardVars>>
    BY <1>2 DEF BrainData
  <2>. QED
    BY <1>0, <2>4, <2>5 DEF TypeOK, brainVars, counters, boardVars, Programs
<1>3. ASSUME BrainTakeAck PROVE TypeOK'
  <2>1. /\ Head(toBrain) \in ChannelIDs /\ toBrain' \in Seq(ChannelIDs)
        /\ Len(toBrain') = Len(toBrain) - 1
    BY <1>0, <1>3, Dequeue DEF BrainTakeAck
  <2>2. acked' \in 0..NumChannels
    BY <1>0, <1>3, <2>1 DEF BrainTakeAck, ExpectedAck, ChannelIDs
  <2>3. UNCHANGED <<program, spurious, toBoard, counters, boardVars>>
    BY <1>3 DEF BrainTakeAck
  <2>. QED
    BY <1>0, <2>1, <2>2, <2>3 DEF TypeOK, counters, boardVars, Programs
<1>4. ASSUME BrainRestart PROVE TypeOK'
  <2>1. program' \in Programs /\ acked' \in 0..NumChannels
    BY <1>0, <1>4 DEF BrainRestart, Programs
  <2>. QED
    BY <1>0, <1>4, <2>1 DEF BrainRestart, TypeOK, counters, boardVars
<1>5. ASSUME LoseToBoard PROVE TypeOK'
  <2>1. toBoard' \in Seq(FromBrain) /\ Len(toBoard') = Len(toBoard) - 1
    BY <1>0, <1>5, Dequeue DEF LoseToBoard
  <2>2. losses' \in 0..MaxLosses /\ UNCHANGED <<brainVars, toBrain, reboots, boardVars>>
    BY <1>0, <1>5 DEF LoseToBoard
  <2>. QED
    BY <1>0, <2>1, <2>2 DEF TypeOK, brainVars, boardVars, Programs
<1>6. ASSUME LoseToBrain PROVE TypeOK'
  <2>1. toBrain' \in Seq(ChannelIDs) /\ Len(toBrain') = Len(toBrain) - 1
    BY <1>0, <1>6, Dequeue DEF LoseToBrain
  <2>2. losses' \in 0..MaxLosses /\ UNCHANGED <<brainVars, toBoard, reboots, boardVars>>
    BY <1>0, <1>6 DEF LoseToBrain
  <2>. QED
    BY <1>0, <2>1, <2>2 DEF TypeOK, brainVars, boardVars, Programs
<1>7. ASSUME TakePacket PROVE TypeOK'
  <2>1. /\ toBoard' \in Seq(FromBrain) /\ Len(toBoard') = Len(toBoard) - 1
        /\ Head(toBoard) \in FromBrain /\ Len(toBrain) < LinkLen
        /\ UNCHANGED <<brainVars, counters>>
    BY <1>0, <1>7, Dequeue DEF TakePacket
  <2>2. PICK c \in Channel : c = Head(toBoard).chan
    BY <2>1 DEF FromBrain
  <2>3. c.id \in ChannelIDs /\ c.schema \in Schemas
    BY DEF Channel
  <2>4. TakeBroadcast(c) \/ TakeData(c)
    BY <1>7, <2>2 DEF TakePacket
  <2>5. CASE TakeBroadcast(c)
    <3>1. CASE UNCHANGED <<channels, activeChannels, data_mode, toBrain>>
      <4>1. UNCHANGED <<advertised, decoded>>
        BY <2>5, BroadcastCases
      <4>2. UNCHANGED <<program, acked, spurious, losses, reboots>>
        BY <2>1 DEF brainVars, counters
      <4>3. UNCHANGED <<channels, activeChannels, data_mode, toBrain>>
        BY <3>1
      <4>. QED
        BY <1>0, <2>1, <4>1, <4>2, <4>3 DEF TypeOK, Programs
    <3>2. CASE /\ channels' = Append(channels, c)
               /\ data_mode' = FALSE
               /\ activeChannels' = Append(IF data_mode THEN <<>> ELSE activeChannels, c)
               /\ toBrain' = Append(toBrain, c.id)
      <4>1. channels' \in Seq(Channel) /\ activeChannels' \in Seq(Channel)
        BY <1>0, <3>2, AppendProperties
      <4>2. toBrain' \in Seq(ChannelIDs) /\ Len(toBrain') = Len(toBrain) + 1
        BY <1>0, <2>3, <3>2, AppendProperties
      <4>3. UNCHANGED <<advertised, decoded>>
        BY <2>5, BroadcastCases
      <4>4. data_mode' \in BOOLEAN
        BY <3>2
      <4>. QED
        BY <1>0, <2>1, <4>1, <4>2, <4>3, <4>4 DEF TypeOK, brainVars, counters, Programs
    <3>. QED
      BY <2>5, <3>1, <3>2, BroadcastCases
  <2>6. CASE TakeData(c)
    <3>1. decoded' \in [written : Schemas, read : Schemas] \cup {NoData}
      <4>1. CASE Known(c.id)
        <5>1. c.id + 1 \in 1..Len(channels)
          BY <1>0, <2>3, <4>1 DEF Known, ChannelIDs
        <5>2. channels[c.id + 1].schema \in Schemas
          <6>1. channels[c.id + 1] \in Channel
            BY <1>0, <5>1, ElementOfSeq
          <6>. QED
            BY <6>1 DEF Channel
        <5>. QED
          BY <2>3, <2>6, <4>1, <5>2 DEF TakeData, get_remote_schema
      <4>2. CASE ~Known(c.id)
        BY <1>0, <2>6, <4>2 DEF TakeData
      <4>. QED
        BY <4>1, <4>2
    <3>2. /\ data_mode' \in BOOLEAN /\ advertised' \in Seq(Channel)
          /\ UNCHANGED <<channels, activeChannels, toBrain>>
      BY <1>0, <2>6 DEF TakeData, OnData
    <3>. QED
      BY <1>0, <2>1, <3>1, <3>2 DEF TypeOK, brainVars, counters, Programs
  <2>. QED
    BY <2>4, <2>5, <2>6
<1>8. ASSUME BoardReboot PROVE TypeOK'
  <2>1. reboots' \in 0..MaxReboots
    BY <1>0, <1>8 DEF BoardReboot
  <2>2. /\ toBoard' \in Seq(FromBrain) /\ Len(toBoard') = 0
        /\ toBrain' \in Seq(ChannelIDs) /\ Len(toBrain') = 0
        /\ channels' \in Seq(Channel) /\ activeChannels' \in Seq(Channel)
        /\ advertised' \in Seq(Channel) /\ data_mode' \in BOOLEAN /\ decoded' = NoData
    BY <1>8, EmptySeq DEF BoardReboot
  <2>3. UNCHANGED <<program, acked, spurious, losses>>
    BY <1>8 DEF BoardReboot, brainVars
  <2>. QED
    BY <1>0, <2>1, <2>2, <2>3 DEF TypeOK, Programs
<1>9. ASSUME UNCHANGED vars PROVE TypeOK'
  BY <1>0, <1>9 DEF vars, brainVars, counters, boardVars, TypeOK, Programs
<1>. QED
  BY <1>1, <1>2, <1>3, <1>4, <1>5, <1>6, <1>7, <1>8, <1>9 DEF Next

\* Every variable keeps its type; no acknowledgement is of a channel the brain
\* does not have, so the brain never counts past its channels.
THEOREM TypeCorrect == Spec => []TypeOK
BY TypeInit, TypeNext, PTL DEF Spec

-----------------------------------------------------------------------------
(* The table *)

\* What a step can do to the table and to what is derived from it.
LEMMA TableSteps ==
  ASSUME TypeOK, [Next]_vars
  PROVE  \/ UNCHANGED channels
         \/ channels' = <<>>
         \/ \E c \in Channel : c.id <= Len(channels) /\ channels' = Append(channels, c)
<1>1. CASE TakePacket
  <2>1. toBoard \in Seq(FromBrain) /\ toBoard # <<>>
    BY <1>1 DEF TypeOK, TakePacket
  <2>2. Head(toBoard) \in FromBrain
    BY <2>1, Dequeue
  <2>3. PICK c \in Channel : c = Head(toBoard).chan
    BY <2>2 DEF FromBrain
  <2>4. TakeBroadcast(c) \/ TakeData(c)
    BY <1>1, <2>3 DEF TakePacket
  <2>5. CASE TakeBroadcast(c)
    BY <2>5, BroadcastCases
  <2>6. CASE TakeData(c)
    BY <2>6 DEF TakeData
  <2>. QED
    BY <2>4, <2>5, <2>6
<1>2. CASE BoardReboot
  BY <1>2 DEF BoardReboot
<1>3. CASE \/ BrainBroadcast \/ BrainTakeAck \/ BrainData \/ BrainRestart
           \/ LoseToBoard \/ LoseToBrain \/ UNCHANGED vars
  BY <1>3 DEF BrainBroadcast, BrainTakeAck, BrainData, BrainRestart, LoseToBoard,
              LoseToBrain, vars, boardVars
<1>. QED
  BY <1>1, <1>2, <1>3 DEF Next

\* The order of the table survives a step: the appended channel is not ahead of
\* its place, and if it is behind its place it repeats the one that is there.
LEMMA TableNext ==
  ASSUME TypeOK, [Next]_vars, TableBound, ExactOrRepeated
  PROVE  TableBound' /\ ExactOrRepeated' /\ (Repeated => Repeated' \/ channels' = <<>>)
<1>1. CASE UNCHANGED channels
  BY <1>1 DEF TableBound, ExactOrRepeated, Aligned, Repeated
<1>2. CASE channels' = <<>>
  BY <1>2 DEF TableBound, ExactOrRepeated, Aligned
<1>3. ASSUME NEW c \in Channel, c.id <= Len(channels), channels' = Append(channels, c)
      PROVE  TableBound' /\ ExactOrRepeated' /\ (Repeated => Repeated')
  <2>1. channels \in Seq(Channel) /\ c.id \in Nat
    BY DEF TypeOK, Channel, ChannelIDs
  <2>2. /\ Len(channels) \in Nat
        /\ DOMAIN channels = 1..Len(channels) /\ DOMAIN channels' = 1..(Len(channels) + 1)
        /\ \A i \in 1..Len(channels) : channels'[i] = channels[i]
        /\ channels'[Len(channels) + 1] = c
    BY <1>3, <2>1, Enqueue
  <2>3. TableBound'
    BY <1>3, <2>1, <2>2 DEF TableBound
  <2>4. Repeated => Repeated'
    BY <2>2 DEF Repeated
  <2>5. CASE Aligned /\ c.id = Len(channels)
    <3>1. Aligned'
      BY <2>2, <2>5 DEF Aligned
    <3>. QED
      BY <2>3, <2>4, <3>1 DEF ExactOrRepeated
  <2>6. CASE Aligned /\ c.id < Len(channels)
    <3>1. c.id + 1 \in 1..Len(channels)
      BY <2>1, <2>2, <2>6
    <3>2. channels'[c.id + 1].id = c.id
      BY <2>1, <2>2, <2>6, <3>1 DEF Aligned
    <3>3. Repeated'
      BY <2>2, <3>1, <3>2 DEF Repeated
    <3>. QED
      BY <2>3, <3>3 DEF ExactOrRepeated
  <2>7. CASE Repeated
    BY <2>3, <2>4, <2>7 DEF ExactOrRepeated
  <2>. QED
    BY <1>3, <2>1, <2>2, <2>5, <2>6, <2>7 DEF ExactOrRepeated
<1>. QED
  BY <1>1, <1>2, <1>3, TableSteps

TableInv == TypeOK /\ TableBound /\ ExactOrRepeated

LEMMA TableInvariant == Spec => []TableInv
<1>1. Init => TableInv
  <2>. SUFFICES ASSUME Init PROVE TableInv
    OBVIOUS
  <2>1. channels = <<>>
    BY DEF Init
  <2>. QED
    BY <2>1, TypeInit DEF TableInv, TableBound, ExactOrRepeated, Aligned
<1>2. TableInv /\ [Next]_vars => TableInv'
  BY TypeNext, TableNext DEF TableInv
<1>. QED
  BY <1>1, <1>2, PTL DEF Spec

\* No entry of the table lies below the place its id names, however many packets
\* were lost and programs restarted.
THEOREM TableStaysBounded == Spec => []TableBound
<1>1. TableInv => TableBound
  BY DEF TableInv
<1>. QED
  BY <1>1, TableInvariant, PTL

\* Only a repeated broadcast can move a channel away from its place.
THEOREM ExactUntilRepeated == Spec => []ExactOrRepeated
<1>1. TableInv => ExactOrRepeated
  BY DEF TableInv
<1>. QED
  BY <1>1, TableInvariant, PTL

-----------------------------------------------------------------------------
(* Acknowledgements *)

\* What the brain counts on and what is on its way to it never leads the table.
LEMMA AckNext ==
  ASSUME TypeOK, [Next]_vars, AckedIsKnown
  PROVE  AckedIsKnown'
<1>0. /\ toBrain \in Seq(ChannelIDs) /\ channels \in Seq(Channel) /\ toBoard \in Seq(FromBrain)
      /\ acked \in Nat /\ Len(channels) \in Nat /\ Len(toBrain) \in Nat /\ reboots \in Nat
      /\ DOMAIN toBrain = 1..Len(toBrain)
  BY Constants DEF TypeOK
<1>1. CASE BrainTakeAck
  <2>1. /\ toBrain # <<>> /\ toBrain' = Tail(toBrain)
        /\ acked' = IF Head(toBrain) = acked THEN acked + 1 ELSE acked
        /\ channels' = channels /\ reboots' = reboots
    BY <1>1 DEF BrainTakeAck, ExpectedAck, counters, boardVars
  <2>2. /\ Head(toBrain) = toBrain[1] /\ 1 \in DOMAIN toBrain
        /\ \A i \in DOMAIN Tail(toBrain) :
              i + 1 \in DOMAIN toBrain /\ Tail(toBrain)[i] = toBrain[i + 1]
    BY <1>0, <2>1, Dequeue
  <2>3. Head(toBrain) < Len(channels)
    BY <2>2 DEF AckedIsKnown
  <2>4. \A i \in DOMAIN toBrain' : toBrain'[i] < Len(channels')
    BY <2>1, <2>2 DEF AckedIsKnown
  <2>5. reboots' = 0 => acked' <= Len(channels')
    BY <1>0, <2>1, <2>3 DEF AckedIsKnown
  <2>. QED
    BY <2>4, <2>5 DEF AckedIsKnown
<1>2. CASE BrainRestart
  <2>1. acked' = 0 /\ UNCHANGED <<toBrain, channels, reboots>>
    BY <1>2 DEF BrainRestart, counters, boardVars
  <2>. QED
    BY <1>0, <2>1 DEF AckedIsKnown
<1>3. CASE LoseToBrain
  <2>1. /\ toBrain # <<>> /\ toBrain' = Tail(toBrain) /\ UNCHANGED <<acked, channels, reboots>>
    BY <1>3 DEF LoseToBrain, brainVars, boardVars
  <2>2. \A i \in DOMAIN Tail(toBrain) :
          i + 1 \in DOMAIN toBrain /\ Tail(toBrain)[i] = toBrain[i + 1]
    BY <1>0, <2>1, Dequeue
  <2>. QED
    BY <2>1, <2>2 DEF AckedIsKnown
<1>4. CASE TakePacket
  <2>1. toBoard # <<>> /\ acked' = acked /\ reboots' = reboots
    BY <1>4 DEF TakePacket, brainVars, counters
  <2>2. Head(toBoard) \in FromBrain
    BY <1>0, <2>1, Dequeue
  <2>3. PICK c \in Channel : c = Head(toBoard).chan
    BY <2>2 DEF FromBrain
  <2>4. TakeBroadcast(c) \/ TakeData(c)
    BY <1>4, <2>3 DEF TakePacket
  <2>5. CASE UNCHANGED <<channels, toBrain>>
    BY <2>1, <2>5 DEF AckedIsKnown
  <2>6. CASE /\ c.id <= Len(channels) /\ channels' = Append(channels, c)
             /\ toBrain' = Append(toBrain, c.id)
    <3>1. c.id \in ChannelIDs /\ c.id \in Nat
      BY DEF Channel, ChannelIDs
    <3>2. Len(channels') = Len(channels) + 1
      BY <1>0, <2>6, Enqueue
    <3>3. /\ DOMAIN toBrain' = 1..(Len(toBrain) + 1)
          /\ \A i \in 1..Len(toBrain) : toBrain'[i] = toBrain[i]
          /\ toBrain'[Len(toBrain) + 1] = c.id
      BY <1>0, <2>6, <3>1, Enqueue
    <3>4. \A i \in 1..Len(toBrain) : toBrain[i] \in Nat
      <4>1. ASSUME NEW i \in 1..Len(toBrain) PROVE toBrain[i] \in ChannelIDs
        BY <1>0, ElementOfSeq
      <4>. QED
        BY <4>1 DEF ChannelIDs
    <3>5. \A i \in DOMAIN toBrain' : toBrain'[i] < Len(channels')
      BY <1>0, <2>6, <3>1, <3>2, <3>3, <3>4 DEF AckedIsKnown
    <3>6. reboots' = 0 => acked' <= Len(channels')
      BY <1>0, <2>1, <3>2 DEF AckedIsKnown
    <3>. QED
      BY <3>5, <3>6 DEF AckedIsKnown
  <2>7. TakeData(c) => UNCHANGED <<channels, toBrain>>
    BY DEF TakeData
  <2>. QED
    BY <2>4, <2>5, <2>6, <2>7, BroadcastCases
<1>5. CASE BoardReboot
  <2>1. toBrain' = <<>> /\ reboots' = reboots + 1
    BY <1>5 DEF BoardReboot
  <2>. QED
    BY <1>0, <2>1 DEF AckedIsKnown
<1>6. CASE BrainBroadcast \/ BrainData \/ LoseToBoard \/ UNCHANGED vars
  <2>1. UNCHANGED <<acked, toBrain, reboots, channels>>
    BY <1>6 DEF BrainBroadcast, BrainData, LoseToBoard, vars, brainVars, counters, boardVars
  <2>. QED
    BY <2>1 DEF AckedIsKnown
<1>. QED
  BY <1>1, <1>2, <1>3, <1>4, <1>5, <1>6 DEF Next

\* Whatever was lost, repeated or left over from an earlier program, what the brain
\* believes acknowledged is in the table until the board reboots.
THEOREM AckedStaysKnown == Spec => []AckedIsKnown
<1>1. Init => AckedIsKnown
  BY DEF Init, AckedIsKnown
<1>2. TypeOK /\ AckedIsKnown /\ [Next]_vars => AckedIsKnown'
  BY AckNext
<1>. QED
  BY <1>1, <1>2, TypeCorrect, PTL DEF Spec

-----------------------------------------------------------------------------
(* The callbacks *)

\* Appending to a sequence and to a tail of it leaves a tail of it.
LEMMA AppendToSuffix ==
  ASSUME NEW S, NEW s \in Seq(S), NEW e \in S, NEW k \in 0..Len(s),
         NEW t, t = Append(s, e), NEW u, u = SubSeq(s, k + 1, Len(s))
  PROVE  k \in 0..Len(t) /\ Append(u, e) = SubSeq(t, k + 1, Len(t))
<1>. DEFINE n == Len(s)
            v == SubSeq(t, k + 1, n + 1)
<1>1. /\ n \in Nat /\ t \in Seq(S) /\ Len(t) = n + 1
      /\ \A i \in 1..n : t[i] = s[i] /\ s[i] \in S
      /\ t[n + 1] = e
  <2>1. \A i \in 1..n : s[i] \in S
    BY ElementOfSeq
  <2>. QED
    BY <2>1, Enqueue
<1>. HIDE DEF n
<1>2. k \in 0..n /\ k \in Nat
  BY <1>1 DEF n
<1>3. u \in Seq(S) /\ Len(u) = n - k /\ \A i \in 1..(n - k) : u[i] = s[k + i]
  <2>1. \A i \in (k + 1)..n : s[i] \in S
    BY <1>1, <1>2
  <2>2. /\ u \in Seq(S) /\ Len(u) = IF k + 1 <= n THEN n - (k + 1) + 1 ELSE 0
        /\ \A i \in 1..(n - (k + 1) + 1) : u[i] = s[k + 1 + i - 1]
    BY <1>1, <1>2, <2>1, SubSeqProperties DEF n
  <2>. QED
    BY <1>1, <1>2, <2>2
<1>4. v \in Seq(S) /\ Len(v) = n + 1 - k /\ \A i \in 1..(n + 1 - k) : v[i] = t[k + i]
  <2>1. \A i \in (k + 1)..(n + 1) : t[i] \in S
    BY <1>1, <1>2
  <2>2. /\ v \in Seq(S) /\ Len(v) = IF k + 1 <= n + 1 THEN n + 1 - (k + 1) + 1 ELSE 0
        /\ \A i \in 1..(n + 1 - (k + 1) + 1) : v[i] = t[k + 1 + i - 1]
    BY ONLY <1>1, <1>2, <2>1, SubSeqProperties DEF v
  <2>. HIDE DEF v
  <2>. QED
    BY ONLY <1>1, <1>2, <2>2
<1>. HIDE DEF v
<1>5. /\ Append(u, e) \in Seq(S) /\ Len(Append(u, e)) = n - k + 1
      /\ \A i \in 1..(n - k) : Append(u, e)[i] = u[i]
      /\ Append(u, e)[n - k + 1] = e
  BY <1>3, AppendProperties
<1>6. \A i \in 1..Len(Append(u, e)) : Append(u, e)[i] = v[i]
  <2>. SUFFICES ASSUME NEW i \in 1..(n - k + 1) PROVE Append(u, e)[i] = v[i]
    BY <1>5
  <2>1. CASE i = n - k + 1
    <3>1. i \in 1..(n + 1 - k) /\ k + i = n + 1
      BY <1>1, <1>2, <2>1
    <3>2. v[i] = t[n + 1]
      BY <1>4, <3>1
    <3>. QED
      BY <1>1, <1>5, <2>1, <3>2
  <2>2. CASE i < n - k + 1
    <3>1. i \in 1..(n - k) /\ k + i \in 1..n /\ i \in 1..(n + 1 - k)
      BY <1>1, <1>2, <2>2
    <3>. QED
      BY <1>1, <1>3, <1>4, <1>5, <3>1
  <2>3. i = n - k + 1 \/ i < n - k + 1
    <3>1. n \in Nat /\ k \in Nat
      BY <1>1, <1>2
    <3>. QED
      BY <3>1
  <2>. QED
    BY <2>1, <2>2, <2>3
<1>7. Append(u, e) = v
  <2>1. Len(Append(u, e)) = Len(v)
    BY <1>1, <1>2, <1>4, <1>5
  <2>. QED
    BY <1>4, <1>5, <1>6, <2>1, SeqEqual
<1>8. k \in 0..Len(t)
  BY <1>1, <1>2
<1>. QED
  BY <1>1, <1>7, <1>8 DEF n, v

\* What a step can do to the list of active channels.
LEMMA ListSteps ==
  ASSUME TypeOK, [Next]_vars
  PROVE  \/ UNCHANGED <<channels, activeChannels>>
         \/ channels' = <<>> /\ activeChannels' = <<>>
         \/ \E c \in Channel : /\ channels' = Append(channels, c)
                               /\ \/ activeChannels' = Append(activeChannels, c)
                                  \/ activeChannels' = Append(<<>>, c)
<1>1. CASE TakePacket
  <2>1. toBoard \in Seq(FromBrain) /\ toBoard # <<>>
    BY <1>1 DEF TypeOK, TakePacket
  <2>2. Head(toBoard) \in FromBrain
    BY <2>1, Dequeue
  <2>3. PICK c \in Channel : c = Head(toBoard).chan
    BY <2>2 DEF FromBrain
  <2>4. TakeBroadcast(c) \/ TakeData(c)
    BY <1>1, <2>3 DEF TakePacket
  <2>5. CASE TakeBroadcast(c)
    BY <2>5, BroadcastCases
  <2>6. CASE TakeData(c)
    BY <2>6 DEF TakeData
  <2>. QED
    BY <2>4, <2>5, <2>6
<1>2. CASE BoardReboot
  BY <1>2 DEF BoardReboot
<1>3. CASE \/ BrainBroadcast \/ BrainTakeAck \/ BrainData \/ BrainRestart
           \/ LoseToBoard \/ LoseToBrain \/ UNCHANGED vars
  BY <1>3 DEF BrainBroadcast, BrainTakeAck, BrainData, BrainRestart, LoseToBoard,
              LoseToBrain, vars, boardVars
<1>. QED
  BY <1>1, <1>2, <1>3 DEF Next

LEMMA SuffixNext ==
  ASSUME TypeOK, [Next]_vars, ActiveSuffix
  PROVE  ActiveSuffix'
<1>1. channels \in Seq(Channel) /\ Len(channels) \in Nat
  BY DEF TypeOK
<1>2. PICK k \in 0..Len(channels) : activeChannels = SubSeq(channels, k + 1, Len(channels))
  BY DEF ActiveSuffix
<1>3. CASE UNCHANGED <<channels, activeChannels>>
  BY <1>3 DEF ActiveSuffix
<1>4. CASE channels' = <<>> /\ activeChannels' = <<>>
  <2>1. Len(channels') = 0 /\ 0 \in 0..Len(channels')
    BY <1>4
  <2>2. SubSeq(channels', 0 + 1, Len(channels')) = <<>>
    BY <2>1, SubSeqEmpty
  <2>. QED
    BY <1>4, <2>1, <2>2 DEF ActiveSuffix
<1>5. ASSUME NEW c \in Channel, channels' = Append(channels, c),
             activeChannels' = Append(activeChannels, c)
      PROVE  ActiveSuffix'
  <2>1. channels \in Seq(Channel) /\ c \in Channel /\ k \in 0..Len(channels)
    BY <1>1, <1>2
  <2>2. k \in 0..Len(channels') /\ activeChannels' = SubSeq(channels', k + 1, Len(channels'))
    BY <1>2, <1>5, <2>1, AppendToSuffix
  <2>. QED
    BY <2>2 DEF ActiveSuffix
<1>6. ASSUME NEW c \in Channel, channels' = Append(channels, c),
             activeChannels' = Append(<<>>, c)
      PROVE  ActiveSuffix'
  <2>1. Len(channels) \in 0..Len(channels)
    BY <1>1
  <2>2. SubSeq(channels, Len(channels) + 1, Len(channels)) = <<>>
    BY <1>1, SubSeqEmpty
  <2>. QED
    <3>. DEFINE m == Len(channels)
    <3>1. /\ m \in 0..Len(Append(channels, c))
          /\ Append(<<>>, c) = SubSeq(Append(channels, c), m + 1, Len(Append(channels, c)))
      <4>1. /\ m \in 0..Len(channels') /\ channels \in Seq(Channel) /\ c \in Channel
            /\ Append(<<>>, c) = SubSeq(channels', m + 1, Len(channels'))
        BY <1>1, <1>6, <2>1, <2>2, AppendToSuffix
      <4>. QED
        BY <1>6, <4>1
    <3>2. PICK k2 \in 0..Len(Append(channels, c)) : k2 = m
      BY <3>1
    <3>3. /\ k2 \in 0..Len(channels')
          /\ activeChannels' = SubSeq(channels', k2 + 1, Len(channels'))
      BY <1>6, <3>1, <3>2
    <3>. QED
      BY <3>3 DEF ActiveSuffix
<1>. QED
  BY <1>3, <1>4, <1>5, <1>6, ListSteps

\* main.cpp's list of active channels is always a tail of the listener's table:
\* no refused broadcast gets into it and no stored one is missing.
THEOREM ActiveIsSuffix == Spec => []ActiveSuffix
<1>1. Init => ActiveSuffix
  <2>. SUFFICES ASSUME Init PROVE ActiveSuffix
    OBVIOUS
  <2>1. channels = <<>> /\ activeChannels = <<>> /\ Len(channels) = 0
    BY DEF Init
  <2>2. SubSeq(channels, 0 + 1, Len(channels)) = <<>> /\ 0 \in 0..Len(channels)
    BY <2>1, SubSeqEmpty
  <2>. QED
    BY <2>1, <2>2 DEF ActiveSuffix
<1>2. TypeOK /\ ActiveSuffix /\ [Next]_vars => ActiveSuffix'
  BY SuffixNext
<1>. QED
  BY <1>1, <1>2, TypeCorrect, PTL DEF Spec

LEMMA AdvertisedNext ==
  ASSUME AdvertisedIsActive, [Next]_vars
  PROVE  AdvertisedIsActive'
<1>1. CASE TakePacket
  <2>1. PICK c : c = Head(toBoard).chan
    OBVIOUS
  <2>2. TakeBroadcast(c) \/ TakeData(c)
    BY <1>1, <2>1 DEF TakePacket
  <2>3. CASE TakeBroadcast(c)
    <3>1. \/ data_mode' = FALSE
          \/ UNCHANGED <<activeChannels, data_mode, advertised>>
      BY <2>3, BroadcastCases
    <3>. QED
      BY <3>1 DEF AdvertisedIsActive
  <2>4. CASE TakeData(c)
    <3>1. /\ activeChannels' = activeChannels
          /\ \/ advertised' = IF data_mode THEN advertised ELSE activeChannels
             \/ UNCHANGED <<data_mode, advertised>>
      BY <2>4 DEF TakeData, OnData
    <3>. QED
      BY <3>1 DEF AdvertisedIsActive
  <2>. QED
    BY <2>2, <2>3, <2>4
<1>2. CASE BoardReboot
  BY <1>2 DEF BoardReboot, AdvertisedIsActive
<1>3. CASE \/ BrainBroadcast \/ BrainTakeAck \/ BrainData \/ BrainRestart
           \/ LoseToBoard \/ LoseToBrain \/ UNCHANGED vars
  <2>1. UNCHANGED <<activeChannels, data_mode, advertised>>
    BY <1>3 DEF BrainBroadcast, BrainTakeAck, BrainData, BrainRestart, LoseToBoard,
                LoseToBrain, vars, boardVars
  <2>. QED
    BY <2>1 DEF AdvertisedIsActive
<1>. QED
  BY <1>1, <1>2, <1>3 DEF Next

\* In data mode the websocket has been told exactly the active channels.
THEOREM AdvertisedWhatIsActive == Spec => []AdvertisedIsActive
<1>1. Init => AdvertisedIsActive
  BY DEF Init, AdvertisedIsActive
<1>2. AdvertisedIsActive /\ [Next]_vars => AdvertisedIsActive'
  BY AdvertisedNext
<1>. QED
  BY <1>1, <1>2, PTL DEF Spec

-----------------------------------------------------------------------------
(* Data and schemas *)

\* While the brain runs its first program every schema in flight and in the table
\* is the one that program made for the channel's id.
OwnSchema(c) == c.schema = <<0, c.id>>
FirstProgram ==
  program = 0 => /\ \A i \in DOMAIN toBoard : OwnSchema(toBoard[i].chan)
                 /\ \A i \in DOMAIN channels : OwnSchema(channels[i])

LEMMA FirstProgramNext ==
  ASSUME TypeOK, [Next]_vars, FirstProgram
  PROVE  FirstProgram'
<1>. SUFFICES ASSUME program' = 0
              PROVE  /\ \A i \in DOMAIN toBoard' : OwnSchema(toBoard'[i].chan)
                     /\ \A i \in DOMAIN channels' : OwnSchema(channels'[i])
  BY DEF FirstProgram, OwnSchema
<1>0. /\ toBoard \in Seq(FromBrain) /\ channels \in Seq(Channel) /\ program \in Nat
      /\ DOMAIN toBoard = 1..Len(toBoard) /\ Len(toBoard) \in Nat
      /\ acked \in 0..NumChannels /\ program \in Programs
  BY Constants DEF TypeOK, Programs
<1>1. program = 0
  <2>1. program' = program \/ program' = program + 1
    BY DEF Next, BrainBroadcast, BrainData, BrainTakeAck, BrainRestart, LoseToBoard,
           LoseToBrain, TakePacket, BoardReboot, vars, brainVars
  <2>. QED
    BY <1>0, <2>1
<1>2. /\ \A i \in DOMAIN toBoard : OwnSchema(toBoard[i].chan)
      /\ \A i \in DOMAIN channels : OwnSchema(channels[i])
  BY <1>1 DEF FirstProgram
<1>3. ASSUME NEW p \in FromBrain, OwnSchema(p.chan),
             toBoard' = Append(toBoard, p), channels' = channels
      PROVE  /\ \A i \in DOMAIN toBoard' : OwnSchema(toBoard'[i].chan)
             /\ \A i \in DOMAIN channels' : OwnSchema(channels'[i])
  <2>1. /\ DOMAIN toBoard' = 1..(Len(toBoard) + 1)
        /\ \A i \in 1..Len(toBoard) : toBoard'[i] = toBoard[i]
        /\ toBoard'[Len(toBoard) + 1] = p
    BY <1>0, <1>3, Enqueue
  <2>. QED
    BY <1>0, <1>2, <1>3, <2>1
<1>4. CASE BrainBroadcast
  <2>1. acked \in ChannelIDs /\ program \in Programs
    BY <1>0, <1>4, Constants DEF BrainBroadcast, ChannelIDs
  <2>2. PICK p \in FromBrain : p = [kind |-> "broadcast", chan |-> Chan(program, acked)]
    BY <2>1, ChanType DEF FromBrain
  <2>3. OwnSchema(p.chan)
    BY <1>1, <2>1, <2>2, ChanType DEF OwnSchema
  <2>. QED
    BY <1>3, <1>4, <2>2, <2>3 DEF BrainBroadcast, boardVars
<1>5. CASE BrainData
  <2>1. PICK i \in 0..(acked - 1) :
          toBoard' = Append(toBoard, [kind |-> "data", chan |-> Chan(program, i)])
    BY <1>5 DEF BrainData
  <2>2. i \in ChannelIDs /\ program \in Programs
    BY <1>0, Constants DEF ChannelIDs
  <2>3. PICK p \in FromBrain : p = [kind |-> "data", chan |-> Chan(program, i)]
    BY <2>2, ChanType DEF FromBrain
  <2>4. OwnSchema(p.chan)
    BY <1>1, <2>2, <2>3, ChanType DEF OwnSchema
  <2>. QED
    BY <1>3, <1>5, <2>1, <2>3, <2>4 DEF BrainData, boardVars
<1>6. ASSUME toBoard # <<>>
      PROVE  \A i \in DOMAIN Tail(toBoard) : OwnSchema(Tail(toBoard)[i].chan)
  BY <1>0, <1>2, <1>6, Dequeue
<1>7. CASE LoseToBoard
  BY <1>2, <1>6, <1>7 DEF LoseToBoard, boardVars
<1>8. CASE TakePacket
  <2>1. toBoard # <<>> /\ toBoard' = Tail(toBoard)
    BY <1>8 DEF TakePacket
  <2>2. /\ Head(toBoard) \in FromBrain /\ Head(toBoard) = toBoard[1]
        /\ 1 \in DOMAIN toBoard
    BY <1>0, <2>1, Dequeue
  <2>3. PICK c \in Channel : c = Head(toBoard).chan
    BY <2>2 DEF FromBrain
  <2>4. OwnSchema(c)
    BY <1>2, <2>2, <2>3
  <2>5. channels' = channels \/ channels' = Append(channels, c)
    <3>1. TakeBroadcast(c) \/ TakeData(c)
      BY <1>8, <2>3 DEF TakePacket
    <3>. QED
      BY <3>1, BroadcastCases DEF TakeData
  <2>6. CASE channels' = channels
    BY <1>2, <1>6, <2>1, <2>6
  <2>7. CASE channels' = Append(channels, c)
    <3>1. /\ DOMAIN channels = 1..Len(channels) /\ Len(channels) \in Nat
          /\ DOMAIN channels' = 1..(Len(channels) + 1)
          /\ \A i \in 1..Len(channels) : channels'[i] = channels[i]
          /\ channels'[Len(channels) + 1] = c
      BY <1>0, <2>7, Enqueue
    <3>2. \A i \in DOMAIN channels' : OwnSchema(channels'[i])
      BY <1>2, <2>4, <3>1
    <3>. QED
      BY <1>6, <2>1, <3>2
  <2>. QED
    BY <2>5, <2>6, <2>7
<1>9. CASE BoardReboot
  BY <1>9 DEF BoardReboot
<1>10. CASE BrainTakeAck \/ LoseToBrain \/ UNCHANGED vars
  <2>1. UNCHANGED <<toBoard, channels>>
    BY <1>10 DEF BrainTakeAck, LoseToBrain, vars, boardVars
  <2>. QED
    BY <1>2, <2>1
<1>11. CASE BrainRestart
  BY <1>0, <1>1, <1>11 DEF BrainRestart
<1>. QED
  BY <1>4, <1>5, <1>7, <1>8, <1>9, <1>10, <1>11 DEF Next

LEMMA MisreadNext ==
  ASSUME TableInv, FirstProgram, MisreadOnlyAfterRepeat, [Next]_vars
  PROVE  MisreadOnlyAfterRepeat'
<1>0. /\ TypeOK /\ TableBound /\ ExactOrRepeated /\ toBoard \in Seq(FromBrain)
      /\ channels \in Seq(Channel) /\ DOMAIN channels = 1..Len(channels)
      /\ Len(channels) \in Nat /\ program \in Nat
  BY Constants DEF TableInv, TypeOK, Programs
<1>1. program > 0 => program' > 0
  <2>1. program' = program \/ program' = program + 1
    BY DEF Next, BrainBroadcast, BrainData, BrainTakeAck, BrainRestart, LoseToBoard,
           LoseToBrain, TakePacket, BoardReboot, vars, brainVars
  <2>. QED
    BY <1>0, <2>1
<1>2. Repeated => Repeated' \/ channels' = <<>>
  BY <1>0, TableNext
<1>3. CASE BoardReboot
  <2>1. decoded'.written = decoded'.read
    BY <1>3 DEF BoardReboot, NoData
  <2>. QED
    BY <2>1 DEF MisreadOnlyAfterRepeat
<1>4. ASSUME decoded' = decoded, Repeated => Repeated'
      PROVE  MisreadOnlyAfterRepeat'
  BY <1>1, <1>4 DEF MisreadOnlyAfterRepeat
<1>5. CASE TakePacket
  <2>1. toBoard # <<>> /\ program' = program
    BY <1>5 DEF TakePacket, brainVars
  <2>2. /\ Head(toBoard) \in FromBrain /\ Head(toBoard) = toBoard[1] /\ Len(toBoard) \in Nat
        /\ Len(toBoard) # 0
    BY <1>0, <2>1, Dequeue, EmptySeq
  <2>3. PICK c \in Channel : c = Head(toBoard).chan
    BY <2>2 DEF FromBrain
  <2>4. CASE TakeBroadcast(c)
    <3>1. decoded' = decoded
      BY <2>4, BroadcastCases
    <3>2. Repeated => Repeated'
      <4>1. channels' = channels \/ channels' = Append(channels, c)
        BY <2>4, BroadcastCases
      <4>2. channels' # <<>> \/ channels' = channels
        BY <1>0, <4>1, AppendProperties
      <4>3. CASE channels' = channels
        BY <4>3 DEF Repeated
      <4>. QED
        BY <1>2, <4>2, <4>3
    <3>. QED
      BY <1>4, <3>1, <3>2
  <2>5. CASE TakeData(c) /\ ~Known(c.id)
    <3>1. decoded' = decoded /\ channels' = channels
      BY <2>5 DEF TakeData
    <3>. QED
      BY <1>4, <3>1 DEF Repeated
  <2>6. CASE TakeData(c) /\ Known(c.id)
    <3>1. /\ channels' = channels
          /\ decoded' = [written |-> c.schema, read |-> channels[c.id + 1].schema]
      BY <2>6 DEF TakeData, get_remote_schema
    <3>2. c.id + 1 \in DOMAIN channels /\ c.id \in Nat
      BY <1>0, <2>6 DEF Known, Channel, ChannelIDs
    <3>3. CASE program = 0 /\ Aligned
      <4>1. 1 \in DOMAIN toBoard
        BY <1>0, <2>2
      <4>2. OwnSchema(c) /\ OwnSchema(channels[c.id + 1])
        BY <2>2, <2>3, <3>2, <3>3, <4>1 DEF FirstProgram
      <4>3. channels[c.id + 1].id = c.id
        BY <3>2, <3>3 DEF Aligned
      <4>4. decoded'.written = decoded'.read
        BY <3>1, <4>2, <4>3 DEF OwnSchema
      <4>. QED
        BY <4>4 DEF MisreadOnlyAfterRepeat
    <3>4. CASE Repeated
      <4>1. Repeated'
        BY <3>1, <3>4 DEF Repeated
      <4>. QED
        BY <4>1 DEF MisreadOnlyAfterRepeat
    <3>5. CASE program > 0
      BY <1>1, <3>5 DEF MisreadOnlyAfterRepeat
    <3>. QED
      BY <1>0, <3>3, <3>4, <3>5 DEF ExactOrRepeated
  <2>7. TakeBroadcast(c) \/ TakeData(c)
    BY <1>5, <2>3 DEF TakePacket
  <2>. QED
    BY <2>4, <2>5, <2>6, <2>7
<1>6. CASE \/ BrainBroadcast \/ BrainTakeAck \/ BrainData \/ BrainRestart
           \/ LoseToBoard \/ LoseToBrain \/ UNCHANGED vars
  <2>1. UNCHANGED <<channels, decoded>>
    BY <1>6 DEF BrainBroadcast, BrainTakeAck, BrainData, BrainRestart, LoseToBoard,
                LoseToBrain, vars, boardVars
  <2>. QED
    BY <1>4, <2>1 DEF Repeated
<1>. QED
  BY <1>3, <1>5, <1>6 DEF Next

\* As long as the brain runs its first program and no channel was broadcast twice,
\* every data packet is read with the schema it was written with.
THEOREM MisreadNeedsRepeat == Spec => []MisreadOnlyAfterRepeat
<1>1. Init => FirstProgram /\ MisreadOnlyAfterRepeat
  BY DEF Init, FirstProgram, MisreadOnlyAfterRepeat, NoData
<1>2. /\ TableInv /\ FirstProgram /\ MisreadOnlyAfterRepeat /\ [Next]_vars
      => FirstProgram' /\ MisreadOnlyAfterRepeat'
  BY FirstProgramNext, MisreadNext DEF TableInv
<1>. QED
  BY <1>1, <1>2, TableInvariant, PTL DEF Spec
=============================================================================
