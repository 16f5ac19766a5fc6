--------------------------- MODULE RegistryListener ---------------------------
(***************************************************************************)
(* The negotiation of channels between the brain and the board, and the    *)
(* data that follows it: RegistryListener::take_packet with the two        *)
(* callbacks main.cpp installs, over a serial link that loses packets.     *)
(*                                                                         *)
(* The brain is external.  What the listener's code relies on is that it   *)
(* broadcasts its channels in the order of their ids, repeats a broadcast  *)
(* until it is acknowledged, sends data only on channels that were, and    *)
(* starts over from id 0 when its program starts over.  A schema is the    *)
(* pair of the program that made it and its channel id: what matters is    *)
(* only whether data is read with the schema it was written with.          *)
(***************************************************************************)
EXTENDS Integers, Sequences, SequencesExt

CONSTANTS NumChannels,   \* channels of a program of the brain
          LinkLen,       \* packets in flight in one direction (bound)
          MaxLosses,     \* packets lost on the way to or from the board (bound)
          MaxSpurious,   \* broadcasts repeated although nothing was lost (bound)
          MaxRestarts,   \* restarts of the brain's program (bound)
          MaxReboots     \* restarts of the board (bound)

ASSUME RegistryAssumption ==
  /\ {NumChannels, LinkLen} \subseteq Nat \ {0}
  /\ {MaxLosses, MaxSpurious, MaxRestarts, MaxReboots} \subseteq Nat

VARIABLES program,         \* the program the brain runs, counted from 0
          acked,           \* channels of it that were acknowledged
          toBoard, toBrain,
          losses, spurious, reboots,
          channels,        \* channels of the listener
          activeChannels, data_mode,   \* main.cpp
          advertised,      \* the list last advertised to the websocket
          decoded          \* the last data packet read: how written, how read

brainVars == <<program, acked, spurious>>
boardVars == <<channels, activeChannels, data_mode, advertised, decoded>>
counters  == <<losses, reboots>>
vars == <<brainVars, toBoard, toBrain, counters, boardVars>>

ChannelIDs == 0..(NumChannels - 1)
Programs   == 0..MaxRestarts
Schemas    == Programs \X ChannelIDs
Channel    == [id : ChannelIDs, schema : Schemas]
Chan(p, i) == [id |-> i, schema |-> <<p, i>>]

\* A packet is [kind, chan]: data carries the channel it was written for.
FromBrain == [kind : {"broadcast", "data"}, chan : Channel]
NoData    == [written |-> <<>>, read |-> <<>>]

Init ==
  /\ program = 0 /\ acked = 0 /\ spurious = 0 /\ losses = 0 /\ reboots = 0
  /\ toBoard = <<>> /\ toBrain = <<>>
  /\ channels = <<>>
  /\ activeChannels = <<>> /\ data_mode = FALSE /\ advertised = <<>>
  /\ decoded = NoData

-----------------------------------------------------------------------------
(* The brain (external) *)

BroadcastOnItsWay ==
  \/ \E i \in DOMAIN toBoard : toBoard[i] = [kind |-> "broadcast", chan |-> Chan(program, acked)]
  \/ acked \in Range(toBrain)

\* The next channel is broadcast, again when its broadcast or its acknowledgement
\* was lost, and again when the acknowledgement is only late.
BrainBroadcast ==
  /\ acked < NumChannels /\ Len(toBoard) < LinkLen
  /\ IF BroadcastOnItsWay
     THEN spurious < MaxSpurious /\ spurious' = spurious + 1
     ELSE UNCHANGED spurious
  /\ toBoard' = Append(toBoard, [kind |-> "broadcast", chan |-> Chan(program, acked)])
  /\ UNCHANGED <<program, acked, toBrain, counters, boardVars>>

BrainData ==
  /\ Len(toBoard) < LinkLen
  /\ \E i \in 0..(acked - 1) :
       toBoard' = Append(toBoard, [kind |-> "data", chan |-> Chan(program, i)])
  /\ UNCHANGED <<brainVars, toBrain, counters, boardVars>>

\* An acknowledgement of the channel waited for; others are ignored.  (Slip: any
\* acknowledgement will do.)
AnyAck(id)      == TRUE
ExpectedAck(id) == id = acked
BrainTakeAck ==
  /\ toBrain # <<>>
  /\ toBrain' = Tail(toBrain)
  /\ acked' = IF ExpectedAck(Head(toBrain)) THEN acked + 1 ELSE acked
  /\ UNCHANGED <<program, spurious, toBoard, counters, boardVars>>

\* Packets on the wire and in the board's queues outlive the program.
BrainRestart ==
  /\ program < MaxRestarts
  /\ program' = program + 1
  /\ acked' = 0
  /\ UNCHANGED <<spurious, toBoard, toBrain, counters, boardVars>>

-----------------------------------------------------------------------------
(* The link *)

\* An overflow of the receiver's driver or queue, or a packet that validate_packet
\* finds too small or with a bad checksum: take_packet returns at once.
LoseToBoard ==
  /\ losses < MaxLosses /\ toBoard # <<>>
  /\ losses' = losses + 1
  /\ toBoard' = Tail(toBoard)
  /\ UNCHANGED <<brainVars, toBrain, reboots, boardVars>>

LoseToBrain ==
  /\ losses < MaxLosses /\ toBrain # <<>>
  /\ losses' = losses + 1
  /\ toBrain' = Tail(toBrain)
  /\ UNCHANGED <<brainVars, toBoard, reboots, boardVars>>

-----------------------------------------------------------------------------
(* take_packet *)

\* A channel further ahead than the next one is refused.  (Slip: one too lenient.)
InOrderLenient(chan) == chan.id <= Len(channels) + 1
InOrder(chan)        == chan.id <= Len(channels)

\* get_remote_schema: the channel id is an index.  (Slip: the newest channel.)
Known(id)             == id < Len(channels)
NewestSchema(id)      == channels[Len(channels)].schema
get_remote_schema(id) == channels[id + 1].schema

\* The broadcast callback: the first channel after data clears the old list.
OnBroadcast(chan) ==
  /\ data_mode' = FALSE
  /\ activeChannels' = Append(IF data_mode THEN <<>> ELSE activeChannels, chan)

\* The data callback: the first data after broadcasts advertises the list.
OnData ==
  /\ data_mode' = TRUE
  /\ advertised' = IF data_mode THEN advertised ELSE activeChannels

\* The channel goes to the end of the table whatever its id.  (Slips: a broadcast
\* of a known channel is dropped without an acknowledgement; a refused one is
\* acknowledged.)
Store(chan) == channels' = Append(channels, chan) /\ OnBroadcast(chan)
Refuse      == UNCHANGED <<channels, activeChannels, data_mode>>
Ack(chan)   == toBrain' = Append(toBrain, chan.id)

TakeBroadcastOnce(chan) ==
  /\ IF chan.id = Len(channels) THEN Store(chan) /\ Ack(chan) ELSE Refuse /\ UNCHANGED toBrain
  /\ UNCHANGED <<advertised, decoded>>
TakeBroadcastAckAll(chan) ==
  /\ IF InOrder(chan) THEN Store(chan) ELSE Refuse
  /\ Ack(chan)
  /\ UNCHANGED <<advertised, decoded>>
TakeBroadcast(chan) ==
  /\ IF InOrder(chan) THEN Store(chan) /\ Ack(chan) ELSE Refuse /\ UNCHANGED toBrain
  /\ UNCHANGED <<advertised, decoded>>

\* The packet is read with the schema found under its id, if there is one.
TakeData(chan) ==
  /\ IF Known(chan.id)
     THEN /\ decoded' = [written |-> chan.schema, read |-> get_remote_schema(chan.id)]
          /\ OnData
     ELSE UNCHANGED <<data_mode, advertised, decoded>>
  /\ UNCHANGED <<channels, activeChannels, toBrain>>

TakePacket ==
  /\ toBoard # <<>> /\ Len(toBrain) < LinkLen
  /\ toBoard' = Tail(toBoard)
  /\ LET p == Head(toBoard) IN
       \/ p.kind = "broadcast" /\ TakeBroadcast(p.chan)
       \/ p.kind = "data" /\ TakeData(p.chan)
  /\ UNCHANGED <<brainVars, counters>>

\* The board loses its tables and what its queues held.
BoardReboot ==
  /\ reboots < MaxReboots
  /\ reboots' = reboots + 1
  /\ toBoard' = <<>> /\ toBrain' = <<>>
  /\ channels' = <<>>
  /\ activeChannels' = <<>> /\ data_mode' = FALSE /\ advertised' = <<>>
  /\ decoded' = NoData
  /\ UNCHANGED <<brainVars, losses>>

-----------------------------------------------------------------------------
Next == \/ BrainBroadcast \/ BrainTakeAck \/ BrainData \/ BrainRestart
        \/ LoseToBoard \/ LoseToBrain
        \/ TakePacket \/ BoardReboot

Spec == Init /\ [][Next]_vars

\* The packet task runs when there is a packet, and the brain repeats what is not
\* acknowledged; nobody has to restart, to lose a packet or to send data.
FairSpec == Spec /\ WF_vars(TakePacket) /\ WF_vars(BrainTakeAck) /\ SF_vars(BrainBroadcast)

-----------------------------------------------------------------------------
(* Properties *)

TypeOK ==
  /\ program \in Programs /\ acked \in 0..NumChannels
  /\ spurious \in 0..MaxSpurious /\ losses \in 0..MaxLosses /\ reboots \in 0..MaxReboots
  /\ toBoard \in Seq(FromBrain) /\ Len(toBoard) <= LinkLen
  /\ toBrain \in Seq(ChannelIDs) /\ Len(toBrain) <= LinkLen
  /\ channels \in Seq(Channel)
  /\ activeChannels \in Seq(Channel) /\ data_mode \in BOOLEAN
  /\ advertised \in Seq(Channel)
  /\ decoded \in [written : Schemas, read : Schemas] \cup {NoData}

\* No entry of the table lies below the place its id names: a channel that was
\* broadcast out of order never takes the place of one the board has not seen, and
\* a data packet is never read with the schema of a channel of a larger id.
TableBound == \A i \in DOMAIN channels : channels[i].id < i

\* The table is exact, every channel at the place its id names, unless a channel
\* was broadcast twice: losing packets alone, or taking them in a burst, never
\* moves a channel.
Aligned  == \A i \in DOMAIN channels : channels[i].id = i - 1
Repeated == \E i, j \in DOMAIN channels : i < j /\ channels[i].id = channels[j].id
ExactOrRepeated == Aligned \/ Repeated

\* What the brain believes acknowledged is in the table, whatever was lost,
\* repeated or left over from an earlier program; only a reboot of the board
\* breaks the belief, and then still no refused broadcast is acknowledged.
AckedIsKnown ==
  /\ \A i \in DOMAIN toBrain : toBrain[i] < Len(channels)
  /\ reboots = 0 => acked <= Len(channels)

\* Data is read with the schema it was written with as long as no channel was
\* broadcast twice and the brain runs its first program.
MisreadOnlyAfterRepeat ==
  decoded.written # decoded.read => Repeated \/ program > 0

\* The active channels are the newest entries of the table, in its order.
ActiveSuffix ==
  \E k \in 0..Len(channels) : activeChannels = SubSeq(channels, k + 1, Len(channels))

\* Once data flows, the websocket has been told exactly the active channels.
AdvertisedIsActive == data_mode => advertised = activeChannels

\* Negotiation comes to an end: every channel gets acknowledged although packets
\* are lost, unless a reboot made the board forget channels the brain counts on.
NegotiationCompletes == <>[](acked = NumChannels \/ acked > Len(channels))

\* registry-listener.hpp, take_packet: the Part "stores the channel id's schema".
DataReadWithItsSchema == decoded.written = decoded.read
=============================================================================
