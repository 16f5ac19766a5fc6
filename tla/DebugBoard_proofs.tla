-------------------------- MODULE DebugBoard_proofs --------------------------
(***************************************************************************)
(* Proofs about DebugBoard for any number of channels, broadcasts, queued  *)
(* responses and values.                                                   *)
(***************************************************************************)
EXTENDS DebugBoard, SequenceTheorems, TLAPS

-----------------------------------------------------------------------------
(* Types *)

\* Append, as far as it is used below.
LEMMA Enqueue ==
  ASSUME NEW S, NEW s \in Seq(S), NEW e \in S
  PROVE  /\ Append(s, e) \in Seq(S) /\ Len(Append(s, e)) = Len(s) + 1 /\ Len(s) \in Nat
         /\ DOMAIN s = 1..Len(s) /\ DOMAIN Append(s, e) = 1..(Len(s) + 1)
         /\ \A i \in 1..Len(s) : Append(s, e)[i] = s[i]
         /\ Append(s, e)[Len(s) + 1] = e
<1>1. Append(s, e) \in Seq(S)
  BY AppendProperties
<1>. QED
  BY <1>1, AppendProperties, LenProperties

LEMMA Constants ==
  /\ NumChannels \in Nat \ {0} /\ MaxTable \in Nat /\ MaxResponses \in Nat
  /\ BrainValue \in Values /\ \A v \in WebValues : v \in Values
BY DebugBoardAssumption DEF Values

LEMMA TypeInit == Init => TypeOK
<1>. SUFFICES ASSUME Init PROVE TypeOK
  OBVIOUS
<1>1. /\ channels \in Seq(ChannelIDs) /\ Len(channels) = 0
      /\ value \in Seq(Values) /\ Len(value) = 0
      /\ channel_response_queue \in Seq(Response) /\ Len(channel_response_queue) = 0
      /\ activeChannels \in Seq(Nat) /\ snapshot \in Seq(Nat) /\ heard \in Seq(Nat)
  BY EmptySeq DEF Init
<1>2. submission \in Response /\ answered \in [submitted : Values, sent : Values]
  BY Constants DEF Init, NoResponse, NoAnswer, Response
<1>3. data_mode \in BOOLEAN /\ open \in BOOLEAN /\ overtaken \in BOOLEAN
  BY DEF Init
<1>4. boot \in Stages /\ ppc = "idle" /\ hpc = "idle"
  BY DEF Init, Stages
<1>. QED
  BY Constants, <1>1, <1>2, <1>3, <1>4 DEF TypeOK

TableType ==
  /\ channels \in Seq(ChannelIDs) /\ Len(channels) <= MaxTable
  /\ value \in Seq(Values) /\ Len(value) = Len(channels)
QueueType ==
  /\ channel_response_queue \in Seq(Response)
  /\ Len(channel_response_queue) <= MaxResponses
ListType == activeChannels \in Seq(Nat) /\ data_mode \in BOOLEAN
HttpType ==
  /\ hpc \in {"idle", "snapshot", "greet", "submit", "crashed"}
  /\ snapshot \in Seq(Nat) /\ submission \in Response
WsType == open \in BOOLEAN /\ heard \in Seq(Nat) /\ overtaken \in BOOLEAN
PpcType == ppc \in {"idle", "on_broadcast", "ack", "on_data", "advertise", "respond"}
AnswerType == answered \in [submitted : Values, sent : Values]

LEMMA TypeParts ==
  TypeOK <=> /\ boot \in Stages /\ TableType /\ QueueType /\ ListType /\ PpcType
             /\ HttpType /\ WsType /\ AnswerType
BY DEF TypeOK, TableType, QueueType, ListType, PpcType, HttpType, WsType, AnswerType

\* A part none of whose variables changes keeps its type.
LEMMA TypeStutter ==
  /\ TableType /\ UNCHANGED <<channels, value>> => TableType'
  /\ QueueType /\ UNCHANGED channel_response_queue => QueueType'
  /\ ListType /\ UNCHANGED listVars => ListType'
  /\ HttpType /\ UNCHANGED hVars => HttpType'
  /\ WsType /\ UNCHANGED wsVars => WsType'
  /\ AnswerType /\ UNCHANGED answered => AnswerType'
BY DEF TableType, QueueType, ListType, HttpType, WsType, AnswerType, listVars, hVars, wsVars

-----------------------------------------------------------------------------
(* The inductive invariant.  A step can follow a place in the table that was   *)
(* advertised, submitted or queued many steps ago; the table only grows, so    *)
(* what matters is that no such place was ever outside it, and that the id     *)
(* stored at a place is below the place.                                       *)

RefersTo(s, n)  == \A i \in DOMAIN s : s[i] \in 1..n
AnswersTo(q, n) == \A i \in DOMAIN q : q[i].part \in 1..n

Places ==
  /\ \A i \in DOMAIN channels : channels[i] < i
  /\ RefersTo(activeChannels, Len(channels))
  /\ RefersTo(snapshot, Len(channels))
  /\ RefersTo(heard, Len(channels))
  /\ AnswersTo(channel_response_queue, Len(channels))
  /\ hpc = "submit" => submission.part \in 1..Len(channels)
  /\ ppc = "on_broadcast" => Len(channels) > 0

IInv == TypeOK /\ Places /\ NoNullSchema

\* The frame of a browser finds its channel in the table.
LEMMA FrameFinds ==
  ASSUME IInv, HFrame
  PROVE  /\ \E id \in ChannelIDs, v \in WebValues :
              /\ id + 1 \in 1..Len(channels)
              /\ value' = [value EXCEPT ![id + 1] = v]
              /\ submission' = [part |-> id + 1, submitted |-> v]
         /\ hpc' = "submit"
         /\ UNCHANGED <<boot, channels, channel_response_queue, listVars, ppc, snapshot,
                        wsVars, answered>>
<1>0. channels \in Seq(ChannelIDs) /\ Len(channels) \in Nat /\ heard \in Seq(Nat)
  BY DEF IInv, TypeOK
<1>1. PICK part \in Range(heard), v \in WebValues :
        LET id == channels[part] IN
        IF id < Len(channels)
        THEN /\ value' = [value EXCEPT ![id + 1] = v]
             /\ submission' = [part |-> id + 1, submitted |-> v]
             /\ hpc' = "submit"
        ELSE hpc' = "crashed" /\ UNCHANGED <<value, submission>>
  BY DEF HFrame
<1>2. part \in 1..Len(channels)
  BY DEF IInv, Places, RefersTo, Range
<1>3. channels[part] \in ChannelIDs /\ channels[part] < part
  BY <1>0, <1>2, ElementOfSeq DEF IInv, Places
<1>4. channels[part] \in Nat /\ channels[part] < Len(channels)
  BY <1>0, <1>2, <1>3 DEF ChannelIDs
<1>5. channels[part] + 1 \in 1..Len(channels)
  BY <1>0, <1>4
<1>. QED
  BY <1>1, <1>3, <1>4, <1>5 DEF HFrame

LEMMA TypeNext == IInv /\ [Next]_vars => TypeOK'
<1>. SUFFICES ASSUME IInv, [Next]_vars
              PROVE  /\ boot' \in Stages /\ TableType' /\ QueueType' /\ ListType' /\ PpcType'
                     /\ HttpType' /\ WsType' /\ AnswerType'
  BY DEF TypeOK, TableType, QueueType, ListType, PpcType, HttpType, WsType, AnswerType
<1>0. /\ boot \in Stages /\ TableType /\ QueueType /\ ListType /\ PpcType
      /\ HttpType /\ WsType /\ AnswerType
  BY TypeParts DEF IInv
<1>. DEFINE Goal == /\ boot' \in Stages /\ TableType' /\ QueueType' /\ ListType' /\ PpcType'
                    /\ HttpType' /\ WsType' /\ AnswerType'
<1>00. /\ channels \in Seq(ChannelIDs) /\ value \in Seq(Values)
       /\ Len(channels) \in Nat /\ Len(value) = Len(channels) /\ Len(channels) <= MaxTable
       /\ channel_response_queue \in Seq(Response) /\ Len(channel_response_queue) \in Nat
       /\ Len(channel_response_queue) <= MaxResponses
       /\ activeChannels \in Seq(Nat) /\ heard \in Seq(Nat) /\ snapshot \in Seq(Nat)
       /\ submission \in Response /\ MaxTable \in Nat /\ MaxResponses \in Nat
  BY <1>0, Constants DEF TableType, QueueType, ListType, HttpType, WsType
<1>1. CASE Boot
  <2>1. boot' \in Stages
    <3>1. CASE boot = "device"
      BY <1>1, <3>1 DEF Boot, Stages
    <3>2. CASE boot = "listener"
      BY <1>1, <3>2 DEF Boot, Stages
    <3>3. CASE boot = "server"
      BY <1>1, <3>3 DEF Boot, Stages
    <3>4. CASE boot = "broadcast_cb"
      BY <1>1, <3>4 DEF Boot, Stages
    <3>5. boot # "running"
      BY <1>1 DEF Boot
    <3>. QED
      BY <1>0, <3>1, <3>2, <3>3, <3>4, <3>5 DEF Stages
  <2>. QED
    BY <1>0, <1>1, <2>1, TypeStutter DEF Boot, tableVars, PpcType
<1>2. ASSUME NEW id \in ChannelIDs, PBroadcast(id) PROVE Goal
  <2>1. channels' \in Seq(ChannelIDs) /\ Len(channels') = Len(channels) + 1
    BY <1>00, <1>2, Enqueue DEF PBroadcast, StoredId
  <2>2. value' \in Seq(Values) /\ Len(value') = Len(value) + 1
    BY <1>00, <1>2, Enqueue, Constants DEF PBroadcast
  <2>3. TableType'
    BY <1>00, <1>2, <2>1, <2>2 DEF PBroadcast, TableType
  <2>. QED
    BY <1>0, <1>2, <2>3, TypeStutter DEF PBroadcast, PpcType
<1>3. CASE POnBroadcast
  <2>1. ListType'
    <3>1. CASE UNCHANGED listVars
      BY <1>0, <3>1, TypeStutter
    <3>2. CASE data_mode' = LeaveDataMode /\ activeChannels' = NewList
      <4>1. activeChannels' \in Seq(Nat)
        BY <1>00, <3>2, Enqueue, EmptySeq DEF NewList
      <4>2. data_mode' \in BOOLEAN
        BY <3>2 DEF LeaveDataMode
      <4>. QED
        BY <4>1, <4>2 DEF ListType
    <3>. QED
      BY <1>3, <3>1, <3>2 DEF POnBroadcast
  <2>. QED
    BY <1>0, <1>3, <2>1, TypeStutter DEF POnBroadcast, tableVars, PpcType
<1>4. CASE PAck
  BY <1>0, <1>4, TypeStutter DEF PAck, tableVars, PpcType
<1>5. ASSUME NEW id \in ChannelIDs, PData(id) PROVE Goal
  <2>1. id + 1 \in 1..Len(value)
    BY <1>00, <1>5 DEF PData, ChannelIDs
  <2>2. value' \in Seq(Values) /\ Len(value') = Len(value)
    BY <1>00, <1>5, <2>1, ExceptSeq, Constants DEF PData
  <2>3. TableType'
    BY <1>00, <1>5, <2>2 DEF PData, TableType
  <2>. QED
    BY <1>0, <1>5, <2>3, TypeStutter DEF PData, PpcType
<1>6. CASE POnData
  <2>1. ListType'
    <3>1. activeChannels' = activeChannels
      BY <1>6 DEF POnData
    <3>2. data_mode' \in BOOLEAN
      BY <1>0, <1>6 DEF POnData, ListType
    <3>. QED
      BY <1>00, <3>1, <3>2 DEF ListType
  <2>. QED
    BY <1>0, <1>6, <2>1, TypeStutter DEF POnData, tableVars, PpcType
<1>7. CASE PAdvertise
  <2>1. heard' \in Seq(Nat)
    BY <1>00, <1>7 DEF PAdvertise
  <2>2. open' \in BOOLEAN /\ overtaken' \in BOOLEAN
    BY <1>0, <1>7 DEF PAdvertise, WsType
  <2>3. WsType'
    BY <2>1, <2>2 DEF WsType
  <2>. QED
    BY <1>0, <1>7, <2>3, TypeStutter DEF PAdvertise, tableVars, PpcType
<1>8. CASE PRequest
  BY <1>0, <1>8, TypeStutter DEF PRequest, tableVars, PpcType
<1>9. CASE PRespond
  <2>1. PICK rr \in Response : rr = Head(channel_response_queue)
    BY <1>00, <1>9, HeadTailProperties DEF PRespond
  <2>2. rr.part \in 1..Len(value) /\ rr.submitted \in Values
    <3>1. /\ rr = channel_response_queue[1] /\ 1 \in DOMAIN channel_response_queue
      BY <1>00, <1>9, <2>1 DEF PRespond
    <3>. QED
      BY <1>00, <3>1 DEF IInv, Places, AnswersTo, Response
  <2>3. value[rr.part] \in Values
    BY <1>00, <2>2, ElementOfSeq
  <2>4. AnswerType'
    BY <1>9, <2>1, <2>2, <2>3 DEF PRespond, AnswerType
  <2>5. QueueType'
    BY <1>00, <1>9, HeadTailProperties DEF PRespond, QueueType
  <2>. QED
    BY <1>0, <1>9, <2>4, <2>5, TypeStutter DEF PRespond, PpcType
<1>10. CASE HConnect
  <2>1. WsType'
    BY <1>10, EmptySeq DEF HConnect, WsType
  <2>2. HttpType'
    BY <1>0, <1>10 DEF HConnect, HttpType
  <2>. QED
    BY <1>0, <1>10, <2>1, <2>2, TypeStutter DEF HConnect, tableVars, PpcType
<1>11. CASE HSnapshot
  <2>1. HttpType'
    BY <1>0, <1>00, <1>11 DEF HSnapshot, HttpType
  <2>. QED
    BY <1>0, <1>11, <2>1, TypeStutter DEF HSnapshot, tableVars, PpcType
<1>12. CASE HGreet
  <2>1. HttpType'
    BY <1>0, <1>12 DEF HGreet, HttpType
  <2>2. WsType'
    BY <1>0, <1>00, <1>12 DEF HGreet, WsType
  <2>. QED
    BY <1>0, <1>12, <2>1, <2>2, TypeStutter DEF HGreet, tableVars, PpcType
<1>13. CASE HFrame
  <2>1. PICK id \in ChannelIDs, v \in WebValues :
          /\ id + 1 \in 1..Len(channels)
          /\ value' = [value EXCEPT ![id + 1] = v]
          /\ submission' = [part |-> id + 1, submitted |-> v]
    BY <1>13, FrameFinds
  <2>2. /\ hpc' = "submit"
        /\ UNCHANGED <<boot, channels, channel_response_queue, listVars, ppc, snapshot,
                       wsVars, answered>>
    BY <1>13, FrameFinds
  <2>3. v \in Values /\ id + 1 \in Nat
    BY Constants DEF ChannelIDs
  <2>4. value' \in Seq(Values) /\ Len(value') = Len(value)
    BY <1>00, <2>1, <2>3, ExceptSeq
  <2>5. TableType'
    BY <1>00, <2>2, <2>4 DEF TableType
  <2>6. submission' \in Response
    BY <2>1, <2>3 DEF Response
  <2>7. HttpType'
    BY <1>00, <2>2, <2>6 DEF HttpType
  <2>. QED
    BY <1>0, <2>2, <2>5, <2>7, TypeStutter DEF PpcType
<1>14. CASE HSubmit
  <2>1. /\ channel_response_queue' \in Seq(Response)
        /\ Len(channel_response_queue') = Len(channel_response_queue) + 1
    BY <1>00, <1>14, Enqueue DEF HSubmit
  <2>2. QueueType'
    BY <1>00, <1>14, <2>1 DEF HSubmit, QueueType
  <2>3. HttpType'
    BY <1>0, <1>14 DEF HSubmit, HttpType
  <2>. QED
    BY <1>0, <1>14, <2>2, <2>3, TypeStutter DEF HSubmit, PpcType
<1>15. CASE UNCHANGED vars
  BY <1>0, <1>15, TypeStutter DEF vars, tableVars, PpcType
<1>. QED
  BY <1>1, <1>2, <1>3, <1>4, <1>5, <1>6, <1>7, <1>8, <1>9, <1>10, <1>11, <1>12, <1>13,
     <1>14, <1>15 DEF Next, PacketTask, PacketStep, HttpTask, HttpStep

\* The same for the places, with the step's effect on the table given.
LEMMA PlacesNext == IInv /\ [Next]_vars => Places'
<1>. SUFFICES ASSUME IInv, [Next]_vars PROVE Places'
  OBVIOUS
<1>0. /\ channels \in Seq(ChannelIDs) /\ Len(channels) \in Nat /\ DOMAIN channels = 1..Len(channels)
      /\ channel_response_queue \in Seq(Response)
      /\ activeChannels \in Seq(Nat) /\ heard \in Seq(Nat) /\ snapshot \in Seq(Nat)
  BY DEF IInv, TypeOK
<1>1. Places
  BY DEF IInv
<1>2. CASE UNCHANGED <<channels, activeChannels, snapshot, heard, channel_response_queue,
                       submission>> /\ (hpc' = "submit" => hpc = "submit")
                                    /\ (ppc' = "on_broadcast" => ppc = "on_broadcast")
  BY <1>1, <1>2 DEF Places, RefersTo, AnswersTo
<1>3. CASE Boot \/ PAck \/ POnData \/ PRequest \/ UNCHANGED vars
  BY <1>2, <1>3 DEF Boot, PAck, POnData, PRequest, vars, tableVars, hVars, wsVars, listVars
<1>4. ASSUME NEW id \in ChannelIDs, PData(id) PROVE Places'
  BY <1>2, <1>4 DEF PData, tableVars, hVars, wsVars, listVars
<1>5. ASSUME NEW id \in ChannelIDs, PBroadcast(id) PROVE Places'
  <2>1. channels' = Append(channels, id) /\ id <= Len(channels) /\ ppc' = "on_broadcast"
    BY <1>5 DEF PBroadcast, StoredId, InOrder
  <2>2. /\ Len(channels') = Len(channels) + 1 /\ DOMAIN channels' = 1..(Len(channels) + 1)
        /\ \A i \in 1..Len(channels) : channels'[i] = channels[i]
        /\ channels'[Len(channels) + 1] = id
    BY <1>0, <2>1, Enqueue
  <2>3. UNCHANGED <<activeChannels, snapshot, heard, channel_response_queue, submission, hpc>>
    BY <1>5 DEF PBroadcast, hVars, wsVars, listVars
  <2>4. \A i \in DOMAIN channels' : channels'[i] < i
    BY <1>0, <1>1, <2>1, <2>2 DEF Places, ChannelIDs
  <2>5. \A i \in 1..Len(channels) : i \in 1..Len(channels')
    BY <1>0, <2>2
  <2>6. Len(channels') > 0
    BY <1>0, <2>2
  <2>. QED
    BY <1>1, <2>3, <2>4, <2>5, <2>6 DEF Places, RefersTo, AnswersTo
<1>6. CASE POnBroadcast
  <2>1. UNCHANGED <<channels, snapshot, heard, channel_response_queue, submission, hpc>>
    BY <1>6 DEF POnBroadcast, tableVars, hVars, wsVars
  <2>2. ppc = "on_broadcast" /\ ppc' = "ack"
    BY <1>6 DEF POnBroadcast
  <2>3. RefersTo(activeChannels', Len(channels))
    <3>1. CASE activeChannels' = activeChannels
      BY <1>1, <3>1 DEF Places, RefersTo
    <3>2. ASSUME NEW s \in Seq(Nat), s = <<>> \/ s = activeChannels,
                 activeChannels' = Append(s, Len(channels))
          PROVE  RefersTo(activeChannels', Len(channels))
      <4>1. RefersTo(s, Len(channels))
        BY <1>1, <3>2 DEF Places, RefersTo
      <4>2. Len(channels) \in 1..Len(channels)
        BY <1>0, <1>1, <2>2 DEF Places
      <4>3. /\ DOMAIN s = 1..Len(s) /\ DOMAIN activeChannels' = 1..(Len(s) + 1)
            /\ \A i \in 1..Len(s) : activeChannels'[i] = s[i]
            /\ activeChannels'[Len(s) + 1] = Len(channels) /\ Len(s) \in Nat
        BY <1>0, <3>2, Enqueue
      <4>. QED
        BY <4>1, <4>2, <4>3 DEF RefersTo
    <3>3. <<>> \in Seq(Nat)
      OBVIOUS
    <3>4. \/ activeChannels' = activeChannels
          \/ activeChannels' = Append(<<>>, Len(channels))
          \/ activeChannels' = Append(activeChannels, Len(channels))
      BY <1>6 DEF POnBroadcast, listVars, NewList
    <3>. QED
      BY <1>0, <3>1, <3>2, <3>3, <3>4
  <2>. QED
    BY <1>1, <2>1, <2>2, <2>3 DEF Places, RefersTo, AnswersTo
<1>7. CASE PAdvertise
  <2>1. /\ UNCHANGED <<channels, activeChannels, snapshot, channel_response_queue, submission, hpc>>
        /\ ppc' = "idle" /\ (heard' = activeChannels \/ heard' = heard)
    BY <1>7 DEF PAdvertise, tableVars, hVars, listVars
  <2>. QED
    BY <1>1, <2>1 DEF Places, RefersTo, AnswersTo
<1>8. CASE PRespond
  <2>1. /\ UNCHANGED <<channels, activeChannels, snapshot, heard, submission, hpc>>
        /\ ppc' = "idle" /\ channel_response_queue # <<>>
        /\ channel_response_queue' = Tail(channel_response_queue)
    BY <1>8 DEF PRespond, hVars, listVars, wsVars
  <2>2. AnswersTo(channel_response_queue', Len(channels))
    <3>1. /\ Tail(channel_response_queue) \in Seq(Response)
          /\ Len(Tail(channel_response_queue)) = Len(channel_response_queue) - 1
          /\ \A i \in 1..Len(Tail(channel_response_queue)) :
                Tail(channel_response_queue)[i] = channel_response_queue[i + 1]
      BY <1>0, <2>1, HeadTailProperties
    <3>2. /\ DOMAIN Tail(channel_response_queue) = 1..Len(Tail(channel_response_queue))
          /\ DOMAIN channel_response_queue = 1..Len(channel_response_queue)
          /\ Len(channel_response_queue) \in Nat
      BY <1>0, <3>1, LenProperties
    <3>3. \A i \in DOMAIN Tail(channel_response_queue) : i + 1 \in DOMAIN channel_response_queue
      BY <3>1, <3>2
    <3>. QED
      BY <1>1, <2>1, <3>1, <3>2, <3>3 DEF Places, AnswersTo
  <2>. QED
    BY <1>1, <2>1, <2>2 DEF Places, RefersTo
<1>9. CASE HConnect
  <2>1. /\ UNCHANGED <<channels, activeChannels, snapshot, channel_response_queue, ppc>>
        /\ heard' = <<>> /\ hpc' = "snapshot"
    BY <1>9 DEF HConnect, tableVars, listVars
  <2>. QED
    BY <1>1, <2>1 DEF Places, RefersTo, AnswersTo
<1>10. CASE HSnapshot \/ HGreet
  <2>1. /\ UNCHANGED <<channels, activeChannels, channel_response_queue, ppc>>
        /\ hpc' # "submit"
        /\ snapshot' = snapshot \/ snapshot' = activeChannels
        /\ heard' = heard \/ heard' = snapshot
    BY <1>10 DEF HSnapshot, HGreet, tableVars, listVars, wsVars
  <2>. QED
    BY <1>1, <2>1 DEF Places, RefersTo, AnswersTo
<1>11. CASE HFrame
  <2>1. /\ UNCHANGED <<channels, activeChannels, snapshot, heard, channel_response_queue, ppc>>
        /\ submission'.part \in 1..Len(channels)
    BY <1>11, FrameFinds DEF listVars, wsVars
  <2>. QED
    BY <1>1, <2>1 DEF Places, RefersTo, AnswersTo
<1>12. CASE HSubmit
  <2>1. /\ UNCHANGED <<channels, activeChannels, snapshot, heard, ppc>>
        /\ hpc = "submit" /\ hpc' = "idle"
        /\ channel_response_queue' = Append(channel_response_queue, submission)
    BY <1>12 DEF HSubmit, listVars, wsVars
  <2>2. submission \in Response /\ submission.part \in 1..Len(channels)
    BY <1>1, <2>1 DEF IInv, TypeOK, Places
  <2>3. /\ DOMAIN channel_response_queue = 1..Len(channel_response_queue)
        /\ DOMAIN channel_response_queue' = 1..(Len(channel_response_queue) + 1)
        /\ \A i \in 1..Len(channel_response_queue) :
              channel_response_queue'[i] = channel_response_queue[i]
        /\ channel_response_queue'[Len(channel_response_queue) + 1] = submission
        /\ Len(channel_response_queue) \in Nat
    BY <1>0, <2>1, <2>2, Enqueue
  <2>4. AnswersTo(channel_response_queue', Len(channels))
    BY <1>1, <2>2, <2>3 DEF Places, AnswersTo
  <2>. QED
    BY <1>1, <2>1, <2>4 DEF Places, RefersTo
<1>. QED
  BY <1>3, <1>4, <1>5, <1>6, <1>7, <1>8, <1>9, <1>10, <1>11, <1>12
     DEF Next, PacketTask, PacketStep, HttpTask, HttpStep

LEMMA Invariant == Spec => []IInv
<1>1. Init => IInv
  <2>. SUFFICES ASSUME Init PROVE Places /\ NoNullSchema
    BY TypeInit DEF IInv
  <2>. QED
    BY DEF Init, Places, RefersTo, AnswersTo, NoNullSchema
<1>2. IInv /\ [Next]_vars => IInv'
  <2>. SUFFICES ASSUME IInv, [Next]_vars PROVE NoNullSchema'
    BY TypeNext, PlacesNext DEF IInv
  <2>1. hpc # "crashed"
    BY DEF IInv, NoNullSchema
  <2>2. CASE HFrame
    BY <2>2, FrameFinds DEF NoNullSchema
  <2>3. CASE HConnect \/ HSnapshot \/ HGreet \/ HSubmit
    BY <2>3 DEF HConnect, HSnapshot, HGreet, HSubmit, NoNullSchema
  <2>4. CASE Boot \/ PacketTask \/ UNCHANGED vars
    <3>1. hpc' = hpc
      BY <2>4 DEF Boot, PacketTask, PacketStep, PBroadcast, POnBroadcast, PAck, PData, POnData,
                  PAdvertise, PRequest, PRespond, vars, hVars
    <3>. QED
      BY <2>1, <3>1 DEF NoNullSchema
  <2>. QED
    BY <2>2, <2>3, <2>4 DEF Next, HttpTask, HttpStep
<1>. QED
  BY <1>1, <1>2, PTL DEF Spec

\* Every variable keeps its type; in particular write_response finds a value of the
\* channel it answers for.
THEOREM TypeCorrect == Spec => []TypeOK
<1>1. IInv => TypeOK
  BY DEF IInv
<1>. QED
  BY <1>1, Invariant, PTL

\* A browser that answers only for channels it was told of never makes set_data
\* follow the null schema that it does not look for.
THEOREM NeverNull == Spec => []NoNullSchema
<1>1. IInv => NoNullSchema
  BY DEF IInv
<1>. QED
  BY <1>1, Invariant, PTL

-----------------------------------------------------------------------------
(* The queue of responses *)

\* write_response never takes the front of an empty queue: the packet task alone
\* takes responses out, so what it saw outside the mutex still holds inside.
THEOREM FrontIsThere == Spec => []FrontExists
<1>1. Init => FrontExists
  BY DEF Init, FrontExists
<1>2. IInv /\ FrontExists /\ [Next]_vars => FrontExists'
  <2>. SUFFICES ASSUME IInv, FrontExists, [Next]_vars PROVE FrontExists'
    OBVIOUS
  <2>1. CASE PRequest
    BY <2>1 DEF PRequest, ResponseQueued, FrontExists, tableVars
  <2>2. CASE HSubmit
    <3>1. channel_response_queue \in Seq(Response) /\ submission \in Response
      BY DEF IInv, TypeOK
    <3>2. channel_response_queue' # <<>>
      BY <2>2, <3>1, AppendProperties DEF HSubmit
    <3>. QED
      BY <3>2 DEF FrontExists
  <2>3. CASE PacketStep \/ \E id \in ChannelIDs : PBroadcast(id) \/ PData(id)
    <3>1. ppc' # "respond"
      BY <2>3 DEF PacketStep, PBroadcast, PData, POnBroadcast, PAck, POnData, PAdvertise, PRespond
    <3>. QED
      BY <3>1 DEF FrontExists
  <2>4. CASE Boot \/ HConnect \/ HSnapshot \/ HGreet \/ UNCHANGED vars
    <3>1. UNCHANGED <<ppc, channel_response_queue>>
      BY <2>4 DEF Boot, HConnect, HSnapshot, HGreet, vars, tableVars
    <3>. QED
      BY <3>1 DEF FrontExists
  <2>5. CASE HFrame
    <3>1. UNCHANGED <<ppc, channel_response_queue>>
      BY <2>5 DEF HFrame
    <3>. QED
      BY <3>1 DEF FrontExists
  <2>. QED
    BY <2>1, <2>2, <2>3, <2>4, <2>5 DEF Next, PacketTask, HttpTask, HttpStep
<1>. QED
  BY <1>1, <1>2, Invariant, PTL DEF Spec

-----------------------------------------------------------------------------
(* The list of active channels *)

\* Before its callback is installed the list is empty.
ListInv == ActiveIsNewestRun /\ (~BroadcastCallbackInstalled => activeChannels = <<>>)

LEMMA ListNext ==
  ASSUME IInv, ListInv, [Next]_vars
  PROVE  ListInv'
<1>0. /\ channels \in Seq(ChannelIDs) /\ Len(channels) \in Nat /\ activeChannels \in Seq(Nat)
      /\ Len(activeChannels) \in Nat /\ DOMAIN activeChannels = 1..Len(activeChannels)
  BY DEF IInv, TypeOK
<1>1. ASSUME UNCHANGED <<activeChannels, boot>>, Stored' = Stored PROVE ListInv'
  BY <1>1 DEF ListInv, ActiveIsNewestRun, BroadcastCallbackInstalled
<1>2. ASSUME NEW id \in ChannelIDs, PBroadcast(id) PROVE ListInv'
  <2>1. /\ UNCHANGED <<activeChannels, boot>> /\ channels' = Append(channels, id)
        /\ ppc = "idle" /\ ppc' = "on_broadcast"
    BY <1>2 DEF PBroadcast, StoredId, listVars
  <2>2. Len(channels') = Len(channels) + 1
    BY <1>0, <2>1, Enqueue
  <2>3. Stored' = Stored
    BY <1>0, <2>1, <2>2 DEF Stored
  <2>. QED
    BY <1>1, <2>1, <2>3
<1>3. CASE POnBroadcast
  <2>1. UNCHANGED <<channels, boot>> /\ ppc = "on_broadcast" /\ ppc' = "ack"
    BY <1>3 DEF POnBroadcast, tableVars
  <2>2. Stored = Len(channels) - 1 /\ Stored' = Len(channels)
    BY <2>1 DEF Stored
  <2>3. ASSUME NEW s \in Seq(Nat), s = <<>> \/ s = activeChannels,
               activeChannels' = Append(s, Len(channels))
        PROVE  \A i \in DOMAIN activeChannels' :
                 activeChannels'[i] = Stored' - Len(activeChannels') + i
    <3>1. /\ DOMAIN s = 1..Len(s) /\ DOMAIN activeChannels' = 1..(Len(s) + 1)
          /\ \A i \in 1..Len(s) : activeChannels'[i] = s[i]
          /\ activeChannels'[Len(s) + 1] = Len(channels) /\ Len(s) \in Nat
          /\ Len(activeChannels') = Len(s) + 1
      BY <1>0, <2>3, Enqueue
    <3>2. \A i \in 1..Len(s) : s[i] = Len(channels) - 1 - Len(s) + i
      <4>1. CASE s = <<>>
        BY <3>1, <4>1
      <4>2. CASE s = activeChannels
        BY <2>2, <3>1, <4>2 DEF ListInv, ActiveIsNewestRun
      <4>. QED
        BY <2>3, <4>1, <4>2
    <3>. SUFFICES ASSUME NEW i \in 1..(Len(s) + 1)
                  PROVE  activeChannels'[i] = Len(channels) - (Len(s) + 1) + i
      BY <2>2, <3>1
    <3>3. CASE i \in 1..Len(s)
      <4>1. activeChannels'[i] = Len(channels) - 1 - Len(s) + i
        BY <3>1, <3>2, <3>3
      <4>. QED
        BY <1>0, <3>1, <4>1
    <3>4. CASE i = Len(s) + 1
      <4>1. activeChannels'[i] = Len(channels)
        BY <3>1, <3>4
      <4>2. Len(s) \in Nat
        BY <3>1
      <4>. QED
        BY <1>0, <3>4, <4>1, <4>2
    <3>5. i \in 1..Len(s) \/ i = Len(s) + 1
      <4>1. Len(s) \in Nat
        BY <3>1
      <4>. QED
        BY <4>1
    <3>. QED
      BY <3>3, <3>4, <3>5
  <2>4. CASE BroadcastCallbackInstalled
    <3>1. \/ activeChannels' = Append(<<>>, Len(channels))
          \/ activeChannels' = Append(activeChannels, Len(channels))
      BY <1>3, <2>4 DEF POnBroadcast, NewList
    <3>2. <<>> \in Seq(Nat)
      OBVIOUS
    <3>3. \A i \in DOMAIN activeChannels' :
            activeChannels'[i] = Stored' - Len(activeChannels') + i
      BY <1>0, <2>3, <3>1, <3>2
    <3>. QED
      BY <2>1, <2>4, <3>3 DEF ListInv, ActiveIsNewestRun, BroadcastCallbackInstalled
  <2>5. CASE ~BroadcastCallbackInstalled
    <3>1. activeChannels' = <<>>
      BY <1>3, <2>5 DEF POnBroadcast, listVars, ListInv
    <3>. QED
      BY <3>1 DEF ListInv, ActiveIsNewestRun
  <2>. QED
    BY <2>4, <2>5
<1>4. CASE Boot
  <2>1. UNCHANGED <<activeChannels, channels, ppc>>
    BY <1>4 DEF Boot, tableVars, listVars
  <2>2. BroadcastCallbackInstalled => BroadcastCallbackInstalled'
    BY <1>4 DEF Boot, BroadcastCallbackInstalled
  <2>. QED
    BY <2>1, <2>2 DEF ListInv, ActiveIsNewestRun, Stored
<1>5. ASSUME \/ PAck \/ POnData \/ PAdvertise \/ PRequest \/ PRespond \/ UNCHANGED vars
             \/ \E id \in ChannelIDs : PData(id)
      PROVE  ListInv'
  <2>1. UNCHANGED <<activeChannels, channels, boot>>
    BY <1>5 DEF PAck, POnData, PAdvertise, PRequest, PRespond, PData, vars, tableVars, listVars
  <2>2. ppc' = ppc \/ (ppc # "on_broadcast" /\ ppc' # "on_broadcast")
    BY <1>5 DEF PAck, POnData, PAdvertise, PRequest, PRespond, PData, vars
  <2>. QED
    BY <1>1, <2>1, <2>2 DEF Stored
<1>6. ASSUME HttpTask PROVE ListInv'
  <2>1. UNCHANGED <<activeChannels, channels, boot, ppc>>
    BY <1>6 DEF HttpTask, HttpStep, HConnect, HSnapshot, HGreet, HFrame, HSubmit, tableVars, listVars
  <2>. QED
    BY <1>1, <2>1 DEF Stored
<1>. QED
  BY <1>2, <1>3, <1>4, <1>5, <1>6 DEF Next, PacketTask, PacketStep

\* The active channels are the newest entries of the table without a gap, however
\* broadcasts, data and the start of the program interleave.
THEOREM ActiveIsRun == Spec => []ActiveIsNewestRun
<1>1. Init => ListInv
  BY DEF Init, ListInv, ActiveIsNewestRun
<1>2. IInv /\ ListInv /\ [Next]_vars => ListInv'
  BY ListNext
<1>3. ListInv => ActiveIsNewestRun
  BY DEF ListInv
<1>. QED
  BY <1>1, <1>2, <1>3, Invariant, PTL DEF Spec

-----------------------------------------------------------------------------
(* Advertisements *)

\* The advertisement is right already while the http task still prepares its
\* greeting, unless a newer one has overtaken it.
AdvertisedInv ==
  data_mode /\ ppc # "advertise" =>
    /\ hpc = "greet" => snapshot = activeChannels \/ overtaken
    /\ open /\ hpc \notin {"snapshot", "greet"} => heard = activeChannels \/ overtaken

LEMMA AdvertisedNext ==
  ASSUME AdvertisedInv, [Next]_vars
  PROVE  AdvertisedInv'
<1>1. CASE UNCHANGED <<listVars, hpc, snapshot, wsVars>> /\ ppc # "advertise"
  BY <1>1 DEF AdvertisedInv, listVars, wsVars
<1>2. CASE Boot \/ UNCHANGED vars
  <2>1. UNCHANGED <<listVars, hpc, snapshot, wsVars, ppc>>
    BY <1>2 DEF Boot, vars, hVars
  <2>. QED
    BY <2>1 DEF AdvertisedInv, listVars, wsVars
<1>3. ASSUME \/ PAck \/ PRequest \/ PRespond
             \/ \E id \in ChannelIDs : PBroadcast(id) \/ PData(id)
      PROVE  AdvertisedInv'
  <2>1. UNCHANGED <<listVars, hpc, snapshot, wsVars>> /\ ppc # "advertise"
    BY <1>3 DEF PAck, PRequest, PRespond, PBroadcast, PData, hVars
  <2>. QED
    BY <1>1, <2>1
<1>4. CASE POnBroadcast
  <2>1. UNCHANGED <<hpc, snapshot, wsVars>> /\ ppc = "on_broadcast"
    BY <1>4 DEF POnBroadcast, hVars
  <2>2. data_mode' = FALSE \/ UNCHANGED listVars
    BY <1>4 DEF POnBroadcast, LeaveDataMode
  <2>3. CASE data_mode' = FALSE
    BY <2>3 DEF AdvertisedInv
  <2>4. CASE UNCHANGED listVars
    BY <1>1, <2>1, <2>4
  <2>. QED
    BY <2>2, <2>3, <2>4
<1>5. CASE POnData
  <2>1. UNCHANGED <<activeChannels, hpc, snapshot, wsVars>> /\ ppc = "on_data"
    BY <1>5 DEF POnData, hVars
  <2>2. ppc' = "advertise" \/ data_mode' = data_mode
    BY <1>5 DEF POnData
  <2>3. CASE ppc' = "advertise"
    BY <2>3 DEF AdvertisedInv
  <2>4. CASE data_mode' = data_mode
    BY <1>1, <2>1, <2>4 DEF listVars
  <2>. QED
    BY <2>2, <2>3, <2>4
<1>6. CASE PAdvertise
  <2>1. /\ UNCHANGED <<activeChannels, hpc, snapshot, open>>
        /\ heard' = IF open THEN activeChannels ELSE heard
        /\ overtaken' = (overtaken \/ hpc = "greet")
    BY <1>6 DEF PAdvertise, hVars, listVars
  <2>. QED
    BY <2>1 DEF AdvertisedInv
<1>7. CASE HConnect
  <2>1. hpc' = "snapshot"
    BY <1>7 DEF HConnect
  <2>. QED
    BY <2>1 DEF AdvertisedInv
<1>8. CASE HSnapshot
  <2>1. hpc' = "greet" /\ snapshot' = activeChannels /\ activeChannels' = activeChannels
    BY <1>8 DEF HSnapshot, listVars
  <2>. QED
    BY <2>1 DEF AdvertisedInv
<1>9. CASE HGreet
  <2>1. /\ hpc = "greet" /\ hpc' = "idle" /\ heard' = snapshot
        /\ UNCHANGED <<listVars, ppc, overtaken>>
    BY <1>9 DEF HGreet
  <2>. QED
    BY <2>1 DEF AdvertisedInv, listVars
<1>10. CASE HFrame \/ HSubmit
  <2>1. /\ hpc \in {"idle", "submit"} /\ hpc' \in {"idle", "submit", "crashed"}
        /\ UNCHANGED <<listVars, ppc, wsVars>>
    BY <1>10 DEF HFrame, HSubmit
  <2>. QED
    BY <2>1 DEF AdvertisedInv, listVars, wsVars
<1>. QED
  BY <1>2, <1>3, <1>4, <1>5, <1>6, <1>7, <1>8, <1>9, <1>10
     DEF Next, PacketTask, PacketStep, HttpTask, HttpStep

\* Once data flows and the handlers are done, the browser knows exactly the active
\* channels, but for the one race between its greeting and a newer advertisement.
THEOREM AdvertisedWhatIsActive == Spec => []AdvertisedIsActive
<1>1. Init => AdvertisedInv
  BY DEF Init, AdvertisedInv
<1>2. AdvertisedInv /\ [Next]_vars => AdvertisedInv'
  BY AdvertisedNext
<1>3. AdvertisedInv => AdvertisedIsActive
  BY DEF AdvertisedInv, AdvertisedIsActive, Settled
<1>. QED
  BY <1>1, <1>2, <1>3, PTL DEF Spec
=============================================================================
