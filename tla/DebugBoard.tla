------------------------------ MODULE DebugBoard ------------------------------
(***************************************************************************)
(* The tasks of the running program and what they share: the main task     *)
(* that puts the parts together (main.cpp), the packet task that runs      *)
(* take_packet with its callbacks, and the http task that runs ws_handler. *)
(* A step ends where another task can get the processor: at a queue, a     *)
(* mutex, a socket, the serial line or the end of a handler.               *)
(*                                                                         *)
(* The brain may send any packet at any time and the browser any frame for *)
(* a channel it was told of.  A channel is its place in the listener's     *)
(* table, because that is what identifies its schema Part: the table, the  *)
(* active channels and the queued responses share that one object, and     *)
(* with it the value it holds.                                             *)
(***************************************************************************)
EXTENDS Integers, Sequences, SequencesExt

CONSTANTS NumChannels,   \* channel ids the brain uses
          MaxTable,      \* broadcasts the board takes (bound)
          MaxResponses,  \* responses queued at once (bound)
          WebValues,     \* values the browser submits
          BrainValue     \* value the brain sends

ASSUME DebugBoardAssumption ==
  /\ NumChannels \in Nat \ {0} /\ {MaxTable, MaxResponses} \subseteq Nat
  /\ BrainValue \notin WebValues

VARIABLES boot,                       \* how far app_main has come
          channels,                   \* the id of each entry of the table
          value,                      \* the value its Part holds
          channel_response_queue,
          activeChannels, data_mode,
          ppc,                        \* where the packet task is
          hpc, snapshot, submission,  \* the http task: advertisement, response
          open,                       \* global_fd # 0
          heard,                      \* last advertisement queued for this browser
          overtaken,                  \* a newer advertisement went out before it
          answered                    \* the last response sent

tableVars == <<channels, value, channel_response_queue>>
listVars  == <<activeChannels, data_mode>>
hVars     == <<hpc, snapshot, submission>>
wsVars    == <<open, heard, overtaken>>
vars == <<boot, tableVars, listVars, ppc, hVars, wsVars, answered>>

ChannelIDs == 0..(NumChannels - 1)
Values     == WebValues \cup {BrainValue}
Parts      == DOMAIN channels
NoResponse == [part |-> 1, submitted |-> BrainValue]
NoAnswer   == [submitted |-> BrainValue, sent |-> BrainValue]

Stages     == {"device", "listener", "server", "broadcast_cb", "running"}
Listening  == boot # "device"
Serving    == boot \notin {"device", "listener"}
BroadcastCallbackInstalled == boot \in {"broadcast_cb", "running"}
DataCallbackInstalled      == boot = "running"

Init ==
  /\ boot = "device"
  /\ channels = <<>> /\ value = <<>> /\ channel_response_queue = <<>>
  /\ activeChannels = <<>> /\ data_mode = FALSE
  /\ ppc = "idle"
  /\ hpc = "idle" /\ snapshot = <<>> /\ submission = NoResponse
  /\ open = FALSE /\ heard = <<>> /\ overtaken = FALSE
  /\ answered = NoAnswer

-----------------------------------------------------------------------------
(* app_main, from the construction of the device on *)

Boot ==
  /\ boot # "running"
  /\ boot' = CASE boot = "device" -> "listener"
               [] boot = "listener" -> "server"
               [] boot = "server" -> "broadcast_cb"
               [] boot = "broadcast_cb" -> "running"
  /\ UNCHANGED <<tableVars, listVars, ppc, hVars, wsVars, answered>>

-----------------------------------------------------------------------------
(* The packet task *)

\* (Slip: one too lenient.)
InOrderLenient(id) == id <= Len(channels) + 1
InOrder(id)        == id <= Len(channels)

\* The id stored is the brain's.  (Slip: the board numbers the channel itself.)
OwnId(id)    == Len(channels)
StoredId(id) == id

PBroadcast(id) ==
  /\ Listening /\ ppc = "idle" /\ InOrder(id) /\ Len(channels) < MaxTable
  /\ channels' = Append(channels, StoredId(id))
  /\ value' = Append(value, BrainValue)
  /\ ppc' = "on_broadcast"
  /\ UNCHANGED <<boot, channel_response_queue, listVars, hVars, wsVars, answered>>

\* (Slip: data_mode is not reset.)
StayInDataMode == data_mode
LeaveDataMode  == FALSE

\* The first broadcast after data starts a new list.  (Slip: it is only taken as
\* the end of data mode.)
MissedList == IF data_mode THEN activeChannels ELSE Append(activeChannels, Len(channels))
NewList    == Append(IF data_mode THEN <<>> ELSE activeChannels, Len(channels))

POnBroadcast ==
  /\ ppc = "on_broadcast" /\ ppc' = "ack"
  /\ IF BroadcastCallbackInstalled
     THEN /\ data_mode' = LeaveDataMode
          /\ activeChannels' = NewList
     ELSE UNCHANGED listVars
  /\ UNCHANGED <<boot, tableVars, hVars, wsVars, answered>>

PAck ==
  /\ ppc = "ack" /\ ppc' = "idle"
  /\ UNCHANGED <<boot, tableVars, listVars, hVars, wsVars, answered>>

\* The data is read into the Part found under the id; an unknown id is dropped.
PData(id) ==
  /\ Listening /\ ppc = "idle" /\ id < Len(channels)
  /\ value' = [value EXCEPT ![id + 1] = BrainValue]
  /\ ppc' = "on_data"
  /\ UNCHANGED <<boot, channels, channel_response_queue, listVars, hVars, wsVars, answered>>

\* The data goes to the websocket, and the first data decides to advertise.
POnData ==
  /\ ppc = "on_data"
  /\ IF DataCallbackInstalled /\ ~data_mode
     THEN data_mode' = TRUE /\ ppc' = "advertise"
     ELSE UNCHANGED data_mode /\ ppc' = "idle"
  /\ UNCHANGED <<boot, tableVars, activeChannels, hVars, wsVars, answered>>

PAdvertise ==
  /\ ppc = "advertise" /\ ppc' = "idle"
  /\ heard' = IF open THEN activeChannels ELSE heard
  /\ overtaken' = (overtaken \/ hpc = "greet")
  /\ UNCHANGED <<boot, tableVars, listVars, hVars, open, answered>>

\* The size of the queue is looked at before the mutex is taken.  (Slip: not at all.)
NoMatterWhatIsQueued == TRUE
ResponseQueued       == channel_response_queue # <<>>

PRequest ==
  /\ Listening /\ ppc = "idle" /\ ResponseQueued
  /\ ppc' = "respond"
  /\ UNCHANGED <<boot, tableVars, listVars, hVars, wsVars, answered>>

\* write_response serialises the Part of the first entry as it is now.
PRespond ==
  /\ ppc = "respond" /\ ppc' = "idle" /\ channel_response_queue # <<>>
  /\ LET r == Head(channel_response_queue) IN
       answered' = [submitted |-> r.submitted, sent |-> value[r.part]]
  /\ channel_response_queue' = Tail(channel_response_queue)
  /\ UNCHANGED <<boot, channels, value, listVars, hVars, wsVars>>

PacketStep == POnBroadcast \/ PAck \/ POnData \/ PAdvertise \/ PRespond
PacketTask == PacketStep \/ PRequest \/ \E id \in ChannelIDs : PBroadcast(id) \/ PData(id)

-----------------------------------------------------------------------------
(* The http task *)

\* A browser opens the websocket, in place of the one before it if there was one.
HConnect ==
  /\ Serving /\ hpc = "idle"
  /\ open' = TRUE /\ heard' = <<>> /\ overtaken' = FALSE
  /\ hpc' = "snapshot"
  /\ UNCHANGED <<boot, tableVars, listVars, ppc, snapshot, submission, answered>>

HSnapshot ==
  /\ hpc = "snapshot" /\ hpc' = "greet"
  /\ snapshot' = activeChannels
  /\ UNCHANGED <<boot, tableVars, listVars, ppc, submission, wsVars, answered>>

HGreet ==
  /\ hpc = "greet" /\ hpc' = "idle"
  /\ heard' = snapshot
  /\ UNCHANGED <<boot, tableVars, listVars, ppc, snapshot, submission, open, overtaken, answered>>

\* set_data: the value is written into the Part found under the id of the frame;
\* there is no check that one was found.
HFrame ==
  /\ hpc = "idle" /\ open
  /\ \E part \in Range(heard), v \in WebValues :
       LET id == channels[part] IN
       IF id < Len(channels)
       THEN /\ value' = [value EXCEPT ![id + 1] = v]
            /\ submission' = [part |-> id + 1, submitted |-> v]
            /\ hpc' = "submit"
       ELSE hpc' = "crashed" /\ UNCHANGED <<value, submission>>
  /\ UNCHANGED <<boot, channels, channel_response_queue, listVars, ppc, snapshot,
                 wsVars, answered>>

\* submit_response.
HSubmit ==
  /\ hpc = "submit" /\ hpc' = "idle"
  /\ Len(channel_response_queue) < MaxResponses
  /\ channel_response_queue' = Append(channel_response_queue, submission)
  /\ UNCHANGED <<boot, channels, value, listVars, ppc, snapshot, submission, wsVars, answered>>

HttpStep == HSnapshot \/ HGreet \/ HSubmit
HttpTask == HttpStep \/ HConnect \/ HFrame

-----------------------------------------------------------------------------
Next == Boot \/ PacketTask \/ HttpTask

Spec == Init /\ [][Next]_vars

-----------------------------------------------------------------------------
(* Properties *)

Response == [part : Nat, submitted : Values]

TypeOK ==
  /\ boot \in Stages
  /\ channels \in Seq(ChannelIDs) /\ Len(channels) <= MaxTable
  /\ value \in Seq(Values) /\ Len(value) = Len(channels)
  /\ channel_response_queue \in Seq(Response)
  /\ Len(channel_response_queue) <= MaxResponses
  /\ activeChannels \in Seq(Nat) /\ data_mode \in BOOLEAN
  /\ ppc \in {"idle", "on_broadcast", "ack", "on_data", "advertise", "respond"}
  /\ hpc \in {"idle", "snapshot", "greet", "submit", "crashed"}
  /\ snapshot \in Seq(Nat) /\ submission \in Response
  /\ open \in BOOLEAN /\ heard \in Seq(Nat) /\ overtaken \in BOOLEAN
  /\ answered \in [submitted : Values, sent : Values]

\* A browser that only answers for channels it was told of never makes set_data
\* follow a null schema, although nothing checks the id there: every id that was
\* ever advertised has a schema, whatever the brain broadcast in between.
NoNullSchema == hpc # "crashed"

\* The queue is not empty when write_response takes its front, although its size
\* was looked at outside the mutex.
FrontExists == ppc = "respond" => channel_response_queue # <<>>

\* The active channels are a run of the table's newest entries without a gap, but
\* for the one whose callback has not run yet, or what came before the callback
\* was installed.
Stored == IF ppc = "on_broadcast" THEN Len(channels) - 1 ELSE Len(channels)
ActiveIsNewestRun ==
  \A i \in DOMAIN activeChannels :
    activeChannels[i] = Stored - Len(activeChannels) + i

\* Once data flows and no handler is under way, the browser's last advertisement
\* is the list of active channels, unless a newer advertisement was overtaken by
\* the greeting that was prepared before it.
Settled == open /\ data_mode /\ ppc = "idle" /\ hpc = "idle"
AdvertisedIsActive == Settled => heard = activeChannels \/ overtaken

\* main.cpp: what the webserver does when it receives a new channel is "add new
\* channel to list of active channels".
AcknowledgedIsActive == ppc = "ack" => Len(channels) \in Range(activeChannels)

\* main.cpp: the websocket callback gets "data from the websocket to send to the
\* brain", so what is sent is what was submitted.
ResponseIsSubmission == answered.sent = answered.submitted
=============================================================================
