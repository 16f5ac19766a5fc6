------------------------------ MODULE WebServer ------------------------------
(***************************************************************************)
(* The web server between the browsers and the rest of the program:        *)
(* webserver.cpp and rest.cpp on the task of esp_http_server (external,    *)
(* modelled from how this code uses it), with app_main that starts it and  *)
(* the packet task that sends through it.                                  *)
(*                                                                         *)
(* A browser's connection is a visit, known to the server by a socket that *)
(* is used again once the visit is over.  Messages for the websocket wait  *)
(* in the server's work queue together with the socket they are meant for. *)
(* The value of a list of channels is the numbers of its broadcasts.       *)
(***************************************************************************)
EXTENDS Integers, Sequences

CONSTANTS Sockets,       \* max_open_sockets of the server
          WorkLen,       \* messages its work queue holds
          MaxVisits,     \* connections the browsers make (bound)
          MaxBroadcasts  \* broadcasts of the brain (bound)

ASSUME WebServerAssumption ==
  /\ Sockets \subseteq Nat \ {0} /\ Sockets # {}
  /\ WorkLen \in Nat \ {0} /\ {MaxVisits, MaxBroadcasts} \subseteq Nat

VARIABLES stage,                   \* how far webserver_start has come
          session, visits,         \* the server's sockets; visits so far
          global_fd, newest,       \* the websocket's socket and the visit it is
          work,                    \* messages on their way to a socket
          hpc, greeting,           \* the handshake under way, and the list it looked up
          activeChannels, data_mode, broadcasts,
          ppc,                     \* where the packet task's data callback is
          lost, overtaken          \* what became of the newest browser's description

socketVars == <<session, visits>>
targetVars == <<global_fd, newest>>
listVars   == <<activeChannels, data_mode, broadcasts>>
fateVars   == <<lost, overtaken>>
vars == <<stage, socketVars, targetVars, work, hpc, greeting, listVars, ppc, fateVars>>

\* What a visit has: the list it was last told, and how many data messages it got
\* since, not excused, that belong to another list (counted to 2).
Visit(n) == [visit |-> n, ws |-> FALSE, heard |-> <<>>, behind |-> 0]
NoVisit  == Visit(0)
Open(n)  == \E fd \in Sockets : session[fd].visit = n

Init ==
  /\ stage = 0
  /\ session = [fd \in Sockets |-> NoVisit] /\ visits = 0
  /\ global_fd = 0 /\ newest = 0 /\ work = <<>>
  /\ hpc = "idle" /\ greeting = <<>>
  /\ activeChannels = <<>> /\ data_mode = FALSE /\ broadcasts = 0
  /\ ppc = "idle" /\ lost = FALSE /\ overtaken = FALSE

-----------------------------------------------------------------------------
(* webserver_start, init_static_files and init_rest_server on the main task.  The *)
(* server answers from httpd_start on, while its handlers come one by one.        *)

StartSteps == <<"/ws", "/", "/elm.js", "/favicon.ico",
                "/api/sysinfo", "/api/heartbeat", "/api/config">>

registered == {StartSteps[i] : i \in 1..(stage - 1)}
Serving    == stage > 0
Started    == stage = Len(StartSteps) + 1

ServerStart ==
  /\ ~Started /\ stage' = stage + 1
  /\ UNCHANGED <<socketVars, targetVars, work, hpc, greeting, listVars, ppc, fateVars>>

-----------------------------------------------------------------------------
(* The work queue *)

\* httpd_queue_work on behalf of send_string_to_ws.  Nobody looks at its result.
\* Data sent while the browser's description is still to come, or went wrong, is
\* excused from being counted.
Undescribed == lost \/ overtaken
Message(kind, list) == [fd |-> global_fd, to |-> newest, kind |-> kind, list |-> list,
                        excused |-> hpc # "idle" \/ Undescribed]
\* (Slip: one more is put in.)
QueueFullLate == global_fd # 0 /\ Len(work) > WorkLen
QueueFull     == global_fd # 0 /\ Len(work) >= WorkLen
Send(message) ==
  work' = IF global_fd = 0 \/ QueueFull THEN work ELSE Append(work, message)

\* What a visit makes of a message.
Heard(v, message) ==
  IF message.kind = "advertisement" THEN [v EXCEPT !.heard = message.list, !.behind = 0]
  ELSE IF message.excused \/ message.to # v.visit \/ message.list = v.heard \/ v.behind = 2 THEN v
  ELSE [v EXCEPT !.behind = @ + 1]

\* ws_async_send: whoever has the socket by now gets the frame, on a plain connection
\* as a stray one.
AsyncSend ==
  /\ hpc = "idle" /\ work # <<>>
  /\ work' = Tail(work)
  /\ LET message == Head(work) IN
       session' = [session EXCEPT ![message.fd] = IF @.ws THEN Heard(@, message) ELSE @]
  /\ UNCHANGED <<stage, visits, targetVars, hpc, greeting, listVars, ppc, fateVars>>

-----------------------------------------------------------------------------
(* Connections *)

Accept(fd) ==
  /\ Serving /\ hpc = "idle" /\ session[fd] = NoVisit /\ visits < MaxVisits
  /\ visits' = visits + 1
  /\ session' = [session EXCEPT ![fd] = Visit(visits')]
  /\ UNCHANGED <<stage, targetVars, work, hpc, greeting, listVars, ppc, fateVars>>

\* The browser goes away, a frame cannot be received, there is no memory for it, it
\* cannot be echoed, or the URI is not there (yet) and the 404 handler fails.
Close(fd) ==
  /\ hpc = "idle" /\ session[fd] # NoVisit
  /\ session' = [session EXCEPT ![fd] = NoVisit]
  /\ UNCHANGED <<stage, visits, targetVars, work, hpc, greeting, listVars, ppc, fateVars>>

\* The first half of ws_handler: global_fd is set, the list is looked at, and the
\* greeting is queued.
Handshake(fd) ==
  /\ hpc = "idle" /\ "/ws" \in registered
  /\ session[fd] # NoVisit /\ ~session[fd].ws
  /\ session' = [session EXCEPT ![fd].ws = TRUE]
  /\ global_fd' = fd /\ newest' = session[fd].visit
  /\ hpc' = "snapshot"
  /\ lost' = FALSE /\ overtaken' = FALSE
  /\ UNCHANGED <<stage, visits, work, greeting, listVars, ppc>>

\* get_adv_msg
Snapshot ==
  /\ hpc = "snapshot" /\ hpc' = "greet"
  /\ greeting' = activeChannels
  /\ UNCHANGED <<stage, socketVars, targetVars, work, listVars, ppc, fateVars>>

Greet ==
  /\ hpc = "greet" /\ hpc' = "idle"
  /\ Send(Message("advertisement", greeting))
  /\ lost' = (lost \/ QueueFull)
  /\ greeting' = <<>>
  /\ UNCHANGED <<stage, socketVars, targetVars, listVars, ppc, overtaken>>

\* The second half: a text frame goes to the callback (DebugBoard), and it or an
\* empty one is echoed to the browser it came from; neither changes where messages
\* go.  (Slip: global_fd is set for every frame.)
TargetIsSender(fd) == fd
TargetStays(fd)    == global_fd
Frame(fd) ==
  /\ hpc = "idle" /\ session[fd].ws
  /\ global_fd' = TargetStays(fd)
  /\ UNCHANGED <<stage, socketVars, newest, work, hpc, greeting, listVars, ppc, fateVars>>

\* A file or an answer of the REST interface.
Get(fd) ==
  /\ hpc = "idle" /\ session[fd] # NoVisit /\ ~session[fd].ws
  /\ registered \ {"/ws"} # {}
  /\ UNCHANGED vars

HttpStep == AsyncSend \/ Snapshot \/ Greet
HttpTask == HttpStep \/ \E fd \in Sockets : \/ Accept(fd) \/ Close(fd) \/ Handshake(fd)
                                            \/ Frame(fd) \/ Get(fd)

-----------------------------------------------------------------------------
(* The packet task, whose callbacks app_main installs when the server is there. *)

\* (Slip: data mode goes on.)
StayInDataMode == data_mode
LeaveDataMode  == FALSE
OnBroadcast ==
  /\ Started /\ ppc = "idle" /\ broadcasts < MaxBroadcasts
  /\ broadcasts' = broadcasts + 1
  /\ activeChannels' = Append(IF data_mode THEN <<>> ELSE activeChannels, broadcasts')
  /\ data_mode' = LeaveDataMode
  /\ UNCHANGED <<stage, socketVars, targetVars, work, hpc, greeting, ppc, fateVars>>

\* (Slip: every data message but the first is followed by the list.)
NotFirstData == data_mode
FirstData    == ~data_mode
OnData ==
  /\ Started /\ ppc = "idle"
  /\ Send(Message("data", activeChannels))
  /\ data_mode' = TRUE
  /\ ppc' = IF FirstData THEN "advertise" ELSE "idle"
  /\ UNCHANGED <<stage, socketVars, targetVars, hpc, greeting, activeChannels,
                 broadcasts, fateVars>>

Advertise ==
  /\ ppc = "advertise" /\ ppc' = "idle"
  /\ Send(Message("advertisement", activeChannels))
  /\ lost' = QueueFull
  /\ overtaken' = (hpc = "greet")
  /\ UNCHANGED <<stage, socketVars, targetVars, hpc, greeting, listVars>>

PacketTask == OnBroadcast \/ OnData \/ Advertise

Next == ServerStart \/ HttpTask \/ PacketTask

Spec == Init /\ [][Next]_vars

\* The http task works its queue off before it looks at the sockets, and the packet
\* task ends what it began.
FairSpec == Spec /\ WF_vars(HttpStep) /\ WF_vars(Advertise)

-----------------------------------------------------------------------------
(* Properties *)

Lists    == Seq(1..MaxBroadcasts)
Messages == [fd : Sockets, to : 1..MaxVisits, kind : {"data", "advertisement"},
             list : Lists, excused : BOOLEAN]

WebTypeOK ==
  /\ stage \in 0..(Len(StartSteps) + 1)
  /\ session \in [Sockets -> [visit : 0..MaxVisits, ws : BOOLEAN, heard : Lists, behind : 0..2]]
  /\ visits \in 0..MaxVisits
  /\ global_fd \in Sockets \cup {0} /\ newest \in 0..MaxVisits
  /\ work \in Seq(Messages) /\ Len(work) <= WorkLen
  /\ hpc \in {"idle", "snapshot", "greet"} /\ greeting \in Lists
  /\ activeChannels \in Lists /\ data_mode \in BOOLEAN /\ broadcasts \in 0..MaxBroadcasts
  /\ ppc \in {"idle", "advertise"} /\ {lost, overtaken} \subseteq BOOLEAN

\* A message can reach another visit than it was meant for only when that one is
\* over and its socket was given away; while the newest browser is there, it and no
\* other gets what is sent, whatever older browsers send or close.
OnlyClosedIsReplaced ==
  /\ \A i \in DOMAIN work : session[work[i].fd].visit # work[i].to => ~Open(work[i].to)
  /\ Open(newest) /\ newest # 0 => session[global_fd].visit = newest

NewestIs(n)  == newest = n /\ n # 0 /\ Open(n)

\* Where the lists for the newest browser are in the queue, and which list it will have
\* been told last when the queue is empty.
Advertised == {i \in DOMAIN work : work[i].to = newest /\ work[i].kind = "advertisement"}
LastTold(list) ==
  IF Advertised = {} THEN session[global_fd].heard = list
  ELSE \E i \in Advertised : work[i].list = list /\ \A j \in Advertised : j <= i

\* While data flows, the last list the newest browser was told, or will be told by
\* what is queued for it, is the list of active channels, and it never gets a second
\* data message of a list it was not told: unless a list was lost at a full queue, or
\* overtaken by the greeting that was prepared before it.
Described ==
  newest # 0 /\ Open(newest) /\ hpc = "idle" /\ ~Undescribed =>
    /\ data_mode /\ ppc = "idle" => LastTold(activeChannels)
    /\ session[global_fd].behind <= 1

\* So the description does arrive, or the brain negotiates again, or the browser is
\* gone or replaced.
DescriptionArrives ==
  \A n \in 1..MaxVisits :
    NewestIs(n) /\ data_mode ~> \/ ~NewestIs(n) \/ ~data_mode \/ Undescribed
                                \/ session[global_fd].heard = activeChannels
=============================================================================
