---------------------------- MODULE Website_proofs ----------------------------
(***************************************************************************)
(* Proofs about Startup, with the connection manager and the LED in it, for *)
(* every number of retries and of restarts; and about Website, the page    *)
(* next to that board: what was proved of the board alone still holds, and *)
(* the badge tells the truth.                                              *)
(***************************************************************************)
EXTENDS Website, SequenceTheorems, TLAPS

-----------------------------------------------------------------------------
(* The inductive invariant, in four parts.                                   *)

\* The network.  What can be on its way to the event loop depends on where the driver
\* is, because a disconnection stops it until the loop has answered; so nothing is on
\* its way any more once the retries are used up.
GaveUp == "fail" \in bits

QueueInv ==
  /\ sta = "idle" =>
       \/ events \in {<<>>, <<"sta_start">>, <<"disconnected">>}
       \/ events \in {<<"connected", "disconnected">>, <<"got_ip", "disconnected">>}
       \/ events = <<"connected", "got_ip", "disconnected">>
  /\ sta = "connecting" => events = <<>>
  /\ sta = "associated" => events \in {<<>>, <<"connected">>}
  /\ sta = "online"     => events \in {<<>>, <<"got_ip">>, <<"connected", "got_ip">>}

CountInv ==
  /\ had_address <=> "connected" \in bits
  /\ IF GaveUp THEN sta = "idle" /\ events = <<>> /\ failures = MaxRetry + 1
               ELSE failures = s_retry_num

MainInv ==
  /\ main = "init" => events = <<>> /\ sta = "idle" /\ bits = {}
  /\ main = "ap" => GaveUp /\ ~had_address
  /\ sta = "idle" /\ events = <<>> => main = "init" \/ GaveUp

NetInv == TypeOK /\ QueueInv /\ CountInv /\ MainInv

\* The LED.  Who holds the mutex is where its code says, the flag is set by the one
\* signal, and the task has blinked when the flag is down again or about to be.
LedInv ==
  /\ Led!LedTypeOK
  /\ mux = "caller" <=> caller = "set"
  /\ mux = "led" <=> led \in {"read", "clear"}
  /\ new_connection \/ wifi_conn \/ blinks # 0 => caller = "signalled"
  /\ wifi_conn <=> led \in {"blink", "take again", "clear"}
  /\ wifi_conn => new_connection
  /\ blinks = 1 <=> \/ led \in {"take again", "clear"}
                    \/ caller = "signalled" /\ ~new_connection
  /\ blinks <= 1

\* The boot count in flash is one behind the board's at most.
BootInv ==
  /\ {flash, written, bootcount, previous, restarts} \subseteq Nat
  /\ flash <= restarts /\ previous <= restarts /\ restarts <= MaxRestarts
  /\ previous <= flash + 1
  /\ IF step \in {"nvs", "count"} THEN bootcount = 0 /\ written = flash
                                  ELSE bootcount = flash + 1 /\ written = bootcount

\* The order of app_main: nothing of the network before the LED's task exists, and no
\* signal before the network is settled.
OrderInv ==
  /\ step \in {"nvs", "count", "led", "net", "signal", "loop"}
  /\ step \in {"nvs", "count", "led"} => main = "init" /\ led = "none"
  /\ step \in {"nvs", "count", "led", "net"} => caller = "before"
  /\ step \in {"signal", "loop"} => NetSettled

IInv == NetInv /\ LedInv /\ BootInv /\ OrderInv

-----------------------------------------------------------------------------
(* The network: each step of ConnectionManager keeps NetInv. *)

EventNames == {"sta_start", "connected", "disconnected", "got_ip"}

\* What Append, Head and Tail make of the queues that occur.
LEMMA AppendToOne == ASSUME NEW S, NEW d \in S, NEW e \in S
                     PROVE  Append(<<d>>, e) = <<d, e>>
<1> DEFINE s == Append(<<d>>, e)
           t == <<d, e>>
<1>1. s \in Seq(S) /\ Len(s) = 2 /\ s[1] = d /\ s[2] = e
  OBVIOUS
<1>2. t \in Seq(S) /\ Len(t) = 2 /\ t[1] = d /\ t[2] = e
  OBVIOUS
<1> HIDE DEF s, t
<1>3. \A i \in 1..2 : s[i] = t[i]
  BY <1>1, <1>2
<1>4. s = t
  BY <1>1, <1>2, <1>3, SeqEqual
<1> QED BY <1>4 DEF s, t

LEMMA AppendToTwo == ASSUME NEW S, NEW c \in S, NEW d \in S, NEW e \in S
                     PROVE  Append(<<c, d>>, e) = <<c, d, e>>
<1> DEFINE s == Append(<<c, d>>, e)
           t == <<c, d, e>>
<1>1. s \in Seq(S) /\ Len(s) = 3 /\ s[1] = c /\ s[2] = d /\ s[3] = e
  OBVIOUS
<1>2. t \in Seq(S) /\ Len(t) = 3 /\ t[1] = c /\ t[2] = d /\ t[3] = e
  OBVIOUS
<1> HIDE DEF s, t
<1>3. \A i \in 1..3 : s[i] = t[i]
  BY <1>1, <1>2
<1>4. s = t
  BY <1>1, <1>2, <1>3, SeqEqual
<1> QED BY <1>4 DEF s, t

LEMMA Appends ==
  /\ Append(<<>>, "sta_start") = <<"sta_start">>
  /\ Append(<<>>, "connected") = <<"connected">>
  /\ Append(<<>>, "got_ip") = <<"got_ip">>
  /\ Append(<<>>, "disconnected") = <<"disconnected">>
  /\ Append(<<"connected">>, "got_ip") = <<"connected", "got_ip">>
  /\ Append(<<"connected">>, "disconnected") = <<"connected", "disconnected">>
  /\ Append(<<"got_ip">>, "disconnected") = <<"got_ip", "disconnected">>
  /\ Append(<<"connected", "got_ip">>, "disconnected")
       = <<"connected", "got_ip", "disconnected">>
<1>1. \A e \in EventNames : Append(<<>>, e) = <<e>>
  OBVIOUS
<1>2. \A d, e \in EventNames : Append(<<d>>, e) = <<d, e>>
  BY AppendToOne
<1>3. \A c, d, e \in EventNames : Append(<<c, d>>, e) = <<c, d, e>>
  BY AppendToTwo
<1> QED BY <1>1, <1>2, <1>3 DEF EventNames

LEMMA HeadsAndTails ==
  /\ \A e : <<e>> # <<>> /\ Head(<<e>>) = e /\ Tail(<<e>>) = <<>>
  /\ \A d, e : <<d, e>> # <<>> /\ Head(<<d, e>>) = d /\ Tail(<<d, e>>) = <<e>>
  /\ \A c, d, e : /\ <<c, d, e>> # <<>> /\ Head(<<c, d, e>>) = c
                  /\ Tail(<<c, d, e>>) = <<d, e>>
<1>1. \A e : <<e>> # <<>> /\ Head(<<e>>) = e /\ Tail(<<e>>) = <<>>
  OBVIOUS
<1>2. \A d, e : <<d, e>> # <<>> /\ Head(<<d, e>>) = d /\ Tail(<<d, e>>) = <<e>>
  OBVIOUS
<1>3. \A c, d, e : /\ <<c, d, e>> # <<>> /\ Head(<<c, d, e>>) = c
                   /\ Tail(<<c, d, e>>) = <<d, e>>
  OBVIOUS
<1> QED BY <1>1, <1>2, <1>3

LEMMA QueueTypes ==
  /\ <<>> \in Seq(EventNames) /\ Len(<<>>) <= 3
  /\ \A e \in EventNames : <<e>> \in Seq(EventNames) /\ Len(<<e>>) <= 3
  /\ \A d, e \in EventNames : <<d, e>> \in Seq(EventNames) /\ Len(<<d, e>>) <= 3
  /\ \A c, d, e \in EventNames : <<c, d, e>> \in Seq(EventNames) /\ Len(<<c, d, e>>) <= 3
OBVIOUS

LEMMA Lengths ==
  /\ Len(<<>>) = 0
  /\ \A e : Len(<<e>>) = 1
  /\ \A d, e : Len(<<d, e>>) = 2
  /\ \A c, d, e : Len(<<c, d, e>>) = 3
<1>1. \A e : Len(<<e>>) = 1
  OBVIOUS
<1>2. \A d, e : Len(<<d, e>>) = 2
  OBVIOUS
<1>3. \A c, d, e : Len(<<c, d, e>>) = 3
  OBVIOUS
<1> QED BY <1>1, <1>2, <1>3

LEMMA NetInit == Init => NetInv
<1> SUFFICES ASSUME Init PROVE NetInv
  OBVIOUS
<1> USE MaxRetryAssumption
<1>1. TypeOK
  <2>1. events \in Seq(EventNames) /\ Len(events) <= 3
    BY QueueTypes DEF Init
  <2>2. s_retry_num \in 0..MaxRetry /\ failures \in 0..(MaxRetry + 1)
    BY DEF Init
  <2> QED BY <2>1, <2>2 DEF Init, TypeOK, EventNames
<1>2. QueueInv
  BY DEF Init, QueueInv
<1>3. CountInv
  BY DEF Init, CountInv, GaveUp
<1>4. MainInv
  BY DEF Init, MainInv
<1> QED BY <1>1, <1>2, <1>3, <1>4 DEF NetInv

\* The driver appends while the loop waits for it, and only before the retries are
\* used up; the loop takes what the driver's state allows.
LEMMA NetStep == NetInv /\ [Next]_vars => NetInv'
<1> SUFFICES ASSUME NetInv, [Next]_vars PROVE NetInv'
  OBVIOUS
<1> USE MaxRetryAssumption DEF NetInv
<1>1. CASE Associated
  <2>1. events = <<>> /\ ~GaveUp
    BY <1>1 DEF Associated, QueueInv, CountInv
  <2>2. QueueInv'
    BY <1>1, <2>1, Appends DEF Associated, QueueInv
  <2>3. CountInv' /\ MainInv'
    BY <1>1, <2>1 DEF Associated, CountInv, MainInv, GaveUp
  <2>4. TypeOK'
    BY <1>1, <2>1, Appends, QueueTypes DEF Associated, TypeOK, EventNames
  <2> QED BY <2>2, <2>3, <2>4
<1>2. CASE GotAddress
  <2>1. events \in {<<>>, <<"connected">>} /\ ~GaveUp
    BY <1>2 DEF GotAddress, QueueInv, CountInv
  <2>2. events' \in {<<"got_ip">>, <<"connected", "got_ip">>}
    BY <1>2, <2>1, Appends DEF GotAddress
  <2>3. QueueInv'
    BY <1>2, <2>2 DEF GotAddress, QueueInv
  <2>4. CountInv' /\ MainInv'
    BY <1>2, <2>1 DEF GotAddress, CountInv, MainInv, GaveUp
  <2>5. TypeOK'
    BY <1>2, <2>2, QueueTypes DEF GotAddress, TypeOK, EventNames
  <2> QED BY <2>3, <2>4, <2>5
<1>3. CASE Disconnected
  <2>1. events \in {<<>>, <<"connected">>, <<"got_ip">>, <<"connected", "got_ip">>} /\ ~GaveUp
    BY <1>3 DEF Disconnected, QueueInv, CountInv
  <2>2. events' \in {<<"disconnected">>, <<"connected", "disconnected">>,
                     <<"got_ip", "disconnected">>, <<"connected", "got_ip", "disconnected">>}
    BY <1>3, <2>1, Appends DEF Disconnected
  <2>3. events' # <<>>
    BY <2>2, HeadsAndTails
  <2>4. QueueInv'
    BY <1>3, <2>2 DEF Disconnected, QueueInv
  <2>5. CountInv' /\ MainInv'
    BY <1>3, <2>1, <2>3 DEF Disconnected, CountInv, MainInv, GaveUp
  <2>6. TypeOK'
    BY <1>3, <2>2, QueueTypes DEF Disconnected, TypeOK, EventNames
  <2> QED BY <2>4, <2>5, <2>6
<1>4. CASE OnStart
  <2>1. sta = "idle" /\ events = <<"sta_start">> /\ ~GaveUp
    BY <1>4, HeadsAndTails DEF OnStart, Handle, QueueInv, CountInv, TypeOK
  <2>2. events' = <<>>
    BY <1>4, <2>1, HeadsAndTails DEF OnStart, Handle
  <2>3. main # "init"
    BY <2>1, HeadsAndTails DEF MainInv
  <2> QED BY <1>4, <2>1, <2>2, <2>3, QueueTypes
          DEF OnStart, TypeOK, QueueInv, CountInv, MainInv, GaveUp, EventNames
<1>5. CASE OnDisconnected
  <2>1. sta = "idle" /\ events = <<"disconnected">> /\ ~GaveUp
    BY <1>5, HeadsAndTails DEF OnDisconnected, Handle, QueueInv, CountInv, TypeOK
  <2>2. events' = <<>>
    BY <1>5, <2>1, HeadsAndTails DEF OnDisconnected, Handle
  <2>3. main # "init" /\ main # "ap"
    BY <2>1, HeadsAndTails DEF MainInv
  <2>4. failures = s_retry_num
    BY <2>1 DEF CountInv
  <2>5. QueueInv'
    BY <1>5, <2>1, <2>2 DEF OnDisconnected, Retry, QueueInv
  <2>6. TypeOK' /\ CountInv'
    <3>1. CASE RetriesLeft
      <4>1. s_retry_num' = s_retry_num + 1 /\ failures' = failures + 1 /\ bits' = bits
        BY <1>5, <3>1 DEF OnDisconnected
      <4>2. s_retry_num < MaxRetry
        BY <3>1 DEF RetriesLeft
      <4>3. s_retry_num' \in 0..MaxRetry /\ failures' \in 0..(MaxRetry + 1)
        BY <2>4, <4>1, <4>2 DEF TypeOK
      <4>4. CountInv'
        BY <1>5, <2>1, <2>4, <4>1 DEF OnDisconnected, CountInv, GaveUp
      <4> QED BY <1>5, <2>2, <3>1, <4>1, <4>3, <4>4, QueueTypes
              DEF OnDisconnected, Retry, TypeOK, EventNames
    <3>2. CASE ~RetriesLeft
      <4>1. s_retry_num' = s_retry_num /\ failures' = failures + 1
            /\ bits' = bits \cup {"fail"} /\ sta' = "idle"
        BY <1>5, <2>1, <3>2 DEF OnDisconnected
      <4>2. s_retry_num = MaxRetry
        BY <3>2 DEF RetriesLeft, TypeOK
      <4>3. failures' = MaxRetry + 1 /\ failures' \in 0..(MaxRetry + 1)
        BY <2>4, <4>1, <4>2
      <4>4. CountInv'
        BY <1>5, <2>2, <4>1, <4>3 DEF OnDisconnected, CountInv, GaveUp
      <4> QED BY <1>5, <2>2, <4>1, <4>3, <4>4, QueueTypes
              DEF OnDisconnected, TypeOK, EventNames
    <3> QED BY <3>1, <3>2
  <2>7. MainInv'
    <3>1. sta' = "connecting" \/ GaveUp'
      BY <1>5 DEF OnDisconnected, Retry, GaveUp
    <3> QED BY <1>5, <2>3, <3>1 DEF OnDisconnected, MainInv, GaveUp
  <2> QED BY <2>5, <2>6, <2>7
<1>6. CASE OnGotIp
  <2>1. events \in {<<"got_ip">>, <<"got_ip", "disconnected">>} /\ ~GaveUp
    BY <1>6, HeadsAndTails DEF OnGotIp, Handle, QueueInv, CountInv, TypeOK
  <2>2. \/ events' = <<>> /\ events = <<"got_ip">>
        \/ events' = <<"disconnected">> /\ events = <<"got_ip", "disconnected">>
    <3>1. events' = Tail(events)
      BY <1>6 DEF OnGotIp, Handle
    <3>. QED
      BY <2>1, <3>1, HeadsAndTails
  <2>3. main # "init" /\ main # "ap"
    BY <2>1, HeadsAndTails DEF MainInv
  <2>4. QueueInv'
    BY <1>6, <2>2, HeadsAndTails DEF OnGotIp, QueueInv, TypeOK
  <2>5. CountInv'
    BY <1>6, <2>1 DEF OnGotIp, RetriesReset, CountInv, GaveUp
  <2>6. MainInv'
    <3>1. CASE events' = <<>>
      <4>1. events = <<"got_ip">>
        BY <2>2, <3>1, HeadsAndTails
      <4>2. sta # "idle"
        BY <4>1, HeadsAndTails, Lengths DEF QueueInv
      <4> QED BY <1>6, <2>3, <4>2 DEF OnGotIp, MainInv
    <3>2. CASE events' # <<>>
      BY <1>6, <2>3, <3>2 DEF OnGotIp, MainInv
    <3> QED BY <3>1, <3>2
  <2>7. TypeOK'
    <3>1. events' \in Seq(EventNames) /\ Len(events') <= 3
      BY <2>2, QueueTypes DEF EventNames
    <3>2. s_retry_num' \in 0..MaxRetry /\ failures' \in 0..(MaxRetry + 1)
      BY <1>6 DEF OnGotIp, RetriesReset
    <3> QED BY <1>6, <3>1, <3>2 DEF OnGotIp, TypeOK, EventNames
  <2> QED BY <2>4, <2>5, <2>6, <2>7
<1>7. CASE OnOther
  <2>1. events # <<>> /\ Head(events) = "connected" /\ events' = Tail(events)
    BY <1>7 DEF OnOther, Handle
  <2>2. events \in {<<"connected">>, <<"connected", "disconnected">>, <<"connected", "got_ip">>,
                    <<"connected", "got_ip", "disconnected">>}
    BY <2>1, HeadsAndTails DEF QueueInv, TypeOK
  <2>3. /\ events = <<"connected">> => events' = <<>>
        /\ events = <<"connected", "disconnected">> => events' = <<"disconnected">>
        /\ events = <<"connected", "got_ip">> => events' = <<"got_ip">>
        /\ events = <<"connected", "got_ip", "disconnected">>
             => events' = <<"got_ip", "disconnected">>
    <3>1. Tail(<<"connected">>) = <<>> /\ Tail(<<"connected", "disconnected">>) = <<"disconnected">>
      BY HeadsAndTails
    <3>2. /\ Tail(<<"connected", "got_ip">>) = <<"got_ip">>
          /\ Tail(<<"connected", "got_ip", "disconnected">>) = <<"got_ip", "disconnected">>
      BY HeadsAndTails
    <3> QED BY <2>1, <3>1, <3>2
  <2>4. ~GaveUp /\ main # "init"
    BY <2>1 DEF CountInv, MainInv
  <2>5. UNCHANGED <<main, sta, s_retry_num, bits, failures, had_address>>
    BY <1>7 DEF OnOther
  <2>6. CountInv'
    BY <2>4, <2>5 DEF CountInv, GaveUp
  <2>7. TypeOK'
    <3>1. events' \in Seq(EventNames) /\ Len(events') <= 3
      BY <2>2, <2>3, QueueTypes DEF EventNames
    <3> QED BY <2>5, <3>1 DEF TypeOK, EventNames
  <2>8. /\ events = <<"connected">> => sta = "associated"
        /\ events = <<"connected", "disconnected">> => sta = "idle"
        /\ events = <<"connected", "got_ip">> => sta = "online"
        /\ events = <<"connected", "got_ip", "disconnected">> => sta = "idle"
    <3>1. events = <<"connected">> => sta = "associated"
      BY HeadsAndTails, Lengths DEF QueueInv, TypeOK
    <3>2. events = <<"connected", "disconnected">> => sta = "idle"
      BY HeadsAndTails, Lengths DEF QueueInv, TypeOK
    <3>3. events = <<"connected", "got_ip">> => sta = "online"
      BY HeadsAndTails, Lengths DEF QueueInv, TypeOK
    <3>4. events = <<"connected", "got_ip", "disconnected">> => sta = "idle"
      BY HeadsAndTails, Lengths DEF QueueInv, TypeOK
    <3> QED BY <3>1, <3>2, <3>3, <3>4
  <2>9. QueueInv'
    BY <2>2, <2>3, <2>5, <2>8 DEF QueueInv
  <2>10. MainInv'
    <3>1. ~(sta' = "idle" /\ events' = <<>>)
      BY <2>2, <2>3, <2>5, <2>8, HeadsAndTails
    <3> QED BY <2>4, <2>5, <3>1 DEF MainInv, GaveUp, CountInv
  <2> QED BY <2>6, <2>7, <2>9, <2>10
<1>8. CASE Start
  <2>1. events = <<>> /\ sta = "idle" /\ ~GaveUp
    BY <1>8 DEF Start, MainInv, GaveUp
  <2>2. events' = <<"sta_start">> /\ events' # <<>>
    BY <1>8, <2>1, Appends, HeadsAndTails DEF Start
  <2> QED BY <1>8, <2>1, <2>2, QueueTypes
          DEF Start, TypeOK, QueueInv, CountInv, MainInv, GaveUp, EventNames
<1>9. CASE Wake
  <2>1. CASE FailedOnly
    <3>1. "fail" \in bits
      BY <1>9, <2>1 DEF Wake, FailedOnly, TypeOK
    <3>2. main' = "ap" /\ events' = <<>> /\ sta' = "idle"
      BY <1>9, <2>1 DEF Wake
    <3> QED BY <1>9, <2>1, <3>1, <3>2, QueueTypes
            DEF Wake, FailedOnly, TypeOK, QueueInv, CountInv, MainInv, GaveUp, EventNames
  <2>2. CASE ~FailedOnly
    BY <1>9, <2>2 DEF Wake, TypeOK, QueueInv, CountInv, MainInv, GaveUp
  <2> QED BY <2>1, <2>2
<1>10. CASE UNCHANGED vars
  BY <1>10 DEF vars, TypeOK, QueueInv, CountInv, MainInv, GaveUp
<1> QED BY <1>1, <1>2, <1>3, <1>4, <1>5, <1>6, <1>7, <1>8, <1>9, <1>10
        DEF Next, Driver, EventLoop, AtRest

-----------------------------------------------------------------------------
(* The LED: each step of its task and of the signal keeps LedInv. *)

LEMMA LedInit == Led!Init => LedInv
<1> SUFFICES ASSUME Led!Init PROVE LedInv
  OBVIOUS
<1>1. /\ led = "none" /\ mux = "free" /\ new_connection = FALSE /\ option = "OFF"
      /\ wifi_conn = FALSE /\ caller = "before" /\ blinks = 0
  BY DEF Led!Init
<1>2. blinks \in 0..2 /\ blinks <= 1 /\ blinks # 1
  BY <1>1
<1>3. Led!LedTypeOK
  BY <1>1, <1>2, Zenon DEF Led!LedTypeOK
<1> QED BY <1>1, <1>2, <1>3 DEF LedInv

LEMMA LedStep == LedInv /\ (Led!Create \/ Led!Task \/ Led!Signal) => LedInv'
<1> SUFFICES ASSUME LedInv, Led!Create \/ Led!Task \/ Led!Signal PROVE LedInv'
  OBVIOUS
<1> USE DEF LedInv, Led!LedTypeOK
<1>1. CASE Led!Create
  BY <1>1 DEF Led!Create
<1>2. CASE Led!Take
  BY <1>2 DEF Led!Take, Led!Pattern, Led!Blinks
<1>3. CASE Led!Read
  <2>1. /\ led = "read" /\ mux = "led" /\ mux' = "free" /\ option' = "SETUP"
        /\ ~wifi_conn /\ wifi_conn' = new_connection
        /\ led' = (IF wifi_conn' THEN "blink" ELSE "show")
        /\ UNCHANGED <<new_connection, caller, blinks>>
    BY <1>3 DEF Led!Read, Led!Pattern, Led!Blinks, Led!cur_opt
  <2>2. CASE new_connection
    BY <2>1, <2>2
  <2>3. CASE ~new_connection
    BY <2>1, <2>3
  <2> QED BY <2>2, <2>3
<1>4. CASE Led!Blink
  <2>1. led = "blink" /\ wifi_conn /\ new_connection /\ caller = "signalled"
    BY <1>4 DEF Led!Blink
  <2>2. blinks = 0
    BY <2>1
  <2> HIDE DEF LedInv, Led!LedTypeOK
  <2>3. blinks' = IF blinks < 2 THEN blinks + 1 ELSE blinks
    BY <1>4 DEF Led!Blink
  <2>4. blinks' = 1
    BY <2>2, <2>3
  <2>5. blinks' = 1 /\ blinks' \in 0..2 /\ blinks' <= 1
    BY <2>4
  <2> USE DEF LedInv, Led!LedTypeOK
  <2> QED BY <1>4, <2>1, <2>5 DEF Led!Blink
<1>5. CASE Led!TakeAgain
  BY <1>5 DEF Led!TakeAgain
<1>6. CASE Led!Clear
  BY <1>6 DEF Led!Clear, Led!NoLongerNew
<1>7. CASE Led!Show
  BY <1>7 DEF Led!Show
<1>8. CASE Led!SignalTake
  BY <1>8 DEF Led!SignalTake
<1>9. CASE Led!SignalSet
  BY <1>9 DEF Led!SignalSet
<1> QED BY <1>1, <1>2, <1>3, <1>4, <1>5, <1>6, <1>7, <1>8, <1>9 DEF Led!Task, Led!Signal

-----------------------------------------------------------------------------
(* app_main, and the whole board. *)

LEMMA StartupInitIInv == StartupInit => IInv
<1> SUFFICES ASSUME StartupInit PROVE IInv
  OBVIOUS
<1>1. NetInv /\ LedInv
  BY NetInit, LedInit DEF StartupInit
<1>2. BootInv
  BY MaxRestartsAssumption DEF StartupInit, BootInv
<1>3. OrderInv
  BY DEF StartupInit, Init, Led!Init, OrderInv
<1> QED BY <1>1, <1>2, <1>3 DEF IInv

\* The network's variables do not change, or the LED's.
LEMMA NetUnchanged == NetInv /\ UNCHANGED netVars => NetInv'
<1> SUFFICES ASSUME NetInv, UNCHANGED netVars PROVE NetInv'
  OBVIOUS
<1>1. [Next]_vars
  BY DEF netVars
<1> QED BY <1>1, NetStep

LEMMA LedUnchanged == LedInv /\ UNCHANGED ledVars => LedInv'
<1> SUFFICES ASSUME LedInv, UNCHANGED ledVars PROVE LedInv'
  OBVIOUS
<1>1. /\ led' = led /\ mux' = mux /\ new_connection' = new_connection /\ option' = option
      /\ wifi_conn' = wifi_conn /\ caller' = caller /\ blinks' = blinks
  BY DEF ledVars
<1>2. Led!LedTypeOK'
  BY <1>1 DEF LedInv, Led!LedTypeOK
<1> QED BY <1>1, <1>2 DEF LedInv

\* Where the count in flash stands when the board goes down decides about the next one.
LEMMA BootStep == BootInv /\ [StartupNext]_startupVars => BootInv'
<1> SUFFICES ASSUME BootInv, [StartupNext]_startupVars PROVE BootInv'
  OBVIOUS
<1> USE MaxRestartsAssumption DEF BootInv
<1>1. CASE InitFlash
  <2>1. CASE UNCHANGED bootVars
    BY <1>1, <2>1 DEF InitFlash, bootVars
  <2>2. CASE flash' = 0 /\ written' = 0 /\ previous' = 0 /\ bootcount' = bootcount
    BY <1>1, <2>2 DEF InitFlash
  <2> QED BY <1>1, <2>1, <2>2 DEF InitFlash
<1>2. CASE CountBoot
  BY <1>2 DEF CountBoot, ReadCount
<1>3. CASE InitLed
  BY <1>3 DEF InitLed, bootVars
<1>4. CASE NetReturns
  BY <1>4 DEF NetReturns, bootVars
<1>5. CASE SignalNetwork
  BY <1>5 DEF SignalNetwork, bootVars
<1>6. CASE Net
  BY <1>6 DEF Net, bootVars
<1>7. CASE LedTask
  BY <1>7 DEF LedTask, bootVars
<1>8. CASE Restart
  <2>1. /\ restarts' = restarts + 1 /\ restarts < MaxRestarts /\ step' = "nvs"
        /\ bootcount' = 0 /\ written' = flash'
    BY <1>8 DEF Restart
  <2>2. flash' = flash \/ flash' = written
    BY <1>8 DEF Restart
  <2>3. previous' = IF bootcount = 0 THEN previous ELSE bootcount
    BY <1>8 DEF Restart
  <2>4. CASE step \in {"nvs", "count"}
    BY <2>1, <2>2, <2>3, <2>4
  <2>5. CASE step \notin {"nvs", "count"}
    BY <2>1, <2>2, <2>3, <2>5
  <2> QED BY <2>4, <2>5
<1>9. CASE UNCHANGED startupVars
  BY <1>9 DEF startupVars, bootVars
<1> QED BY <1>1, <1>2, <1>3, <1>4, <1>5, <1>6, <1>7, <1>8, <1>9 DEF StartupNext, AppMain

\* Nothing on the network's side unsettles it again but a restart.
LEMMA StaysSettled == [Next]_vars /\ NetSettled => NetSettled'
BY DEF NetSettled, Next, Driver, EventLoop, Associated, GotAddress, Disconnected, OnStart,
       OnDisconnected, OnGotIp, OnOther, Start, Wake, AtRest, vars

LEMMA OrderStep == OrderInv /\ [StartupNext]_startupVars => OrderInv'
<1> SUFFICES ASSUME OrderInv, [StartupNext]_startupVars PROVE OrderInv'
  OBVIOUS
<1> USE DEF OrderInv
<1>1. CASE InitFlash
  BY <1>1 DEF InitFlash, netVars, vars, ledVars
<1>2. CASE CountBoot
  BY <1>2 DEF CountBoot, netVars, vars, ledVars
<1>3. CASE InitLed
  BY <1>3 DEF InitLed, netVars, vars, Led!Create
<1>4. CASE NetReturns
  BY <1>4 DEF NetReturns, NetSettled, netVars, vars, ledVars
<1>5. CASE SignalNetwork
  <2>1. step = "signal" /\ step' \in {"signal", "loop"}
    BY <1>5 DEF SignalNetwork
  <2>2. main' = main
    BY <1>5 DEF SignalNetwork, netVars, vars
  <2> QED BY <2>1, <2>2 DEF NetSettled
<1>6. CASE Net
  <2>1. step \notin {"nvs", "count", "led"} /\ step' = step /\ caller' = caller /\ Next
    BY <1>6 DEF Net, ledVars
  <2>2. NetSettled => NetSettled'
    BY <2>1, StaysSettled
  <2> QED BY <2>1, <2>2
<1>7. CASE LedTask
  <2>1. step' = step /\ main' = main
    BY <1>7 DEF LedTask, netVars, vars
  <2>2. led # "none" /\ caller' = caller
    BY <1>7 DEF LedTask, Led!Task, Led!Take, Led!Read, Led!Blink, Led!TakeAgain, Led!Clear,
                Led!Show
  <2> QED BY <2>1, <2>2 DEF NetSettled
<1>8. CASE Restart
  BY <1>8 DEF Restart, RamCleared
<1>9. CASE UNCHANGED startupVars
  BY <1>9 DEF startupVars, netVars, vars, ledVars, NetSettled
<1> QED BY <1>1, <1>2, <1>3, <1>4, <1>5, <1>6, <1>7, <1>8, <1>9 DEF StartupNext, AppMain

LEMMA IInvStep == IInv /\ [StartupNext]_startupVars => IInv'
<1> SUFFICES ASSUME IInv, [StartupNext]_startupVars PROVE IInv'
  OBVIOUS
<1> USE DEF IInv
<1>1. BootInv' /\ OrderInv'
  BY BootStep, OrderStep
<1>2. NetInv'
  <2>1. CASE Net
    BY <2>1, NetStep DEF Net
  <2>2. CASE Restart
    <3>1. Init'
      BY <2>2 DEF Restart, RamCleared, Init
    <3>2. Init' => NetInv'
      BY NetInit, PTL
    <3> QED BY <3>1, <3>2
  <2>3. CASE UNCHANGED netVars
    BY <2>3, NetUnchanged
  <2> QED BY <2>1, <2>2, <2>3
          DEF StartupNext, AppMain, InitFlash, CountBoot, InitLed, NetReturns, SignalNetwork,
              LedTask, startupVars
<1>3. LedInv'
  <2>1. CASE InitLed \/ LedTask \/ SignalNetwork
    BY <2>1, LedStep DEF InitLed, LedTask, SignalNetwork
  <2>2. CASE Restart
    <3>1. Led!Init'
      BY <2>2 DEF Restart, RamCleared, Led!Init
    <3>2. Led!Init' => LedInv'
      BY LedInit, PTL
    <3> QED BY <3>1, <3>2
  <2>3. CASE UNCHANGED ledVars
    BY <2>3, LedUnchanged
  <2> QED BY <2>1, <2>2, <2>3
          DEF StartupNext, AppMain, InitFlash, CountBoot, NetReturns, Net, startupVars
<1> QED BY <1>1, <1>2, <1>3

LEMMA IInvHolds == StartupSpec => []IInv
BY StartupInitIInv, IInvStep, PTL DEF StartupSpec

-----------------------------------------------------------------------------
(* What the board may rely on, however often it restarts. *)

\* Type correctness of app_main with everything it starts, the queue of events and the
\* counts included: at most three events wait for the event loop, and no boot count is
\* above the number of boots.
THEOREM StartupTypeCorrect == StartupSpec => []StartupTypeOK
<1>1. IInv => StartupTypeOK
  <2> SUFFICES ASSUME IInv PROVE StartupTypeOK
    OBVIOUS
  <2>1. TypeOK /\ Led!LedTypeOK
    BY DEF IInv, NetInv, LedInv
  <2>2. step \in {"nvs", "count", "led", "net", "signal", "loop"}
    BY DEF IInv, OrderInv
  <2>3. restarts \in 0..MaxRestarts /\ {flash, written, bootcount, previous} \subseteq 0..(MaxRestarts + 1)
    BY MaxRestartsAssumption DEF IInv, BootInv
  <2> QED BY <2>1, <2>2, <2>3 DEF StartupTypeOK
<1> QED BY <1>1, IInvHolds, PTL

\* wait_for_connection falls back to an access point only on a board that never had an
\* address, even if the bits for gained and lost are both there when the main task wakes.
THEOREM AccessPointOnlyIfNeverOnline == StartupSpec => []FallbackOnlyIfNeverOnline
<1>1. IInv => FallbackOnlyIfNeverOnline
  BY DEF IInv, NetInv, MainInv, FallbackOnlyIfNeverOnline
<1> QED BY <1>1, IInvHolds, PTL

\* on_wifi_event never leaves the station idle with nothing to wake it up, unless it has
\* set the failed bit: a disconnection always leads to another attempt or to that bit.
THEOREM NeverIdleByMistake == StartupSpec => []IdleMeansGaveUp
<1>1. IInv => IdleMeansGaveUp
  BY DEF IInv, NetInv, MainInv, GaveUp, IdleMeansGaveUp
<1> QED BY <1>1, IInvHolds, PTL

\* The boot count read back after a restart is never below that of the boot before, at
\* whatever point of init_nvs or after it the board went down.
THEOREM BootcountMonotonic == StartupSpec => []BootcountNeverFalls
<1>1. IInv => BootcountNeverFalls
  BY DEF IInv, BootInv, BootcountNeverFalls
<1> QED BY <1>1, IInvHolds, PTL

\* The LED's task answers a signal with one double blink, and shows none before the
\* board is on a network.
THEOREM OneBlinkPerSignal == StartupSpec => []BlinksOnce
<1>1. IInv => BlinksOnce
  <2> SUFFICES ASSUME IInv PROVE BlinksOnce
    OBVIOUS
  <2>1. blinks <= 1
    BY DEF IInv, LedInv
  <2>2. blinks = 1 \/ led = "blink" => caller = "signalled"
    BY DEF IInv, LedInv
  <2>3. caller = "signalled" => main \in {"serving", "ap"}
    BY DEF IInv, OrderInv, NetSettled
  <2> QED BY <2>1, <2>2, <2>3 DEF BlinksOnce
<1> QED BY <1>1, IInvHolds, PTL

\* The failed bit is set by on_wifi_event only, when the first attempt and MaxRetry more
\* have failed since the last address.
THEOREM GivesUpOnlyAfterRetries == StartupSpec => GivesUpAfterRetries
<1>1. IInv /\ IInv' /\ [StartupNext]_startupVars
        => [bits' # bits /\ "fail" \in bits' => failures' = MaxRetry + 1]_vars
  BY DEF IInv, NetInv, CountInv, GaveUp
<1>2. IInv /\ [StartupNext]_startupVars => IInv'
  BY IInvStep
<1> QED BY <1>1, <1>2, IInvHolds, PTL DEF StartupSpec, GivesUpAfterRetries

-----------------------------------------------------------------------------
(* The board next to the page is still the board. *)

\* The page only looks at the board: its steps and the seconds leave every variable of
\* app_main, the network and the LED alone.
THEOREM BoardUnderPage == WebsiteSpec => StartupSpec
<1>1. WebsiteInit => StartupInit
  BY DEF WebsiteInit
<1>2. [WebsiteNext]_websiteVars => [StartupNext]_startupVars
  BY DEF WebsiteNext, websiteVars
<1> QED BY <1>1, <1>2, PTL DEF WebsiteSpec, StartupSpec

-----------------------------------------------------------------------------
(* The heartbeats under way. *)

Beats == [age : 0..Limit, answered : BOOLEAN]

LEMMA LimitIsNat == Limit \in Nat /\ Limit > Period /\ Period \in Nat \ {0}
                    /\ Timeout \in Nat \ {0} /\ MaxAsked \in Nat \ {0}
                    /\ Limit = Period + Timeout
BY WebsiteAssumption DEF Limit

LEMMA BeatIsABeat == Beat \in Beats
BY LimitIsNat DEF Beat, Beats

\* Taking one out leaves the others.
LEMMA RemoveAtType ==
  ASSUME NEW S, NEW s \in Seq(S), NEW i \in DOMAIN s
  PROVE  RemoveAt(s, i) \in Seq(S) /\ Len(RemoveAt(s, i)) = Len(s) - 1
<1> DEFINE l == SubSeq(s, 1, i - 1)
           r == SubSeq(s, i + 1, Len(s))
<1>1. i \in 1..Len(s) /\ Len(s) \in Nat
  BY LenProperties
<1>2. \A j \in 1..Len(s) : s[j] \in S
  BY ElementOfSeq
<1>3. l \in Seq(S) /\ Len(l) = i - 1
  <2>1. \A j \in 1..(i - 1) : s[j] \in S
    BY <1>1, <1>2
  <2>2. 1 \in Int /\ i - 1 \in Int
    BY <1>1
  <2>3. l \in Seq(S) /\ Len(l) = IF 1 <= i - 1 THEN (i - 1) - 1 + 1 ELSE 0
    BY <2>1, <2>2, SubSeqProperties
  <2> QED BY <1>1, <2>3
<1>4. r \in Seq(S) /\ Len(r) = Len(s) - i
  <2>1. \A j \in (i + 1)..Len(s) : s[j] \in S
    BY <1>1, <1>2
  <2>2. i + 1 \in Int /\ Len(s) \in Int
    BY <1>1
  <2>3. r \in Seq(S) /\ Len(r) = IF i + 1 <= Len(s) THEN Len(s) - (i + 1) + 1 ELSE 0
    BY <2>1, <2>2, SubSeqProperties
  <2> QED BY <1>1, <2>3
<1> HIDE DEF l, r
<1>5. l \o r \in Seq(S) /\ Len(l \o r) = Len(l) + Len(r)
  BY <1>3, <1>4, ConcatProperties
<1>6. RemoveAt(s, i) = l \o r
  BY DEF RemoveAt, l, r
<1>7. Len(l) + Len(r) = Len(s) - 1
  BY <1>1, <1>3, <1>4
<1> DEFINE rest == l \o r
<1>8. rest \in Seq(S) /\ Len(rest) = Len(s) - 1
  BY <1>5, <1>7
<1> HIDE DEF rest
<1>9. RemoveAt(s, i) = rest
  BY <1>6 DEF rest
<1> QED BY <1>8, <1>9

LEMMA RemoveTheOnlyOne == ASSUME NEW b PROVE RemoveAt(<<b>>, 1) = <<>>
<1> DEFINE s == <<b>>
           S == {b}
<1>1. s \in Seq(S) /\ 1 \in DOMAIN s /\ Len(s) = 1
  OBVIOUS
<1> HIDE DEF s, S
<1>2. RemoveAt(s, 1) \in Seq(S) /\ Len(RemoveAt(s, 1)) = 0
  BY <1>1, RemoveAtType
<1>3. RemoveAt(s, 1) = <<>>
  BY <1>2, EmptySeq
<1> QED BY <1>3 DEF s

-----------------------------------------------------------------------------
(* Types *)

PageTypeOK ==
  /\ mmodel \in {"loading", "told", "NotConnected", "Connected"}
  /\ status \in {"initial", "okay", "errored"}
  /\ since \in 0..Period /\ silence \in 0..(Limit + 1)
  /\ asked \in Seq(Beats) /\ Len(asked) <= MaxAsked

LEMMA PageTypeInit == WebsiteInit => PageTypeOK
<1> SUFFICES ASSUME WebsiteInit PROVE PageTypeOK
  OBVIOUS
<1>1. since \in 0..Period /\ silence \in 0..(Limit + 1)
  BY LimitIsNat DEF WebsiteInit
<1>2. asked \in Seq(Beats) /\ Len(asked) <= MaxAsked
  BY LimitIsNat DEF WebsiteInit
<1> QED BY <1>1, <1>2 DEF WebsiteInit, PageTypeOK

LEMMA PageTypeStep == PageTypeOK /\ [WebsiteNext]_websiteVars => PageTypeOK'
<1> SUFFICES ASSUME PageTypeOK, [WebsiteNext]_websiteVars PROVE PageTypeOK'
  OBVIOUS
<1> USE LimitIsNat DEF PageTypeOK
<1>1. CASE AnswerSysinfo
  BY <1>1 DEF AnswerSysinfo
<1>2. CASE AnswerHeartbeat
  <2>1. PICK i \in DOMAIN asked : asked' = [asked EXCEPT ![i].answered = TRUE]
    BY <1>2 DEF AnswerHeartbeat
  <2>2. i \in 1..Len(asked) /\ asked[i] \in Beats
    BY ElementOfSeq, LenProperties
  <2>3. [asked[i] EXCEPT !.answered = TRUE] \in Beats
    BY <2>2 DEF Beats
  <2>4. asked' \in Seq(Beats) /\ Len(asked') = Len(asked)
    <3> DEFINE b == [asked[i] EXCEPT !.answered = TRUE]
    <3>1. asked' = [asked EXCEPT ![i] = b]
      BY <2>1
    <3> HIDE DEF b
    <3>2. b \in Beats
      BY <2>3 DEF b
    <3> QED BY <2>2, <3>1, <3>2, ExceptSeq
  <2>5. silence' = 0 /\ UNCHANGED <<mmodel, status, since>>
    BY <1>2 DEF AnswerHeartbeat
  <2> QED BY <2>4, <2>5
<1>3. CASE SysinfoReceived
  <2>1. <<Beat>> \in Seq(Beats) /\ Len(<<Beat>>) = 1
    BY BeatIsABeat
  <2>2. since' \in 0..Period /\ silence' = silence /\ status' \in {status, "initial"}
    BY <1>3 DEF SysinfoReceived
  <2>3. asked' = <<Beat>> \/ asked' = asked
    BY <1>3 DEF SysinfoReceived
  <2>4. asked' \in Seq(Beats) /\ Len(asked') <= MaxAsked
    <3>1. CASE asked' = <<Beat>>
      BY <2>1, <3>1
    <3>2. CASE asked' = asked
      BY <3>2
    <3> QED BY <2>3, <3>1, <3>2
  <2>5. mmodel' \in {"NotConnected", "Connected"}
    BY <1>3 DEF SysinfoReceived
  <2> QED BY <2>2, <2>4, <2>5
<1>4. CASE Reload
  <2>1. <<>> \in Seq(Beats) /\ Len(<<>>) = 0
    OBVIOUS
  <2> QED BY <1>4, <2>1 DEF Reload
<1>5. CASE HeartbeatTick
  <2>1. Append(asked, Beat) \in Seq(Beats) /\ Len(Append(asked, Beat)) = Len(asked) + 1
    BY BeatIsABeat, AppendProperties
  <2> QED BY <1>5, <2>1, LenProperties DEF HeartbeatTick
<1>6. CASE HeartbeatReceived
  <2>1. PICK i \in DOMAIN asked : asked' = RemoveAt(asked, i) /\ status' \in {"okay", "errored"}
    BY <1>6 DEF HeartbeatReceived
  <2>2. asked' \in Seq(Beats) /\ Len(asked') = Len(asked) - 1
    BY <2>1, RemoveAtType
  <2>3. Len(asked') <= MaxAsked
    BY <2>2, LenProperties
  <2> QED BY <1>6, <2>1, <2>2, <2>3 DEF HeartbeatReceived
<1>7. CASE Second
  <2> DEFINE older(i) == [asked[i] EXCEPT !.age = IF @ < Limit THEN @ + 1 ELSE @]
  <2>1. since' = (IF since < Period THEN since + 1 ELSE since)
        /\ silence' = (IF silence <= Limit THEN silence + 1 ELSE silence)
        /\ UNCHANGED <<mmodel, status>>
    BY <1>7 DEF Second
  <2>2. asked' = [i \in DOMAIN asked |-> older(i)]
    BY <1>7 DEF Second
  <2>3. Len(asked) \in Nat /\ DOMAIN asked = 1..Len(asked)
    BY LenProperties
  <2>4. ASSUME NEW i \in 1..Len(asked) PROVE older(i) \in Beats
    <3>1. asked[i] \in Beats
      BY <2>3, ElementOfSeq
    <3>2. asked[i].age \in 0..Limit
      BY <3>1 DEF Beats
    <3>3. (IF asked[i].age < Limit THEN asked[i].age + 1 ELSE asked[i].age) \in 0..Limit
      BY <3>2
    <3> QED BY <3>1, <3>3 DEF Beats
  <2> HIDE DEF older
  <2>5. asked' \in Seq(Beats) /\ Len(asked') = Len(asked)
    <3>1. asked' = [i \in 1..Len(asked) |-> older(i)]
      BY <2>2, <2>3
    <3> QED BY <2>3, <2>4, <3>1
  <2> QED BY <2>1, <2>5
<1>8. CASE UNCHANGED pageVars
  BY <1>8 DEF pageVars
<1> QED BY <1>1, <1>2, <1>3, <1>4, <1>5, <1>6, <1>7, <1>8 DEF WebsiteNext, websiteVars, Page

\* Type correctness of page and board together: the page never has more heartbeats
\* under way than MaxAsked, and none is older than the longest time it can matter.
THEOREM WebsiteTypeCorrect == WebsiteSpec => []WebsiteTypeOK
<1>1. WebsiteSpec => []PageTypeOK
  BY PageTypeInit, PageTypeStep, PTL DEF WebsiteSpec
<1>2. PageTypeOK /\ StartupTypeOK => WebsiteTypeOK
  BY DEF PageTypeOK, Beats, WebsiteTypeOK
<1> QED BY <1>1, <1>2, BoardUnderPage, StartupTypeCorrect, PTL

-----------------------------------------------------------------------------
(* The badge.  A heartbeat is over before the next one is due if the page    *)
(* waits for less time than lies between two ticks, as Api.elm and Main.elm  *)
(* do; then answers cannot overtake each other.                              *)

\* There is at most one heartbeat, asked for at the last tick.  What it was answered,
\* and what an "okay" was told, is as old as the time since then allows.
BeatInv ==
  /\ \/ asked = <<>>
     \/ /\ \E a \in BOOLEAN : asked = <<[age |-> since, answered |-> a]>>
        /\ since <= Timeout /\ mmodel = "Connected"
  /\ asked # <<>> => (asked[1].answered => silence <= since)
  /\ mmodel = "Connected" /\ status = "initial" => asked # <<>>
  /\ mmodel = "Connected" /\ status = "okay"
       => IF asked = <<>> THEN silence <= since ELSE silence <= since + Period

LEMMA OnlyBeat ==
  ASSUME NEW b
  PROVE  /\ <<b>> # <<>> /\ <<b>>[1] = b /\ DOMAIN <<b>> = {1} /\ Len(<<b>>) = 1
         /\ \A c : [<<b>> EXCEPT ![1] = c] = <<c>>
<1>1. <<b>> # <<>> /\ <<b>>[1] = b /\ DOMAIN <<b>> = {1} /\ Len(<<b>>) = 1
  OBVIOUS
<1>2. ASSUME NEW c PROVE [<<b>> EXCEPT ![1] = c] = <<c>>
  OBVIOUS
<1> QED BY <1>1, <1>2

LEMMA AnsweredBeat ==
  ASSUME NEW n, NEW a, NEW t
  PROVE  [[age |-> n, answered |-> a] EXCEPT !.answered = t] = [age |-> n, answered |-> t]
OBVIOUS

LEMMA BeatStep ==
  ASSUME Timeout < Period
  PROVE  PageTypeOK /\ BeatInv /\ [WebsiteNext]_websiteVars => BeatInv'
<1> SUFFICES ASSUME PageTypeOK, BeatInv, [WebsiteNext]_websiteVars PROVE BeatInv'
  OBVIOUS
<1>0. since \in 0..Period /\ silence \in 0..(Limit + 1)
  BY DEF PageTypeOK
<1>1. CASE AnswerSysinfo
  BY <1>1 DEF AnswerSysinfo, BeatInv
<1>2. CASE AnswerHeartbeat
  <2>1. PICK i \in DOMAIN asked : asked' = [asked EXCEPT ![i].answered = TRUE]
    BY <1>2 DEF AnswerHeartbeat
  <2>2. asked # <<>>
    BY <2>1
  <2>3. PICK a \in BOOLEAN : asked = <<[age |-> since, answered |-> a]>>
    BY <2>2 DEF BeatInv
  <2>4. i = 1
    BY <2>1, <2>3, OnlyBeat
  <2>5. asked' = <<[age |-> since, answered |-> TRUE]>>
    <3> DEFINE b == [age |-> since, answered |-> a]
               c == [b EXCEPT !.answered = TRUE]
    <3>1. c = [age |-> since, answered |-> TRUE]
      BY AnsweredBeat
    <3>2. asked' = [<<b>> EXCEPT ![1] = c]
      BY <2>1, <2>3, <2>4, OnlyBeat
    <3> HIDE DEF b, c
    <3>3. asked' = <<c>>
      BY <3>2, OnlyBeat
    <3> QED BY <3>1, <3>3
  <2>6. silence' = 0 /\ UNCHANGED <<mmodel, status, since>>
    BY <1>2 DEF AnswerHeartbeat
  <2>7. asked' # <<>> /\ since <= Timeout /\ mmodel = "Connected"
    BY <2>2, <2>5, OnlyBeat DEF BeatInv
  <2>8. 0 <= since /\ 0 <= since + Period
    BY <1>0, LimitIsNat
  <2> QED BY <2>5, <2>6, <2>7, <2>8 DEF BeatInv
<1>3. CASE SysinfoReceived
  <2>1. CASE mmodel = "told"
    <3>1. mmodel' = "Connected" /\ status' = "initial" /\ since' = 0 /\ asked' = <<Beat>>
      BY <1>3, <2>1 DEF SysinfoReceived
    <3>2. asked' = <<[age |-> 0, answered |-> FALSE]>>
      BY <3>1 DEF Beat
    <3>3. asked' # <<>> /\ ~asked'[1].answered /\ 0 <= Timeout
      BY <3>2, OnlyBeat, LimitIsNat
    <3> QED BY <3>1, <3>2, <3>3 DEF BeatInv
  <2>2. CASE mmodel = "loading"
    <3>1. mmodel' = "NotConnected" /\ UNCHANGED <<status, since, asked, silence>>
      BY <1>3, <2>2 DEF SysinfoReceived
    <3>2. asked = <<>>
      BY <2>2 DEF BeatInv
    <3> QED BY <3>1, <3>2 DEF BeatInv
  <2> QED BY <1>3, <2>1, <2>2 DEF SysinfoReceived
<1>4. CASE Reload
  BY <1>4 DEF Reload, BeatInv
<1>5. CASE HeartbeatTick
  <2>1. since = Period /\ since' = 0 /\ asked' = Append(asked, Beat) /\ mmodel = "Connected"
        /\ UNCHANGED <<mmodel, status, silence>>
    BY <1>5 DEF HeartbeatTick
  <2>2. asked = <<>>
    BY <2>1, LimitIsNat DEF BeatInv
  <2>3. asked' = <<[age |-> since', answered |-> FALSE]>>
    BY <2>1, <2>2 DEF Beat
  <2>4. asked' # <<>> /\ ~asked'[1].answered
    BY <2>3, OnlyBeat
  <2>5. status' = "okay" => silence' <= since' + Period
    BY <2>1, <2>2, LimitIsNat DEF BeatInv
  <2>6. since' <= Timeout /\ mmodel' = "Connected"
    BY <2>1, LimitIsNat
  <2> QED BY <2>3, <2>4, <2>5, <2>6 DEF BeatInv
<1>6. CASE HeartbeatReceived
  <2>1. PICK i \in DOMAIN asked : /\ \/ asked[i].answered /\ status' = "okay"
                                     \/ status' = "errored"
                                  /\ asked' = RemoveAt(asked, i)
    BY <1>6 DEF HeartbeatReceived
  <2>2. asked # <<>>
    BY <2>1
  <2>3. PICK a \in BOOLEAN : asked = <<[age |-> since, answered |-> a]>>
    BY <2>2 DEF BeatInv
  <2>4. i = 1
    BY <2>1, <2>3, OnlyBeat
  <2>5. asked' = <<>>
    BY <2>1, <2>3, <2>4, RemoveTheOnlyOne
  <2>6. status' = "okay" => silence <= since
    BY <2>1, <2>2, <2>4 DEF BeatInv
  <2>7. UNCHANGED <<mmodel, since, silence>> /\ status' # "initial"
    BY <1>6, <2>1 DEF HeartbeatReceived
  <2> QED BY <2>5, <2>6, <2>7 DEF BeatInv
<1>7. CASE Second
  <2>1. mmodel = "Connected" /\ UNCHANGED <<mmodel, status>>
    BY <1>7 DEF Second
  <2>2. silence' = silence \/ silence' = silence + 1
    BY <1>7 DEF Second
  <2>3. CASE asked = <<>>
    <3>1. Len(asked) # MaxAsked
      BY <2>3, LimitIsNat
    <3>2. since' = since + 1
      BY <1>7, <3>1 DEF Second
    <3>3. asked' = <<>>
      <4>1. DOMAIN asked = {}
        BY <2>3
      <4>2. asked' = [i \in DOMAIN asked |->
                        [asked[i] EXCEPT !.age = IF @ < Limit THEN @ + 1 ELSE @]]
        BY <1>7 DEF Second
      <4> QED BY <2>3, <4>1, <4>2
    <3>4. status = "okay" => silence <= since
      BY <2>1, <2>3 DEF BeatInv
    <3>5. status # "initial"
      BY <2>1, <2>3 DEF BeatInv
    <3>6. status' = "okay" => silence' <= since'
      BY <1>0, <2>1, <2>2, <3>2, <3>4
    <3> QED BY <2>1, <3>3, <3>5, <3>6 DEF BeatInv
  <2>4. CASE asked # <<>>
    <3>1. PICK a \in BOOLEAN : asked = <<[age |-> since, answered |-> a]>>
      BY <2>4 DEF BeatInv
    <3>2. since < Timeout
      BY <1>7, <3>1, OnlyBeat, <1>0, LimitIsNat DEF Second, Due
    <3>3. since' = since + 1 /\ since < Limit
      BY <1>0, <1>7, <3>2, LimitIsNat DEF Second
    <3>4. asked' = <<[age |-> since', answered |-> a]>>
      <4> DEFINE b == [age |-> since, answered |-> a]
                 c == [b EXCEPT !.age = IF b.age < Limit THEN b.age + 1 ELSE b.age]
      <4>1. c = [age |-> since', answered |-> a]
        BY <3>3
      <4>2. asked' = [i \in DOMAIN asked |->
                        [asked[i] EXCEPT !.age = IF @ < Limit THEN @ + 1 ELSE @]]
        BY <1>7 DEF Second
      <4>3. asked = <<b>>
        BY <3>1
      <4>4. DOMAIN asked = {1} /\ asked[1] = b
        BY <4>3, OnlyBeat
      <4>5. asked' = [i \in {1} |-> c]
        BY <4>2, <4>4
      <4> HIDE DEF b, c
      <4>6. [i \in {1} |-> c] = <<c>>
        OBVIOUS
      <4> QED BY <4>1, <4>5, <4>6
    <3>5. asked' # <<>> /\ asked'[1].answered = a /\ asked[1].answered = a
      BY <3>1, <3>4, OnlyBeat
    <3>6. asked'[1].answered => silence' <= since'
      <4>1. a => silence <= since
        BY <2>4, <3>5 DEF BeatInv
      <4> QED BY <1>0, <2>2, <3>3, <3>5, <4>1
    <3>7. status = "okay" => silence <= since + Period
      BY <2>1, <2>4 DEF BeatInv
    <3>8. status' = "okay" => silence' <= since' + Period
      BY <1>0, <2>1, <2>2, <3>3, <3>7, LimitIsNat
    <3>9. since' <= Timeout
      BY <1>0, <3>2, <3>3, LimitIsNat
    <3> QED BY <2>1, <3>4, <3>5, <3>6, <3>8, <3>9 DEF BeatInv
  <2> QED BY <2>3, <2>4
<1>8. CASE UNCHANGED pageVars
  BY <1>8 DEF pageVars, BeatInv
<1> QED BY <1>1, <1>2, <1>3, <1>4, <1>5, <1>6, <1>7, <1>8 DEF WebsiteNext, websiteVars, Page

\* HeartbeatReceived never shows "Connected" for a board that was silent for longer than
\* Period + Timeout seconds, for every period and every shorter timeout.
THEOREM BadgeTellsTheTruth ==
  ASSUME Timeout < Period
  PROVE  WebsiteSpec => []BadgeIsTrue
<1>1. WebsiteInit => BeatInv
  BY DEF WebsiteInit, BeatInv
<1>2. PageTypeOK /\ BeatInv /\ [WebsiteNext]_websiteVars => BeatInv'
  BY BeatStep
<1>3. PageTypeOK /\ BeatInv => BadgeIsTrue
  <2> SUFFICES ASSUME PageTypeOK, BeatInv, mmodel = "Connected"
               PROVE  /\ status = "okay" => silence <= Limit
                      /\ status = "initial" => since <= Timeout
    BY DEF BadgeIsTrue
  <2>1. since \in 0..Period /\ silence \in 0..(Limit + 1)
    BY DEF PageTypeOK
  <2>2. status = "initial" => since <= Timeout
    BY DEF BeatInv
  <2>3. status = "okay" => silence <= Limit
    <3>1. CASE asked = <<>>
      <4>1. status = "okay" => silence <= since
        BY <3>1 DEF BeatInv
      <4> QED BY <2>1, <4>1, LimitIsNat
    <3>2. CASE asked # <<>>
      <4>1. (status = "okay" => silence <= since + Period) /\ since <= Timeout
        BY <3>2 DEF BeatInv
      <4> QED BY <2>1, <4>1, LimitIsNat
    <3> QED BY <3>1, <3>2
  <2> QED BY <2>2, <2>3
<1> QED BY <1>1, <1>2, <1>3, PageTypeInit, PageTypeStep, PTL DEF WebsiteSpec
=============================================================================
