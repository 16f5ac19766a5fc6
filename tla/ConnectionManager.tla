-------------------------- MODULE ConnectionManager --------------------------
(***************************************************************************)
(* How the board gets on the network: init_wifi_sta on the main task,      *)
(* on_wifi_event on the event loop's task, and between them the event      *)
(* group.  The Wi-Fi driver is external: it turns a connection request     *)
(* into an address or a disconnection, and may drop a connection.          *)
(***************************************************************************)
EXTENDS Integers, Sequences

CONSTANT MaxRetry   \* EXAMPLE_ESP_MAXIMUM_RETRY

ASSUME MaxRetryAssumption == MaxRetry \in Nat

VARIABLES main,         \* "init", "wait", "serving" (as a station) or "ap"
          sta,          \* the driver: "idle", "connecting", "associated", "online"
          events,       \* events on their way to on_wifi_event
          s_retry_num,
          bits,         \* s_wifi_event_group
          failures,     \* disconnections handled since the last address
          had_address   \* an address was reported at some time

vars == <<main, sta, events, s_retry_num, bits, failures, had_address>>

Init ==
  /\ main = "init" /\ sta = "idle" /\ events = <<>>
  /\ s_retry_num = 0 /\ bits = {}
  /\ failures = 0 /\ had_address = FALSE

-----------------------------------------------------------------------------
(* The driver *)

Associated ==
  /\ sta = "connecting" /\ sta' = "associated"
  /\ events' = Append(events, "connected")
  /\ UNCHANGED <<main, s_retry_num, bits, failures, had_address>>

GotAddress ==
  /\ sta = "associated" /\ sta' = "online"
  /\ events' = Append(events, "got_ip")
  /\ UNCHANGED <<main, s_retry_num, bits, failures, had_address>>

Disconnected ==
  /\ sta \in {"connecting", "associated", "online"} /\ sta' = "idle"
  /\ events' = Append(events, "disconnected")
  /\ UNCHANGED <<main, s_retry_num, bits, failures, had_address>>

-----------------------------------------------------------------------------
(* on_wifi_event *)

Handle(e) == events # <<>> /\ Head(events) = e /\ events' = Tail(events)

OnStart ==
  /\ Handle("sta_start")
  /\ sta' = "connecting"
  /\ UNCHANGED <<main, s_retry_num, bits, failures, had_address>>

\* (Slip: counted, but not tried.)
CountOnly == sta' = sta
Retry     == sta' = "connecting"

\* (Slip: one retry too many.)
RetriesLeftOrOne == s_retry_num <= MaxRetry
RetriesLeft      == s_retry_num < MaxRetry

OnDisconnected ==
  /\ Handle("disconnected")
  /\ IF RetriesLeft
     THEN Retry /\ s_retry_num' = s_retry_num + 1 /\ UNCHANGED bits
     ELSE bits' = bits \cup {"fail"} /\ UNCHANGED <<sta, s_retry_num>>
  /\ failures' = failures + 1
  /\ UNCHANGED <<main, had_address>>

\* (Slip: the count goes on over a successful connection.)
RetriesKept  == s_retry_num
RetriesReset == 0

OnGotIp ==
  /\ Handle("got_ip")
  /\ s_retry_num' = RetriesReset
  /\ bits' = bits \cup {"connected"}
  /\ failures' = 0 /\ had_address' = TRUE
  /\ UNCHANGED <<main, sta>>

\* Every other event of the driver finds no branch.
OnOther ==
  /\ Handle("connected")
  /\ UNCHANGED <<main, sta, s_retry_num, bits, failures, had_address>>

EventLoop == OnStart \/ OnDisconnected \/ OnGotIp \/ OnOther

-----------------------------------------------------------------------------
(* init_wifi_sta *)

Start ==
  /\ main = "init" /\ main' = "wait"
  /\ events' = Append(events, "sta_start")
  /\ UNCHANGED <<sta, s_retry_num, bits, failures, had_address>>

\* The connected bit is looked at first.  (Slip: the failed bit is.)
FailedAtAll == "fail" \in bits
FailedOnly  == "connected" \notin bits

\* xEventGroupWaitBits does not clear the bits.  Falling back deletes the event
\* loop and starts the driver as an access point.
Wake ==
  /\ main = "wait" /\ bits # {}
  /\ IF FailedOnly
     THEN main' = "ap" /\ events' = <<>> /\ sta' = "idle"
     ELSE main' = "serving" /\ UNCHANGED <<events, sta>>
  /\ UNCHANGED <<s_retry_num, bits, failures, had_address>>

\* The retries are used up, or the board is its own network: nothing more happens.
AtRest ==
  /\ main \in {"serving", "ap"} /\ sta = "idle" /\ events = <<>>
  /\ UNCHANGED vars

Driver == Associated \/ GotAddress \/ Disconnected
Next == Driver \/ EventLoop \/ Start \/ Wake \/ AtRest

Spec == Init /\ [][Next]_vars

-----------------------------------------------------------------------------
(* Properties *)

TypeOK ==
  /\ main \in {"init", "wait", "serving", "ap"}
  /\ sta \in {"idle", "connecting", "associated", "online"}
  /\ events \in Seq({"sta_start", "connected", "disconnected", "got_ip"}) /\ Len(events) <= 3
  /\ s_retry_num \in 0..MaxRetry
  /\ bits \subseteq {"connected", "fail"}
  /\ failures \in 0..(MaxRetry + 1) /\ had_address \in BOOLEAN

\* The board becomes an access point only if it never had an address, even when
\* the connection is gained and lost again before the main task looks at the bits.
FallbackOnlyIfNeverOnline == main = "ap" => ~had_address

\* It gives up only after the first attempt and MaxRetry retries failed in a row:
\* failures from before a successful connection do not count.
GivesUpAfterRetries == [][bits' # bits /\ "fail" \in bits' => failures' = MaxRetry + 1]_vars

\* While it has not given up it never just sits there disconnected: an attempt is
\* under way or the event that starts one is on its way.
IdleMeansGaveUp ==
  main # "init" /\ sta = "idle" => events # <<>> \/ "fail" \in bits
=============================================================================
