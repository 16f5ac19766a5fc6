------------------------------ MODULE StatusLed ------------------------------
(***************************************************************************)
(* status_led.cpp: the task that blinks the LED and the signal that there  *)
(* is a network, with the mutex between them.  A step ends where another   *)
(* task can get the processor.  An attempt to take the mutex gives up      *)
(* after half a second, which is possible only while the other task holds  *)
(* it.  Nothing calls status_led_set, so cur_opt keeps its first value.    *)
(***************************************************************************)
EXTENDS Integers

VARIABLES led,             \* where status_led_task_main is; "none" before its creation
          mux,             \* who holds the mutex: "free", "led" or "caller"
          new_connection,
          option, wifi_conn, \* the task's copies
          caller,          \* where status_led_signal_wifi_conn is
          blinks           \* double blinks shown (counted to 2)

cur_opt == "SETUP"

Init ==
  /\ led = "none" /\ mux = "free" /\ new_connection = FALSE
  /\ option = "OFF" /\ wifi_conn = FALSE
  /\ caller = "before" /\ blinks = 0

\* status_led_init.  Its last assignment, initialized, comes before the task's first
\* step, since the creator has the higher priority.
Create ==
  /\ led = "none" /\ led' = "take"
  /\ UNCHANGED <<mux, new_connection, option, wifi_conn, caller, blinks>>

-----------------------------------------------------------------------------
(* status_led_task_main *)

\* The blink goes before the pattern of the option.  (Slip: not before that of the
\* first one.)
BlinksUnlessSetup(conn, opt) == conn /\ opt # "SETUP"
Blinks(conn, opt)            == conn
Pattern(conn, opt) == IF Blinks(conn, opt) THEN "blink" ELSE "show"

\* Without the mutex the task goes on with what it has.
Take ==
  /\ led = "take"
  /\ \/ mux = "free" /\ mux' = "led" /\ led' = "read"
     \/ mux = "caller" /\ led' = Pattern(wifi_conn, option) /\ UNCHANGED mux
  /\ UNCHANGED <<new_connection, option, wifi_conn, caller, blinks>>

Read ==
  /\ led = "read"
  /\ option' = cur_opt /\ wifi_conn' = new_connection
  /\ mux' = "free"
  /\ led' = Pattern(wifi_conn', option')
  /\ UNCHANGED <<new_connection, caller, blinks>>

Blink ==
  /\ led = "blink" /\ led' = "take again"
  /\ blinks' = IF blinks < 2 THEN blinks + 1 ELSE blinks
  /\ UNCHANGED <<mux, new_connection, option, wifi_conn, caller>>

TakeAgain ==
  /\ led = "take again"
  /\ \/ mux = "free" /\ mux' = "led" /\ led' = "clear"
     \/ mux = "caller" /\ led' = "take" /\ UNCHANGED mux
  /\ UNCHANGED <<new_connection, option, wifi_conn, caller, blinks>>

\* (Slip: only the task's own copy is cleared.)
StillNew    == new_connection
NoLongerNew == FALSE
Clear ==
  /\ led = "clear" /\ led' = "take"
  /\ wifi_conn' = FALSE /\ new_connection' = NoLongerNew
  /\ mux' = "free"
  /\ UNCHANGED <<option, caller, blinks>>

\* The pattern of the option, which for all but CONNECTED leaves the LED dark.
Show ==
  /\ led = "show" /\ led' = "take"
  /\ UNCHANGED <<mux, new_connection, option, wifi_conn, caller, blinks>>

Task == Take \/ Read \/ Blink \/ TakeAgain \/ Clear \/ Show

-----------------------------------------------------------------------------
(* status_led_signal_wifi_conn *)

\* A signal that does not get the mutex in time is lost.
SignalTake ==
  /\ led # "none" /\ caller = "before"
  /\ \/ mux = "free" /\ mux' = "caller" /\ caller' = "set"
     \/ mux = "led" /\ caller' = "gave up" /\ UNCHANGED mux
  /\ UNCHANGED <<led, new_connection, option, wifi_conn, blinks>>

SignalSet ==
  /\ caller = "set" /\ caller' = "signalled"
  /\ new_connection' = TRUE /\ mux' = "free"
  /\ UNCHANGED <<led, option, wifi_conn, blinks>>

Signal == SignalTake \/ SignalSet

-----------------------------------------------------------------------------
LedTypeOK ==
  /\ led \in {"none", "take", "read", "blink", "take again", "clear", "show"}
  /\ mux \in {"free", "led", "caller"}
  /\ new_connection \in BOOLEAN /\ wifi_conn \in BOOLEAN
  /\ option \in {"OFF", "SETUP", "IDLE", "CONNECTED", "FAULTED"}
  /\ caller \in {"before", "set", "signalled", "gave up"}
  /\ blinks \in 0..2
=============================================================================
