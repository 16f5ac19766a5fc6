------------------------------- MODULE Startup -------------------------------
(***************************************************************************)
(* app_main from its first line to its last, restarts included: the boot   *)
(* count in flash, the LED's task, the network, and the signal to the LED. *)
(* What it constructs between the network and the signal is DebugBoard's.  *)
(* ESP_ERROR_CHECK of a failure restarts the board, and so does a power    *)
(* cut at any time.                                                        *)
(*                                                                         *)
(* NVS is external: a value that was set without a commit may or may not   *)
(* be there after a restart.                                               *)
(***************************************************************************)
EXTENDS ConnectionManager

CONSTANT MaxRestarts   \* restarts of the board (bound)

ASSUME MaxRestartsAssumption == MaxRestarts \in Nat

VARIABLES step,          \* where app_main is
          restarts,
          flash,         \* the boot count that is sure to be in flash, 0 if none
          written,       \* the one nvs_set_u32 stored without a commit
          bootcount,     \* common.cpp; 0 until it is known
          previous,      \* that of the boot before, since flash was last erased
          led, mux, new_connection, option, wifi_conn, caller, blinks

Led == INSTANCE StatusLed

netVars  == vars
ledVars  == <<led, mux, new_connection, option, wifi_conn, caller, blinks>>
bootVars == <<flash, written, bootcount, previous>>
startupVars == <<netVars, step, restarts, bootVars, ledVars>>

StartupInit ==
  /\ Init /\ Led!Init
  /\ step = "nvs" /\ restarts = 0
  /\ flash = 0 /\ written = 0 /\ bootcount = 0 /\ previous = 0

\* What is in RAM is gone: Init and Led!Init again.
RamCleared ==
  /\ main' = "init" /\ sta' = "idle" /\ events' = <<>>
  /\ s_retry_num' = 0 /\ bits' = {} /\ failures' = 0 /\ had_address' = FALSE
  /\ led' = "none" /\ mux' = "free" /\ new_connection' = FALSE
  /\ option' = "OFF" /\ wifi_conn' = FALSE /\ caller' = "before" /\ blinks' = 0

Restart ==
  /\ restarts < MaxRestarts /\ restarts' = restarts + 1
  /\ RamCleared /\ step' = "nvs"
  /\ flash' \in {flash, written} /\ written' = flash'
  /\ previous' = IF bootcount = 0 THEN previous ELSE bootcount
  /\ bootcount' = 0

-----------------------------------------------------------------------------
(* init_nvs.  Every error it returns is a Restart. *)

\* nvs_flash_init, with the erasure when there are no free pages or another version.
InitFlash ==
  /\ step = "nvs" /\ step' = "count"
  /\ \/ UNCHANGED bootVars
     \/ flash' = 0 /\ written' = 0 /\ previous' = 0 /\ UNCHANGED bootcount
  /\ UNCHANGED <<netVars, restarts, ledVars>>

\* A count that is not there is 0; any other failure to read it is an error.
\* (Slip: every failure to read is taken for a count that is not there.)
ReadOrNot == {flash, 0}
ReadCount == {flash}
CountBoot ==
  /\ step = "count" /\ step' = "led"
  /\ \E n \in ReadCount : bootcount' = n + 1
  /\ written' = bootcount'
  /\ UNCHANGED <<netVars, restarts, flash, previous, ledVars>>

-----------------------------------------------------------------------------
InitLed ==
  /\ step = "led" /\ step' = "net"
  /\ Led!Create
  /\ UNCHANGED <<netVars, restarts, bootVars>>

\* init_wifi_sta, and the driver and the event loop next to app_main.
Net ==
  /\ step \notin {"nvs", "count", "led"}
  /\ Next
  /\ UNCHANGED <<step, restarts, bootVars, ledVars>>

\* init_wifi_sta has returned.
NetSettled == main \in {"serving", "ap"}
NetReturns ==
  /\ step = "net" /\ NetSettled /\ step' = "signal"
  /\ UNCHANGED <<netVars, restarts, bootVars, ledVars>>

SignalNetwork ==
  /\ step = "signal" /\ Led!Signal
  /\ step' = IF caller' = "set" THEN "signal" ELSE "loop"
  /\ UNCHANGED <<netVars, restarts, bootVars>>

AppMain == InitFlash \/ CountBoot \/ InitLed \/ NetReturns \/ SignalNetwork

LedTask ==
  /\ Led!Task
  /\ UNCHANGED <<netVars, step, restarts, bootVars>>

StartupNext == AppMain \/ Net \/ LedTask \/ Restart

StartupSpec == StartupInit /\ [][StartupNext]_startupVars

\* app_main, the event loop and the LED's task run, the last one whenever all others
\* wait; the driver brings an attempt to its end (as the code relies on:
\* init_wifi_sta waits without a time limit).  Nothing has to restart.
StartupFairness ==
  /\ WF_startupVars(AppMain) /\ WF_startupVars(LedTask)
  /\ WF_startupVars(Net /\ (Start \/ Wake)) /\ WF_startupVars(Net /\ EventLoop)
  /\ WF_startupVars(Net /\ sta # "online" /\ Driver)

StartupFairSpec == StartupSpec /\ StartupFairness

-----------------------------------------------------------------------------
(* Properties *)

StartupTypeOK ==
  /\ TypeOK /\ Led!LedTypeOK
  /\ step \in {"nvs", "count", "led", "net", "signal", "loop"}
  /\ restarts \in 0..MaxRestarts
  /\ {flash, written, bootcount, previous} \subseteq 0..(MaxRestarts + 1)

\* The boot count does not fall from one boot to the next unless flash is erased,
\* although it is stored without a commit and a failed read looks like none.
BootcountNeverFalls == bootcount # 0 => bootcount >= previous

\* One signal makes one double blink, although the flag is read in one critical
\* section and cleared in another; none is seen before there is a network.
BlinksOnce ==
  /\ blinks <= 1
  /\ blinks = 1 \/ led = "blink" => main \in {"serving", "ap"}

\* Once it is about to join the network, app_main gets out of init_wifi_sta, as a
\* station or as an access point, and the LED shows it, unless the board restarts or
\* the signal gave up on the mutex.
StartupEnds ==
  step = "net" ~> blinks > 0 \/ caller = "gave up" \/ step = "nvs"
=============================================================================
