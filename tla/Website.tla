------------------------------- MODULE Website -------------------------------
(***************************************************************************)
(* The page of the website (Main.elm, Api.elm) next to the board it asks:  *)
(* the system information when it is loaded, then a heartbeat every Period *)
(* seconds, each given up after Timeout seconds, and the badge that shows  *)
(* what became of the last one.  The board is Startup, with its restarts   *)
(* and its network; what it answers is rest.cpp.  The radio may delay an   *)
(* answer for as long as it likes.                                         *)
(*                                                                         *)
(* Time passes in seconds, between which any number of steps may happen;   *)
(* a timer of the page that is due goes off before the next second.        *)
(***************************************************************************)
EXTENDS Startup, SequencesExt

CONSTANTS Period,    \* 3, of Time.every 3000
          Timeout,   \* 1, of getWithTimeout 1000
          MaxAsked   \* heartbeats under way at once (bound)

ASSUME WebsiteAssumption == {Period, Timeout, MaxAsked} \subseteq Nat \ {0}

VARIABLES mmodel,    \* "loading", "told" (the answer is on its way), "NotConnected"
                     \* after an error, or "Connected"
          status,    \* board_status: "initial" (StatusOkay with no uptime), "okay", "errored"
          since,     \* seconds since the page's last tick
          asked,     \* the heartbeats under way, oldest first
          silence    \* seconds since the board last answered one (counted to Limit + 1)

pageVars == <<mmodel, status, since, asked, silence>>
websiteVars == <<startupVars, pageVars>>

Limit == Period + Timeout

Beat == [age |-> 0, answered |-> FALSE]

WebsiteInit ==
  /\ StartupInit
  /\ mmodel = "loading" /\ status = "initial" /\ since = 0 /\ asked = <<>> /\ silence = 0

-----------------------------------------------------------------------------
(* The board *)

\* The web server is up when app_main has got past the network.
Reachable == step \in {"signal", "loop"} /\ (sta = "online" \/ main = "ap")

\* sysinfo_handler
AnswerSysinfo ==
  /\ mmodel = "loading" /\ Reachable /\ mmodel' = "told"
  /\ UNCHANGED <<status, since, asked, silence>>

\* heartbeat_handler
AnswerHeartbeat ==
  /\ Reachable
  /\ \E i \in DOMAIN asked : ~asked[i].answered /\ asked' = [asked EXCEPT ![i].answered = TRUE]
  /\ silence' = 0
  /\ UNCHANGED <<mmodel, status, since>>

-----------------------------------------------------------------------------
(* The page *)

\* SysinfoReceived.  The page shows StatusOkay at once, and asks for a heartbeat.
SysinfoReceived ==
  \/ /\ mmodel = "told" /\ mmodel' = "Connected"
     /\ status' = "initial" /\ since' = 0 /\ asked' = <<Beat>>
     /\ UNCHANGED silence
  \/ /\ mmodel = "loading" /\ ~Reachable /\ mmodel' = "NotConnected"
     /\ UNCHANGED <<status, since, asked, silence>>

\* A page that was told of an error asks again only when it is loaded again.
Reload ==
  /\ mmodel' = "loading" /\ mmodel # "loading"
  /\ status' = "initial" /\ since' = 0 /\ asked' = <<>>
  /\ UNCHANGED silence

\* HeatbeatTick
HeartbeatTick ==
  /\ mmodel = "Connected" /\ since = Period /\ Len(asked) < MaxAsked
  /\ since' = 0 /\ asked' = Append(asked, Beat)
  /\ UNCHANGED <<mmodel, status, silence>>

\* The time a heartbeat is given.  (Slip: without a limit, as the other requests.)
NeverDue(beat) == FALSE
Due(beat)      == beat.age >= Timeout

\* HeartbeatReceived: an answer, a network error or the timeout, in whatever order.
HeartbeatReceived ==
  /\ \E i \in DOMAIN asked :
       /\ \/ asked[i].answered /\ status' = "okay"
          \/ (~Reachable \/ Due(asked[i])) /\ status' = "errored"
       /\ asked' = RemoveAt(asked, i)
  /\ UNCHANGED <<mmodel, since, silence>>

\* One more second.
Second ==
  /\ mmodel = "Connected"
  /\ since < Period \/ Len(asked) = MaxAsked
  /\ \A i \in DOMAIN asked : ~Due(asked[i])
  /\ since' = IF since < Period THEN since + 1 ELSE since
  /\ asked' = [i \in DOMAIN asked |->
                 [asked[i] EXCEPT !.age = IF @ < Limit THEN @ + 1 ELSE @]]
  /\ silence' = IF silence <= Limit THEN silence + 1 ELSE silence
  /\ UNCHANGED <<mmodel, status>>

Page == \/ AnswerSysinfo \/ AnswerHeartbeat \/ SysinfoReceived \/ Reload
        \/ HeartbeatTick \/ HeartbeatReceived \/ Second

WebsiteNext == \/ StartupNext /\ UNCHANGED pageVars
               \/ Page /\ UNCHANGED startupVars

WebsiteSpec == WebsiteInit /\ [][WebsiteNext]_websiteVars

\* The board's tasks as in Startup; nothing is asked of the page or of time.
WebsiteFairSpec == WebsiteSpec /\ StartupFairness

-----------------------------------------------------------------------------
(* Properties *)

WebsiteTypeOK ==
  /\ StartupTypeOK
  /\ mmodel \in {"loading", "told", "NotConnected", "Connected"}
  /\ status \in {"initial", "okay", "errored"}
  /\ since \in 0..Period /\ silence \in 0..(Limit + 1)
  /\ asked \in Seq([age : 0..Limit, answered : BOOLEAN]) /\ Len(asked) <= MaxAsked

\* The badge says "Connected" only if the board answered a heartbeat within the last
\* Period + Timeout seconds, or, when the page is new, for no longer than Timeout:
\* however long answers take, whatever the network and the restarts of the board do,
\* no late answer ever covers up a newer error.
BadgeIsTrue ==
  mmodel = "Connected" =>
    /\ status = "okay" => silence <= Limit
    /\ status = "initial" => since <= Timeout
=============================================================================
