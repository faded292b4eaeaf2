------------------------------ MODULE WifiLink ------------------------------
(***************************************************************************)
(* A board's WiFi: the monitor that connects to the stored network and     *)
(* opens a fallback access point, the driver below it, provisioning over   *)
(* USB (Improv), settings saved from the web, and the restarts they        *)
(* schedule.                                                               *)
(*                                                                         *)
(* A network is one name: which of its nodes is strongest, avoided or      *)
(* roamed to changes nothing here, and neither do channels, passwords and  *)
(* signal strength.  One iteration of wifi_monitor up to its blocking scan *)
(* is one step; the scan takes seconds and other tasks run meanwhile.      *)
(* Elapsed times are flags: past the code's limit or not, and not while    *)
(* nobody reads them.  The access point starts when asked to, and a board  *)
(* in STA mode gets its monitor task: where either fails at boot, the code *)
(* goes on without, and nothing below holds.  Scans for the pages are left *)
(* out: on a board in STA mode they only take time.                        *)
(***************************************************************************)
EXTENDS Naturals

CONSTANTS
  Net,                                     \* networks a board may be told of
  Stored,                                  \* the one stored at first
  MaxProvisions, MaxSaves, MaxReboots,     \* bounds of the exploration
  MaxLost                                  \* links lost or refused

ASSUME WifiAssumption ==
  /\ Stored \in Net
  /\ MaxProvisions \in Nat /\ MaxSaves \in Nat /\ MaxReboots \in Nat /\ MaxLost \in Nat

VARIABLES
  config,      \* wifi_config.json: mode and network
  boot,        \* the same as read at boot (g_sta_mode, g_sta_ssid)
  iface,       \* WiFi.getMode(): which interfaces are on
  link,        \* the driver's STA: what it is doing, and with which network
  attempt,     \* g_attempt_active
  fallback,    \* g_fallback_ap
  monitor,     \* wifi_monitor: "none", "top", "scan" or "roam"
  wasUp, retry,                 \* its was_up and retry_now
  downLong, upLong, old, due,   \* 20 s down, 10 s up, the attempt 15 s old, backoff over
  prov,        \* wifi_improv_provision: "idle", "flag", "trying" or "done"
  provNet,     \* the network it was asked to try
  prevSta,     \* whether STA was on when it began
  scheduled,   \* g_restart_scheduled
  restarts,    \* restart tasks waiting
  lost, provisions, saves, reboots   \* bounded counters

timers == <<downLong, upLong, old, due>>
mon == <<monitor, wasUp, retry>>
improv == <<prov, provNet, prevSta, provisions>>
restarting == <<scheduled, restarts>>
vars == <<config, boot, iface, link, attempt, fallback, mon, timers, improv, restarting,
          lost, saves, reboots>>

Mode == {"STA", "AP"}
Down(n) == [at |-> "idle", net |-> n]
Connecting(n) == [at |-> "connecting", net |-> n]

Init ==
  /\ config \in [mode : Mode, net : {Stored}]
  /\ boot = config
  /\ iface = {boot.mode}
  /\ link = Down(Stored)
  /\ attempt = FALSE /\ fallback = FALSE
  /\ monitor = (IF boot.mode = "STA" THEN "top" ELSE "none")
  /\ wasUp = FALSE /\ retry = TRUE
  /\ downLong = FALSE /\ upLong = FALSE /\ old = FALSE /\ due = FALSE
  /\ prov = "idle" /\ provNet = Stored /\ prevSta = FALSE
  /\ scheduled = FALSE /\ restarts = 0
  /\ lost = 0 /\ provisions = 0 /\ saves = 0 /\ reboots = 0

Provisioning == prov # "idle"
-----------------------------------------------------------------------------
\* wifi_monitor.

\* Provisioning owns the STA interface: do nothing, and start the backoff anew.
StandsStill ==
  /\ monitor = "top" /\ Provisioning
  /\ due' = FALSE
  /\ UNCHANGED <<config, boot, iface, link, attempt, fallback, mon, downLong, upLong, old,
                 improv, restarting, lost, saves, reboots>>

\* Mutant: the time the link is up counts from the latest iteration.
UpAlwaysNew ==
  /\ monitor = "top" /\ ~Provisioning /\ link.at = "up"
  /\ wasUp' = TRUE
  /\ upLong' = FALSE
  /\ fallback' = (fallback /\ ~upLong')
  /\ iface' = IF fallback /\ upLong' THEN iface \ {"AP"} ELSE iface
  /\ downLong' = FALSE
  /\ \/ UNCHANGED monitor
     \/ ~fallback' /\ monitor' = "roam"
  /\ UNCHANGED <<config, boot, link, attempt, retry, old, due,
                 improv, restarting, lost, saves, reboots>>

\* The link is up: the fallback access point goes once it has been up for a
\* while; without one the monitor may look for a stronger node.
SeesUp ==
  /\ monitor = "top" /\ ~Provisioning /\ link.at = "up"
  /\ wasUp' = TRUE
  /\ upLong' = (upLong /\ wasUp)
  /\ fallback' = (fallback /\ ~upLong')
  /\ iface' = IF fallback /\ upLong' THEN iface \ {"AP"} ELSE iface
  /\ downLong' = FALSE
  /\ \/ UNCHANGED monitor
     \/ ~fallback' /\ monitor' = "roam"
  /\ UNCHANGED <<config, boot, link, attempt, retry, old, due,
                 improv, restarting, lost, saves, reboots>>

\* Mutant: an attempt without a result is live for ever.
LiveForEver == attempt

Live == attempt /\ ~old

\* Mutant: only the first retry after a loss is made.
RetriesOnce ==
  /\ monitor = "top" /\ ~Provisioning /\ link.at # "up"
  /\ wasUp' = FALSE
  /\ upLong' = FALSE /\ downLong' = (downLong /\ ~wasUp)
  /\ fallback' = (fallback \/ (~Live /\ downLong'))
  /\ iface' = IF fallback' /\ ~fallback THEN {"STA", "AP"} ELSE iface
  /\ IF ~Live /\ (retry \/ wasUp)
       THEN /\ monitor' = "scan" /\ retry' = FALSE
            /\ link' = Down(link.net)
       ELSE /\ retry' = (retry \/ wasUp)
            /\ UNCHANGED <<monitor, link>>
  /\ UNCHANGED <<config, boot, attempt, old, due,
                 improv, restarting, lost, saves, reboots>>

\* The link is not up.  After a while the fallback access point starts, and a
\* connect is tried at once after a loss, then whenever the backoff is over;
\* neither while an attempt is live.  sta_connect_best first cancels whatever
\* the driver started by itself.
SeesDown ==
  /\ monitor = "top" /\ ~Provisioning /\ link.at # "up"
  /\ wasUp' = FALSE
  /\ upLong' = FALSE /\ downLong' = (downLong /\ ~wasUp)
  /\ fallback' = (fallback \/ (~Live /\ downLong'))
  /\ iface' = IF fallback' /\ ~fallback THEN {"STA", "AP"} ELSE iface
  /\ IF ~Live /\ (retry \/ wasUp \/ due)
       THEN /\ monitor' = "scan" /\ retry' = FALSE
            /\ link' = Down(link.net)
       ELSE /\ retry' = (retry \/ wasUp)
            /\ UNCHANGED <<monitor, link>>
  /\ UNCHANGED <<config, boot, attempt, old, due,
                 improv, restarting, lost, saves, reboots>>

\* WiFi.begin with the stored network, whatever the STA is doing by now.
BeginsStored ==
  /\ link' = Connecting(boot.net)
  /\ iface' = iface \cup {"STA"}
  /\ attempt' = TRUE /\ old' = FALSE

\* sta_connect_best, after its scan.
Connects ==
  /\ monitor = "scan"
  /\ BeginsStored
  /\ due' = FALSE
  /\ monitor' = "top"
  /\ UNCHANGED <<config, boot, fallback, wasUp, retry, downLong, upLong,
                 improv, restarting, lost, saves, reboots>>

\* The roam scan is over: a stronger node was found and the link is still up, or not.
Roams ==
  /\ monitor = "roam"
  /\ monitor' = "top"
  /\ \/ link.at = "up" /\ BeginsStored
     \/ UNCHANGED <<link, iface, attempt, old>>
  /\ UNCHANGED <<config, boot, fallback, wasUp, retry, downLong, upLong, due,
                 improv, restarting, lost, saves, reboots>>

Monitor == StandsStill \/ SeesUp \/ SeesDown \/ Connects \/ Roams
-----------------------------------------------------------------------------
\* The driver and its event callbacks.

\* The STA gets an address; onWifiConnect ends the attempt.
LinkUp ==
  /\ link.at = "connecting"
  /\ link' = [link EXCEPT !.at = "up"]
  /\ attempt' = FALSE /\ old' = FALSE
  /\ UNCHANGED <<config, boot, iface, fallback, mon, downLong, upLong, due, improv,
                 restarting, lost, saves, reboots>>

\* The network refuses, vanishes or drops the link; onWifiDisconnect ends the
\* attempt.  The driver may try again by itself once.
LinkDown ==
  /\ lost < MaxLost
  /\ lost' = lost + 1
  /\ link.at # "idle"
  /\ link' \in {Down(link.net), Connecting(link.net)}
  /\ attempt' = FALSE /\ old' = FALSE
  /\ UNCHANGED <<config, boot, iface, fallback, mon, downLong, upLong, due, improv,
                 restarting, saves, reboots>>

\* Time passes for the monitor: one of its limits is reached.
Passes ==
  /\ monitor # "none"
  /\ UNCHANGED <<config, boot, iface, link, attempt, fallback, mon, improv, restarting,
                 lost, saves, reboots>>

DownTime == ~downLong /\ ~wasUp /\ downLong' = TRUE /\ Passes /\ UNCHANGED <<upLong, old, due>>
UpTime == ~upLong /\ wasUp /\ upLong' = TRUE /\ Passes /\ UNCHANGED <<downLong, old, due>>
AttemptTime == ~old /\ attempt /\ old' = TRUE /\ Passes /\ UNCHANGED <<downLong, upLong, due>>
BackoffTime == ~due /\ due' = TRUE /\ Passes /\ UNCHANGED <<downLong, upLong, old>>

Time == DownTime \/ UpTime \/ AttemptTime \/ BackoffTime
-----------------------------------------------------------------------------
\* Settings and restarts.

\* Mutant: every request starts a restart task.
RestartEachTime ==
  \/ scheduled' = TRUE /\ restarts' = restarts + 1
  \/ UNCHANGED <<scheduled, restarts>>

\* schedule_restart: the first request starts a task; if that fails, none was made.
ScheduleRestart ==
  IF scheduled THEN UNCHANGED <<scheduled, restarts>>
  ELSE \/ scheduled' = TRUE /\ restarts' = restarts + 1
       \/ UNCHANGED <<scheduled, restarts>>

\* wifi_save_sta, wifi_switch_to_ap: write the settings and restart.
Saves ==
  /\ saves < MaxSaves
  /\ saves' = saves + 1
  /\ \/ config' \in [mode : Mode, net : Net] /\ ScheduleRestart
     \/ UNCHANGED <<config, restarting>>
  /\ UNCHANGED <<boot, iface, link, attempt, fallback, mon, timers, improv, lost, reboots>>

\* connect_wifi and setup_sta.
Boot ==
  /\ boot' = config
  /\ iface' = {config.mode}
  /\ link' = Down(config.net)
  /\ attempt' = FALSE /\ fallback' = FALSE
  /\ monitor' = (IF config.mode = "STA" THEN "top" ELSE "none")
  /\ wasUp' = FALSE /\ retry' = TRUE
  /\ downLong' = FALSE /\ upLong' = FALSE /\ old' = FALSE /\ due' = FALSE
  /\ prov' = "idle" /\ prevSta' = FALSE
  /\ scheduled' = FALSE /\ restarts' = 0
  /\ UNCHANGED <<config, provNet, provisions, lost, saves>>

Restart == restarts > 0 /\ Boot /\ UNCHANGED reboots
Crash == reboots < MaxReboots /\ reboots' = reboots + 1 /\ Boot
-----------------------------------------------------------------------------
\* wifi_improv_provision, on Improv's task.

\* The flag is set, and the interfaces that are on are noted.
ProvisionStarts(n) ==
  /\ prov = "idle"
  /\ provisions < MaxProvisions
  /\ provisions' = provisions + 1
  /\ prov' = "flag"
  /\ provNet' = n
  /\ prevSta' = ("STA" \in iface)
  /\ UNCHANGED <<config, boot, iface, link, attempt, fallback, mon, timers, restarting,
                 lost, saves, reboots>>

\* With the radio lock, or after waiting for it: leave the old network, begin
\* with the new one.
ProvisionBegins ==
  /\ prov = "flag"
  /\ prov' = "trying"
  /\ iface' = iface \cup {"STA"}
  /\ link' = Connecting(provNet)
  /\ UNCHANGED <<config, boot, attempt, fallback, mon, timers, provNet, prevSta, provisions,
                 restarting, lost, saves, reboots>>

\* Connected, with an address: save the network and restart.  The flag stays.
ProvisionSucceeds ==
  /\ prov = "trying" /\ link.at = "up"
  /\ prov' = "done"
  /\ config' \in {config, [mode |-> "STA", net |-> provNet]}
  /\ ScheduleRestart
  /\ UNCHANGED <<boot, iface, link, attempt, fallback, mon, timers, provNet, prevSta, provisions,
                 lost, saves, reboots>>

\* timeout_ms are over: back to how it was.
ProvisionFails ==
  /\ prov = "trying" /\ link.at # "up"
  /\ prov' = "idle"
  /\ link' = Down(link.net)
  /\ iface' = IF prevSta THEN iface ELSE iface \ {"STA"}
  /\ UNCHANGED <<config, boot, attempt, fallback, mon, timers, provNet, prevSta, provisions,
                 restarting, lost, saves, reboots>>

ProvisionRuns == ProvisionBegins \/ ProvisionSucceeds \/ ProvisionFails
-----------------------------------------------------------------------------
Next ==
  \/ Monitor \/ LinkUp \/ LinkDown \/ Time
  \/ Saves \/ Restart \/ Crash
  \/ ProvisionRuns \/ \E n \in Net : ProvisionStarts(n)

Spec == Init /\ [][Next]_vars

\* Tasks run and time passes.  The driver need never report a result, no
\* network need be there, and nobody has to save or provision anything.
FairSpec ==
  /\ Spec
  /\ WF_vars(Monitor) /\ WF_vars(ProvisionRuns) /\ WF_vars(Restart)
  /\ WF_vars(DownTime) /\ WF_vars(UpTime) /\ WF_vars(AttemptTime) /\ WF_vars(BackoffTime)
-----------------------------------------------------------------------------
TypeOK ==
  /\ config \in [mode : Mode, net : Net] /\ boot \in [mode : Mode, net : Net]
  /\ iface \subseteq Mode
  /\ link \in [at : {"idle", "connecting", "up"}, net : Net]
  /\ attempt \in BOOLEAN /\ fallback \in BOOLEAN /\ wasUp \in BOOLEAN /\ retry \in BOOLEAN
  /\ downLong \in BOOLEAN /\ upLong \in BOOLEAN /\ old \in BOOLEAN /\ due \in BOOLEAN
  /\ monitor \in {"none", "top", "scan", "roam"}
  /\ prov \in {"idle", "flag", "trying", "done"} /\ provNet \in Net /\ prevSta \in BOOLEAN
  /\ scheduled \in BOOLEAN /\ restarts \in 0..1
  /\ lost \in 0..MaxLost /\ provisions \in 0..MaxProvisions
  /\ saves \in 0..MaxSaves /\ reboots \in 0..MaxReboots

\* A user can get at the board over the stored network or over its own.
Reachable == "AP" \in iface \/ link.at = "up"

\* Provisioning is over but the restart it counts on could not be scheduled: its
\* result is not looked at, and the monitor stands still from then on.
Stranded == prov = "done" /\ ~scheduled

\* "fallback AP (this boot only) after 20 s down" (wifi_support.cpp:645): a board
\* that nobody can reach becomes reachable, whether attempts fail, hang, or are
\* cut off by provisioning; unless its restart could not be scheduled.
ReachableAgain == ~Reachable ~> (Reachable \/ Stranded)

\* The monitor never gives up: whenever the STA is idle it tries again, unless it
\* is being provisioned or the board is not to be in a network.
KeepsTrying == (boot.mode = "STA" /\ link.at = "idle") ~>
                 (boot.mode # "STA" \/ link.at # "idle" \/ Provisioning)

\* "it stops once STA has been up for 10 s" (wifi_support.cpp:646): the fallback
\* access point does not outlive the reason for it, with the same exception.
FallbackStops == (fallback /\ link.at = "up") ~> (~fallback \/ link.at # "up" \/ Stranded)

\* wifi_support.h:46: provisioning "connects *live* first", so the network it saves,
\* and restarts into, is the one the board is connected to.
SavesWhatItReached ==
  [][ProvisionSucceeds /\ config' # config => link.net = provNet]_vars
=============================================================================
