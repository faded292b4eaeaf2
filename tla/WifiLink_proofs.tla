--------------------------- MODULE WifiLink_proofs ---------------------------
(***************************************************************************)
(* Proofs about a board's WiFi, for any networks and any number of losses, *)
(* saves, provisionings and reboots:                                       *)
(*   1. types, and that at most one restart is ever waiting;               *)
(*   2. the interfaces that must be on are on, whatever the monitor and    *)
(*      provisioning switch behind each other's back.                      *)
(***************************************************************************)
EXTENDS WifiLink, TLAPS


-----------------------------------------------------------------------------
(* 1. Types.                                                               *)

\* A restart task waits only after one was scheduled: the flag is set before the task
\* is made and nothing but the restart itself resets it (schedule_restart).
OneRestart == restarts = (IF scheduled THEN 1 ELSE 0)

TypeInv == TypeOK /\ OneRestart

StaState == [at : {"idle", "connecting", "up"}, net : Net]

LEMMA StaTyped ==
  ASSUME NEW n \in Net
  PROVE  Down(n) \in StaState /\ Connecting(n) \in StaState
BY DEF Down, Connecting, StaState

LEMMA InitTyped == Init => TypeInv
<1> SUFFICES ASSUME Init PROVE TypeInv
  OBVIOUS
<1>1. Stored \in Net /\ link \in StaState
  BY WifiAssumption, StaTyped DEF Init
<1>2. config \in [mode : Mode, net : Net] /\ boot \in [mode : Mode, net : Net]
  BY <1>1 DEF Init
<1>3. iface \subseteq Mode /\ monitor \in {"none", "top", "scan", "roam"}
  BY <1>2 DEF Init
<1>4. lost \in 0..MaxLost /\ provisions \in 0..MaxProvisions
      /\ saves \in 0..MaxSaves /\ reboots \in 0..MaxReboots
  BY WifiAssumption DEF Init
<1>5. TypeOK
  <2>1. /\ attempt \in BOOLEAN /\ fallback \in BOOLEAN /\ wasUp \in BOOLEAN
        /\ retry \in BOOLEAN /\ downLong \in BOOLEAN /\ upLong \in BOOLEAN
        /\ old \in BOOLEAN /\ due \in BOOLEAN /\ prevSta \in BOOLEAN
        /\ scheduled \in BOOLEAN
    BY DEF Init
  <2>2. /\ prov \in {"idle", "flag", "trying", "done"} /\ provNet \in Net
        /\ restarts \in 0..1
    BY <1>1 DEF Init
  <2>3. QED
    BY <1>1, <1>2, <1>3, <1>4, <2>1, <2>2 DEF TypeOK, StaState
<1>6. OneRestart
  BY DEF Init, OneRestart
<1>7. QED
  BY <1>5, <1>6 DEF TypeInv

LEMMA ScheduleTyped ==
  ASSUME TypeInv, ScheduleRestart
  PROVE  scheduled' \in BOOLEAN /\ restarts' \in 0..1 /\ OneRestart'
<1>1. scheduled \in BOOLEAN /\ restarts \in Nat /\ OneRestart
  BY DEF TypeInv, TypeOK
<1>2. CASE UNCHANGED <<scheduled, restarts>>
  BY <1>2 DEF TypeInv, TypeOK, OneRestart
<1>3. CASE ~scheduled /\ scheduled' = TRUE /\ restarts' = restarts + 1
  BY <1>1, <1>3 DEF OneRestart
<1>4. QED
  BY <1>2, <1>3 DEF ScheduleRestart

LEMMA MonitorTyped ==
  ASSUME TypeInv, Monitor
  PROVE  TypeInv'
<1>1. TypeOK /\ OneRestart
  BY DEF TypeInv
<1>2. OneRestart'
  BY <1>1 DEF Monitor, StandsStill, SeesUp, SeesDown, Connects, Roams, OneRestart, restarting
<1>3. StandsStill => TypeOK'
  BY <1>1 DEF StandsStill, TypeOK, mon, improv, restarting
<1>4. SeesUp => TypeOK'
  BY <1>1 DEF SeesUp, TypeOK, improv, restarting
<1>5. ASSUME SeesDown
      PROVE  TypeOK'
  <2>1. link' \in StaState
    BY <1>1, <1>5, StaTyped DEF SeesDown, TypeOK, StaState
  <2>2. iface' \subseteq Mode
    BY <1>1, <1>5 DEF SeesDown, TypeOK, Mode
  <2>3. monitor' \in {"none", "top", "scan", "roam"} /\ retry' \in BOOLEAN
    BY <1>1, <1>5 DEF SeesDown, TypeOK
  <2>4. /\ wasUp' \in BOOLEAN /\ upLong' \in BOOLEAN /\ downLong' \in BOOLEAN
        /\ fallback' \in BOOLEAN
    BY <1>1, <1>5, ZenonT(30) DEF SeesDown, TypeOK
  <2>5. QED
    BY <1>1, <1>5, <2>1, <2>2, <2>3, <2>4 DEF SeesDown, TypeOK, StaState, improv, restarting
<1>6. ASSUME BeginsStored
      PROVE  link' \in StaState /\ iface' \subseteq Mode /\ attempt' \in BOOLEAN
             /\ old' \in BOOLEAN
  BY <1>1, <1>6, StaTyped DEF BeginsStored, TypeOK, Mode
<1>7. Connects => TypeOK'
  BY <1>1, <1>6 DEF Connects, TypeOK, StaState, improv, restarting
<1>8. Roams => TypeOK'
  BY <1>1, <1>6 DEF Roams, TypeOK, StaState, improv, restarting
<1>9. QED
  BY <1>2, <1>3, <1>4, <1>5, <1>7, <1>8 DEF Monitor, TypeInv

LEMMA DriverTyped ==
  ASSUME TypeInv, LinkUp \/ LinkDown \/ Time
  PROVE  TypeInv'
<1>1. TypeOK /\ OneRestart
  BY DEF TypeInv
<1>2. OneRestart'
  BY <1>1 DEF LinkUp, LinkDown, Time, DownTime, UpTime, AttemptTime, BackoffTime, Passes,
              OneRestart, restarting
<1>3. LinkUp => TypeOK'
  BY <1>1 DEF LinkUp, TypeOK, mon, improv, restarting
<1>4. ASSUME LinkDown
      PROVE  TypeOK'
  <2>1. link' \in StaState
    BY <1>1, <1>4, StaTyped DEF LinkDown, TypeOK
  <2>2. lost' \in 0..MaxLost
    BY <1>1, <1>4, WifiAssumption DEF LinkDown, TypeOK
  <2>3. attempt' \in BOOLEAN /\ old' \in BOOLEAN
    BY <1>4 DEF LinkDown
  <2>4. UNCHANGED <<config, boot, iface, fallback, mon, downLong, upLong, due, improv,
                    restarting, saves, reboots>>
    BY <1>4 DEF LinkDown
  <2>5. QED
    BY <1>1, <2>1, <2>2, <2>3, <2>4 DEF TypeOK, StaState, mon, improv, restarting
<1>5. Time => TypeOK'
  BY <1>1 DEF Time, DownTime, UpTime, AttemptTime, BackoffTime, Passes, TypeOK, mon,
                    improv, restarting
<1>6. QED
  BY <1>2, <1>3, <1>4, <1>5 DEF TypeInv

LEMMA BoardTyped ==
  ASSUME TypeInv, Saves \/ Restart \/ Crash
  PROVE  TypeInv'
<1>1. TypeOK /\ OneRestart
  BY DEF TypeInv
<1>2. CASE Saves
  <2>1. scheduled' \in BOOLEAN /\ restarts' \in 0..1 /\ OneRestart'
    BY <1>1, <1>2, ScheduleTyped DEF Saves, restarting, TypeOK, OneRestart
  <2>2. config' \in [mode : Mode, net : Net] /\ saves' \in 0..MaxSaves
    BY <1>1, <1>2, WifiAssumption DEF Saves, TypeOK
  <2>3. QED
    BY <1>1, <1>2, <2>1, <2>2 DEF Saves, TypeInv, TypeOK, mon, timers, improv
<1>3. CASE Boot /\ reboots' \in 0..MaxReboots
  <2>1. boot' \in [mode : Mode, net : Net] /\ link' \in StaState /\ iface' \subseteq Mode
    <3>1. config.mode \in Mode /\ config.net \in Net
      BY <1>1 DEF TypeOK
    <3>2. QED
      BY <1>1, <1>3, <3>1, StaTyped DEF Boot, TypeOK
  <2>2. TypeOK'
    <3>1. /\ attempt' \in BOOLEAN /\ fallback' \in BOOLEAN /\ wasUp' \in BOOLEAN
          /\ retry' \in BOOLEAN /\ downLong' \in BOOLEAN /\ upLong' \in BOOLEAN
          /\ old' \in BOOLEAN /\ due' \in BOOLEAN /\ prevSta' \in BOOLEAN
          /\ scheduled' \in BOOLEAN
      BY <1>3 DEF Boot
    <3>2. /\ prov' \in {"idle", "flag", "trying", "done"}
          /\ monitor' \in {"none", "top", "scan", "roam"} /\ restarts' \in 0..1
      BY <1>3 DEF Boot
    <3>3. UNCHANGED <<config, provNet, provisions, lost, saves>>
      BY <1>3 DEF Boot
    <3>4. QED
      BY <1>1, <1>3, <2>1, <3>1, <3>2, <3>3 DEF TypeOK, StaState
  <2>3. OneRestart'
    BY <1>3 DEF Boot, OneRestart
  <2>4. QED
    BY <2>2, <2>3 DEF TypeInv
<1>4. CASE Restart
  BY <1>1, <1>3, <1>4 DEF Restart, TypeOK
<1>5. CASE Crash
  BY <1>1, <1>3, <1>5, WifiAssumption DEF Crash, TypeOK
<1>6. QED
  BY <1>2, <1>4, <1>5

LEMMA ImprovTyped ==
  ASSUME TypeInv, ProvisionRuns \/ \E n \in Net : ProvisionStarts(n)
  PROVE  TypeInv'
<1>1. TypeOK /\ OneRestart
  BY DEF TypeInv
<1>2. ASSUME NEW n \in Net, ProvisionStarts(n)
      PROVE  TypeInv'
  <2>1. provisions' \in 0..MaxProvisions /\ prevSta' \in BOOLEAN
    BY <1>1, <1>2, WifiAssumption DEF ProvisionStarts, TypeOK
  <2>2. QED
    BY <1>1, <1>2, <2>1 DEF ProvisionStarts, TypeInv, TypeOK, OneRestart, mon, timers, restarting
<1>3. CASE ProvisionBegins
  BY <1>1, <1>3 DEF ProvisionBegins, Connecting, Mode, TypeInv, TypeOK, OneRestart, mon, timers,
                    restarting
<1>4. CASE ProvisionSucceeds
  <2>1. scheduled' \in BOOLEAN /\ restarts' \in 0..1 /\ OneRestart'
    BY <1>4, ScheduleTyped DEF ProvisionSucceeds
  <2>2. config' \in [mode : Mode, net : Net]
    BY <1>1, <1>4 DEF ProvisionSucceeds, TypeOK, Mode
  <2>3. QED
    BY <1>1, <1>4, <2>1, <2>2 DEF ProvisionSucceeds, TypeInv, TypeOK, mon, timers
<1>5. CASE ProvisionFails
  BY <1>1, <1>5 DEF ProvisionFails, Down, TypeInv, TypeOK, OneRestart, mon, timers, restarting
<1>6. QED
  BY <1>2, <1>3, <1>4, <1>5 DEF ProvisionRuns

\* Types hold, and at most one restart task is ever waiting, whoever asks for one.
THEOREM TypeInvariant == Spec => []TypeInv
<1>1. TypeInv /\ [Next]_vars => TypeInv'
  <2> SUFFICES ASSUME TypeInv, [Next]_vars PROVE TypeInv'
    OBVIOUS
  <2>1. CASE UNCHANGED vars
    BY <2>1 DEF vars, mon, timers, improv, restarting, TypeInv, TypeOK, OneRestart
  <2>2. QED
    BY <2>1, MonitorTyped, DriverTyped, BoardTyped, ImprovTyped DEF Next
<1>2. QED
  BY <1>1, InitTyped, PTL DEF Spec

\* The type invariant of the model.
THEOREM TypeCorrect == Spec => []TypeOK
BY TypeInvariant, PTL DEF TypeInv

-----------------------------------------------------------------------------
(* 2. The interfaces.                                                      *)
(*                                                                         *)
(* The monitor starts and stops the fallback access point, provisioning    *)
(* switches the STA on and, when it fails, off again, by what it noted     *)
(* before it began.  Neither takes an interface from the other.            *)

\* The interface the board was booted for is on; the fallback access point is on while
\* its flag says so; the driver has no link without the STA.
InterfacesOn ==
  /\ boot.mode \in iface
  /\ fallback => "AP" \in iface
  /\ link.at # "idle" => "STA" \in iface

\* Why: only a board booted for a network runs the monitor, and provisioning found such
\* a board's STA on.
Reasons ==
  /\ monitor = "none" <=> boot.mode = "AP"
  /\ fallback => boot.mode = "STA"
  /\ prov \in {"flag", "trying"} /\ boot.mode = "STA" => prevSta

InterfaceInv == TypeOK /\ InterfacesOn /\ Reasons

LEMMA InterfacesStart == Init => InterfacesOn /\ Reasons
BY DEF Init, InterfacesOn, Reasons, Down, Mode

LEMMA MonitorKeeps ==
  ASSUME InterfaceInv, Monitor
  PROVE  InterfacesOn' /\ Reasons'
<1>1. TypeOK /\ InterfacesOn /\ Reasons /\ boot.mode \in Mode
  BY DEF InterfaceInv, TypeOK
<1>2. boot' = boot /\ UNCHANGED improv
  BY DEF Monitor, StandsStill, SeesUp, SeesDown, Connects, Roams
<1>3. monitor # "none" /\ monitor' # "none" /\ boot.mode = "STA"
  BY <1>1 DEF Monitor, StandsStill, SeesUp, SeesDown, Connects, Roams, Reasons, Mode, mon
<1>4. Reasons'
  BY <1>1, <1>2, <1>3 DEF Reasons, improv
<1>5. CASE StandsStill
  BY <1>1, <1>4, <1>5 DEF StandsStill, InterfacesOn
<1>6. CASE SeesUp
  BY <1>1, <1>3, <1>4, <1>6 DEF SeesUp, InterfacesOn
<1>7. CASE SeesDown
  BY <1>1, <1>3, <1>4, <1>7 DEF SeesDown, InterfacesOn
<1>8. CASE Connects \/ Roams
  BY <1>1, <1>4, <1>8 DEF Connects, Roams, BeginsStored, InterfacesOn
<1>9. QED
  BY <1>4, <1>5, <1>6, <1>7, <1>8 DEF Monitor

LEMMA DriverKeeps ==
  ASSUME InterfaceInv, LinkUp \/ LinkDown \/ Time
  PROVE  InterfacesOn' /\ Reasons'
<1>1. UNCHANGED <<boot, iface, fallback, monitor, improv>>
  BY DEF LinkUp, LinkDown, Time, DownTime, UpTime, AttemptTime, BackoffTime, Passes, mon
<1>2. link.at = "idle" => link' = link
  BY DEF LinkUp, LinkDown, Time, DownTime, UpTime, AttemptTime, BackoffTime, Passes
<1>3. QED
  BY <1>1, <1>2 DEF InterfaceInv, InterfacesOn, Reasons, improv

LEMMA BoardKeeps ==
  ASSUME InterfaceInv, Saves \/ Restart \/ Crash
  PROVE  InterfacesOn' /\ Reasons'
<1>1. CASE Saves
  BY <1>1 DEF Saves, InterfaceInv, InterfacesOn, Reasons, mon, improv
<1>2. CASE Boot
  <2>1. config.mode \in Mode
    BY DEF InterfaceInv, TypeOK
  <2>2. QED
    BY <1>2, <2>1 DEF Boot, InterfacesOn, Reasons, Down, Mode
<1>3. QED
  BY <1>1, <1>2 DEF Restart, Crash

LEMMA ImprovKeeps ==
  ASSUME InterfaceInv, ProvisionRuns \/ \E n \in Net : ProvisionStarts(n)
  PROVE  InterfacesOn' /\ Reasons'
<1>1. TypeOK /\ InterfacesOn /\ Reasons /\ boot.mode \in Mode
  BY DEF InterfaceInv, TypeOK
<1>2. ASSUME NEW n \in Net, ProvisionStarts(n)
      PROVE  InterfacesOn' /\ Reasons'
  BY <1>1, <1>2 DEF ProvisionStarts, InterfacesOn, Reasons, mon
<1>3. CASE ProvisionBegins
  BY <1>1, <1>3 DEF ProvisionBegins, InterfacesOn, Reasons, mon
<1>4. CASE ProvisionSucceeds
  BY <1>1, <1>4 DEF ProvisionSucceeds, InterfacesOn, Reasons, mon
<1>5. CASE ProvisionFails
  BY <1>1, <1>5 DEF ProvisionFails, InterfacesOn, Reasons, Down, Mode, mon
<1>6. QED
  BY <1>2, <1>3, <1>4, <1>5 DEF ProvisionRuns

\* However provisioning, its failure, the fallback access point and restarts interleave,
\* no board is left without the interface it was booted for, and none takes its fallback
\* access point for on when it is off.
THEOREM InterfacesStayOn == Spec => []InterfacesOn
<1>1. InterfaceInv /\ [Next]_vars => InterfacesOn' /\ Reasons'
  <2> SUFFICES ASSUME InterfaceInv, [Next]_vars PROVE InterfacesOn' /\ Reasons'
    OBVIOUS
  <2>1. CASE UNCHANGED vars
    BY <2>1 DEF vars, mon, improv, InterfaceInv, InterfacesOn, Reasons
  <2>2. QED
    BY <2>1, MonitorKeeps, DriverKeeps, BoardKeeps, ImprovKeeps DEF Next
<1>2. QED
  BY <1>1, InterfacesStart, TypeCorrect, PTL DEF Spec, InterfaceInv
=============================================================================
