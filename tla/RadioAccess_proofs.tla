------------------------- MODULE RadioAccess_proofs -------------------------
(***************************************************************************)
(* Proofs about RadioAccess.tla, for any set of configurations and any     *)
(* number of listen-before-talk checks.                                    *)
(*                                                                         *)
(* The inductive invariant says, for each point a task can be at, whether  *)
(* it holds lora_write_mutex and what it has already done to the radio:    *)
(* the properties of RadioAccess only speak of the moments in between.     *)
(***************************************************************************)
EXTENDS RadioAccess, TLAPS

RxPhase == {"idle", "poll", "want", "wantAck", "read", "got", "none", "key", "load", "sent", "unkey"}
TxPhase == {"idle", "want", "modem", "flags", "key", "load", "sent", "unkey"}
CfgPhase == {"idle", "want", "apply", "sent"}

\* The points at which a task does not hold lora_write_mutex.
Outside == {"idle", "poll", "want", "wantAck"}

\* A task holds the mutex exactly between taking and giving it.
HolderKnown ==
  /\ DOMAIN phase = Task /\ phase = [t \in Task |-> phase[t]]
  /\ phase["rx"] \in RxPhase /\ phase["tx"] \in TxPhase
  /\ phase["cfg"] \in CfgPhase /\ phase["ota"] \in {"idle", "hold"}
  /\ \A t \in Task : mutex = t <=> phase[t] \notin Outside
  /\ mutex \in Task \cup {NoTask}

\* The radio receives whenever the mutex is free or about to be given unchanged.
ReceivesWhenGiven ==
  mutex = NoTask \/ (\E t \in {"rx", "tx"} : phase[t] \in {"modem", "flags", "unkey"})
    => mode = "rx"

\* tx_in_progress is set from Key to Unkey.
DeafExactly ==
  /\ tx_in_progress \in BOOLEAN
  /\ tx_in_progress = TRUE <=> \E t \in {"rx", "tx"} : phase[t] \in {"load", "sent", "unkey"}

\* What a save has done so far.
SaveProgress ==
  /\ phase["cfg"] # "apply" => s_cfg = chip
  /\ phase["cfg"] \in {"apply", "sent"} => s_cfg = wanted
  /\ phase["cfg"] # "idle" /\ replaced = "no" => wanted = file /\ file \in Config
  /\ phase["cfg"] = "idle" /\ ~reported /\ replaced = "no" => chip = BootConfig(file)
  /\ wanted \in Config

\* What the packet being sent has heard so far.
ListenProgress ==
  /\ tries \in 0..LBT_TRIES /\ heard \in BOOLEAN
  /\ phase["tx"] \in {"modem", "flags"} => tries < LBT_TRIES
  /\ phase["tx"] = "flags" /\ fifo = "empty" => heard = FALSE
  /\ phase["tx"] \in {"key", "load"} /\ tries < LBT_TRIES => heard = FALSE

RadioInv == ListenProgress /\ HolderKnown /\ ReceivesWhenGiven /\ DeafExactly /\ SaveProgress

-----------------------------------------------------------------------------

\* config_lora leaves the radio receiving with the configuration of the file.
LEMMA InitHolds == Init => RadioInv
<1> SUFFICES ASSUME Init PROVE RadioInv
  OBVIOUS
<1>1. HolderKnown /\ ReceivesWhenGiven /\ SaveProgress
  BY RadioAssumption DEF Init, HolderKnown, ReceivesWhenGiven, SaveProgress, BootConfig, Task,
     NoTask, RxPhase, TxPhase, CfgPhase, Outside
<1>2. DeafExactly
  BY DEF Init, DeafExactly, Task
<1>3. ListenProgress
  <2>1. phase["tx"] = "idle" /\ tries = 0 /\ heard = FALSE
    BY DEF Init, Task
  <2>2. tries \in 0..LBT_TRIES
    BY <2>1, RadioAssumption
  <2> QED
    BY <2>1, <2>2, Zenon DEF ListenProgress
<1> QED
  BY <1>1, <1>2, <1>3 DEF RadioInv

\* Takes and gives pair up, on every path of every task.
LEMMA HolderStep ==
  ASSUME RadioInv, Next
  PROVE  HolderKnown'
<1> USE DEF RadioInv, HolderKnown, Task, NoTask, RxPhase, TxPhase, CfgPhase, Outside, Go, Take, Give
<1>1. CASE FrameStarts \/ FrameArrives \/ Send
  BY <1>1 DEF FrameStarts, FrameArrives, Send
<1>2. CASE RxWakes \/ RxPolls \/ RxTakes \/ RxReads \/ RxGives
  BY <1>2 DEF RxWakes, RxPolls, RxTakes, RxReads, RxGives
<1>3. CASE CheckModem \/ CheckFlags
  BY <1>3 DEF CheckModem, CheckFlags, Backoff
<1>4. ASSUME NEW t \in {"rx", "tx"}, Transmit(t) \/ TakeTimesOut(t)
      PROVE  HolderKnown'
  BY <1>4 DEF Transmit, TakeRadio, Key, Load, Listen, Unkey, TakeTimesOut
<1>5. CASE (\E c \in Config : SaveFile(c)) \/ CfgTask
  BY <1>5 DEF SaveFile, CfgTask, ApplyTakes, ApplyTimesOut, ApplySets, ApplyEnds
<1>6. CASE OtaTakes \/ OtaWrites \/ OtaGives \/ ResetFile \/ Reboot
  BY <1>6 DEF OtaTakes, OtaWrites, OtaGives, ResetFile, Reboot
<1> QED
  BY <1>1, <1>2, <1>3, <1>4, <1>5, <1>6 DEF Next, RxTask, TxTask

\* Every path that gives the mutex has put the radio back, or not touched it.
LEMMA ReceivesStep ==
  ASSUME RadioInv, Next, HolderKnown'
  PROVE  ReceivesWhenGiven'
<1> USE DEF RadioInv, HolderKnown, ReceivesWhenGiven, Task, NoTask, RxPhase, TxPhase, CfgPhase,
            Outside, Go, Take, Give
<1>1. CASE FrameStarts \/ FrameArrives \/ Send
  BY <1>1 DEF FrameStarts, FrameArrives, Send, radioVars
<1>2. CASE RxWakes \/ RxPolls \/ RxTakes \/ RxReads \/ RxGives
  BY <1>2 DEF RxWakes, RxPolls, RxTakes, RxReads, RxGives, radioVars
<1>3. CASE CheckModem \/ CheckFlags
  BY <1>3 DEF CheckModem, CheckFlags, Backoff, radioVars
<1>4. ASSUME NEW t \in {"rx", "tx"}, Transmit(t) \/ TakeTimesOut(t)
      PROVE  ReceivesWhenGiven'
  BY <1>4 DEF Transmit, TakeRadio, Key, Load, Listen, Unkey, TakeTimesOut, radioVars
<1>5. CASE (\E c \in Config : SaveFile(c)) \/ CfgTask
  BY <1>5 DEF SaveFile, CfgTask, ApplyTakes, ApplyTimesOut, ApplySets, ApplyEnds, radioVars
<1>6. CASE OtaTakes \/ OtaWrites \/ OtaGives \/ ResetFile \/ Reboot
  BY <1>6 DEF OtaTakes, OtaWrites, OtaGives, ResetFile, Reboot, radioVars
<1> QED
  BY <1>1, <1>2, <1>3, <1>4, <1>5, <1>6 DEF Next, RxTask, TxTask

\* tx_in_progress follows the two transmitters.
LEMMA DeafStep ==
  ASSUME RadioInv, Next, HolderKnown'
  PROVE  DeafExactly'
<1> USE DEF RadioInv, HolderKnown, DeafExactly, Task, NoTask, RxPhase, TxPhase, CfgPhase,
            Outside, Go, Take, Give
<1>1. CASE FrameStarts \/ FrameArrives \/ Send
  BY <1>1 DEF FrameStarts, FrameArrives, Send
<1>2. CASE RxWakes \/ RxPolls \/ RxTakes \/ RxReads \/ RxGives
  BY <1>2 DEF RxWakes, RxPolls, RxTakes, RxReads, RxGives
<1>3. CASE CheckModem \/ CheckFlags
  BY <1>3 DEF CheckModem, CheckFlags, Backoff
<1>4. ASSUME NEW t \in {"rx", "tx"}, Transmit(t) \/ TakeTimesOut(t)
      PROVE  DeafExactly'
  <2>1. CASE TakeRadio(t) \/ Load(t) \/ Listen(t) \/ TakeTimesOut(t)
    BY <2>1 DEF TakeRadio, Load, Listen, TakeTimesOut
  <2>2. CASE Key(t)
    BY <2>2 DEF Key
  <2>3. CASE Unkey(t)
    <3>1. mutex = t
      BY <2>3 DEF Unkey
    <3>2. \A u \in {"rx", "tx"} \ {t} : phase'[u] \in Outside
      BY <2>3, <3>1 DEF Unkey
    <3>3. phase'[t] = "idle" /\ tx_in_progress' = FALSE
      BY <2>3 DEF Unkey
    <3> QED
      BY <3>2, <3>3
  <2> QED
    BY <1>4, <2>1, <2>2, <2>3 DEF Transmit
<1>5. ASSUME NEW c \in Config, SaveFile(c)
      PROVE  DeafExactly'
  BY <1>5 DEF SaveFile
<1>7. CASE CfgTask
  BY <1>7 DEF CfgTask, ApplyTakes, ApplyTimesOut, ApplySets, ApplyEnds
<1>6. CASE OtaTakes \/ OtaWrites \/ OtaGives \/ ResetFile \/ Reboot
  <2>1. CASE OtaTakes \/ OtaWrites \/ OtaGives \/ ResetFile
    <3>1. \A t \in {"rx", "tx"} : phase'[t] = phase[t]
      BY <2>1 DEF OtaTakes, OtaWrites, OtaGives, ResetFile
    <3>2. tx_in_progress' = tx_in_progress
      BY <2>1 DEF OtaTakes, OtaWrites, OtaGives, ResetFile
    <3> QED
      BY <3>1, <3>2
  <2>2. CASE Reboot
    <3>1. tx_in_progress' = FALSE /\ \A t \in {"rx", "tx"} : phase'[t] = "idle"
      BY <2>2 DEF Reboot
    <3> QED
      BY <3>1
  <2> QED
    BY <1>6, <2>1, <2>2
<1> QED
  BY <1>1, <1>2, <1>3, <1>4, <1>5, <1>6, <1>7 DEF Next, RxTask, TxTask

\* A frame that was waiting when a check began still waits when the flags are read.
LEMMA ListenStep ==
  ASSUME RadioInv, Next, HolderKnown'
  PROVE  ListenProgress'
<1> USE RadioAssumption
    DEF RadioInv, HolderKnown, ListenProgress, Task, NoTask, RxPhase, TxPhase, CfgPhase,
        Outside, Go, Take, Give
<1>1. CASE FrameStarts \/ FrameArrives \/ RxWakes \/ RxPolls \/ RxTakes \/ RxReads \/ RxGives
  BY <1>1 DEF FrameStarts, FrameArrives, RxWakes, RxPolls, RxTakes, RxReads, RxGives, radioVars
<1>2. CASE Send
  BY <1>2 DEF Send, radioVars
<1>3. CASE CheckModem
  <2>1. tries' \in 0..LBT_TRIES /\ heard' \in BOOLEAN
    BY <1>3 DEF CheckModem, Backoff
  <2>2. phase'["tx"] = "flags" => fifo' = fifo /\ tries' = tries /\ (heard' <=> fifo # "empty")
    BY <1>3 DEF CheckModem, Backoff, radioVars
  <2>3. phase'["tx"] \in {"flags", "want"}
    BY <1>3 DEF CheckModem, Backoff
  <2> QED
    BY <1>3, <2>1, <2>2, <2>3 DEF CheckModem
<1>4. CASE CheckFlags
  BY <1>4 DEF CheckFlags, Backoff, radioVars
<1>5. ASSUME NEW t \in {"rx", "tx"}, Transmit(t) \/ TakeTimesOut(t)
      PROVE  ListenProgress'
  BY <1>5 DEF Transmit, TakeRadio, Key, Load, Listen, Unkey, TakeTimesOut, radioVars
<1>6. ASSUME NEW c \in Config, SaveFile(c)
      PROVE  ListenProgress'
  BY <1>6 DEF SaveFile, radioVars
<1>7. CASE CfgTask
  BY <1>7 DEF CfgTask, ApplyTakes, ApplyTimesOut, ApplySets, ApplyEnds, radioVars
<1>8. CASE OtaTakes \/ OtaWrites \/ OtaGives \/ ResetFile
  BY <1>8 DEF OtaTakes, OtaWrites, OtaGives, ResetFile, radioVars
<1>9. CASE Reboot
  <2>1. phase'["tx"] = "idle" /\ tries' = 0 /\ heard' = FALSE
    BY <1>9 DEF Reboot
  <2>2. tries' \in 0..LBT_TRIES
    BY <2>1
  <2> QED
    BY <2>1, <2>2, Zenon
<1> QED
  BY <1>1, <1>2, <1>3, <1>4, <1>5, <1>6, <1>7, <1>8, <1>9 DEF Next, RxTask, TxTask

\* Only the web worker, a reset, an image and a reboot change what SaveProgress says.
LEMMA SaveStep ==
  ASSUME RadioInv, Next, HolderKnown'
  PROVE  SaveProgress'
<1> USE DEF RadioInv, HolderKnown, SaveProgress, Task, NoTask, RxPhase, TxPhase, CfgPhase,
            Outside, Go, Take, Give
<1>1. CASE FrameStarts \/ FrameArrives \/ Send
  BY <1>1 DEF FrameStarts, FrameArrives, Send, cfgVars, BootConfig
<1>2. CASE RxWakes \/ RxPolls \/ RxTakes \/ RxReads \/ RxGives
  BY <1>2 DEF RxWakes, RxPolls, RxTakes, RxReads, RxGives, cfgVars, BootConfig
<1>3. CASE CheckModem \/ CheckFlags
  BY <1>3 DEF CheckModem, CheckFlags, Backoff, cfgVars, BootConfig
<1>4. ASSUME NEW t \in {"rx", "tx"}, Transmit(t) \/ TakeTimesOut(t)
      PROVE  SaveProgress'
  BY <1>4 DEF Transmit, TakeRadio, Key, Load, Listen, Unkey, TakeTimesOut, cfgVars, BootConfig
<1>5. ASSUME NEW c \in Config, SaveFile(c)
      PROVE  SaveProgress'
  BY <1>5 DEF SaveFile, BootConfig
<1>6. CASE CfgTask
  BY <1>6 DEF CfgTask, ApplyTakes, ApplyTimesOut, ApplySets, ApplyEnds, BootConfig
<1>7. CASE OtaTakes \/ OtaWrites \/ OtaGives \/ ResetFile
  BY <1>7 DEF OtaTakes, OtaWrites, OtaGives, ResetFile, cfgVars, BootConfig
<1>8. CASE Reboot
  BY <1>8, RadioAssumption DEF Reboot, BootConfig
<1> QED
  BY <1>1, <1>2, <1>3, <1>4, <1>5, <1>6, <1>7, <1>8 DEF Next, RxTask, TxTask

-----------------------------------------------------------------------------

\* The invariant the four properties below are read off.
THEOREM RadioInvariant == Spec => []RadioInv
<1>1. RadioInv /\ Next => RadioInv'
  <2> SUFFICES ASSUME RadioInv, Next PROVE RadioInv'
    OBVIOUS
  <2>h. HolderKnown'
    BY HolderStep
  <2> QED
    BY <2>h, ReceivesStep, DeafStep, ListenStep, SaveStep DEF RadioInv
<1>2. RadioInv /\ vars' = vars => RadioInv'
  BY DEF vars, radioVars, cfgVars, RadioInv, HolderKnown, ReceivesWhenGiven, DeafExactly,
     ListenProgress, SaveProgress, BootConfig, Outside
<1>3. RadioInv /\ [Next]_vars => RadioInv'
  BY <1>1, <1>2
<1> QED
  BY InitHolds, <1>3, PTL DEF Spec

-----------------------------------------------------------------------------
(* Types: what RadioInv leaves open.                                       *)

RadioTyped ==
  /\ mode \in {"rx", "standby", "single", "tx"}
  /\ air \in {"idle", "coming"} /\ fifo \in {"empty", "unread", "spoiled"}
  /\ notified \in BOOLEAN

CfgTyped ==
  /\ {s_cfg, chip, wanted} \subseteq Config /\ file \in Config \cup {NoFile}
  /\ reported \in BOOLEAN /\ replaced \in {"no", "reset", "upload"}

LeftTyped ==
  left \in [send : 0..MaxSends, save : 0..MaxSaves, upload : 0..MaxUploads,
            reboot : 0..MaxReboots]

\* The steps of Next that each part of the state can change in.
LEMMA RadioTypedKept ==
  ASSUME RadioTyped, [Next]_vars
  PROVE  RadioTyped'
<1> USE DEF RadioTyped, radioVars
<1>1. CASE FrameStarts \/ FrameArrives \/ Send
  BY <1>1 DEF FrameStarts, FrameArrives, Send
<1>2. CASE RxWakes \/ RxPolls \/ RxTakes \/ RxReads \/ RxGives
  BY <1>2 DEF RxWakes, RxPolls, RxTakes, RxReads, RxGives
<1>3. CASE CheckModem \/ CheckFlags
  BY <1>3 DEF CheckModem, CheckFlags
<1>4. ASSUME NEW t \in {"rx", "tx"}, Transmit(t) \/ TakeTimesOut(t)
      PROVE  RadioTyped'
  BY <1>4 DEF Transmit, TakeRadio, Key, Load, Listen, Unkey, TakeTimesOut
<1>5. ASSUME NEW c \in Config, SaveFile(c)
      PROVE  RadioTyped'
  BY <1>5 DEF SaveFile
<1>6. CASE CfgTask
  BY <1>6 DEF CfgTask, ApplyTakes, ApplyTimesOut, ApplySets, ApplyEnds
<1>7. CASE OtaTakes \/ OtaWrites \/ OtaGives \/ ResetFile \/ Reboot
  BY <1>7 DEF OtaTakes, OtaWrites, OtaGives, ResetFile, Reboot
<1>8. CASE UNCHANGED vars
  BY <1>8 DEF vars
<1> QED
  BY <1>1, <1>2, <1>3, <1>4, <1>5, <1>6, <1>7, <1>8 DEF Next, RxTask, TxTask

LEMMA CfgTypedKept ==
  ASSUME CfgTyped, [Next]_vars
  PROVE  CfgTyped'
<1>1. ASSUME NEW c \in Config, SaveFile(c)
      PROVE  CfgTyped'
  BY <1>1 DEF CfgTyped, SaveFile
<1>2. CASE CfgTask
  BY <1>2 DEF CfgTyped, CfgTask, ApplyTakes, ApplyTimesOut, ApplySets, ApplyEnds
<1>3. CASE OtaWrites \/ ResetFile \/ Reboot
  BY <1>3, RadioAssumption DEF CfgTyped, OtaWrites, ResetFile, Reboot, BootConfig
<1>4. CASE UNCHANGED cfgVars
  BY <1>4 DEF CfgTyped, cfgVars
<1>5. CASE \/ FrameStarts \/ FrameArrives \/ Send \/ OtaTakes \/ OtaGives \/ UNCHANGED vars
           \/ RxWakes \/ RxPolls \/ RxTakes \/ RxReads \/ RxGives \/ CheckModem \/ CheckFlags
           \/ Transmit("rx") \/ Transmit("tx") \/ TakeTimesOut("rx") \/ TakeTimesOut("tx")
  <2>1. UNCHANGED cfgVars
    BY <1>5 DEF FrameStarts, FrameArrives, Send, OtaTakes, OtaGives, vars, RxWakes, RxPolls,
       RxTakes, RxReads, RxGives, CheckModem, CheckFlags, Transmit, TakeRadio, Key, Load,
       Listen, Unkey, TakeTimesOut
  <2> QED
    BY <1>4, <2>1
<1> QED
  BY <1>1, <1>2, <1>3, <1>5 DEF Next, RxTask, TxTask

LEMMA LeftTypedKept ==
  ASSUME LeftTyped, [Next]_vars
  PROVE  LeftTyped'
<1>1. \A k \in Nat, n \in Nat : k \in 0..n /\ k > 0 => k - 1 \in 0..n
  OBVIOUS
<1>2. \/ UNCHANGED left
      \/ left.send > 0 /\ left' = [left EXCEPT !.send = @ - 1]
      \/ left.save > 0 /\ left' = [left EXCEPT !.save = @ - 1]
      \/ left.upload > 0 /\ left' = [left EXCEPT !.upload = @ - 1]
      \/ left.reboot > 0 /\ left' = [left EXCEPT !.reboot = @ - 1]
  BY DEF Next, RxTask, TxTask, CfgTask, FrameStarts, FrameArrives, Send, OtaTakes, OtaWrites, OtaGives, vars,
     ResetFile, RxWakes, RxPolls, RxTakes, RxReads, RxGives, CheckModem, CheckFlags, Transmit, TakeRadio,
     Key, Load, Listen, Unkey, TakeTimesOut, SaveFile, ApplyTakes, ApplyTimesOut, ApplySets,
     ApplyEnds, Reboot
<1>3. CASE left.send > 0 /\ left' = [left EXCEPT !.send = @ - 1]
  BY <1>1, <1>3, RadioAssumption DEF LeftTyped
<1>4. CASE left.save > 0 /\ left' = [left EXCEPT !.save = @ - 1]
  BY <1>1, <1>4, RadioAssumption DEF LeftTyped
<1>5. CASE left.upload > 0 /\ left' = [left EXCEPT !.upload = @ - 1]
  BY <1>1, <1>5, RadioAssumption DEF LeftTyped
<1>6. CASE left.reboot > 0 /\ left' = [left EXCEPT !.reboot = @ - 1]
  BY <1>1, <1>6, RadioAssumption DEF LeftTyped
<1>7. CASE UNCHANGED left
  BY <1>7 DEF LeftTyped
<1> QED
  BY <1>2, <1>3, <1>4, <1>5, <1>6, <1>7

\* Every variable keeps its type: no task is anywhere but on its own path, and no
\* packet is checked for more than LBT_TRIES times (take_radio_clear_channel).
THEOREM TypeCorrect == Spec => []TypeOK
<1>1. Init => RadioTyped /\ CfgTyped /\ LeftTyped
  <2> SUFFICES ASSUME Init PROVE RadioTyped /\ CfgTyped /\ LeftTyped
    OBVIOUS
  <2>1. RadioTyped
    BY DEF Init, RadioTyped
  <2>2. CfgTyped
    BY RadioAssumption DEF Init, CfgTyped, BootConfig
  <2>3. LeftTyped
    BY RadioAssumption DEF Init, LeftTyped
  <2> QED
    BY <2>1, <2>2, <2>3
<1>2. (RadioTyped /\ CfgTyped /\ LeftTyped) /\ [Next]_vars
      => (RadioTyped /\ CfgTyped /\ LeftTyped)'
  BY RadioTypedKept, CfgTypedKept, LeftTypedKept
<1>3. RadioInv /\ (RadioTyped /\ CfgTyped /\ LeftTyped) => TypeOK
  <2> SUFFICES ASSUME RadioInv, RadioTyped, CfgTyped, LeftTyped PROVE TypeOK
    OBVIOUS
  <2>1. phase \in [Task -> {"idle", "poll", "want", "wantAck", "read", "got", "none", "modem",
                            "flags", "key", "load", "sent", "unkey", "apply", "hold"}]
    BY DEF RadioInv, HolderKnown, Task, RxPhase, TxPhase, CfgPhase
  <2> QED
    BY <2>1 DEF RadioInv, HolderKnown, DeafExactly, ListenProgress, RadioTyped, CfgTyped,
       LeftTyped, TypeOK
<1> QED
  BY <1>1, <1>2, <1>3, RadioInvariant, PTL DEF Spec

-----------------------------------------------------------------------------
(* The properties.                                                         *)

\* However the four tasks interleave, time out or fail, a free radio is receiving,
\* its interrupt is heard and timing estimates use the configuration it runs.
THEOREM FreeRadioListens == Spec => []FreeMeansListening
<1>1. RadioInv => FreeMeansListening
  BY DEF RadioInv, HolderKnown, ReceivesWhenGiven, DeafExactly, SaveProgress, FreeMeansListening,
     Task, NoTask, RxPhase, TxPhase, CfgPhase, Outside
<1> QED
  BY <1>1, RadioInvariant, PTL

\* The interrupt ignores DIO0 only while the task holding the mutex transmits.
THEOREM DeafOnlyForOwnFrames == Spec => []DeafOnlyWhileSending
<1>1. RadioInv => DeafOnlyWhileSending
  BY DEF RadioInv, HolderKnown, DeafExactly, DeafOnlyWhileSending, Task, NoTask, Outside
<1> QED
  BY <1>1, RadioInvariant, PTL

\* No packet that still has checks left is sent over a frame it could have seen.
THEOREM ClearChannelRespected == Spec => []TalksOnClearChannel
<1>1. RadioInv => TalksOnClearChannel
  BY DEF RadioInv, ListenProgress, TalksOnClearChannel
<1> QED
  BY <1>1, RadioInvariant, PTL

\* A save that is not reported as waiting for a restart is in the radio, as long as no
\* factory reset or filesystem image has replaced the file it wrote.
THEOREM SavesAreApplied == Spec => []SavedMeansApplied
<1>1. RadioInv => SavedMeansApplied
  BY DEF RadioInv, SaveProgress, SavedMeansApplied
<1> QED
  BY <1>1, RadioInvariant, PTL

=============================================================================
