---------------------------- MODULE RadioAccess -----------------------------
(***************************************************************************)
(* Who drives the LoRa radio, and when: src/src/lora/lora_support.cpp.     *)
(*                                                                         *)
(* Four tasks share the radio behind lora_write_mutex.  The TX task sends  *)
(* packets after listening (take_radio_clear_channel); the RX task reads   *)
(* the frame in the radio's FIFO and answers with an ACK at once; the web  *)
(* worker saves and applies a new configuration; the update handler takes  *)
(* the radio for as long as an upload lasts.  The DIO0 interrupt takes no  *)
(* mutex: it notifies the RX task, unless tx_in_progress is set.           *)
(*                                                                         *)
(* A factory reset and a filesystem image replace lora_config.json without *)
(* applying it: the radio follows at the next boot.                        *)
(*                                                                         *)
(* The radio itself is external, as the code and its comments use it.  It  *)
(* receives only in mode "rx".  RxDone (DIO0 high) is set while the FIFO   *)
(* holds a frame nobody has read: "unread", or "spoiled" when its CRC is   *)
(* wrong or a transmission has overwritten it.  DIO0 interrupts on a       *)
(* rising edge only, so a frame that lands on an unread one is silent.     *)
(***************************************************************************)
EXTENDS Naturals

CONSTANTS
  Config,      \* radio configurations that pass config_from_text
  Defaults,    \* lora_default.json's, or the compiled one: no file can be read
  NoFile,      \* no readable lora_config.json
  LBT_TRIES,   \* checks of the channel before talking anyway (12)
  MaxSends,    \* bound: packets the TX task is given
  MaxSaves,    \* bound: configurations saved
  MaxUploads,  \* bound: updates that take the radio
  MaxReboots   \* bound: reboots

ASSUME RadioAssumption ==
  /\ Defaults \in Config /\ NoFile \notin Config
  /\ {LBT_TRIES, MaxSends, MaxSaves, MaxUploads, MaxReboots} \subseteq Nat

Task == {"tx", "rx", "cfg", "ota"}
NoTask == "nobody"

VARIABLES
  mutex,           \* lora_write_mutex: the task that holds it
  phase,           \* where each task is
  mode,            \* the radio's mode
  air,             \* "coming" while the modem receives a frame
  fifo,            \* the radio's FIFO and RxDone
  notified,        \* the RX task has a notification
  tx_in_progress,  \* the interrupt is to ignore DIO0
  tries,           \* busy checks of the frame being sent
  heard,           \* ghost: the channel was taken when the last check began
  s_cfg,           \* the snapshot timing estimates are made from
  chip,            \* the configuration in the radio's registers
  file,            \* lora_config.json
  wanted,          \* the configuration being saved
  reported,        \* the last save was answered "applies after restart"
  replaced,        \* what has replaced the file since the boot: "reset", "upload", or "no"
  left             \* what the bounds leave: sends, saves, uploads, reboots

radioVars == <<mode, air, fifo>>
cfgVars == <<s_cfg, chip, file, wanted, reported, replaced>>
vars == <<mutex, phase, radioVars, notified, tx_in_progress, tries, heard, cfgVars, left>>

Go(t, p) == phase' = [phase EXCEPT ![t] = p]
Take(t) == mutex = NoTask /\ mutex' = t
Give == mutex' = NoTask

BootConfig(f) == IF f \in Config THEN f ELSE Defaults

\* config_lora has entered RX mode before it attaches the interrupt: a frame may
\* already wait.
Init ==
  /\ mutex = NoTask /\ phase = [t \in Task |-> "idle"]
  /\ mode = "rx" /\ air = "idle" /\ fifo \in {"empty", "unread"}
  /\ notified = FALSE /\ tx_in_progress = FALSE /\ tries = 0 /\ heard = FALSE
  /\ file \in Config \cup {NoFile}
  /\ chip = BootConfig(file) /\ s_cfg = chip /\ wanted = chip /\ reported = FALSE
  /\ replaced = "no"
  /\ left = [send |-> MaxSends, save |-> MaxSaves, upload |-> MaxUploads,
             reboot |-> MaxReboots]

-----------------------------------------------------------------------------
(* The radio.  onReceive runs in the step that raises DIO0.                *)

FrameStarts ==
  /\ mode = "rx" /\ air = "idle"
  /\ air' = "coming"
  /\ UNCHANGED <<mutex, phase, mode, fifo, notified, tx_in_progress, tries, heard, cfgVars,
                 left>>

FrameArrives ==
  /\ air = "coming" /\ air' = "idle"
  /\ fifo' \in {"unread", "spoiled"}
  /\ notified' = (notified \/ (fifo = "empty" /\ ~tx_in_progress))
  /\ UNCHANGED <<mutex, phase, mode, tx_in_progress, tries, heard, cfgVars, left>>

-----------------------------------------------------------------------------
(* lora_rx_task: wait for a notification or a second, read, answer.        *)

RxWakes ==
  /\ phase["rx"] = "idle"
  /\ IF notified THEN Go("rx", "want") ELSE Go("rx", "poll")
  /\ notified' = FALSE
  /\ UNCHANGED <<mutex, radioVars, tx_in_progress, tries, heard, cfgVars, left>>

\* Mutant: no missed-edge recovery.
RxOnlyNotified ==
  /\ phase["rx"] = "poll" /\ Go("rx", "idle")
  /\ UNCHANGED <<mutex, radioVars, notified, tx_in_progress, tries, heard, cfgVars, left>>

\* A second without a notification: an unread frame still holds DIO0 high.  While
\* a frame is being sent the pin is TxDone.
RxPolls ==
  /\ phase["rx"] = "poll"
  /\ \/ (fifo # "empty" \/ mode = "tx") /\ Go("rx", "want")
     \/ (fifo = "empty" \/ mode = "tx") /\ Go("rx", "idle")
  /\ UNCHANGED <<mutex, radioVars, notified, tx_in_progress, tries, heard, cfgVars, left>>

RxTakes ==
  /\ phase["rx"] = "want" /\ Take("rx") /\ Go("rx", "read")
  /\ UNCHANGED <<radioVars, notified, tx_in_progress, tries, heard, cfgVars, left>>

\* parsePacket clears RxDone; with nothing received it drops to single-RX mode.  A
\* spoiled frame reads as nothing, or as one crc8 refuses and a NACK may answer.
RxReads ==
  /\ phase["rx"] = "read"
  /\ air' = "idle" /\ fifo' = "empty"
  /\ mode' = IF fifo = "empty" THEN "single" ELSE "standby"
  /\ \/ fifo # "empty" /\ Go("rx", "got")
     \/ fifo # "unread" /\ Go("rx", "none")
  /\ UNCHANGED <<mutex, notified, tx_in_progress, tries, heard, cfgVars, left>>

\* Mutant: the radio stays in the mode parsePacket left it in.
RxGivesAsIs ==
  /\ phase["rx"] \in {"got", "none"}
  /\ Give
  /\ \/ Go("rx", "idle")
     \/ phase["rx"] = "got" /\ Go("rx", "wantAck")
  /\ UNCHANGED <<radioVars, notified, tx_in_progress, tries, heard, cfgVars, left>>

\* handle_rx_frame runs after the mutex is given; some frames are answered.
RxGives ==
  /\ phase["rx"] \in {"got", "none"}
  /\ mode' = "rx" /\ Give
  /\ \/ Go("rx", "idle")
     \/ phase["rx"] = "got" /\ Go("rx", "wantAck")
  /\ UNCHANGED <<air, fifo, notified, tx_in_progress, tries, heard, cfgVars, left>>

-----------------------------------------------------------------------------
(* lora_tx_frame, for the TX task and for the RX task's ACKs.              *)

Send ==
  /\ phase["tx"] = "idle" /\ left.send > 0
  /\ left' = [left EXCEPT !.send = @ - 1]
  /\ tries' = 0 /\ Go("tx", "want")
  /\ UNCHANGED <<mutex, radioVars, notified, tx_in_progress, heard, cfgVars>>

\* An ACK is sent without listening, a packet after LBT_TRIES busy checks.
TakeRadio(t) ==
  /\ Take(t)
  /\ \/ t = "rx" /\ phase[t] = "wantAck" /\ Go(t, "key")
     \/ t = "tx" /\ phase[t] = "want"
        /\ IF tries >= LBT_TRIES THEN Go(t, "key") ELSE Go(t, "modem")
  /\ UNCHANGED <<radioVars, notified, tx_in_progress, tries, heard, cfgVars, left>>

\* Mutant: busy checks are not counted.
BackoffForEver ==
  /\ Give /\ UNCHANGED tries /\ Go("tx", "want")

Backoff ==
  /\ Give /\ tries' = tries + 1 /\ Go("tx", "want")

\* The modem status is read before the flags: a frame that ends in between is
\* in the FIFO when they are read.
CheckModem ==
  /\ phase["tx"] = "modem"
  /\ heard' = (air = "coming" \/ fifo # "empty")
  /\ IF air = "coming" THEN Backoff
     ELSE Go("tx", "flags") /\ UNCHANGED <<mutex, tries>>
  /\ UNCHANGED <<radioVars, notified, tx_in_progress, cfgVars, left>>

\* Mutant: only the modem is looked at, not the frame that waits.
CheckModemAgain ==
  /\ phase["tx"] = "flags"
  /\ IF air = "coming" THEN Backoff
     ELSE Go("tx", "key") /\ UNCHANGED <<mutex, tries>>
  /\ UNCHANGED <<radioVars, notified, tx_in_progress, heard, cfgVars, left>>

CheckFlags ==
  /\ phase["tx"] = "flags"
  /\ IF fifo # "empty" THEN Backoff
     ELSE Go("tx", "key") /\ UNCHANGED <<mutex, tries>>
  /\ UNCHANGED <<radioVars, notified, tx_in_progress, heard, cfgVars, left>>

Key(t) ==
  /\ phase[t] = "key"
  /\ tx_in_progress' = TRUE /\ Go(t, "load")
  /\ UNCHANGED <<mutex, radioVars, notified, tries, heard, cfgVars, left>>

\* LoRa_txMode, then beginPacket and write, which overwrite the FIFO.
Load(t) ==
  /\ phase[t] = "load"
  /\ air' = "idle"
  /\ \/ mode' = "tx" /\ fifo' = (IF fifo = "unread" THEN "spoiled" ELSE fifo)
     \/ mode' = "standby" /\ UNCHANGED fifo      \* beginPacket fails
  /\ Go(t, "sent")
  /\ UNCHANGED <<mutex, notified, tx_in_progress, tries, heard, cfgVars, left>>

\* Mutant: the mutex is given before tx_in_progress is cleared.
ListenAndGive(t) ==
  /\ phase[t] = "sent"
  /\ mode' = "rx" /\ Give /\ Go(t, "unkey")
  /\ UNCHANGED <<air, fifo, notified, tx_in_progress, tries, heard, cfgVars, left>>

\* endPacket has seen TX_DONE; back to RX while the interrupt is still deaf.
Listen(t) ==
  /\ phase[t] = "sent"
  /\ mode' = "rx" /\ Go(t, "unkey")
  /\ UNCHANGED <<mutex, air, fifo, notified, tx_in_progress, tries, heard, cfgVars, left>>

Unkey(t) ==
  /\ phase[t] = "unkey"
  /\ tx_in_progress' = FALSE /\ Give /\ Go(t, "idle")
  /\ UNCHANGED <<radioVars, notified, tries, heard, cfgVars, left>>

Transmit(t) == TakeRadio(t) \/ Key(t) \/ Load(t) \/ Listen(t) \/ Unkey(t)

\* xSemaphoreTake gives up after LORA_TX_TIMEOUT_MS: the frame, the packet's
\* attempt or the ACK is dropped; the RX task finds DIO0 high again later.
TakeTimesOut(t) ==
  /\ t \in {"rx", "tx"} /\ phase[t] \in {"want", "wantAck"} /\ mutex # NoTask
  /\ Go(t, "idle")
  /\ UNCHANGED <<mutex, radioVars, notified, tx_in_progress, tries, heard, cfgVars, left>>

-----------------------------------------------------------------------------
(* save_lora_config on the web worker, the updates, and a reboot.          *)

\* write_file_atomic, then apply_config.  A write that fails ends the save: any does
\* once an image is being written, the file system is offline until the reboot.
SaveFile(c) ==
  /\ phase["cfg"] = "idle" /\ left.save > 0
  /\ left' = [left EXCEPT !.save = @ - 1]
  /\ \/ replaced # "upload" /\ file' = c /\ wanted' = c /\ Go("cfg", "want")
     \/ UNCHANGED <<file, wanted, phase>>
  /\ UNCHANGED <<mutex, radioVars, notified, tx_in_progress, tries, heard, s_cfg, chip,
                 reported, replaced>>

ApplyTakes ==
  /\ phase["cfg"] = "want" /\ Take("cfg") /\ Go("cfg", "apply")
  /\ s_cfg' = wanted
  /\ UNCHANGED <<radioVars, notified, tx_in_progress, tries, heard, chip, file, wanted,
                 reported, replaced, left>>

\* Mutant: a busy radio is not reported.
ApplyGivesUp ==
  /\ phase["cfg"] = "want" /\ mutex # NoTask
  /\ Go("cfg", "idle")
  /\ UNCHANGED <<mutex, radioVars, notified, tx_in_progress, tries, heard, cfgVars, left>>

ApplyTimesOut ==
  /\ phase["cfg"] = "want" /\ mutex # NoTask
  /\ reported' = TRUE /\ Go("cfg", "idle")
  /\ UNCHANGED <<mutex, radioVars, notified, tx_in_progress, tries, heard, s_cfg, chip,
                 file, wanted, replaced, left>>

\* LoRa.idle, the registers, then LoRa_rxMode: idle drops a frame being received.
ApplySets ==
  /\ phase["cfg"] = "apply"
  /\ mode' = "standby" /\ air' = "idle" /\ chip' = wanted /\ Go("cfg", "sent")
  /\ UNCHANGED <<mutex, fifo, notified, tx_in_progress, tries, heard, s_cfg, file, wanted,
                 reported, replaced, left>>

ApplyEnds ==
  /\ phase["cfg"] = "sent"
  /\ mode' = "rx" /\ Give /\ reported' = FALSE /\ Go("cfg", "idle")
  /\ UNCHANGED <<air, fifo, notified, tx_in_progress, tries, heard, s_cfg, chip, file,
                 wanted, replaced, left>>

\* ota_admit takes the mutex without waiting and idles the radio; an upload that
\* fails gives it back listening, one that succeeds ends in a reboot.
OtaTakes ==
  /\ phase["ota"] = "idle" /\ left.upload > 0 /\ Take("ota") /\ Go("ota", "hold")
  /\ left' = [left EXCEPT !.upload = @ - 1]
  /\ mode' = "standby" /\ air' = "idle"
  /\ UNCHANGED <<fifo, notified, tx_in_progress, tries, heard, cfgVars>>

OtaGives ==
  /\ phase["ota"] = "hold" /\ mode' = "rx" /\ Give /\ Go("ota", "idle")
  /\ UNCHANGED <<air, fifo, notified, tx_in_progress, tries, heard, cfgVars, left>>

\* A filesystem image overwrites the files, then an upload that succeeds puts some
\* back; one that fails gives the radio back with the partition half-written.
OtaWrites ==
  /\ phase["ota"] = "hold"
  /\ file' \in Config \cup {NoFile} /\ replaced' = "upload"
  /\ UNCHANGED <<mutex, phase, radioVars, notified, tx_in_progress, tries, heard, s_cfg, chip,
                 wanted, reported, left>>

\* reset_device restores or removes the file, which may fail (it does with the file
\* system offline), and reboots 1.5 s later: the bound keeps a reboot for it.
ResetFile ==
  /\ left.reboot > 0
  /\ IF replaced = "upload" THEN UNCHANGED <<file, replaced>>
     ELSE file' \in {Defaults, NoFile, file} /\ replaced' = "reset"
  /\ UNCHANGED <<mutex, phase, radioVars, notified, tx_in_progress, tries, heard, s_cfg, chip,
                 wanted, reported, left>>

\* config_lora and set_lora_parameters at the next boot.
Reboot ==
  /\ left.reboot > 0 /\ left' = [left EXCEPT !.reboot = @ - 1]
  /\ mutex' = NoTask /\ phase' = [t \in Task |-> "idle"]
  /\ mode' = "rx" /\ air' = "idle" /\ fifo' \in {"empty", "unread"}
  /\ notified' = FALSE /\ tx_in_progress' = FALSE /\ tries' = 0 /\ heard' = FALSE
  /\ chip' = BootConfig(file) /\ s_cfg' = chip' /\ wanted' = chip' /\ reported' = FALSE
  /\ replaced' = "no" /\ UNCHANGED file

RxTask == RxWakes \/ RxPolls \/ RxTakes \/ RxReads \/ RxGives \/ Transmit("rx") \/ TakeTimesOut("rx")
TxTask == CheckModem \/ CheckFlags \/ Transmit("tx") \/ TakeTimesOut("tx")
CfgTask == ApplyTakes \/ ApplyTimesOut \/ ApplySets \/ ApplyEnds

Next ==
  \/ FrameStarts \/ FrameArrives
  \/ RxTask
  \/ Send \/ TxTask
  \/ (\E c \in Config : SaveFile(c)) \/ CfgTask
  \/ OtaTakes \/ OtaWrites \/ OtaGives
  \/ ResetFile \/ Reboot

Spec == Init /\ [][Next]_vars

\* The tasks run; an update ends.  Nothing is assumed of the air or of who asks for what.
Fairness == WF_vars(RxTask) /\ WF_vars(TxTask) /\ WF_vars(CfgTask) /\ WF_vars(OtaGives)

FairSpec == Spec /\ Fairness

-----------------------------------------------------------------------------
(* Properties.                                                             *)

TypeOK ==
  /\ mutex \in Task \cup {NoTask}
  /\ phase \in [Task -> {"idle", "poll", "want", "wantAck", "read", "got", "none", "modem",
                         "flags", "key", "load", "sent", "unkey", "apply", "hold"}]
  /\ mode \in {"rx", "standby", "single", "tx"}
  /\ air \in {"idle", "coming"} /\ fifo \in {"empty", "unread", "spoiled"}
  /\ notified \in BOOLEAN /\ tx_in_progress \in BOOLEAN
  /\ tries \in 0..LBT_TRIES /\ heard \in BOOLEAN
  /\ {s_cfg, chip, wanted} \subseteq Config /\ file \in Config \cup {NoFile}
  /\ reported \in BOOLEAN /\ replaced \in {"no", "reset", "upload"}
  /\ left \in [send : 0..MaxSends, save : 0..MaxSaves, upload : 0..MaxUploads,
              reboot : 0..MaxReboots]

\* Whoever gives the mutex leaves the radio receiving, the interrupt listening
\* and the timing snapshot equal to the registers: no path through the four tasks
\* (parsePacket's single-RX mode, a failed beginPacket, an aborted update) leaves
\* the board deaf.
FreeMeansListening ==
  mutex = NoTask => mode = "rx" /\ ~tx_in_progress /\ s_cfg = chip

\* The interrupt is deaf only while a transmitter is at work, and nobody else
\* touches the radio meanwhile.
DeafOnlyWhileSending ==
  tx_in_progress => \E t \in {"tx", "rx"} : mutex = t /\ phase[t] \in {"load", "sent", "unkey"}

\* Listening before talking: a packet whose tries are not used up is not sent over a
\* frame that was on the air or waiting when its check began, even one that ends
\* between the two register reads.
TalksOnClearChannel ==
  phase["tx"] \in {"key", "load"} /\ tries < LBT_TRIES => ~heard

\* Between saves, the radio runs what lora_config.json says, unless the last save
\* was answered "radio busy: it applies after restart", or a factory reset or a
\* filesystem image, which wait for a reboot too, has replaced the file.
SavedMeansApplied ==
  phase["cfg"] = "idle" /\ ~reported /\ replaced = "no" => chip = BootConfig(file)

\* A received frame does not wait in the FIFO for ever: it is read, or a later frame
\* or a transmission overwrites it.  Its interrupt may have been ignored, or its
\* notification used up by a wait for the mutex that timed out.
FramesAreTaken == fifo # "empty" ~> fifo = "empty"

\* Every packet's attempt ends, on a channel that is never clear too.
SendsEnd == phase["tx"] = "want" ~> phase["tx"] = "idle"
=============================================================================
