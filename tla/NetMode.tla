------------------------------ MODULE NetMode ------------------------------
(***************************************************************************)
(* Who owns a board's USB serial port.                                     *)
(*                                                                         *)
(* The port carries file-transfer bytes while the bridge is on             *)
(* (lora_serial), LoRa network frames while the network mode is active     *)
(* (s_active), and Improv commands otherwise.  The serial task             *)
(* (serial_to_lora) decides this once per loop and then drains what has    *)
(* arrived.  The web worker (handle_operations) switches the bridge.  On   *)
(* the PC, Voyager Link (netbridge_windows.go) asks for the network mode   *)
(* in a handshake, keeps it alive, asks again when the board does not      *)
(* answer, and leaves or is killed.  The board can reboot.                 *)
(*                                                                         *)
(* What travels over USB is abstracted to whole frames: "leave", "keep"    *)
(* and "start" towards the board, "result", "error" and "alive" back.      *)
(* A frame read in the wrong mode is skipped by that mode's parser, or     *)
(* forwarded over LoRa as bridge bytes.                                    *)
(***************************************************************************)
EXTENDS Naturals, Sequences

CONSTANTS
  WebCommand,     \* commands browsers send: of "serialOn", "serialOff",
                  \* "fileStart" (FileTxStart) and "fileEnd" (FileTxEnd)
  ACK_TICKS,      \* keepalives without an answer before asking again (20 s / 5 s)
  MaxSends,       \* times the handshake asks before its deadline (8 s / 1.5 s)
  MaxJoins, MaxReboots, MaxCommands   \* bounds of the exploration

ASSUME NetModeAssumption ==
  /\ WebCommand \subseteq {"serialOn", "serialOff", "fileStart", "fileEnd"}
  /\ {ACK_TICKS, MaxSends} \subseteq Nat \ {0}
  /\ {MaxJoins, MaxReboots, MaxCommands} \subseteq Nat

VARIABLES
  bridge,      \* lora_serial
  rx_q,        \* s_rx_q could be created at boot
  active,      \* s_active
  busy,        \* s_busy: an Improv connect or scan task is running
  serial,      \* where serial_to_lora is
  quiet,       \* no frame for NET_IDLE_TIMEOUT_MS
  web,         \* the command the web worker has checked and not yet carried out
  savers,      \* save_lora_serial tasks: how many have not read the flag yet,
               \* have read it on, have read it off
  saved,       \* lora_serial.json
  usb, out,    \* frames to the board and to the PC
  link,        \* where Voyager Link is
  sends,       \* times the handshake has asked
  misses,      \* keepalives since the board last answered one
  joins, reboots, commands   \* bounded counters

board == <<bridge, rx_q, active, busy, serial, quiet, web, savers, saved>>
pc == <<link, sends, misses, joins>>
vars == <<board, pc, usb, out, reboots, commands>>

NoSavers == [fresh |-> 0, on |-> 0, off |-> 0]

Init ==
  /\ bridge \in BOOLEAN
  /\ saved = bridge
  /\ rx_q \in BOOLEAN
  /\ active = FALSE
  /\ busy \in BOOLEAN
  /\ serial = "top"
  /\ quiet = FALSE
  /\ web = "idle"
  /\ savers = NoSavers
  /\ usb = <<>> /\ out = <<>>
  /\ link = "off"
  /\ sends = 0 /\ misses = 0
  /\ joins = 0 /\ reboots = 0 /\ commands = 0

-----------------------------------------------------------------------------
\* The serial task.

\* One loop looks at the mode once.  With the bridge on it starts a frame only
\* when there is a byte; otherwise it drains the port into the mode's parser.
LoopStart ==
  /\ serial = "top"
  /\ serial' = IF bridge THEN (IF usb = <<>> THEN "top" ELSE "bridge")
               ELSE IF active THEN "net" ELSE "improv"
  /\ UNCHANGED <<rx_q, bridge, active, busy, quiet, web, savers, saved, pc, usb, out, reboots, commands>>

\* The bridge takes bytes into a LoRa frame until the line goes quiet, whatever
\* the flag says by then.
BridgeRead ==
  /\ serial = "bridge"
  /\ usb # <<>>
  /\ usb' = Tail(usb)
  /\ UNCHANGED <<rx_q, bridge, active, busy, serial, quiet, web, savers, saved, pc, out, reboots, commands>>

BridgeSend ==
  /\ serial = "bridge"
  /\ serial' = "top"
  /\ UNCHANGED <<rx_q, bridge, active, busy, quiet, web, savers, saved, pc, usb, out, reboots, commands>>

\* net_feed and handle_frame.  Draining goes on after "leave", and a keepalive
\* is answered even then.
NetFeed ==
  /\ serial = "net"
  /\ usb # <<>>
  /\ usb' = Tail(usb)
  /\ quiet' = FALSE
  /\ active' = (active /\ Head(usb) # "leave")
  /\ out' = IF Head(usb) = "keep" THEN Append(out, "alive") ELSE out
  /\ UNCHANGED <<rx_q, bridge, busy, serial, web, savers, saved, pc, reboots, commands>>

\* Mutant: the idle timeout is only looked at while frames arrive.
NoIdleTimeout ==
  /\ serial = "net"
  /\ usb = <<>>
  /\ serial' = "top"
  /\ UNCHANGED <<rx_q, bridge, active, busy, quiet, web, savers, saved, pc, usb, out, reboots, commands>>

\* The port is drained: net_poll ends the mode when the PC has been silent.
NetPoll ==
  /\ serial = "net"
  /\ usb = <<>>
  /\ serial' = "top"
  /\ active' = (active /\ ~quiet)
  /\ UNCHANGED <<rx_q, bridge, busy, quiet, web, savers, saved, pc, usb, out, reboots, commands>>

\* improv_feed: NET_START is refused while the bridge or an Improv task is on,
\* and the refusal itself is not sent with the bridge on.  Otherwise it is
\* answered first.  Everything else is skipped.
ImprovFeed ==
  /\ serial = "improv"
  /\ usb # <<>>
  /\ usb' = Tail(usb)
  /\ IF Head(usb) # "start" THEN UNCHANGED <<serial, out>>
     ELSE IF bridge THEN UNCHANGED <<serial, out>>
     ELSE IF busy THEN UNCHANGED serial /\ out' = Append(out, "error")
     ELSE serial' = "answered" /\ out' = Append(out, "result")
  /\ UNCHANGED <<rx_q, bridge, active, busy, quiet, web, savers, saved, pc, reboots, commands>>

\* net_enter, after the answer was flushed: it looks at the bridge once more, and
\* at its queue.
NetEnter ==
  /\ serial = "answered"
  /\ serial' = IF bridge \/ ~rx_q THEN "improv" ELSE "entering"
  /\ UNCHANGED <<bridge, rx_q, active, busy, quiet, web, savers, saved, pc, usb, out, reboots, commands>>

\* ... then it sets the flag.
NetEntered ==
  /\ serial = "entering"
  /\ serial' = "improv"
  /\ active' = TRUE /\ quiet' = FALSE
  /\ UNCHANGED <<bridge, rx_q, busy, web, savers, saved, pc, usb, out, reboots, commands>>

ImprovDone ==
  /\ serial = "improv"
  /\ usb = <<>>
  /\ serial' = "top"
  /\ UNCHANGED <<rx_q, bridge, active, busy, quiet, web, savers, saved, pc, usb, out, reboots, commands>>

LoopEnds == BridgeSend \/ NetPoll \/ ImprovDone
SerialTask == LoopStart \/ BridgeRead \/ NetFeed \/ ImprovFeed \/ NetEnter \/ NetEntered \/ LoopEnds

\* provision_task or scan_task ends.
ImprovTaskEnds ==
  /\ busy
  /\ busy' = FALSE
  /\ UNCHANGED <<rx_q, bridge, active, serial, quiet, web, savers, saved, pc, usb, out, reboots, commands>>

\* NET_IDLE_TIMEOUT_MS pass without a frame.  Voyager Link sends one at least
\* every 5 s, except while it sets up the adapter (netsh may take minutes).
IdleTimePasses ==
  /\ ~quiet
  /\ usb = <<>>
  /\ link \in {"off", "setup"}
  /\ quiet' = TRUE
  /\ UNCHANGED <<rx_q, bridge, active, busy, serial, web, savers, saved, pc, usb, out, reboots, commands>>

-----------------------------------------------------------------------------
\* The web worker and the tasks it starts.

\* SetSerialMode(true) and FileTxStart look at net_active() first, and carry
\* on only if the network mode is off.
WebChecks(c) ==
  /\ web = "idle"
  /\ commands < MaxCommands
  /\ commands' = commands + 1
  /\ web' = IF c \in {"serialOn", "fileStart"} /\ active THEN "idle" ELSE c
  /\ UNCHANGED <<rx_q, bridge, active, busy, serial, quiet, savers, saved, pc, usb, out, reboots>>

\* ... then they set the flag.  SetSerialMode also starts a task to save it.
WebSets ==
  /\ web # "idle"
  /\ bridge' = (web \in {"serialOn", "fileStart"})
  /\ savers' = IF web \in {"serialOn", "serialOff"} THEN [savers EXCEPT !.fresh = @ + 1] ELSE savers
  /\ web' = "idle"
  /\ UNCHANGED <<rx_q, active, busy, serial, quiet, saved, pc, usb, out, reboots, commands>>

\* save_lora_serial_config reads the flag, later it writes the file.
SaverReads ==
  /\ savers.fresh > 0
  /\ savers' = IF bridge THEN [savers EXCEPT !.fresh = @ - 1, !.on = @ + 1]
               ELSE [savers EXCEPT !.fresh = @ - 1, !.off = @ + 1]
  /\ UNCHANGED <<rx_q, bridge, active, busy, serial, quiet, web, saved, pc, usb, out, reboots, commands>>

SaverWrites ==
  /\ \/ savers.on > 0 /\ saved' = TRUE /\ savers' = [savers EXCEPT !.on = @ - 1]
     \/ savers.off > 0 /\ saved' = FALSE /\ savers' = [savers EXCEPT !.off = @ - 1]
  /\ UNCHANGED <<rx_q, bridge, active, busy, serial, quiet, web, pc, usb, out, reboots, commands>>

\* The board restarts: what was in its memory and its UART is gone, and the
\* bridge comes back as it was saved.
Reboot ==
  /\ reboots < MaxReboots
  /\ reboots' = reboots + 1
  /\ bridge' = saved /\ rx_q' \in BOOLEAN
  /\ active' = FALSE /\ busy' = FALSE /\ quiet' = FALSE
  /\ serial' = "top" /\ web' = "idle" /\ savers' = NoSavers
  /\ usb' = <<>>
  /\ UNCHANGED <<saved, pc, out, commands>>

-----------------------------------------------------------------------------
\* Voyager Link.

\* netJoin opens the port, which empties its input buffer.
Join ==
  /\ link = "off"
  /\ joins < MaxJoins
  /\ joins' = joins + 1
  /\ link' = "ask"
  /\ sends' = 0
  /\ out' = <<>>
  /\ UNCHANGED <<board, misses, usb, reboots, commands>>

\* netHandshake sends "leave", waits 150 ms, sends the start command and reads;
\* without an answer it does so again, up to its deadline.
SendLeave ==
  /\ link = "ask"
  /\ link' = "gap"
  /\ sends' = sends + 1
  /\ usb' = Append(usb, "leave")
  /\ UNCHANGED <<board, misses, joins, out, reboots, commands>>

SendStart ==
  /\ link = "gap"
  /\ link' = "read"
  /\ usb' = Append(usb, "start")
  /\ UNCHANGED <<board, sends, misses, joins, out, reboots, commands>>

\* An answer ends the handshake; an "alive" is not an Improv packet.
ReadAnswer ==
  /\ link = "read"
  /\ out # <<>>
  /\ out' = Tail(out)
  /\ link' = CASE Head(out) = "result" -> "setup"
               [] Head(out) = "error"  -> "off"
               [] Head(out) = "alive"  -> "read"
  /\ UNCHANGED <<board, sends, misses, joins, usb, reboots, commands>>

\* Mutant: the deadline is one turn late.
AsksOnceMore ==
  /\ link = "read"
  /\ out = <<>>
  /\ link' = IF sends <= MaxSends THEN "ask" ELSE "off"
  /\ UNCHANGED <<board, sends, misses, joins, usb, out, reboots, commands>>

AskAgain ==
  /\ link = "read"
  /\ out = <<>>
  /\ link' = IF sends < MaxSends THEN "ask" ELSE "off"
  /\ UNCHANGED <<board, sends, misses, joins, usb, out, reboots, commands>>

\* The adapter is created and configured, and the bridge's goroutines start;
\* or that fails, and the port is closed without a "leave".
SetupEnds ==
  /\ link = "setup"
  /\ link' \in {"joined", "off"}
  /\ misses' = 0
  /\ UNCHANGED <<board, sends, joins, usb, out, reboots, commands>>

\* Mutant: the board is never asked for the network mode again.
NeverAsksAgain ==
  /\ link = "joined"
  /\ usb = <<>> /\ out = <<>>
  /\ misses' = IF misses < ACK_TICKS THEN misses + 1 ELSE misses
  /\ usb' = <<"keep">>
  /\ UNCHANGED <<board, link, sends, joins, out, reboots, commands>>

\* keepalive, every 5 s: by then the board has handled the last one and its
\* answer has been read.  A board that has not answered for netAckTimeout is
\* asked for the network mode again.
KeepAlive ==
  /\ link = "joined"
  /\ usb = <<>> /\ out = <<>>
  /\ IF misses < ACK_TICKS
       THEN usb' = <<"keep">> /\ misses' = misses + 1
       ELSE usb' = <<"keep", "start">> /\ misses' = 0
  /\ UNCHANGED <<board, link, sends, joins, out, reboots, commands>>

\* serialToTun: an "alive" is noted, an Improv answer is no SLIP frame.
SerialToTun ==
  /\ link = "joined"
  /\ out # <<>>
  /\ out' = Tail(out)
  /\ misses' = IF Head(out) = "alive" THEN 0 ELSE misses
  /\ UNCHANGED <<board, link, sends, joins, usb, reboots, commands>>

\* netLeave: the board is told, and the port closed.
Leave ==
  /\ link = "joined"
  /\ link' = "off"
  /\ usb' = Append(usb, "leave")
  /\ UNCHANGED <<board, sends, misses, joins, out, reboots, commands>>

\* Voyager Link is killed, or the cable pulled, at any time.
Killed ==
  /\ link # "off"
  /\ link' = "off"
  /\ UNCHANGED <<board, sends, misses, joins, usb, out, reboots, commands>>

LinkRuns == SendLeave \/ SendStart \/ ReadAnswer \/ AskAgain \/ SetupEnds \/ KeepAlive \/ SerialToTun
-----------------------------------------------------------------------------
Next ==
  \/ SerialTask \/ ImprovTaskEnds \/ IdleTimePasses
  \/ \E c \in WebCommand : WebChecks(c)
  \/ WebSets \/ SaverReads \/ SaverWrites \/ Reboot
  \/ Join \/ LinkRuns \/ Leave \/ Killed

Spec == Init /\ [][Next]_vars

\* Tasks that are ready run, and time passes.  A loop of the serial task takes
\* milliseconds and keepalives are 5 s apart, so a loop does not drain for ever.
\* Nobody has to send a command, join, leave, or be killed.
FairSpec ==
  /\ Spec
  /\ WF_vars(SerialTask) /\ SF_vars(LoopEnds) /\ WF_vars(ImprovTaskEnds) /\ WF_vars(IdleTimePasses)
  /\ WF_vars(WebSets) /\ WF_vars(SaverReads) /\ WF_vars(SaverWrites)
  /\ WF_vars(LinkRuns)
-----------------------------------------------------------------------------
TypeOK ==
  /\ {bridge, rx_q, active, busy, quiet, saved} \subseteq BOOLEAN
  /\ serial \in {"top", "bridge", "net", "improv", "answered", "entering"}
  /\ web \in {"idle"} \cup WebCommand
  /\ savers \in [fresh : Nat, on : Nat, off : Nat]
  /\ savers.fresh + savers.on + savers.off <= MaxCommands
  /\ usb \in Seq({"leave", "keep", "start"})
  /\ out \in Seq({"result", "error", "alive"})
  /\ link \in {"off", "ask", "gap", "read", "setup", "joined"}
  /\ sends \in 0..MaxSends
  /\ misses \in 0..ACK_TICKS
  /\ joins \in 0..MaxJoins /\ reboots \in 0..MaxReboots /\ commands \in 0..MaxCommands

\* net_serial.h:14-16: the mode ends when the PC is gone, killed or not, so the
\* port falls back to Improv.  (While the bridge is on the port is its own.)
NetModeEnds == (link = "off" /\ active) ~> (~active \/ link # "off" \/ bridge)

\* netbridge's keepalive: whatever happened to the board or to the handshake (a
\* reboot, a start command eaten by the SLIP decoder, the idle timeout during
\* the adapter's setup), a joined PC gets it back into network mode, unless the
\* bridge took the port, or the board came up without memory for its queue.
JoinedComesAlive == link = "joined" ~> (active \/ bridge \/ ~rx_q \/ link # "joined")

\* "the UART belongs to the bridge / network" (support_method.cpp:730): to one
\* of them.  handle_operations refuses the bridge while the network is on, and
\* net_enter the network while the bridge is.
OneOwner == ~(bridge /\ active)
=============================================================================
