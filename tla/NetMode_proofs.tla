---------------------------- MODULE NetMode_proofs ----------------------------
(***************************************************************************)
(* Proofs about the owner of the USB serial port, for any commands, joins, *)
(* reboots and deadlines:                                                  *)
(*   1. types, with the bounds on save tasks, questions and keepalives;    *)
(*   2. the only steps that give the port to two owners.                   *)
(***************************************************************************)
EXTENDS NetMode, SequenceTheorems, TLAPS

-----------------------------------------------------------------------------
(* 1. Types.                                                               *)

ToSave == IF web \in {"serialOn", "serialOff"} THEN 1 ELSE 0

\* The board's own state, without the frames and the counters.
BoardTypes ==
  /\ bridge \in BOOLEAN /\ rx_q \in BOOLEAN /\ active \in BOOLEAN /\ busy \in BOOLEAN
  /\ quiet \in BOOLEAN /\ saved \in BOOLEAN
  /\ serial \in {"top", "bridge", "net", "improv", "answered", "entering"}

\* Every save task comes from a command of its own, done or in hand.
SaverTypes ==
  /\ web \in {"idle"} \cup WebCommand
  /\ savers \in [fresh : Nat, on : Nat, off : Nat]
  /\ commands \in 0..MaxCommands
  /\ savers.fresh + savers.on + savers.off + ToSave <= commands

FrameTypes == usb \in Seq({"leave", "keep", "start"}) /\ out \in Seq({"result", "error", "alive"})

\* netHandshake asks only when it has asked fewer than MaxSends times.
LinkTypes ==
  /\ link \in {"off", "ask", "gap", "read", "setup", "joined"}
  /\ sends \in 0..MaxSends /\ misses \in 0..ACK_TICKS
  /\ joins \in 0..MaxJoins /\ reboots \in 0..MaxReboots
  /\ link = "ask" => sends < MaxSends

Parts == BoardTypes /\ SaverTypes /\ FrameTypes /\ LinkTypes

\* TypeOK part by part.
LEMMA PartsMakeTypes == Parts => TypeOK
<1> SUFFICES ASSUME Parts PROVE TypeOK
  OBVIOUS
<1>1. {bridge, rx_q, active, busy, quiet, saved} \subseteq BOOLEAN
  BY ZenonT(30) DEF Parts, BoardTypes
<1>2. savers.fresh + savers.on + savers.off <= MaxCommands
  <2>1. PICK f \in Nat, o \in Nat, g \in Nat, c \in Nat :
          f = savers.fresh /\ o = savers.on /\ g = savers.off /\ c = commands
    BY DEF Parts, SaverTypes
  <2>2. ToSave \in Nat
    BY DEF ToSave
  <2>3. f + o + g + ToSave <= c /\ c <= MaxCommands /\ MaxCommands \in Nat
    BY <2>1, NetModeAssumption DEF Parts, SaverTypes
  <2>4. f + o + g <= MaxCommands
    BY <2>1, <2>2, <2>3
  <2>5. QED
    BY <2>1, <2>4
<1>3. QED
  BY <1>1, <1>2 DEF Parts, BoardTypes, SaverTypes, FrameTypes, LinkTypes, TypeOK

LEMMA InitTyped == Init => Parts
<1> SUFFICES ASSUME Init PROVE Parts
  OBVIOUS
<1>1. BoardTypes
  BY DEF Init, BoardTypes
<1>2. SaverTypes
  BY NetModeAssumption DEF Init, SaverTypes, NoSavers, ToSave
<1>3. FrameTypes
  BY EmptySeq DEF Init, FrameTypes
<1>4. LinkTypes
  BY NetModeAssumption DEF Init, LinkTypes
<1>5. QED
  BY <1>1, <1>2, <1>3, <1>4 DEF Parts

-----------------------------------------------------------------------------
(* Each part is kept.                                                      *)

LEMMA BoardKept ==
  ASSUME Parts, [Next]_vars
  PROVE  BoardTypes'
<1>1. BoardTypes
  BY DEF Parts
<1>2. CASE SerialTask
  <2>1. bridge' = bridge /\ rx_q' = rx_q /\ busy' = busy /\ saved' = saved
    BY <1>2 DEF SerialTask, LoopStart, BridgeRead, NetFeed, ImprovFeed, NetEnter, NetEntered, LoopEnds,
                BridgeSend, NetPoll, ImprovDone
  <2>2. serial' \in {"top", "bridge", "net", "improv", "answered", "entering"}
    BY <1>1, <1>2 DEF SerialTask, LoopStart, BridgeRead, NetFeed, ImprovFeed, NetEnter, NetEntered, LoopEnds,
                BridgeSend, NetPoll, ImprovDone, BoardTypes
  <2>3. active' \in BOOLEAN /\ quiet' \in BOOLEAN
    BY <1>1, <1>2, ZenonT(30) DEF SerialTask, LoopStart, BridgeRead, NetFeed, ImprovFeed, NetEnter, NetEntered,
                LoopEnds, BridgeSend, NetPoll, ImprovDone, BoardTypes
  <2>4. QED
    BY <1>1, <2>1, <2>2, <2>3 DEF BoardTypes
<1>3. CASE ImprovTaskEnds \/ IdleTimePasses \/ SaverReads
  BY <1>1, <1>3 DEF ImprovTaskEnds, IdleTimePasses, SaverReads, BoardTypes
<1>4. CASE WebSets
  <2>1. bridge' \in BOOLEAN
    <3>1. CASE web \in {"serialOn", "fileStart"}
      BY <1>4, <3>1 DEF WebSets
    <3>2. CASE web \notin {"serialOn", "fileStart"}
      BY <1>4, <3>2 DEF WebSets
    <3>3. QED
      BY <3>1, <3>2
  <2>2. QED
    BY <1>1, <1>4, <2>1 DEF WebSets, BoardTypes
<1>5. CASE SaverWrites \/ Reboot
  BY <1>1, <1>5 DEF SaverWrites, Reboot, BoardTypes
<1>6. CASE \E c \in WebCommand : WebChecks(c)
  BY <1>1, <1>6 DEF WebChecks, BoardTypes
<1>7. CASE Join \/ LinkRuns \/ Leave \/ Killed
  BY <1>1, <1>7 DEF Join, LinkRuns, SendLeave, SendStart, ReadAnswer, AskAgain, SetupEnds,
                    KeepAlive, SerialToTun, Leave, Killed, board, BoardTypes
<1>8. CASE UNCHANGED vars
  BY <1>1, <1>8 DEF vars, board, BoardTypes
<1>9. QED
  BY <1>2, <1>3, <1>4, <1>5, <1>6, <1>7, <1>8 DEF Next

LEMMA SaversKept ==
  ASSUME Parts, [Next]_vars
  PROVE  SaverTypes'
<1>1. /\ web \in {"idle"} \cup WebCommand
      /\ savers \in [fresh : Nat, on : Nat, off : Nat]
      /\ commands \in 0..MaxCommands
  BY DEF Parts, SaverTypes
<1>2. PICK f \in Nat, o \in Nat, g \in Nat, c \in Nat :
        /\ savers = [fresh |-> f, on |-> o, off |-> g] /\ c = commands /\ c <= MaxCommands
        /\ MaxCommands \in Nat
  BY <1>1, NetModeAssumption
<1>3. f + o + g + ToSave <= c /\ ToSave \in 0..1
  BY <1>2 DEF Parts, SaverTypes, ToSave
\* How SaverTypes' follows from the three counts.
<1>4. ASSUME NEW f2 \in Nat, NEW o2 \in Nat, NEW g2 \in Nat, NEW c2 \in Nat,
             savers' = [fresh |-> f2, on |-> o2, off |-> g2], commands' = c2,
             c2 <= MaxCommands, f2 + o2 + g2 + ToSave' <= c2,
             web' \in {"idle"} \cup WebCommand
      PROVE  SaverTypes'
  BY <1>2, <1>4 DEF SaverTypes
<1>5. CASE UNCHANGED <<web, savers, commands>>
  BY <1>1, <1>5 DEF Parts, SaverTypes, ToSave
<1>6. ASSUME NEW k \in WebCommand, WebChecks(k)
      PROVE  SaverTypes'
  <2>1. savers' = savers /\ commands' = c + 1 /\ c < MaxCommands
    BY <1>2, <1>6 DEF WebChecks
  <2>2. ToSave = 0 /\ ToSave' \in 0..1 /\ web' \in {"idle"} \cup WebCommand
    BY <1>6 DEF WebChecks, ToSave
  <2>3. c + 1 \in Nat /\ c + 1 <= MaxCommands /\ f + o + g + ToSave' <= c + 1
    <3>1. c + 1 \in Nat /\ c + 1 <= MaxCommands /\ f + o + g <= c
      BY <1>2, <1>3, <2>1, <2>2
    <3>2. PICK t \in 0..1 : t = ToSave'
      BY <2>2
    <3>3. f + o + g + t <= c + 1
      BY <3>1
    <3>4. QED
      BY <3>1, <3>2, <3>3
  <2>4. QED
    BY <1>2, <1>4, <2>1, <2>2, <2>3
<1>7. CASE WebSets
  <2>1. commands' = c /\ web' = "idle" /\ ToSave' = 0
    BY <1>2, <1>7 DEF WebSets, ToSave
  <2>2. savers' = [fresh |-> f + ToSave, on |-> o, off |-> g]
    BY <1>2, <1>7 DEF WebSets, ToSave
  <2>3. PICK d \in Nat : d = f + ToSave
    BY <1>3
  <2>4. d + o + g + 0 <= c
    BY <1>2, <1>3, <2>3
  <2>5. QED
    BY <1>2, <1>4, <2>1, <2>2, <2>3, <2>4
<1>8. CASE SaverReads
  <2>1. f > 0 /\ commands' = c /\ web' = web /\ ToSave' = ToSave
    BY <1>2, <1>8 DEF SaverReads, ToSave
  <2>2. \/ savers' = [fresh |-> f - 1, on |-> o + 1, off |-> g]
        \/ savers' = [fresh |-> f - 1, on |-> o, off |-> g + 1]
    BY <1>2, <1>8 DEF SaverReads
  <2>3. f - 1 \in Nat /\ o + 1 \in Nat /\ g + 1 \in Nat
    BY <2>1
  <2>4. ((f - 1) + (o + 1)) + g + ToSave' <= c /\ ((f - 1) + o) + (g + 1) + ToSave' <= c
    BY <1>2, <1>3, <2>1
  <2>5. QED
    BY <1>1, <1>2, <1>4, <2>1, <2>2, <2>3, <2>4
<1>9. CASE SaverWrites
  <2>1. commands' = c /\ web' = web /\ ToSave' = ToSave
    BY <1>2, <1>9 DEF SaverWrites, ToSave
  <2>2. \/ o > 0 /\ savers' = [fresh |-> f, on |-> o - 1, off |-> g]
        \/ g > 0 /\ savers' = [fresh |-> f, on |-> o, off |-> g - 1]
    BY <1>2, <1>9 DEF SaverWrites
  <2>3. (o > 0 => o - 1 \in Nat) /\ (g > 0 => g - 1 \in Nat)
    OBVIOUS
  <2>4. (f + (o - 1)) + g + ToSave' <= c /\ (f + o) + (g - 1) + ToSave' <= c
    BY <1>2, <1>3, <2>1
  <2>5. QED
    BY <1>1, <1>2, <1>4, <2>1, <2>2, <2>3, <2>4
<1>10. CASE Reboot
  <2>1. savers' = [fresh |-> 0, on |-> 0, off |-> 0] /\ commands' = c /\ web' = "idle"
        /\ ToSave' = 0
    BY <1>2, <1>10 DEF Reboot, NoSavers, ToSave
  <2>2. 0 + 0 + 0 + 0 <= c
    BY <1>2
  <2>3. QED
    BY <1>2, <1>4, <2>1, <2>2
<1>11. CASE SerialTask \/ ImprovTaskEnds \/ IdleTimePasses
  BY <1>5, <1>11 DEF SerialTask, LoopStart, BridgeRead, NetFeed, ImprovFeed, NetEnter, NetEntered, LoopEnds,
                     BridgeSend, NetPoll, ImprovDone, ImprovTaskEnds, IdleTimePasses
<1>12. CASE Join \/ LinkRuns \/ Leave \/ Killed
  BY <1>5, <1>12 DEF Join, LinkRuns, SendLeave, SendStart, ReadAnswer, AskAgain, SetupEnds,
                     KeepAlive, SerialToTun, Leave, Killed, board
<1>13. CASE UNCHANGED vars
  BY <1>5, <1>13 DEF vars, board
<1>14. QED
  BY <1>6, <1>7, <1>8, <1>9, <1>10, <1>11, <1>12, <1>13 DEF Next

LEMMA FramesKept ==
  ASSUME Parts, [Next]_vars
  PROVE  FrameTypes'
<1>1. usb \in Seq({"leave", "keep", "start"}) /\ out \in Seq({"result", "error", "alive"})
  BY DEF Parts, FrameTypes
<1>2. usb # <<>> => Tail(usb) \in Seq({"leave", "keep", "start"})
  BY <1>1, HeadTailProperties
<1>3. out # <<>> => Tail(out) \in Seq({"result", "error", "alive"})
  BY <1>1, HeadTailProperties
<1>4. \A x \in {"leave", "keep", "start"} : Append(usb, x) \in Seq({"leave", "keep", "start"})
  BY <1>1, AppendProperties
<1>5. \A x \in {"result", "error", "alive"} : Append(out, x) \in Seq({"result", "error", "alive"})
  BY <1>1, AppendProperties
<1>6. CASE NetFeed \/ ImprovFeed
  <2>1. usb' \in Seq({"leave", "keep", "start"})
    BY <1>2, <1>6 DEF NetFeed, ImprovFeed
  <2>2. out' \in Seq({"result", "error", "alive"})
    BY <1>1, <1>5, <1>6 DEF NetFeed, ImprovFeed
  <2>3. QED
    BY <2>1, <2>2 DEF FrameTypes
<1>7. CASE LoopStart \/ BridgeRead \/ NetEnter \/ NetEntered \/ LoopEnds
  BY <1>1, <1>2, <1>7 DEF LoopStart, BridgeRead, NetEnter, NetEntered, LoopEnds, BridgeSend, NetPoll,
                          ImprovDone, FrameTypes
<1>8. CASE ImprovTaskEnds \/ IdleTimePasses \/ WebSets \/ SaverReads \/ SaverWrites
  BY <1>1, <1>8 DEF ImprovTaskEnds, IdleTimePasses, WebSets, SaverReads, SaverWrites, FrameTypes
<1>9. CASE \E c \in WebCommand : WebChecks(c)
  BY <1>1, <1>9 DEF WebChecks, FrameTypes
<1>10. CASE Reboot
  BY <1>1, <1>10, EmptySeq DEF Reboot, FrameTypes
<1>11. CASE Join
  BY <1>1, <1>11, EmptySeq DEF Join, FrameTypes
<1>12. CASE SendLeave \/ SendStart \/ AskAgain \/ SetupEnds \/ Leave \/ Killed
  BY <1>1, <1>4, <1>12 DEF SendLeave, SendStart, AskAgain, SetupEnds, Leave, Killed, FrameTypes
<1>13. CASE ReadAnswer \/ SerialToTun
  BY <1>1, <1>3, <1>13 DEF ReadAnswer, SerialToTun, FrameTypes
<1>14. CASE KeepAlive
  <2>1. <<"keep">> \in Seq({"leave", "keep", "start"})
        /\ <<"keep", "start">> \in Seq({"leave", "keep", "start"})
    OBVIOUS
  <2>2. QED
    BY <1>1, <1>14, <2>1 DEF KeepAlive, FrameTypes
<1>15. CASE UNCHANGED vars
  BY <1>1, <1>15 DEF vars, FrameTypes
<1>16. QED
  BY <1>6, <1>7, <1>8, <1>9, <1>10, <1>11, <1>12, <1>13, <1>14, <1>15
     DEF Next, SerialTask, LinkRuns

LEMMA LinkKept ==
  ASSUME Parts, [Next]_vars
  PROVE  LinkTypes'
<1>1. LinkTypes /\ MaxSends \in Nat \ {0} /\ ACK_TICKS \in Nat \ {0} /\ MaxJoins \in Nat
      /\ MaxReboots \in Nat
  BY NetModeAssumption DEF Parts
<1>2. CASE UNCHANGED <<pc, reboots>>
  BY <1>1, <1>2 DEF LinkTypes, pc
<1>3. CASE Reboot
  BY <1>1, <1>3 DEF Reboot, LinkTypes, pc
<1>4. CASE Join
  BY <1>1, <1>4 DEF Join, LinkTypes
<1>5. CASE SendLeave
  BY <1>1, <1>5 DEF SendLeave, LinkTypes
<1>6. CASE SendStart
  BY <1>1, <1>6 DEF SendStart, LinkTypes
<1>7. CASE ReadAnswer
  <2>1. out # <<>> /\ out \in Seq({"result", "error", "alive"})
    BY <1>7 DEF ReadAnswer, Parts, FrameTypes
  <2>2. Head(out) \in {"result", "error", "alive"}
    BY <2>1, HeadTailProperties
  <2>3. link' \in {"setup", "off", "read"}
    BY <1>7, <2>2, ZenonT(30) DEF ReadAnswer
  <2>4. UNCHANGED <<sends, misses, joins, reboots>>
    BY <1>7 DEF ReadAnswer
  <2>5. QED
    BY <1>1, <2>3, <2>4 DEF LinkTypes
<1>8. CASE AskAgain
  BY <1>1, <1>8 DEF AskAgain, LinkTypes
<1>9. CASE SetupEnds
  BY <1>1, <1>9 DEF SetupEnds, LinkTypes
<1>10. CASE KeepAlive
  BY <1>1, <1>10 DEF KeepAlive, LinkTypes
<1>11. CASE SerialToTun
  BY <1>1, <1>11 DEF SerialToTun, LinkTypes
<1>12. CASE Leave \/ Killed
  BY <1>1, <1>12 DEF Leave, Killed, LinkTypes
<1>13. CASE SerialTask \/ ImprovTaskEnds \/ IdleTimePasses
  BY <1>2, <1>13 DEF SerialTask, LoopStart, BridgeRead, NetFeed, ImprovFeed, NetEnter, NetEntered, LoopEnds,
                     BridgeSend, NetPoll, ImprovDone, ImprovTaskEnds, IdleTimePasses
<1>14. CASE WebSets \/ SaverReads \/ SaverWrites \/ \E c \in WebCommand : WebChecks(c)
  BY <1>2, <1>14 DEF WebSets, SaverReads, SaverWrites, WebChecks
<1>15. CASE UNCHANGED vars
  BY <1>2, <1>15 DEF vars
<1>16. QED
  BY <1>3, <1>4, <1>5, <1>6, <1>7, <1>8, <1>9, <1>10, <1>11, <1>12, <1>13, <1>14, <1>15
     DEF Next, LinkRuns

\* For any bounds: no more save tasks are under way than commands asked for one, the
\* handshake asks at most MaxSends times, and keepalives go at most ACK_TICKS unanswered
\* before the board is asked again.
THEOREM TypeCorrect == Spec => []TypeOK
<1>1. Parts /\ [Next]_vars => Parts'
  BY BoardKept, SaversKept, FramesKept, LinkKept DEF Parts
<1>2. QED
  BY <1>1, InitTyped, PartsMakeTypes, PTL DEF Spec

-----------------------------------------------------------------------------
(* 2. Two owners.                                                          *)

\* handle_operations looks at net_active() and sets lora_serial later.
SetsTheBridge == WebSets /\ web \in {"serialOn", "fileStart"}

\* net_enter looks at lora_serial and sets s_active later; the bridge, off when it
\* looked, is on.
SetsTheNetwork == NetEntered /\ bridge = TRUE

\* The port gets two owners only by one of these two: a flag that is set after the
\* other one was found off and has come on since.  Reboots, the order in which the
\* settings were saved, repeated start commands and Improv tasks never do it.
THEOREM OnlyStaleChecksCollide ==
  Spec => [][OneOwner /\ ~OneOwner' => SetsTheBridge \/ SetsTheNetwork]_vars
<1>1. ASSUME [Next]_vars, OneOwner, ~OneOwner'
      PROVE  SetsTheBridge \/ SetsTheNetwork
  <2>1. bridge' /\ active' /\ ~(bridge /\ active)
    BY <1>1 DEF OneOwner
  <2>2. CASE LoopStart \/ BridgeRead \/ NetFeed \/ ImprovFeed \/ NetEnter \/ LoopEnds
    BY <2>1, <2>2 DEF LoopStart, BridgeRead, NetFeed, ImprovFeed, NetEnter,
                      LoopEnds, BridgeSend, NetPoll, ImprovDone
  <2>3. CASE NetEntered
    BY <2>1, <2>3 DEF NetEntered, SetsTheNetwork
  <2>4. CASE ImprovTaskEnds \/ IdleTimePasses \/ SaverReads \/ SaverWrites \/ Reboot
             \/ \E c \in WebCommand : WebChecks(c)
    BY <2>1, <2>4 DEF ImprovTaskEnds, IdleTimePasses, SaverReads, SaverWrites, Reboot, WebChecks
  <2>5. CASE Join \/ LinkRuns \/ Leave \/ Killed
    BY <2>1, <2>5 DEF Join, LinkRuns, SendLeave, SendStart, ReadAnswer, AskAgain, SetupEnds,
                      KeepAlive, SerialToTun, Leave, Killed, board
  <2>6. CASE WebSets
    BY <2>1, <2>6 DEF WebSets, SetsTheBridge
  <2>7. CASE UNCHANGED vars
    BY <2>1, <2>7 DEF vars, board
  <2> QED
    BY <1>1, <2>2, <2>3, <2>4, <2>5, <2>6, <2>7 DEF Next, SerialTask
<1>2. QED
  BY <1>1, PTL DEF Spec
=============================================================================
