------------------------------- MODULE Kermit -------------------------------
(***************************************************************************)
(* The browser's Kermit file transfer (kermit.js) between two PCs, each at *)
(* its own board, over the boards' serial bridges (script.js).             *)
(*                                                                         *)
(* The sender sends one packet at a time and waits for its ACK; packets    *)
(* are numbered modulo SEQ_MOD.  A packet is one LoRa frame, so it is lost *)
(* or arrives damaged as a whole, and what arrives is in order.  A board   *)
(* forwards frames only while its bridge is on; the page turns the bridge  *)
(* off as soon as its session reports a result.                            *)
(*                                                                         *)
(* A piece of the file is its number.  Both ends are this program, so the  *)
(* profile negotiated is always the same: block check 3 once the           *)
(* parameters are known, attributes with the exact size.                   *)
(***************************************************************************)
EXTENDS Integers, Sequences

CONSTANTS
  Pieces,         \* D packets the file takes
  SEQ_MOD,        \* 64
  MAX_RETRIES,    \* 10
  Frames,         \* frames in flight in one direction
  MaxLost         \* frames the radio loses or damages

ASSUME KermitAssumption ==
  /\ Pieces \in Nat
  /\ {MAX_RETRIES, Frames} \subseteq Nat \ {0}
  /\ SEQ_MOD \in Nat \ 0..3
  /\ MaxLost \in Nat

VARIABLES
  pos,        \* sender: which packet of Script is being exchanged
  stries,     \* sender: times it was sent
  sent,       \* sender: the result reported, or "none"
  recv,       \* receiver: "off", "wait", "linger" or "closed"
  neg,        \* receiver: whether the S packet came
  expected,   \* receiver: sequence number expected
  lastAck,    \* receiver: the last ACK, or NoPacket
  rtries,     \* receiver: timeouts since the last expected packet
  chunks,     \* receiver: the pieces stored
  size,       \* receiver: exactSize, -1 before the attributes
  gotEof,     \* receiver
  received,   \* receiver: the result reported, or "none"
  toR, toS,   \* frames in flight
  bridge,     \* whether each side's board forwards serial frames
  lost        \* frames the radio lost or damaged (bounded)

sender == <<pos, stries, sent>>
receiver == <<recv, neg, expected, lastAck, rtries, chunks, size, gotEof, received>>
vars == <<sender, receiver, toR, toS, bridge, lost>>

Side == {"S", "R"}
NoPacket == [type |-> "none"]

\* check is the block check type: 1 until the parameters are known, then 3.
Packet(type, seq, check, body) ==
  [type |-> type, seq |-> seq % SEQ_MOD, check |-> check, body |-> body]

\* The sender's packets in order: S, F, A, the D packets, Z and B.
Last == Pieces + 5
TypeAt(i) ==
  IF i = 1 THEN "S" ELSE IF i = 2 THEN "F" ELSE IF i = 3 THEN "A"
  ELSE IF i = Last - 1 THEN "Z" ELSE IF i = Last THEN "B" ELSE "D"
BodyAt(i) == IF i = 3 THEN Pieces ELSE IF TypeAt(i) = "D" THEN i - 3 ELSE 0
Check == IF pos = 1 THEN 1 ELSE 3
SeqAt(i) == (i - 1) % SEQ_MOD
Current(i) == Packet(TypeAt(i), i - 1, IF i = 1 THEN 1 ELSE 3, BodyAt(i))

RCheck == IF neg THEN 3 ELSE 1
Nak == Packet("N", expected, RCheck, 0)

Init ==
  /\ pos = 1 /\ stries = 1 /\ sent = "none"
  /\ recv = "off" /\ neg = FALSE /\ expected = 0 /\ lastAck = NoPacket /\ rtries = 0
  /\ chunks = <<>> /\ size = -1 /\ gotEof = FALSE /\ received = "none"
  /\ toR = <<Current(1)>> /\ toS = <<>>
  /\ bridge = [p \in Side |-> TRUE]
  /\ lost = 0

\* A frame is forwarded, unless a board on the way has its bridge off or no room.
Out(ch, p) ==
  IF bridge["S"] /\ bridge["R"] /\ Len(ch) < Frames THEN Append(ch, p) ELSE ch

-----------------------------------------------------------------------------
\* The sender.

SenderEnds(result) == sent' = result /\ UNCHANGED <<pos, stries>>

\* send(): once more, or give up and tell the receiver.
SendAgain ==
  IF stries < MAX_RETRIES
    THEN toR' = Out(toR, Current(pos)) /\ stries' = stries + 1 /\ UNCHANGED <<pos, sent>>
    ELSE toR' = Out(toR, Packet("E", pos - 1, Check, 0)) /\ SenderEnds("fail")

\* Mutant: an ACK is not compared with the packet it should acknowledge.
AnyAckWillDo(p) == p.type = "Y" \/ (p.type = "N" /\ p.seq = SeqAt(pos + 1))

\* Mutant: a NAK acknowledges the packet it asks for.
NakIsOffByOne(p) ==
  \/ p.type = "Y" /\ p.seq = SeqAt(pos)
  \/ p.type = "N" /\ p.seq = SeqAt(pos)

\* A NAK of the next packet is the ACK of this one.
Acknowledges(p) ==
  \/ p.type = "Y" /\ p.seq = SeqAt(pos)
  \/ p.type = "N" /\ p.seq = SeqAt(pos + 1)

\* onAck: on to the next packet, or the transfer is complete.
Advance ==
  IF pos = Last THEN SenderEnds("ok") /\ UNCHANGED toR
  ELSE pos' = pos + 1 /\ stries' = 1 /\ toR' = Out(toR, Current(pos + 1)) /\ UNCHANGED sent

\* exchange's onPacket.  What fails the block check in use is ignored.
SenderTakes ==
  /\ sent = "none" /\ toS # <<>>
  /\ toS' = Tail(toS)
  /\ LET p == Head(toS) IN
     IF p.check # Check /\ ~(p.type = "E" /\ p.check = 1) THEN UNCHANGED <<sender, toR>>
     ELSE IF p.type = "E" THEN SenderEnds("fail") /\ UNCHANGED toR
     ELSE IF Acknowledges(p) THEN Advance
     ELSE IF p.type = "N" /\ p.seq = SeqAt(pos) THEN SendAgain
     ELSE UNCHANGED <<sender, toR>>
  /\ UNCHANGED <<receiver, bridge, lost>>

SenderTimeout ==
  /\ sent = "none"
  /\ SendAgain
  /\ UNCHANGED <<receiver, toS, bridge, lost>>

SenderCancels ==
  /\ sent = "none"
  /\ toR' = Out(toR, Packet("E", pos - 1, Check, 0))
  /\ SenderEnds("fail")
  /\ UNCHANGED <<receiver, toS, bridge, lost>>
-----------------------------------------------------------------------------
\* The receiver.

ReceiverFails ==
  /\ recv' = "closed" /\ received' = "fail"
  /\ UNCHANGED <<neg, expected, lastAck, rtries, chunks, size, gotEof>>

\* start() prompts the sender.
ReceiverStarts ==
  /\ recv = "off"
  /\ recv' = "wait"
  /\ toS' = Out(toS, Nak)
  /\ UNCHANGED <<sender, neg, expected, lastAck, rtries, chunks, size, gotEof, received, toR, bridge, lost>>

\* The ACK of S carries parameters and has check type 1, as the S itself.
SendAck(p) ==
  LET a == Packet("Y", p.seq, IF p.type = "S" THEN 1 ELSE RCheck, 0)
  IN lastAck' = a /\ toS' = Out(toS, a)

Expect(p) == expected' = (expected + 1) % SEQ_MOD /\ rtries' = 0 /\ SendAck(p)

\* onPacket for a packet with the expected number, by its type.
TakeInit(p) ==
  /\ p.type = "S"
  /\ Expect(p)
  /\ neg' = TRUE
  /\ UNCHANGED <<recv, chunks, size, gotEof, received>>

TakeName(p) ==
  /\ p.type = "F"
  /\ IF neg THEN Expect(p) ELSE rtries' = 0 /\ UNCHANGED <<expected, lastAck, toS>>
  /\ UNCHANGED <<recv, neg, chunks, size, gotEof, received>>

TakeAttributes(p) ==
  /\ p.type = "A"
  /\ Expect(p)
  /\ size' = p.body
  /\ UNCHANGED <<recv, neg, chunks, gotEof, received>>

TakeData(p) ==
  /\ p.type = "D"
  /\ Expect(p)
  /\ chunks' = Append(chunks, p.body)
  /\ UNCHANGED <<recv, neg, size, gotEof, received>>

TakeEof(p) ==
  /\ p.type = "Z"
  /\ Expect(p)
  /\ gotEof' = TRUE
  /\ UNCHANGED <<recv, neg, chunks, size, received>>

\* B ends the transfer: with the end of the file and the announced size it is
\* a success, and the receiver lingers either way if the end of file came.
TakeBreak(p) ==
  /\ p.type = "B"
  /\ SendAck(p)
  /\ rtries' = 0
  /\ recv' = IF gotEof THEN "linger" ELSE "closed"
  /\ received' = IF gotEof /\ size \in {-1, Len(chunks)} THEN "ok" ELSE "fail"
  /\ UNCHANGED <<neg, expected, chunks, size, gotEof>>

TakeExpected(p) ==
  TakeInit(p) \/ TakeName(p) \/ TakeAttributes(p) \/ TakeData(p) \/ TakeEof(p) \/ TakeBreak(p)

Previous == (expected + SEQ_MOD - 1) % SEQ_MOD

\* The ACK of the previous packet was lost.
IsRepeat(p) == p.seq = Previous /\ lastAck # NoPacket

\* onPacket: a bad packet is NAKed, a repeated one ACKed again.
ReceiverTakes ==
  /\ recv = "wait" /\ toR # <<>>
  /\ toR' = Tail(toR)
  /\ LET p == Head(toR)
         valid == p.check = (IF p.type = "S" THEN 1 ELSE RCheck) \/ (p.type = "E" /\ p.check = 1)
         stays == UNCHANGED receiver
     IN \/ ~valid /\ toS' = Out(toS, Nak) /\ stays
        \/ valid /\ p.type = "E" /\ ReceiverFails /\ UNCHANGED toS
        \/ valid /\ p.type # "E" /\ IsRepeat(p) /\ toS' = Out(toS, lastAck) /\ stays
        \/ valid /\ p.type # "E" /\ ~IsRepeat(p)
           /\ IF p.seq = expected THEN TakeExpected(p) ELSE toS' = Out(toS, Nak) /\ stays
  /\ UNCHANGED <<sender, bridge, lost>>

\* Mutant: the timer is not armed again after it fired.
TimerFiresOnce ==
  /\ recv = "wait"
  /\ rtries = 0
  /\ rtries' = 1
  /\ toS' = Out(toS, IF lastAck = NoPacket THEN Nak ELSE lastAck)
  /\ UNCHANGED <<recv, neg, expected, lastAck, chunks, size, gotEof, received>>
  /\ UNCHANGED <<sender, toR, bridge, lost>>

\* wait's timeout: the last ACK again (the NAK before there is one), or give up.
ReceiverTimeout ==
  /\ recv = "wait"
  /\ IF rtries < MAX_RETRIES
       THEN /\ rtries' = rtries + 1
            /\ toS' = Out(toS, IF lastAck = NoPacket THEN Nak ELSE lastAck)
            /\ UNCHANGED <<recv, neg, expected, lastAck, chunks, size, gotEof, received>>
       ELSE ReceiverFails /\ toS' = Out(toS, Packet("E", expected, RCheck, 0))
  /\ UNCHANGED <<sender, toR, bridge, lost>>

ReceiverCancels ==
  /\ recv = "wait"
  /\ ReceiverFails
  /\ toS' = Out(toS, Packet("E", expected, RCheck, 0))
  /\ UNCHANGED <<sender, toR, bridge, lost>>

\* linger: repeats are answered with the last ACK, without looking at their
\* block check; what is no repeat is skipped.
Lingers ==
  /\ recv = "linger" /\ toR # <<>>
  /\ toR' = Tail(toR)
  /\ toS' = IF Head(toR).type \in {"B", "Z"} \/ Head(toR).seq = Previous THEN Out(toS, lastAck) ELSE toS
  /\ UNCHANGED <<sender, receiver, bridge, lost>>

\* After two timeouts the port is let go.
LingerEnds ==
  /\ recv = "linger"
  /\ recv' = "closed"
  /\ UNCHANGED <<sender, neg, expected, lastAck, rtries, chunks, size, gotEof, received, toR, toS, bridge, lost>>
-----------------------------------------------------------------------------
\* The page and the link.

\* endTransfer: the page tells its board to turn the bridge off once the result
\* is reported.  What is on its way to that PC is dropped; of what the PC has
\* written last the board may have forwarded only a part.
BridgeOff(p) ==
  /\ bridge[p]
  /\ IF p = "S" THEN sent # "none" ELSE received # "none"
  /\ bridge' = [bridge EXCEPT ![p] = FALSE]
  /\ IF p = "S" THEN /\ toS' = <<>>
                     /\ \E n \in 0..Len(toR) : toR' = SubSeq(toR, 1, n)
                ELSE /\ toR' = <<>>
                     /\ \E n \in 0..Len(toS) : toS' = SubSeq(toS, 1, n)
  /\ UNCHANGED <<sender, receiver, lost>>

\* Bytes for a session that has ended, or not begun, are dropped.
NobodyListens ==
  /\ \/ sent # "none" /\ toS # <<>> /\ toS' = Tail(toS) /\ UNCHANGED toR
     \/ recv \in {"off", "closed"} /\ toR # <<>> /\ toR' = Tail(toR) /\ UNCHANGED toS
  /\ UNCHANGED <<sender, receiver, bridge, lost>>

LoseFrame ==
  /\ lost < MaxLost
  /\ lost' = lost + 1
  /\ \/ toR # <<>> /\ toR' = Tail(toR) /\ UNCHANGED toS
     \/ toS # <<>> /\ toS' = Tail(toS) /\ UNCHANGED toR
  /\ UNCHANGED <<sender, receiver, bridge>>

\* No block check matches.  (At the sender a damaged frame is as good as lost.)
DamageFrame ==
  /\ lost < MaxLost
  /\ lost' = lost + 1
  /\ toR # <<>>
  /\ toR' = <<[Head(toR) EXCEPT !.check = 0]>> \o Tail(toR)
  /\ UNCHANGED <<sender, receiver, toS, bridge>>
-----------------------------------------------------------------------------
SenderRuns == SenderTakes \/ SenderTimeout
ReceiverRuns == ReceiverStarts \/ ReceiverTakes \/ ReceiverTimeout \/ Lingers \/ LingerEnds
Cancels == SenderCancels \/ ReceiverCancels
Line == NobodyListens \/ LoseFrame \/ DamageFrame \/ \E p \in Side : BridgeOff(p)

Next == SenderRuns \/ ReceiverRuns \/ Cancels \/ Line

Spec == Init /\ [][Next]_vars

\* Timers fire and what arrives is handled.  Nobody has to cancel, nothing has
\* to be lost, and nothing has to arrive.
FairSpec == Spec /\ WF_vars(SenderRuns) /\ WF_vars(ReceiverRuns)
-----------------------------------------------------------------------------
Packets ==
  [type : {"S", "F", "A", "D", "Z", "B", "E", "Y", "N"}, seq : 0..SEQ_MOD - 1,
   check : {0, 1, 3}, body : 0..Pieces]

TypeOK ==
  /\ pos \in 1..Last
  /\ stries \in 1..MAX_RETRIES
  /\ sent \in {"none", "ok", "fail"}
  /\ recv \in {"off", "wait", "linger", "closed"}
  /\ neg \in BOOLEAN /\ gotEof \in BOOLEAN
  /\ expected \in 0..SEQ_MOD - 1
  /\ lastAck \in Packets \cup {NoPacket}
  /\ rtries \in 0..MAX_RETRIES
  /\ chunks \in Seq(1..Pieces)
  /\ size \in -1..Pieces
  /\ received \in {"none", "ok", "fail"}
  /\ toR \in Seq(Packets) /\ Len(toR) <= Frames
  /\ toS \in Seq(Packets) /\ Len(toS) <= Frames
  /\ bridge \in [Side -> BOOLEAN]
  /\ lost \in 0..MaxLost

\* The two ends stay in step: the receiver has taken every packet before the
\* sender's current one, and possibly that one.  This is what makes a number
\* modulo 64 enough to tell a packet from a repeat, and a NAK of the next packet
\* an ACK of this one (kermit.js:392, 520-528).
Accepted ==
  IF ~neg THEN 0
  ELSE IF gotEof THEN (IF received = "ok" THEN Last ELSE Last - 1)
  ELSE IF size # -1 THEN 3 + Len(chunks) ELSE expected
InStep == sent # "ok" => Accepted \in {pos - 1, pos}

\* The protocol promises what FileTransfer states: pieces in order and once, the
\* receiver's success only with the whole file, the sender's only after it.
Transfer == INSTANCE FileTransfer WITH stored <- chunks
ImplementsTransfer == Transfer!Spec

\* "a dead link fails both sides instead of hanging" (test_kermit.js), and so
\* does a peer that is gone: whatever is lost, both ends report a result.
BothReport == <>(sent # "none") /\ <>(received # "none")
=============================================================================
