------------------------------ MODULE LoraLink ------------------------------
(***************************************************************************)
(* The acknowledged LoRa link of src/src/lora/lora_support.cpp and         *)
(* lora_proto.h, between any number of boards in radio range.              *)
(*                                                                         *)
(* Each board runs four tasks.  LoRa_sendRaw takes packets off             *)
(* send_packets and transmits each one until an ACK names its sequence     *)
(* number or the attempts are used up.  lora_rx_task reads one frame at a  *)
(* time off the radio, filters duplicates, queues new packets and answers  *)
(* with an ACK.  manage_recv_queue and net_writer_task drain the queues    *)
(* the RX task fills.                                                      *)
(*                                                                         *)
(* The radio.  A transmission is one step: lora_tx_frame holds             *)
(* lora_write_mutex and blocks until TX_DONE.  Every other board hears it, *)
(* hears it damaged, or does not hear it at all (out of range, collision,  *)
(* its own transmission, a radio-level CRC error).  A board's radio holds  *)
(* one received frame; the next one, or the board's own transmission,      *)
(* overwrites it.  The order in which tasks get the mutex, and listening   *)
(* before talking, only decide which of these outcomes happens.            *)
(*                                                                         *)
(* An ACK carries a sequence number and a verdict, and neither sender nor  *)
(* addressee, exactly as REC_AKNG does.                                    *)
(***************************************************************************)
EXTENDS RxDedup, Integers, Sequences, FiniteSets

CONSTANTS
  Node,           \* the boards
  Workload,       \* packets each board's tasks will hand to LoRa, in order
  NetOn,          \* boards that are in LoRa network mode
  SeqBase,        \* next_seq of each board at boot (esp_random)
  SEQ_MOD,        \* sequence numbers are one byte: 256
  MAX_RETRIES,    \* retransmissions after the first attempt (3)
  ACK_DEPTH,      \* depth of ack_queue (4)
  SEND_DEPTH,     \* depth of send_packets (20)
  RECV_DEPTH,     \* depth of recv_packets (20)
  NET_DEPTH,      \* depth of the network mode's receive queue (8)
  Reach,          \* the boards each board's transmissions can reach
  BadSeq          \* values the sequence byte of a damaged frame can have

\* A packet of the workload: a chat message (LORA_MSG, for every board), a
\* network packet for one board (LORA_NET) or one for all of them.
PacketSpec == [kind : {"MSG", "NET", "BCAST"}, to : SUBSET Node]

ASSUME LinkAssumption ==
  /\ Workload \in [Node -> Seq(PacketSpec)]
  /\ \A n \in Node : \A i \in DOMAIN Workload[n] :
       IF Workload[n][i].kind = "NET" THEN Workload[n][i].to \subseteq Node \ {n}
       ELSE Workload[n][i].to = Node \ {n}
  /\ NetOn \subseteq Node
  /\ SEQ_MOD \in Nat \ {0}
  /\ SeqBase \in [Node -> 0..(SEQ_MOD - 1)]
  /\ MAX_RETRIES \in Nat
  /\ ACK_DEPTH \in Nat \ {0}
  /\ SEND_DEPTH \in Nat \ {0}
  /\ RECV_DEPTH \in Nat \ {0}
  /\ NET_DEPTH \in Nat \ {0}
  /\ Reach \in [Node -> SUBSET Node]
  /\ BadSeq \subseteq 0..(SEQ_MOD - 1)

VARIABLES
  submitted,   \* packets put on send_packets so far
  taken,       \* packets LoRa_sendRaw has taken off it so far
  tx,          \* the packet in hand: TxRetry and where send_with_retry is
  ackQueue,    \* ack_queue, from the RX task to the TX task
  radio,       \* the frame waiting in the radio's FIFO
  reply,       \* the ACK handle_rx_frame is about to send
  dedup,       \* rx_dedup
  recvLoad,    \* items in recv_packets
  netLoad,     \* items in the network mode's receive queue
  delivered,   \* history: packets queued and committed, in order
  result       \* history: what send_with_retry returned, in order

vars == <<submitted, taken, tx, ackQueue, radio, reply, dedup, recvLoad,
          netLoad, delivered, result>>
senderVars == <<submitted, taken, tx, result>>
receiverVars == <<dedup, recvLoad, netLoad, delivered>>

Seq8 == 0..(SEQ_MOD - 1)
ACK_OK == 1
ACK_RETRY == 0

\* The num-th packet of the board src.
Packet == {p \in [src : Node, num : Nat \ {0}] : p.num <= Len(Workload[p.src])}
Info(p) == Workload[p.src][p.num]
Kind(p) == Info(p).kind

\* take_seq: every packet taken off send_packets uses the next number of its
\* board's one counter, which wraps.
SeqOf(p) == (SeqBase[p.src] + p.num - 1) % SEQ_MOD

\* The dedup key: extract_mac_key for a chat message, net_dedup_key for a
\* network packet.  Distinct boards are taken to hash to distinct keys.
KeyOf(p) == <<Kind(p), p.src>>
Key == {"MSG", "NET", "BCAST"} \X Node
Verdict == [seq : Seq8, verdict : {ACK_OK, ACK_RETRY}]

DataFrame(p) == [type |-> "data", pkt |-> p]
AckFrame(seq, verdict) == [type |-> "ack", seq |-> seq, verdict |-> verdict]
BadFrame(seq) == [type |-> "bad", seq |-> seq]
Silence == [type |-> "none"]
Acks == [type : {"ack"}, seq : Seq8, verdict : {ACK_OK, ACK_RETRY}]
Frame == [type : {"data"}, pkt : Packet] \cup Acks \cup [type : {"bad"}, seq : Seq8]

Idle == [at |-> "idle", attempts |-> 0]
Current(n) == [src |-> n, num |-> taken[n]]

-----------------------------------------------------------------------------
\* The air: what each board's radio holds after n transmits frame f.  A data
\* frame may arrive damaged, its sequence byte included; a damaged ACK is
\* dropped by the radio's own CRC, which is a loss.
Arrivals(f) ==
  {Silence, f} \cup (IF f.type = "data" THEN {BadFrame(s) : s \in BadSeq} ELSE {})

OnAir(n, f) ==
  \E heard \in [Reach[n] \ {n} -> Arrivals(f)] :
    radio' = [m \in Node |->
                IF m = n THEN Silence
                ELSE IF m \in Reach[n] /\ heard[m] # Silence THEN heard[m]
                ELSE radio[m]]

-----------------------------------------------------------------------------
Init ==
  /\ submitted = [n \in Node |-> 0]
  /\ taken     = [n \in Node |-> 0]
  /\ tx        = [n \in Node |-> Idle]
  /\ ackQueue  = [n \in Node |-> <<>>]
  /\ radio     = [n \in Node |-> Silence]
  /\ reply     = [n \in Node |-> Silence]
  /\ dedup     = [n \in Node |-> EmptyDedup]
  /\ recvLoad  = [n \in Node |-> 0]
  /\ netLoad   = [n \in Node |-> 0]
  /\ delivered = [n \in Node |-> <<>>]
  /\ result    = [n \in Node |-> <<>>]

\* A web request, the SOS button, a scheduled task or the network mode puts a
\* packet on send_packets.  A full queue refuses it and changes nothing here.
Enqueue(n) ==
  /\ submitted[n] < Len(Workload[n])
  /\ submitted[n] - taken[n] < SEND_DEPTH
  /\ submitted' = [submitted EXCEPT ![n] = @ + 1]
  /\ UNCHANGED <<taken, tx, result, ackQueue, radio, reply>>
  /\ UNCHANGED receiverVars

\* LoRa_sendRaw takes the next packet; send_with_retry starts its attempts
\* (tx_begin) and forgets the ACKs of earlier packets.  A network broadcast
\* is sent once and acknowledged by nobody, so it skips all that.
TakePacket(n) ==
  /\ tx[n].at = "idle"
  /\ taken[n] < submitted[n]
  /\ taken' = [taken EXCEPT ![n] = @ + 1]
  /\ IF Workload[n][taken[n] + 1].kind = "BCAST"
       THEN /\ tx' = [tx EXCEPT ![n] = [at |-> "broadcast", attempts |-> 1]]
            /\ UNCHANGED ackQueue
       ELSE /\ tx' = [tx EXCEPT ![n] = [at |-> "send", attempts |-> 1]]
            /\ ackQueue' = [ackQueue EXCEPT ![n] = <<>>]
  /\ UNCHANGED <<submitted, result, radio, reply>>
  /\ UNCHANGED receiverVars

\* send_with_retry returns r for the packet in hand.
Finish(n, r) ==
  /\ tx' = [tx EXCEPT ![n] = Idle]
  /\ result' = [result EXCEPT ![n] = Append(@, r)]

\* Mutant: one retry too many.
OneRetryTooMany(n) ==
  IF tx[n].attempts > MAX_RETRIES + 1
    THEN Finish(n, "fail")
    ELSE /\ tx' = [tx EXCEPT ![n] = [at |-> "send", attempts |-> @.attempts + 1]]
         /\ UNCHANGED result

\* tx_next_attempt_or_fail: transmit again, after a random backoff, or give up.
NextAttemptOrFail(n) ==
  IF tx[n].attempts > MAX_RETRIES
    THEN Finish(n, "fail")
    ELSE /\ tx' = [tx EXCEPT ![n] = [at |-> "send", attempts |-> @.attempts + 1]]
         /\ UNCHANGED result

\* LoRa_send of the current attempt succeeds: the frame is on the air and the
\* task starts waiting for its ACK.
Transmit(n) ==
  /\ tx[n].at = "send"
  /\ OnAir(n, DataFrame(Current(n)))
  /\ tx' = [tx EXCEPT ![n].at = "wait"]
  /\ UNCHANGED <<submitted, taken, result, ackQueue, reply>>
  /\ UNCHANGED receiverVars

\* LoRa_send fails (radio mutex timeout): it counts as a failed attempt.
TransmitFails(n) ==
  /\ tx[n].at = "send"
  /\ NextAttemptOrFail(n)
  /\ UNCHANGED <<submitted, taken, ackQueue, radio, reply>>
  /\ UNCHANGED receiverVars

\* The single transmission of a network broadcast.
Broadcast(n) ==
  /\ tx[n].at = "broadcast"
  /\ \/ OnAir(n, DataFrame(Current(n)))
     \/ UNCHANGED radio
  /\ Finish(n, "sent")
  /\ UNCHANGED <<submitted, taken, ackQueue, reply>>
  /\ UNCHANGED receiverVars

\* Mutant: any ACK is taken for the packet in hand.
AnySeqMatches(n) ==
  /\ tx[n].at = "wait"
  /\ ackQueue[n] # <<>>
  /\ ackQueue' = [ackQueue EXCEPT ![n] = Tail(@)]
  /\ IF Head(ackQueue[n]).verdict = ACK_OK THEN Finish(n, "ok")
     ELSE NextAttemptOrFail(n)
  /\ UNCHANGED <<submitted, taken, radio, reply>>
  /\ UNCHANGED receiverVars

\* Mutant: a matching ACK is success whatever its verdict.
VerdictIgnored(n) ==
  /\ tx[n].at = "wait"
  /\ ackQueue[n] # <<>>
  /\ ackQueue' = [ackQueue EXCEPT ![n] = Tail(@)]
  /\ IF Head(ackQueue[n]).seq # SeqOf(Current(n)) THEN UNCHANGED <<tx, result>>
     ELSE Finish(n, "ok")
  /\ UNCHANGED <<submitted, taken, radio, reply>>
  /\ UNCHANGED receiverVars

\* An ACK comes off ack_queue (tx_on_ack).  One for another sequence number
\* is ignored; any verdict but ACK_OK is a NACK and uses up the attempt.
OnAck(n) ==
  /\ tx[n].at = "wait"
  /\ ackQueue[n] # <<>>
  /\ ackQueue' = [ackQueue EXCEPT ![n] = Tail(@)]
  /\ LET ack == Head(ackQueue[n])
     IN  IF ack.seq # SeqOf(Current(n)) THEN UNCHANGED <<tx, result>>
         ELSE IF ack.verdict = ACK_OK THEN Finish(n, "ok")
         ELSE NextAttemptOrFail(n)
  /\ UNCHANGED <<submitted, taken, radio, reply>>
  /\ UNCHANGED receiverVars

\* Mutant: a timeout retransmits without counting the attempt.
TimeoutNotCounted(n) ==
  /\ tx[n].at = "wait"
  /\ tx' = [tx EXCEPT ![n].at = "send"]
  /\ UNCHANGED <<submitted, taken, result, ackQueue, radio, reply>>
  /\ UNCHANGED receiverVars

\* The wait for the ACK ends (tx_on_timeout).  The elapsed time is looked at
\* before the queue, so an ACK may be left in it.
OnTimeout(n) ==
  /\ tx[n].at = "wait"
  /\ NextAttemptOrFail(n)
  /\ UNCHANGED <<submitted, taken, ackQueue, radio, reply>>
  /\ UNCHANGED receiverVars

-----------------------------------------------------------------------------
\* lora_rx_task reads the radio and runs handle_rx_frame up to LoRa_sendAkn.
\* It reads no further frame until that call is over.
CanRead(n, type) ==
  /\ reply[n] = Silence
  /\ radio[n].type = type

TakeFrame(n) == radio' = [radio EXCEPT ![n] = Silence]

\* BadCrc: a frame that still looks like a chat message gets a NACK with
\* whatever its sequence byte says.
RxBad(n) ==
  /\ CanRead(n, "bad")
  /\ TakeFrame(n)
  /\ reply' = [reply EXCEPT ![n] = AckFrame(radio[n].seq, ACK_RETRY)]
  /\ UNCHANGED <<senderVars, ackQueue>>
  /\ UNCHANGED receiverVars

\* REC_AKNG: every ACK heard goes to the TX task, unless ack_queue is full.
RxAck(n) ==
  /\ CanRead(n, "ack")
  /\ TakeFrame(n)
  /\ ackQueue' = IF Len(ackQueue[n]) < ACK_DEPTH
                   THEN [ackQueue EXCEPT ![n] =
                           Append(@, [seq |-> radio[n].seq, verdict |-> radio[n].verdict])]
                   ELSE ackQueue
  /\ UNCHANGED <<senderVars, reply>>
  /\ UNCHANGED receiverVars

\* A packet this board takes no notice of: network packets of others, and all
\* network packets while the network mode is off.
Ignores(n, p) ==
  \/ n \notin Info(p).to
  \/ Kind(p) # "MSG" /\ n \notin NetOn

\* Mutant: the packet is committed before it is known to be queued.
CommitFirst(n, p) ==
  LET isMsg == Kind(p) = "MSG"
      room  == IF isMsg THEN recvLoad[n] < RECV_DEPTH ELSE netLoad[n] < NET_DEPTH
  IN  /\ dedup' = [dedup EXCEPT ![n] = Commit(@, KeyOf(p), SeqOf(p))]
      /\ \/ /\ room
            /\ IF isMsg
                 THEN recvLoad' = [recvLoad EXCEPT ![n] = @ + 1] /\ UNCHANGED netLoad
                 ELSE netLoad' = [netLoad EXCEPT ![n] = @ + 1] /\ UNCHANGED recvLoad
            /\ delivered' = [delivered EXCEPT ![n] = Append(@, p)]
            /\ reply' = [reply EXCEPT ![n] = AckFrame(SeqOf(p), ACK_OK)]
         \/ /\ reply' = [reply EXCEPT ![n] = AckFrame(SeqOf(p), ACK_RETRY)]
            /\ UNCHANGED <<recvLoad, netLoad, delivered>>

\* Mutant: a packet that could not be queued is acknowledged all the same.
AckedAnyway(n, p) ==
  LET isMsg == Kind(p) = "MSG"
      room  == IF isMsg THEN recvLoad[n] < RECV_DEPTH ELSE netLoad[n] < NET_DEPTH
  IN  /\ reply' = [reply EXCEPT ![n] = AckFrame(SeqOf(p), ACK_OK)]
      /\ \/ /\ room
            /\ IF isMsg
                 THEN recvLoad' = [recvLoad EXCEPT ![n] = @ + 1] /\ UNCHANGED netLoad
                 ELSE netLoad' = [netLoad EXCEPT ![n] = @ + 1] /\ UNCHANGED recvLoad
            /\ dedup' = [dedup EXCEPT ![n] = Commit(@, KeyOf(p), SeqOf(p))]
            /\ delivered' = [delivered EXCEPT ![n] = Append(@, p)]
         \/ UNCHANGED receiverVars

\* The packet is new: try to queue it, commit it only if that worked, and
\* answer accordingly.  Queueing fails when the queue or the heap is full.
Accept(n, p) ==
  LET isMsg == Kind(p) = "MSG"
      room  == IF isMsg THEN recvLoad[n] < RECV_DEPTH ELSE netLoad[n] < NET_DEPTH
  IN  \/ /\ room
         /\ IF isMsg
              THEN recvLoad' = [recvLoad EXCEPT ![n] = @ + 1] /\ UNCHANGED netLoad
              ELSE netLoad' = [netLoad EXCEPT ![n] = @ + 1] /\ UNCHANGED recvLoad
         /\ dedup' = [dedup EXCEPT ![n] = Commit(@, KeyOf(p), SeqOf(p))]
         /\ delivered' = [delivered EXCEPT ![n] = Append(@, p)]
         /\ reply' = [reply EXCEPT ![n] = AckFrame(SeqOf(p), ACK_OK)]
      \/ /\ reply' = [reply EXCEPT ![n] = AckFrame(SeqOf(p), ACK_RETRY)]
         /\ UNCHANGED receiverVars

\* LORA_MSG and unicast LORA_NET.
RxData(n) ==
  /\ CanRead(n, "data")
  /\ Kind(radio[n].pkt) # "BCAST"
  /\ TakeFrame(n)
  /\ LET p == radio[n].pkt
     IN  \/ /\ Ignores(n, p)
            /\ UNCHANGED reply
            /\ UNCHANGED receiverVars
         \/ /\ ~Ignores(n, p)
            /\ IsDuplicate(dedup[n], KeyOf(p), SeqOf(p))
            /\ reply' = [reply EXCEPT ![n] = AckFrame(SeqOf(p), ACK_OK)]
            /\ UNCHANGED receiverVars
         \/ /\ ~Ignores(n, p)
            /\ ~IsDuplicate(dedup[n], KeyOf(p), SeqOf(p))
            /\ Accept(n, p)
  /\ UNCHANGED <<senderVars, ackQueue>>

\* Broadcast LORA_NET: no ACK, no duplicate filter, dropped when queue or heap
\* is full (net_deliver).
RxBroadcast(n) ==
  /\ CanRead(n, "data")
  /\ Kind(radio[n].pkt) = "BCAST"
  /\ TakeFrame(n)
  /\ \/ UNCHANGED netLoad
     \/ /\ ~Ignores(n, radio[n].pkt)
        /\ netLoad[n] < NET_DEPTH
        /\ netLoad' = [netLoad EXCEPT ![n] = @ + 1]
  /\ UNCHANGED <<senderVars, ackQueue, reply, dedup, recvLoad, delivered>>

\* LoRa_sendAkn: transmitted at once, or given up on a mutex timeout.
SendAkn(n) ==
  /\ reply[n] # Silence
  /\ \/ OnAir(n, reply[n])
     \/ UNCHANGED radio
  /\ reply' = [reply EXCEPT ![n] = Silence]
  /\ UNCHANGED <<senderVars, ackQueue>>
  /\ UNCHANGED receiverVars

\* manage_recv_queue hands one message to the browsers and the display.
ManageRecvQueue(n) ==
  /\ recvLoad[n] > 0
  /\ recvLoad' = [recvLoad EXCEPT ![n] = @ - 1]
  /\ UNCHANGED <<senderVars, ackQueue, radio, reply, dedup, netLoad, delivered>>

\* net_writer_task writes one packet to the PC.
NetWriter(n) ==
  /\ netLoad[n] > 0
  /\ netLoad' = [netLoad EXCEPT ![n] = @ - 1]
  /\ UNCHANGED <<senderVars, ackQueue, radio, reply, dedup, recvLoad, delivered>>

-----------------------------------------------------------------------------
TxTask(n) == \/ TakePacket(n) \/ Transmit(n) \/ TransmitFails(n) \/ Broadcast(n)
             \/ OnAck(n) \/ OnTimeout(n)
RxTask(n) == \/ RxBad(n) \/ RxAck(n) \/ RxData(n) \/ RxBroadcast(n) \/ SendAkn(n)

\* Everything handed over has been dealt with, and nobody has more to send.
Quiescent ==
  /\ \A n \in Node : /\ submitted[n] = Len(Workload[n])
                     /\ Len(result[n]) = submitted[n]
                     /\ reply[n] = Silence
                     /\ radio[n] = Silence
                     /\ recvLoad[n] = 0
                     /\ netLoad[n] = 0
  /\ UNCHANGED vars

Next ==
  \/ \E n \in Node : Enqueue(n) \/ TxTask(n) \/ RxTask(n)
  \/ \E n \in Node : ManageRecvQueue(n) \/ NetWriter(n)
  \/ Quiescent

Spec == Init /\ [][Next]_vars

\* FreeRTOS runs every ready task: each task takes its steps as long as it has
\* one to take.  Whether the radio carries a frame is never assumed.
FairSpec ==
  /\ Spec
  /\ \A n \in Node : WF_vars(TxTask(n)) /\ WF_vars(RxTask(n))
  /\ \A n \in Node : WF_vars(ManageRecvQueue(n)) /\ WF_vars(NetWriter(n))
-----------------------------------------------------------------------------
TypeOK ==
  /\ submitted \in [Node -> Nat]
  /\ taken \in [Node -> Nat]
  /\ tx \in [Node -> [at : {"idle", "send", "broadcast", "wait"},
                      attempts : 0..(MAX_RETRIES + 1)]]
  /\ ackQueue \in [Node -> Seq(Verdict)]
  /\ radio \in [Node -> Frame \cup {Silence}]
  /\ reply \in [Node -> Acks \cup {Silence}]
  /\ dedup \in [Node -> Table(Key, Seq8)]
  /\ recvLoad \in [Node -> 0..RECV_DEPTH]
  /\ netLoad \in [Node -> 0..NET_DEPTH]
  /\ delivered \in [Node -> Seq(Packet)]
  /\ result \in [Node -> Seq({"ok", "fail", "sent"})]
  /\ \A n \in Node : /\ taken[n] <= submitted[n]
                     /\ submitted[n] <= Len(Workload[n])
                     /\ submitted[n] - taken[n] <= SEND_DEPTH
                     /\ Len(ackQueue[n]) <= ACK_DEPTH
                     /\ Len(result[n]) = (IF tx[n].at = "idle" THEN taken[n] ELSE taken[n] - 1)

-----------------------------------------------------------------------------
KeysHeard(n) == {KeyOf(delivered[n][i]) : i \in DOMAIN delivered[n]}

\* The duplicate filter of handle_rx_frame: while no more sources are heard
\* than the table has slots, a packet that is transmitted again (its ACK lost
\* or late) is queued a second time only if DEDUP_WINDOW packets were accepted
\* since the first.  And no packet is queued after a later one of its board,
\* though a frame can wait in the radio while its sender gives up and goes on.
InOrderOncePerWindow ==
  \A n \in Node : Cardinality(KeysHeard(n)) <= DEDUP_SLOTS =>
    \A i, j \in DOMAIN delivered[n] :
      i < j /\ delivered[n][i].src = delivered[n][j].src =>
        \/ delivered[n][i].num < delivered[n][j].num
        \/ delivered[n][i].num = delivered[n][j].num /\ j - i >= DEDUP_WINDOW

\* Table d is up to date with the sequence log of accepted packets.
UpToDate(d, log) ==
  /\ d.accepted = Len(log)
  /\ \A s \in Slot : d.entries[s].used =>
       LET e == d.entries[s]
       IN  /\ e.at + 1 \in DOMAIN log
           /\ KeyOf(log[e.at + 1]) = e.key
           /\ SeqOf(log[e.at + 1]) = e.seq
           /\ \A i \in DOMAIN log : i > e.at + 1 => KeyOf(log[i]) # e.key
  /\ \A s, t \in Slot : /\ d.entries[s].used /\ d.entries[t].used
                        /\ d.entries[s].key = d.entries[t].key
                        => s = t

\* rx_commit_multi and its evictions: whatever was refused, evicted or
\* repeated before, each source has at most one entry, a used entry describes
\* the last packet accepted from its source, and its age is that packet's.
DedupTracksLatest == \A n \in Node : UpToDate(dedup[n], delivered[n])

AcceptedSeq(m, seq) == \E k \in DOMAIN delivered[m] : SeqOf(delivered[m][k]) = seq

\* send_with_retry returns true only if some other board did queue a packet
\* with the sequence number sent.  ACKs name nothing else, so with three boards
\* it may be another board's packet; stale ACKs, NACKs and ACKs overheard while
\* idle must not make it less than that.
OkMeansSeqAccepted ==
  \A n \in Node : \A i \in DOMAIN result[n] : result[n][i] = "ok" =>
    \E m \in Node \ {n} : AcceptedSeq(m, SeqOf([src |-> n, num |-> i]))

\* Every positive ACK in the system, being sent by lora_rx_task, in the air or
\* waiting in ack_queue, was earned: the board it came from did queue a packet
\* with that number.  (Why OkMeansSeqAccepted is an invariant.)
AcksAreEarned ==
  \A n \in Node :
    /\ reply[n].type = "ack" /\ reply[n].verdict = ACK_OK => AcceptedSeq(n, reply[n].seq)
    /\ radio[n].type = "ack" /\ radio[n].verdict = ACK_OK =>
         \E m \in Node \ {n} : AcceptedSeq(m, radio[n].seq)
    /\ \A i \in DOMAIN ackQueue[n] : ackQueue[n][i].verdict = ACK_OK =>
         \E m \in Node \ {n} : AcceptedSeq(m, ackQueue[n][i].seq)

\* A frame that handle_rx_frame would answer as a duplicate was queued before:
\* a NACKed packet's retry and a new packet are never swallowed by the filter.
FreshIsNotDuplicate ==
  \A n \in Node :
    /\ radio[n].type = "data"
    /\ ~Ignores(n, radio[n].pkt)
    /\ IsDuplicate(dedup[n], KeyOf(radio[n].pkt), SeqOf(radio[n].pkt))
    => \E k \in DOMAIN delivered[n] : delivered[n][k] = radio[n].pkt

Service == INSTANCE MessageService

\* Between two boards the link keeps the promise of MessageService: in order,
\* at most once, and "ok" only for a packet the peer accepted.
ImplementsService == Service!Spec

\* LoRa_sendRaw never gets stuck on a packet, whatever the radio loses and
\* whatever ACKs it overhears: everything queued gets its tx_result.
EveryPacketReported ==
  \A n \in Node : Len(result[n]) < submitted[n] ~> Len(result[n]) = submitted[n]
=============================================================================
