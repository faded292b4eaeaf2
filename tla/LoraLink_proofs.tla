--------------------------- MODULE LoraLink_proofs ---------------------------
(***************************************************************************)
(* Proofs about the acknowledged link, for any number of boards, any       *)
(* workload, any reach, any queue depths and any table size:               *)
(*   1. what the operators of the duplicate filter return;                 *)
(*   2. types, the table and the ACKs;                                     *)
(*   3. the order in which a board queues what it hears;                   *)
(*   4. what the filter may mistake for a repeat;                          *)
(*   5. two boards keep the promise of MessageService.                     *)
(***************************************************************************)
EXTENDS LoraLink, FiniteSetTheorems, SequenceTheorems, WellFoundedInduction, TLAPS

-----------------------------------------------------------------------------
(* 1. The duplicate filter's table, of any size, with any window and any   *)
(* set of sources.                                                         *)

\* rx_dedup_find's scan ends: a table that is not full has a first unused entry.
LEMMA FirstUnusedExists ==
  ASSUME NEW d, ~Full(d)
  PROVE  \E i \in Slot : /\ ~d.entries[i].used
                         /\ \A j \in 1..(i-1) : d.entries[j].used
<1> DEFINE Unused == {i \in Slot : ~d.entries[i].used}
<1>1. Unused # {} /\ Unused \subseteq Nat
  BY DedupAssumption DEF Full, Slot
<1>2. PICK i \in Unused : \A j \in Unused : ~(<<j, i>> \in OpToRel(<, Nat))
  <2> HIDE DEF Unused
  <2> QED BY <1>1, NatLessThanWellFounded, WFMin
<1>3. \A j \in Unused : ~(j < i)
  BY <1>1, <1>2 DEF OpToRel
<1>4. i \in Slot /\ ~d.entries[i].used
  OBVIOUS
<1>5. ASSUME NEW j \in 1..(i-1) PROVE d.entries[j].used
  <2>1. j \in Slot /\ j < i
    BY <1>4, DedupAssumption DEF Slot
  <2>2. j \notin Unused
    BY <1>3, <2>1
  <2>3. QED
    BY <2>1, <2>2, Zenon
<1>6. QED
  BY <1>4, <1>5

\* rx_dedup_find always returns an entry of the table.
LEMMA SlotForIsSlot ==
  ASSUME NEW Keys, NEW Seqs, NEW d \in Table(Keys, Seqs), NEW key
  PROVE  SlotFor(d, key) \in Slot
<1>1. CASE Known(d, key)
  BY <1>1 DEF Known, SlotFor
<1>2. CASE ~Known(d, key) /\ Full(d)
  BY <1>2 DEF SlotFor, Table
<1>3. CASE ~Known(d, key) /\ ~Full(d)
  BY <1>3, FirstUnusedExists DEF SlotFor
<1>4. QED
  BY <1>1, <1>2, <1>3

\* A source that has an entry gets that entry back.
LEMMA SlotForKnown ==
  ASSUME NEW d, NEW key, Known(d, key)
  PROVE  Holds(d, SlotFor(d, key), key)
BY DEF Known, SlotFor

LEMMA EmptyDedupTyped ==
  ASSUME NEW Keys, NEW Seqs, 0 \in Seqs
  PROVE  EmptyDedup \in Table(Keys, Seqs)
BY DedupAssumption DEF EmptyDedup, UnusedEntry, Table, Entry, Slot

\* rx_commit_multi keeps the table a table, and rewrites one entry only.
LEMMA CommitProperties ==
  ASSUME NEW Keys, NEW Seqs, NEW d \in Table(Keys, Seqs),
         NEW key \in Keys, NEW seq \in Seqs
  PROVE  /\ Commit(d, key, seq) \in Table(Keys, Seqs)
         /\ Commit(d, key, seq).accepted = d.accepted + 1
         /\ SlotFor(d, key) \in Slot
         /\ \A i \in Slot : Commit(d, key, seq).entries[i] =
              IF i = SlotFor(d, key)
                THEN [used |-> TRUE, key |-> key, seq |-> seq, at |-> d.accepted]
                ELSE d.entries[i]
<1> DEFINE e == [used |-> TRUE, key |-> key, seq |-> seq, at |-> d.accepted]
           l == IF ~Known(d, key) /\ Full(d) THEN (d.lru % DEDUP_SLOTS) + 1 ELSE d.lru
<1>1. SlotFor(d, key) \in Slot
  BY SlotForIsSlot
<1>2. e \in Entry(Keys, Seqs)
  BY DEF Entry, Table
<1>3. d.lru \in Slot /\ d.accepted \in Nat /\ d.entries \in [Slot -> Entry(Keys, Seqs)]
  BY DEF Table
<1>4. l \in Slot
  BY <1>3, DedupAssumption DEF Slot
<1>5. Commit(d, key, seq) = [entries  |-> [d.entries EXCEPT ![SlotFor(d, key)] = e],
                             lru      |-> l,
                             accepted |-> d.accepted + 1]
  BY DEF Commit
<1> HIDE DEF e, l
<1>6. [d.entries EXCEPT ![SlotFor(d, key)] = e] \in [Slot -> Entry(Keys, Seqs)]
  BY <1>1, <1>2, <1>3
<1>7. Commit(d, key, seq) \in Table(Keys, Seqs)
  BY <1>3, <1>4, <1>5, <1>6 DEF Table
<1>8. QED
  BY <1>1, <1>3, <1>5, <1>7 DEF e

-----------------------------------------------------------------------------
(* 2. Types, the table and the ACKs.                                       *)

(* Packets and frames.                                                     *)

\* What the workload says of a packet is well-formed.
LEMMA PacketTyped ==
  ASSUME NEW p \in Packet
  PROVE  /\ p.src \in Node /\ p.num \in Nat \ {0}
         /\ Info(p) \in PacketSpec
         /\ Kind(p) \in {"MSG", "NET", "BCAST"}
         /\ SeqOf(p) \in Seq8
         /\ KeyOf(p) \in Key
         /\ DataFrame(p) \in Frame
<1>1. p.src \in Node /\ p.num \in Nat \ {0} /\ p.num <= Len(Workload[p.src])
  BY DEF Packet
<1>2. Workload[p.src] \in Seq(PacketSpec)
  BY <1>1, LinkAssumption
<1>3. Info(p) \in PacketSpec
  BY <1>1, <1>2, LenProperties, ElementOfSeq DEF Info
<1>4. Kind(p) \in {"MSG", "NET", "BCAST"}
  BY <1>3 DEF Kind, PacketSpec
<1>5. SeqOf(p) \in Seq8
  <2>1. SeqBase[p.src] \in Nat /\ SEQ_MOD \in Nat \ {0}
    BY <1>1, LinkAssumption
  <2>2. SeqBase[p.src] + p.num - 1 \in Nat
    BY <1>1, <2>1
  <2>3. QED
    BY <2>1, <2>2 DEF SeqOf, Seq8
<1>6. KeyOf(p) \in Key
  BY <1>1, <1>4 DEF KeyOf, Key
<1>7. DataFrame(p) \in Frame
  BY DEF DataFrame, Frame
<1>8. QED
  BY <1>1, <1>3, <1>4, <1>5, <1>6, <1>7

\* While LoRa_sendRaw has a packet in hand it is a packet of the workload.
LEMMA CurrentIsPacket ==
  ASSUME TypeOK, NEW n \in Node, tx[n].at # "idle"
  PROVE  /\ Current(n) \in Packet
         /\ Len(result[n]) + 1 = taken[n]
<1>1. /\ taken[n] \in Nat /\ submitted[n] \in Nat
      /\ result[n] \in Seq({"ok", "fail", "sent"})
      /\ taken[n] <= submitted[n] /\ submitted[n] <= Len(Workload[n])
      /\ Len(result[n]) = taken[n] - 1
  BY DEF TypeOK
<1>2. Workload[n] \in Seq(PacketSpec)
  BY LinkAssumption
<1>3. Len(result[n]) \in Nat /\ Len(Workload[n]) \in Nat
  BY <1>1, <1>2, LenProperties
<1>4. taken[n] \in Nat \ {0} /\ taken[n] <= Len(Workload[n])
  BY <1>1, <1>3
<1>5. QED
  BY <1>1, <1>3, <1>4 DEF Current, Packet

\* A transmission leaves a frame, or nothing, in every radio.
LEMMA OnAirTyped ==
  ASSUME TypeOK, NEW n \in Node, NEW f \in Frame, OnAir(n, f)
  PROVE  radio' \in [Node -> Frame \cup {Silence}]
<1>1. PICK heard \in [Reach[n] \ {n} -> Arrivals(f)] :
        radio' = [m \in Node |->
                    IF m = n THEN Silence
                    ELSE IF m \in Reach[n] /\ heard[m] # Silence THEN heard[m]
                    ELSE radio[m]]
  BY DEF OnAir
<1>2. Arrivals(f) \subseteq Frame \cup {Silence}
  BY LinkAssumption DEF Arrivals, Frame, BadFrame, Silence, Seq8
<1>3. ASSUME NEW m \in Node PROVE radio'[m] \in Frame \cup {Silence}
  <2>1. radio[m] \in Frame \cup {Silence}
    BY DEF TypeOK
  <2>2. m # n /\ m \in Reach[n] => heard[m] \in Arrivals(f)
    BY <1>1
  <2>3. QED
    BY <1>1, <1>2, <2>1, <2>2
<1>4. QED
  BY <1>1, <1>3

-----------------------------------------------------------------------------
(* Type correctness, one variable at a time.                               *)

\* Ending a packet and going on to the next attempt keep tx, result and their
\* relation to taken.
LEMMA FinishTyped ==
  ASSUME TypeOK, NEW n \in Node, tx[n].at # "idle",
         NEW r \in {"ok", "fail", "sent"}, Finish(n, r), taken' = taken
  PROVE  /\ tx' \in [Node -> [at : {"idle", "send", "broadcast", "wait"},
                              attempts : 0..(MAX_RETRIES + 1)]]
         /\ result' \in [Node -> Seq({"ok", "fail", "sent"})]
         /\ \A m \in Node : Len(result'[m]) =
              (IF tx'[m].at = "idle" THEN taken'[m] ELSE taken'[m] - 1)
<1>1. Idle \in [at : {"idle", "send", "broadcast", "wait"}, attempts : 0..(MAX_RETRIES + 1)]
  BY LinkAssumption DEF Idle
<1>2. tx' \in [Node -> [at : {"idle", "send", "broadcast", "wait"},
                        attempts : 0..(MAX_RETRIES + 1)]]
  BY <1>1 DEF Finish, TypeOK
<1>3. /\ result[n] \in Seq({"ok", "fail", "sent"})
      /\ Append(result[n], r) \in Seq({"ok", "fail", "sent"})
      /\ Len(Append(result[n], r)) = Len(result[n]) + 1
  BY AppendProperties DEF TypeOK
<1>4. result' \in [Node -> Seq({"ok", "fail", "sent"})]
  BY <1>3 DEF Finish, TypeOK
<1>5. ASSUME NEW m \in Node
      PROVE  Len(result'[m]) = (IF tx'[m].at = "idle" THEN taken'[m] ELSE taken'[m] - 1)
  <2>1. CASE m = n
    <3>1. tx'[m].at = "idle" /\ result'[m] = Append(result[n], r)
      BY <2>1 DEF Finish, TypeOK, Idle
    <3>2. QED
      BY <1>3, <2>1, <3>1, CurrentIsPacket
  <2>2. CASE m # n
    BY <2>2 DEF Finish, TypeOK
  <2>3. QED
    BY <2>1, <2>2
<1>6. QED
  BY <1>2, <1>4, <1>5

LEMMA NextAttemptTyped ==
  ASSUME TypeOK, NEW n \in Node, tx[n].at \in {"send", "wait"},
         NextAttemptOrFail(n), taken' = taken
  PROVE  /\ tx' \in [Node -> [at : {"idle", "send", "broadcast", "wait"},
                              attempts : 0..(MAX_RETRIES + 1)]]
         /\ result' \in [Node -> Seq({"ok", "fail", "sent"})]
         /\ \A m \in Node : Len(result'[m]) =
              (IF tx'[m].at = "idle" THEN taken'[m] ELSE taken'[m] - 1)
<1>1. CASE tx[n].attempts > MAX_RETRIES
  BY <1>1, FinishTyped DEF NextAttemptOrFail
<1>2. CASE ~(tx[n].attempts > MAX_RETRIES)
  <2>1. /\ tx' = [tx EXCEPT ![n] = [at |-> "send", attempts |-> tx[n].attempts + 1]]
        /\ result' = result
    BY <1>2 DEF NextAttemptOrFail
  <2>2. tx[n].attempts \in 0..(MAX_RETRIES + 1)
    BY DEF TypeOK
  <2>3. [at |-> "send", attempts |-> tx[n].attempts + 1]
           \in [at : {"idle", "send", "broadcast", "wait"}, attempts : 0..(MAX_RETRIES + 1)]
    BY <1>2, <2>2, LinkAssumption
  <2>4. tx' \in [Node -> [at : {"idle", "send", "broadcast", "wait"},
                          attempts : 0..(MAX_RETRIES + 1)]]
    BY <2>1, <2>3 DEF TypeOK
  <2>5. ASSUME NEW m \in Node PROVE tx'[m].at = "idle" <=> tx[m].at = "idle"
    BY <2>1 DEF TypeOK
  <2>6. QED
    BY <2>1, <2>4, <2>5 DEF TypeOK
<1>3. QED
  BY <1>1, <1>2

\* Replacing one board's ack_queue by one within its depth.
LEMMA AckQueueTyped ==
  ASSUME TypeOK, NEW n \in Node, NEW q \in Seq(Verdict), Len(q) <= ACK_DEPTH,
         ackQueue' = [ackQueue EXCEPT ![n] = q]
  PROVE  /\ ackQueue' \in [Node -> Seq(Verdict)]
         /\ \A m \in Node : Len(ackQueue'[m]) <= ACK_DEPTH
<1>1. \A m \in Node : ackQueue'[m] = IF m = n THEN q ELSE ackQueue[m]
  BY DEF TypeOK
<1>2. ackQueue' \in [Node -> Seq(Verdict)]
  BY DEF TypeOK
<1>3. QED
  BY <1>1, <1>2 DEF TypeOK

\* Queueing, or refusing, a packet keeps the receiver's variables.
LEMMA AcceptTyped ==
  ASSUME TypeOK, NEW n \in Node, NEW p \in Packet, Accept(n, p)
  PROVE  /\ recvLoad' \in [Node -> 0..RECV_DEPTH]
         /\ netLoad' \in [Node -> 0..NET_DEPTH]
         /\ dedup' \in [Node -> Table(Key, Seq8)]
         /\ delivered' \in [Node -> Seq(Packet)]
         /\ reply' \in [Node -> Acks \cup {Silence}]
<1>1. SeqOf(p) \in Seq8 /\ KeyOf(p) \in Key
  BY PacketTyped
<1>2. \A v \in {ACK_OK, ACK_RETRY} : AckFrame(SeqOf(p), v) \in Acks
  BY <1>1 DEF AckFrame, Acks
<1>3. reply' \in [Node -> Acks \cup {Silence}]
  <2>1. PICK v \in {ACK_OK, ACK_RETRY} : reply' = [reply EXCEPT ![n] = AckFrame(SeqOf(p), v)]
    BY DEF Accept
  <2>2. QED
    BY <1>2, <2>1 DEF TypeOK
<1>4. CASE UNCHANGED receiverVars
  BY <1>3, <1>4 DEF receiverVars, TypeOK
<1>5. CASE /\ IF Kind(p) = "MSG" THEN recvLoad[n] < RECV_DEPTH ELSE netLoad[n] < NET_DEPTH
           /\ IF Kind(p) = "MSG"
                THEN recvLoad' = [recvLoad EXCEPT ![n] = @ + 1] /\ UNCHANGED netLoad
                ELSE netLoad' = [netLoad EXCEPT ![n] = @ + 1] /\ UNCHANGED recvLoad
           /\ dedup' = [dedup EXCEPT ![n] = Commit(@, KeyOf(p), SeqOf(p))]
           /\ delivered' = [delivered EXCEPT ![n] = Append(@, p)]
  <2>1. recvLoad[n] \in 0..RECV_DEPTH /\ netLoad[n] \in 0..NET_DEPTH
    BY DEF TypeOK
  <2>2. recvLoad' \in [Node -> 0..RECV_DEPTH] /\ netLoad' \in [Node -> 0..NET_DEPTH]
    <3>1. CASE Kind(p) = "MSG"
      <4>1. recvLoad[n] + 1 \in 0..RECV_DEPTH
        BY <1>5, <2>1, <3>1, LinkAssumption
      <4>2. QED
        BY <1>5, <3>1, <4>1 DEF TypeOK
    <3>2. CASE Kind(p) # "MSG"
      <4>1. netLoad[n] + 1 \in 0..NET_DEPTH
        BY <1>5, <2>1, <3>2, LinkAssumption
      <4>2. QED
        BY <1>5, <3>2, <4>1 DEF TypeOK
    <3>3. QED
      BY <3>1, <3>2
  <2>3. Commit(dedup[n], KeyOf(p), SeqOf(p)) \in Table(Key, Seq8)
    BY <1>1, CommitProperties DEF TypeOK
  <2>4. dedup' \in [Node -> Table(Key, Seq8)]
    BY <1>5, <2>3 DEF TypeOK
  <2>5. Append(delivered[n], p) \in Seq(Packet)
    BY AppendProperties DEF TypeOK
  <2>6. delivered' \in [Node -> Seq(Packet)]
    BY <1>5, <2>5 DEF TypeOK
  <2>7. QED
    BY <1>3, <2>2, <2>4, <2>6
<1>6. QED
  BY <1>4, <1>5 DEF Accept

LEMMA InitTyped == Init => TypeOK
<1> SUFFICES ASSUME Init PROVE TypeOK
  OBVIOUS
<1>1. \A n \in Node : Len(Workload[n]) \in Nat
  BY LinkAssumption, LenProperties
<1>2. 0 \in Seq8
  BY LinkAssumption DEF Seq8
<1>3. dedup \in [Node -> Table(Key, Seq8)]
  BY <1>2, EmptyDedupTyped DEF Init
<1>4. tx \in [Node -> [at : {"idle", "send", "broadcast", "wait"},
                       attempts : 0..(MAX_RETRIES + 1)]]
  BY LinkAssumption DEF Init, Idle
<1>5. /\ ackQueue \in [Node -> Seq(Verdict)]
      /\ delivered \in [Node -> Seq(Packet)]
      /\ result \in [Node -> Seq({"ok", "fail", "sent"})]
      /\ \A n \in Node : Len(ackQueue[n]) = 0 /\ Len(result[n]) = 0
  BY EmptySeq DEF Init
<1>6. /\ submitted \in [Node -> Nat] /\ taken \in [Node -> Nat]
      /\ radio \in [Node -> Frame \cup {Silence}]
      /\ reply \in [Node -> Acks \cup {Silence}]
  BY DEF Init
<1>7. recvLoad \in [Node -> 0..RECV_DEPTH] /\ netLoad \in [Node -> 0..NET_DEPTH]
  BY LinkAssumption DEF Init
<1>8. \A n \in Node : /\ taken[n] <= submitted[n]
                      /\ submitted[n] <= Len(Workload[n])
                      /\ submitted[n] - taken[n] <= SEND_DEPTH
                      /\ Len(ackQueue[n]) <= ACK_DEPTH
                      /\ Len(result[n]) = (IF tx[n].at = "idle" THEN taken[n] ELSE taken[n] - 1)
  BY <1>1, <1>5, LinkAssumption DEF Init, Idle
<1>9. QED
  BY <1>3, <1>4, <1>5, <1>6, <1>7, <1>8 DEF TypeOK

\* Each step of a board's TX side keeps TypeOK.
LEMMA TxTyped ==
  ASSUME TypeOK, NEW n \in Node, Enqueue(n) \/ TxTask(n)
  PROVE  TypeOK'
<1>1. CASE Enqueue(n)
  <2>1. /\ submitted[n] \in Nat /\ taken[n] \in Nat /\ taken[n] <= submitted[n]
        /\ Len(Workload[n]) \in Nat
    BY LinkAssumption, LenProperties DEF TypeOK
  <2>2. submitted' \in [Node -> Nat]
    BY <1>1, <2>1 DEF Enqueue, TypeOK
  <2>3. \A m \in Node : /\ taken'[m] <= submitted'[m]
                        /\ submitted'[m] <= Len(Workload[m])
                        /\ submitted'[m] - taken'[m] <= SEND_DEPTH
    <3> TAKE m \in Node
    <3>1. CASE m = n
      <4>1. submitted'[m] = submitted[m] + 1 /\ taken'[m] = taken[m]
        BY <1>1, <3>1 DEF Enqueue, TypeOK
      <4>2. QED
        BY <1>1, <2>1, <3>1, <4>1, LinkAssumption DEF Enqueue
    <3>2. CASE m # n
      BY <1>1, <3>2 DEF Enqueue, TypeOK
    <3>3. QED
      BY <3>1, <3>2
  <2>4. QED
    BY <1>1, <2>2, <2>3 DEF Enqueue, TypeOK, receiverVars
<1>2. CASE TakePacket(n)
  <2>1. /\ submitted[n] \in Nat /\ taken[n] \in Nat /\ taken[n] < submitted[n]
        /\ Len(result[n]) = taken[n]
    BY <1>2 DEF TakePacket, TypeOK
  <2>2. taken' = [taken EXCEPT ![n] = @ + 1]
    BY <1>2 DEF TakePacket
  <2>3. taken' \in [Node -> Nat]
    BY <2>1, <2>2 DEF TypeOK
  <2>4. PICK at \in {"send", "broadcast"} : tx' = [tx EXCEPT ![n] = [at |-> at, attempts |-> 1]]
    BY <1>2 DEF TakePacket
  <2>5. tx' \in [Node -> [at : {"idle", "send", "broadcast", "wait"},
                          attempts : 0..(MAX_RETRIES + 1)]]
    <3>1. [at |-> at, attempts |-> 1] \in [at : {"idle", "send", "broadcast", "wait"},
                                           attempts : 0..(MAX_RETRIES + 1)]
      BY <2>4, LinkAssumption
    <3>2. QED
      BY <2>4, <3>1 DEF TypeOK
  <2>6. ackQueue' = ackQueue \/ ackQueue' = [ackQueue EXCEPT ![n] = <<>>]
    BY <1>2 DEF TakePacket
  <2>7. /\ ackQueue' \in [Node -> Seq(Verdict)]
        /\ \A m \in Node : Len(ackQueue'[m]) <= ACK_DEPTH
    <3>1. /\ <<>> \in Seq(Verdict) /\ Len(<<>>) <= ACK_DEPTH
      BY EmptySeq, LinkAssumption
    <3>2. CASE ackQueue' = ackQueue
      BY <3>2 DEF TypeOK
    <3>3. QED
      BY <2>6, <3>1, <3>2, AckQueueTyped
  <2>8. ASSUME NEW m \in Node
        PROVE  /\ taken'[m] <= submitted'[m]
               /\ submitted'[m] <= Len(Workload[m])
               /\ submitted'[m] - taken'[m] <= SEND_DEPTH
               /\ Len(result'[m]) = (IF tx'[m].at = "idle" THEN taken'[m] ELSE taken'[m] - 1)
    <3>1. CASE m = n
      <4>1. tx'[m].at # "idle"
        BY <2>4, <3>1 DEF TypeOK
      <4>2. /\ taken'[m] = taken[m] + 1
            /\ submitted' = submitted /\ result' = result
        BY <1>2, <2>2, <3>1 DEF TypeOK, TakePacket
      <4>3. submitted[m] <= Len(Workload[m]) /\ submitted[m] - taken[m] <= SEND_DEPTH
        BY DEF TypeOK
      <4>4. QED
        BY <2>1, <3>1, <4>1, <4>2, <4>3, LinkAssumption
    <3>2. CASE m # n
      BY <1>2, <2>2, <2>4, <3>2 DEF TypeOK, TakePacket
    <3>3. QED
      BY <3>1, <3>2
  <2>9. QED
    BY <1>2, <2>3, <2>5, <2>7, <2>8 DEF TakePacket, TypeOK, receiverVars
<1>3. CASE Transmit(n)
  <2>1. DataFrame(Current(n)) \in Frame
    BY <1>3, CurrentIsPacket, PacketTyped DEF Transmit
  <2>2. radio' \in [Node -> Frame \cup {Silence}]
    BY <1>3, <2>1, OnAirTyped DEF Transmit
  <2>3. tx' \in [Node -> [at : {"idle", "send", "broadcast", "wait"},
                          attempts : 0..(MAX_RETRIES + 1)]]
    BY <1>3 DEF Transmit, TypeOK
  <2>4. \A m \in Node : tx'[m].at = "idle" <=> tx[m].at = "idle"
    BY <1>3 DEF Transmit, TypeOK
  <2>5. QED
    BY <1>3, <2>2, <2>3, <2>4 DEF Transmit, TypeOK, receiverVars
<1>4. CASE TransmitFails(n)
  BY <1>4, NextAttemptTyped DEF TransmitFails, TypeOK, receiverVars
<1>5. CASE Broadcast(n)
  <2>1. DataFrame(Current(n)) \in Frame
    BY <1>5, CurrentIsPacket, PacketTyped DEF Broadcast
  <2>2. radio' \in [Node -> Frame \cup {Silence}]
    BY <1>5, <2>1, OnAirTyped DEF Broadcast, TypeOK
  <2>3. QED
    BY <1>5, <2>2, FinishTyped DEF Broadcast, TypeOK, receiverVars
<1>6. CASE OnAck(n)
  <2>1. /\ ackQueue[n] \in Seq(Verdict) /\ ackQueue[n] # <<>>
        /\ Len(ackQueue[n]) <= ACK_DEPTH
    BY <1>6 DEF OnAck, TypeOK
  <2>2. /\ Tail(ackQueue[n]) \in Seq(Verdict)
        /\ Len(Tail(ackQueue[n])) = Len(ackQueue[n]) - 1
        /\ Len(ackQueue[n]) \in Nat
    BY <2>1, HeadTailProperties, LenProperties
  <2>3. /\ ackQueue' \in [Node -> Seq(Verdict)]
        /\ \A m \in Node : Len(ackQueue'[m]) <= ACK_DEPTH
    <3>1. ackQueue' = [ackQueue EXCEPT ![n] = Tail(ackQueue[n])]
      BY <1>6 DEF OnAck
    <3>2. Len(Tail(ackQueue[n])) <= ACK_DEPTH
      BY <2>1, <2>2, LinkAssumption
    <3>3. QED
      BY <2>2, <3>1, <3>2, AckQueueTyped
  <2>4. \/ UNCHANGED <<tx, result>>
        \/ Finish(n, "ok")
        \/ NextAttemptOrFail(n)
    BY <1>6 DEF OnAck
  <2>5. /\ tx' \in [Node -> [at : {"idle", "send", "broadcast", "wait"},
                             attempts : 0..(MAX_RETRIES + 1)]]
        /\ result' \in [Node -> Seq({"ok", "fail", "sent"})]
        /\ \A m \in Node : Len(result'[m]) =
             (IF tx'[m].at = "idle" THEN taken'[m] ELSE taken'[m] - 1)
    <3>1. tx[n].at = "wait" /\ taken' = taken
      BY <1>6 DEF OnAck
    <3>2. CASE UNCHANGED <<tx, result>>
      BY <3>1, <3>2 DEF TypeOK
    <3>3. QED
      BY <2>4, <3>1, <3>2, FinishTyped, NextAttemptTyped
  <2>6. QED
    BY <1>6, <2>3, <2>5 DEF OnAck, TypeOK, receiverVars
<1>7. CASE OnTimeout(n)
  BY <1>7, NextAttemptTyped DEF OnTimeout, TypeOK, receiverVars
<1>8. QED
  BY <1>1, <1>2, <1>3, <1>4, <1>5, <1>6, <1>7 DEF TxTask

\* Each step of a board's RX side keeps TypeOK.
LEMMA RxTyped ==
  ASSUME TypeOK, NEW n \in Node, RxTask(n) \/ ManageRecvQueue(n) \/ NetWriter(n)
  PROVE  TypeOK'
<1>1. TakeFrame(n) => radio' \in [Node -> Frame \cup {Silence}]
  BY DEF TakeFrame, TypeOK
<1>2. CASE RxBad(n)
  <2>1. radio[n] \in [type : {"bad"}, seq : Seq8]
    BY <1>2 DEF RxBad, CanRead, TypeOK, Frame, Acks, Silence
  <2>2. AckFrame(radio[n].seq, ACK_RETRY) \in Acks
    BY <2>1 DEF AckFrame, Acks
  <2>3. reply' \in [Node -> Acks \cup {Silence}]
    BY <1>2, <2>2 DEF RxBad, TypeOK
  <2>4. QED
    BY <1>1, <1>2, <2>3 DEF RxBad, TypeOK, senderVars, receiverVars
<1>3. CASE RxAck(n)
  <2>1. radio[n] \in Acks
    BY <1>3 DEF RxAck, CanRead, TypeOK, Frame, Acks, Silence
  <2>2. [seq |-> radio[n].seq, verdict |-> radio[n].verdict] \in Verdict
    BY <2>1 DEF Acks, Verdict
  <2>3. ackQueue[n] \in Seq(Verdict) /\ Len(ackQueue[n]) \in Nat
    BY LenProperties DEF TypeOK
  <2>4. /\ ackQueue' \in [Node -> Seq(Verdict)]
        /\ \A m \in Node : Len(ackQueue'[m]) <= ACK_DEPTH
    <3>1. CASE Len(ackQueue[n]) < ACK_DEPTH
      <4>1. PICK v \in Verdict : ackQueue' = [ackQueue EXCEPT ![n] = Append(ackQueue[n], v)]
        BY <1>3, <2>2, <3>1 DEF RxAck
      <4>2. /\ Append(ackQueue[n], v) \in Seq(Verdict)
            /\ Len(Append(ackQueue[n], v)) = Len(ackQueue[n]) + 1
        BY <2>3, AppendProperties
      <4>3. Len(Append(ackQueue[n], v)) <= ACK_DEPTH
        BY <2>3, <3>1, <4>2, LinkAssumption
      <4>4. QED
        BY <4>1, <4>2, <4>3, AckQueueTyped
    <3>2. CASE ~(Len(ackQueue[n]) < ACK_DEPTH)
      BY <1>3, <3>2 DEF RxAck, TypeOK
    <3>3. QED
      BY <3>1, <3>2
  <2>5. QED
    <3>1. UNCHANGED <<senderVars, reply, receiverVars>> /\ TakeFrame(n)
      BY <1>3 DEF RxAck
    <3>2. QED
      BY <1>1, <2>4, <3>1 DEF TypeOK, senderVars, receiverVars
<1>4. CASE RxData(n)
  <2>1. radio[n].pkt \in Packet
    <3>1. radio[n].type = "data" /\ radio[n] \in Frame \cup {Silence}
      BY <1>4 DEF RxData, CanRead, TypeOK
    <3>2. radio[n] \in [type : {"data"}, pkt : Packet]
      BY <3>1 DEF Frame, Acks, Silence
    <3>3. QED
      BY <3>2
  <2>2. AckFrame(SeqOf(radio[n].pkt), ACK_OK) \in Acks
    BY <2>1, PacketTyped DEF AckFrame, Acks
  <2>3. /\ recvLoad' \in [Node -> 0..RECV_DEPTH]
        /\ netLoad' \in [Node -> 0..NET_DEPTH]
        /\ dedup' \in [Node -> Table(Key, Seq8)]
        /\ delivered' \in [Node -> Seq(Packet)]
        /\ reply' \in [Node -> Acks \cup {Silence}]
    <3>1. CASE Accept(n, radio[n].pkt)
      BY <2>1, <3>1, AcceptTyped
    <3>2. CASE UNCHANGED reply /\ UNCHANGED receiverVars
      BY <3>2 DEF receiverVars, TypeOK
    <3>3. CASE /\ reply' = [reply EXCEPT ![n] = AckFrame(SeqOf(radio[n].pkt), ACK_OK)]
               /\ UNCHANGED receiverVars
      BY <2>2, <3>3 DEF receiverVars, TypeOK
    <3>4. QED
      BY <1>4, <3>1, <3>2, <3>3 DEF RxData
  <2>4. QED
    BY <1>1, <1>4, <2>3 DEF RxData, TypeOK, senderVars
<1>5. CASE RxBroadcast(n)
  <2>1. netLoad' \in [Node -> 0..NET_DEPTH]
    <3>1. CASE UNCHANGED netLoad
      BY <3>1 DEF TypeOK
    <3>2. CASE netLoad[n] < NET_DEPTH /\ netLoad' = [netLoad EXCEPT ![n] = @ + 1]
      <4>1. netLoad \in [Node -> 0..NET_DEPTH] /\ NET_DEPTH \in Nat
        BY LinkAssumption DEF TypeOK
      <4>2. netLoad[n] + 1 \in 0..NET_DEPTH
        BY <3>2, <4>1
      <4>3. QED
        BY <3>2, <4>1, <4>2
    <3>3. QED
      BY <1>5, <3>1, <3>2 DEF RxBroadcast
  <2>2. QED
    BY <1>1, <1>5, <2>1 DEF RxBroadcast, TypeOK, senderVars
<1>6. CASE SendAkn(n)
  <2>1. reply[n] \in Frame
    BY <1>6 DEF SendAkn, TypeOK, Frame
  <2>2. radio' \in [Node -> Frame \cup {Silence}]
    BY <1>6, <2>1, OnAirTyped DEF SendAkn, TypeOK
  <2>3. reply' \in [Node -> Acks \cup {Silence}]
    BY <1>6 DEF SendAkn, TypeOK
  <2>4. QED
    BY <1>6, <2>2, <2>3 DEF SendAkn, TypeOK, senderVars, receiverVars
<1>7. CASE ManageRecvQueue(n)
  <2>1. recvLoad \in [Node -> 0..RECV_DEPTH] /\ RECV_DEPTH \in Nat
    BY LinkAssumption DEF TypeOK
  <2>2. recvLoad[n] > 0 /\ recvLoad' = [recvLoad EXCEPT ![n] = recvLoad[n] - 1]
    BY <1>7 DEF ManageRecvQueue
  <2>3. recvLoad' \in [Node -> 0..RECV_DEPTH]
    BY <2>1, <2>2
  <2>4. QED
    BY <1>7, <2>3 DEF ManageRecvQueue, TypeOK, senderVars
<1>8. CASE NetWriter(n)
  <2>1. netLoad \in [Node -> 0..NET_DEPTH] /\ NET_DEPTH \in Nat
    BY LinkAssumption DEF TypeOK
  <2>2. netLoad[n] > 0 /\ netLoad' = [netLoad EXCEPT ![n] = netLoad[n] - 1]
    BY <1>8 DEF NetWriter
  <2>3. netLoad' \in [Node -> 0..NET_DEPTH]
    BY <2>1, <2>2
  <2>4. QED
    BY <1>8, <2>3 DEF NetWriter, TypeOK, senderVars
<1>9. QED
  BY <1>2, <1>3, <1>4, <1>5, <1>6, <1>7, <1>8 DEF RxTask

\* The variables keep their types and the queues their depths: no ring buffer
\* overflows, and LoRa_sendRaw is always exactly one result behind while it has
\* a packet in hand.
THEOREM TypeCorrect == Spec => []TypeOK
<1>1. TypeOK /\ [Next]_vars => TypeOK'
  <2> SUFFICES ASSUME TypeOK, [Next]_vars PROVE TypeOK'
    OBVIOUS
  <2>1. CASE UNCHANGED vars
    BY <2>1 DEF vars, TypeOK
  <2>2. CASE Next
    BY <2>1, <2>2, TxTyped, RxTyped DEF Next, Quiescent
  <2>3. QED
    BY <2>1, <2>2
<1>2. QED
  BY <1>1, InitTyped, PTL DEF Spec

-----------------------------------------------------------------------------
(* The duplicate filter is up to date.                                     *)

\* rx_commit_multi, called for the packet that was just queued, brings the
\* table up to date: the source's own entry is rewritten if it has one, so no
\* other entry of that source is left behind.
LEMMA CommitUpToDate ==
  ASSUME NEW d \in Table(Key, Seq8), NEW log \in Seq(Packet), UpToDate(d, log),
         NEW p \in Packet
  PROVE  UpToDate(Commit(d, KeyOf(p), SeqOf(p)), Append(log, p))
<1> DEFINE key  == KeyOf(p)
           seq  == SeqOf(p)
           slot == SlotFor(d, key)
           new  == Commit(d, key, seq)
           log2 == Append(log, p)
<1>1. key \in Key /\ seq \in Seq8
  BY PacketTyped
<1>2. /\ new.accepted = d.accepted + 1
      /\ slot \in Slot
      /\ \A i \in Slot : new.entries[i] =
           IF i = slot THEN [used |-> TRUE, key |-> key, seq |-> seq, at |-> d.accepted]
           ELSE d.entries[i]
  BY <1>1, CommitProperties
<1>3. /\ Len(log) \in Nat /\ DOMAIN log = 1..Len(log)
      /\ Len(log2) = Len(log) + 1
      /\ log2 \in Seq(Packet)
      /\ \A i \in 1..Len(log) : log2[i] = log[i]
      /\ log2[Len(log) + 1] = p
  BY LenProperties, AppendProperties
<1>4. DOMAIN log2 = 1..(Len(log) + 1)
  BY <1>3, LenProperties
<1>5. d.accepted = Len(log)
  BY DEF UpToDate
<1>6. ASSUME NEW s \in Slot, s # slot, d.entries[s].used
      PROVE  d.entries[s].key # key
  <2>1. SUFFICES ASSUME d.entries[s].key = key PROVE FALSE
    OBVIOUS
  <2>2. Holds(d, s, key) /\ Known(d, key)
    BY <1>6, <2>1 DEF Holds, Known
  <2>3. d.entries[slot].used /\ d.entries[slot].key = key
    BY <2>2, SlotForKnown DEF Holds
  <2>4. QED
    BY <1>2, <1>6, <2>1, <2>3 DEF UpToDate
<1> HIDE DEF key, seq, slot, new, log2
<1>7. ASSUME NEW s \in Slot, new.entries[s].used
      PROVE  /\ new.entries[s].at + 1 \in DOMAIN log2
             /\ KeyOf(log2[new.entries[s].at + 1]) = new.entries[s].key
             /\ SeqOf(log2[new.entries[s].at + 1]) = new.entries[s].seq
             /\ \A i \in DOMAIN log2 :
                  i > new.entries[s].at + 1 => KeyOf(log2[i]) # new.entries[s].key
  <2>1. CASE s = slot
    <3>1. /\ new.entries[s].at = Len(log)
          /\ new.entries[s].key = key /\ new.entries[s].seq = seq
      BY <1>2, <1>5, <2>1
    <3>2. QED
      BY <1>3, <1>4, <3>1 DEF key, seq
  <2>2. CASE s # slot
    <3>1. new.entries[s] = d.entries[s]
      BY <1>2, <2>2
    <3>2. /\ d.entries[s].at + 1 \in 1..Len(log)
          /\ KeyOf(log[d.entries[s].at + 1]) = d.entries[s].key
          /\ SeqOf(log[d.entries[s].at + 1]) = d.entries[s].seq
          /\ \A i \in 1..Len(log) : i > d.entries[s].at + 1 => KeyOf(log[i]) # d.entries[s].key
      BY <1>3, <1>7, <3>1 DEF UpToDate
    <3>3. KeyOf(log2[Len(log) + 1]) # d.entries[s].key
      BY <1>3, <1>6, <1>7, <2>2, <3>1 DEF key
    <3>4. ASSUME NEW i \in DOMAIN log2, i > d.entries[s].at + 1
          PROVE  KeyOf(log2[i]) # d.entries[s].key
      <4>1. i \in 1..Len(log) \/ i = Len(log) + 1
        BY <1>3, <1>4
      <4>2. QED
        BY <1>3, <3>2, <3>3, <3>4, <4>1
    <3>5. QED
      BY <1>3, <1>4, <3>1, <3>2, <3>4
  <2>3. QED
    BY <2>1, <2>2
<1>8. ASSUME NEW s \in Slot, NEW t \in Slot, new.entries[s].used, new.entries[t].used,
             new.entries[s].key = new.entries[t].key
      PROVE  s = t
  <2>1. CASE s = slot /\ t # slot
    BY <1>2, <1>6, <1>8, <2>1
  <2>2. CASE s # slot /\ t = slot
    BY <1>2, <1>6, <1>8, <2>2
  <2>3. CASE s # slot /\ t # slot
    BY <1>2, <1>8, <2>3 DEF UpToDate
  <2>4. QED
    BY <2>1, <2>2, <2>3
<1>9. new.accepted = Len(log2)
  BY <1>2, <1>3, <1>5
<1>10. UpToDate(new, log2)
  BY <1>7, <1>8, <1>9 DEF UpToDate
<1>11. QED
  BY <1>10 DEF key, seq, new, log2

\* The one step that writes a board's table and its log of accepted packets.
Committed(n, p) ==
  /\ dedup' = [dedup EXCEPT ![n] = Commit(@, KeyOf(p), SeqOf(p))]
  /\ delivered' = [delivered EXCEPT ![n] = Append(@, p)]

\* The frame waiting in a radio that reads as data is a packet.
LEMMA DataIsPacket ==
  ASSUME TypeOK, NEW n \in Node, CanRead(n, "data")
  PROVE  radio[n].pkt \in Packet
<1>1. radio[n].type = "data" /\ radio[n] \in Frame \cup {Silence}
  BY DEF CanRead, TypeOK
<1>2. radio[n] \in [type : {"data"}, pkt : Packet]
  BY <1>1 DEF Frame, Acks, Silence
<1>3. QED
  BY <1>2

LEMMA OnlyAcceptCommits ==
  ASSUME TypeOK, [Next]_vars
  PROVE  \/ UNCHANGED <<dedup, delivered>>
         \/ \E n \in Node : \E p \in Packet : Committed(n, p)
<1>1. CASE UNCHANGED vars
  BY <1>1 DEF vars
<1>2. ASSUME NEW n \in Node, RxData(n)
      PROVE  UNCHANGED <<dedup, delivered>> \/ \E p \in Packet : Committed(n, p)
  <2>1. radio[n].pkt \in Packet
    BY <1>2, DataIsPacket DEF RxData
  <2>2. UNCHANGED receiverVars \/ Accept(n, radio[n].pkt)
    BY <1>2 DEF RxData
  <2>3. UNCHANGED receiverVars \/ Committed(n, radio[n].pkt)
    BY <2>2 DEF Accept, Committed
  <2>4. QED
    BY <2>1, <2>3 DEF receiverVars
<1>3. ASSUME NEW n \in Node, Enqueue(n) \/ TxTask(n)
      PROVE  UNCHANGED <<dedup, delivered>>
  BY <1>3 DEF Enqueue, TxTask, TakePacket, Transmit, TransmitFails, Broadcast, OnAck,
              OnTimeout, receiverVars
<1>4. ASSUME NEW n \in Node, \/ RxBad(n) \/ RxAck(n) \/ RxBroadcast(n) \/ SendAkn(n)
                             \/ ManageRecvQueue(n) \/ NetWriter(n)
      PROVE  UNCHANGED <<dedup, delivered>>
  BY <1>4 DEF RxBad, RxAck, RxBroadcast, SendAkn, ManageRecvQueue, NetWriter, receiverVars
<1>5. QED
  BY <1>1, <1>2, <1>3, <1>4 DEF Next, RxTask, Quiescent

\* Duplicate-filter correctness: after any history of refused, repeated,
\* evicted and accepted packets, rx_dedup describes what was accepted.
LEMMA DedupStep ==
  ASSUME TypeOK, DedupTracksLatest, [Next]_vars
  PROVE  DedupTracksLatest'
<1>1. CASE UNCHANGED <<dedup, delivered>>
  BY <1>1 DEF DedupTracksLatest, UpToDate
<1>2. ASSUME NEW n \in Node, NEW p \in Packet, Committed(n, p)
      PROVE  DedupTracksLatest'
  <2> SUFFICES ASSUME NEW m \in Node PROVE UpToDate(dedup'[m], delivered'[m])
    BY DEF DedupTracksLatest, UpToDate
  <2>1. /\ dedup[n] \in Table(Key, Seq8) /\ delivered[n] \in Seq(Packet)
        /\ UpToDate(dedup[n], delivered[n])
    BY DEF TypeOK, DedupTracksLatest
  <2>2. UpToDate(Commit(dedup[n], KeyOf(p), SeqOf(p)), Append(delivered[n], p))
    BY <2>1, CommitUpToDate
  <2>3. CASE m = n
    BY <1>2, <2>2, <2>3 DEF Committed, TypeOK
  <2>4. CASE m # n
    BY <1>2, <2>4 DEF Committed, TypeOK, DedupTracksLatest
  <2>5. QED
    BY <2>3, <2>4
<1>3. QED
  BY <1>1, <1>2, OnlyAcceptCommits

LEMMA InitUpToDate == Init => DedupTracksLatest
<1> SUFFICES ASSUME Init, NEW n \in Node PROVE UpToDate(dedup[n], delivered[n])
  BY DEF DedupTracksLatest
<1>1. dedup[n] = EmptyDedup /\ delivered[n] = <<>>
  BY DEF Init
<1>2. \A s \in Slot : ~EmptyDedup.entries[s].used
  BY DEF EmptyDedup, UnusedEntry
<1>3. EmptyDedup.accepted = Len(<<>>)
  BY EmptySeq DEF EmptyDedup
<1>4. QED
  BY <1>1, <1>2, <1>3 DEF UpToDate

\* An entry of the table always describes the last packet its source had
\* accepted, with its age: rx_commit_multi and the evictions lose nothing else.
THEOREM DedupCorrect == Spec => []DedupTracksLatest
<1>1. DedupTracksLatest /\ TypeOK /\ [Next]_vars => DedupTracksLatest'
  BY DedupStep
<1>2. QED
  BY <1>1, InitUpToDate, TypeCorrect, PTL DEF Spec

-----------------------------------------------------------------------------
(* What an ACK is worth.                                                   *)

\* Nothing that was accepted is ever taken back.
LEMMA AcceptedForEver ==
  ASSUME TypeOK, [Next]_vars, NEW m \in Node, NEW seq, AcceptedSeq(m, seq)
  PROVE  AcceptedSeq(m, seq)'
<1>1. CASE delivered' = delivered
  BY <1>1 DEF AcceptedSeq
<1>2. ASSUME NEW n \in Node, NEW p \in Packet, Committed(n, p)
      PROVE  AcceptedSeq(m, seq)'
  <2>1. CASE m = n
    <3>1. /\ delivered[m] \in Seq(Packet)
          /\ delivered'[m] = Append(delivered[m], p)
      BY <1>2, <2>1 DEF Committed, TypeOK
    <3>2. PICK k \in DOMAIN delivered[m] : SeqOf(delivered[m][k]) = seq
      BY DEF AcceptedSeq
    <3>3. k \in DOMAIN delivered'[m] /\ delivered'[m][k] = delivered[m][k]
      BY <3>1, <3>2, AppendProperties, LenProperties
    <3>4. QED
      BY <3>2, <3>3 DEF AcceptedSeq
  <2>2. CASE m # n
    BY <1>2, <2>2 DEF Committed, TypeOK, AcceptedSeq
  <2>3. QED
    BY <2>1, <2>2
<1>3. QED
  BY <1>1, <1>2, OnlyAcceptCommits

\* A packet handle_rx_frame answers with ACK_OK, queued now or earlier, is one
\* whose number the board has accepted.
LEMMA OkReplyIsEarned ==
  ASSUME TypeOK, DedupTracksLatest, NEW n \in Node, RxData(n), reply'[n] # reply[n],
         reply'[n].verdict = ACK_OK
  PROVE  AcceptedSeq(n, reply[n].seq)'
<1>1. PICK p \in Packet : p = radio[n].pkt
  BY DataIsPacket DEF RxData
<1>2. CASE /\ IsDuplicate(dedup[n], KeyOf(p), SeqOf(p))
           /\ reply' = [reply EXCEPT ![n] = AckFrame(SeqOf(p), ACK_OK)]
           /\ UNCHANGED receiverVars
  <2>1. PICK s \in Slot : dedup[n].entries[s].used /\ dedup[n].entries[s].seq = SeqOf(p)
    BY <1>2 DEF IsDuplicate, Holds
  <2>2. /\ dedup[n].entries[s].at + 1 \in DOMAIN delivered[n]
        /\ SeqOf(delivered[n][dedup[n].entries[s].at + 1]) = SeqOf(p)
    BY <2>1 DEF DedupTracksLatest, UpToDate
  <2>3. \E k \in DOMAIN delivered'[n] : SeqOf(delivered'[n][k]) = SeqOf(p)
    BY <1>2, <2>2 DEF receiverVars
  <2>4. reply'[n].seq = SeqOf(p)
    BY <1>2 DEF AckFrame, TypeOK
  <2>5. QED
    BY <2>3, <2>4 DEF AcceptedSeq
<1>3. CASE /\ delivered' = [delivered EXCEPT ![n] = Append(@, p)]
           /\ reply' = [reply EXCEPT ![n] = AckFrame(SeqOf(p), ACK_OK)]
  <2>1. /\ delivered[n] \in Seq(Packet)
        /\ delivered'[n] = Append(delivered[n], p)
    BY <1>3 DEF TypeOK
  <2>2. /\ Len(delivered[n]) + 1 \in DOMAIN delivered'[n]
        /\ delivered'[n][Len(delivered[n]) + 1] = p
    BY <1>1, <2>1, AppendProperties, LenProperties
  <2>3. \E k \in DOMAIN delivered'[n] : SeqOf(delivered'[n][k]) = SeqOf(p)
    BY <2>2
  <2>4. reply'[n].seq = SeqOf(p)
    BY <1>3 DEF AckFrame, TypeOK
  <2>5. QED
    BY <2>3, <2>4 DEF AcceptedSeq
<1>4. CASE reply' = [reply EXCEPT ![n] = AckFrame(SeqOf(p), ACK_RETRY)]
  BY <1>4 DEF AckFrame, TypeOK, ACK_OK, ACK_RETRY
<1>5. CASE UNCHANGED reply
  BY <1>5
<1>6. QED
  BY <1>1, <1>2, <1>3, <1>4, <1>5 DEF RxData, Accept

\* Where a board's pending reply can come from in one step.
LEMMA ReplySource ==
  ASSUME TypeOK, [Next]_vars, NEW n \in Node
  PROVE  \/ reply'[n] = reply[n]
         \/ reply'[n] = Silence
         \/ reply'[n].verdict = ACK_RETRY
         \/ RxData(n)
<1>1. CASE UNCHANGED reply
  BY <1>1
<1>2. ASSUME NEW k \in Node, RxTask(k)
      PROVE  \/ reply'[n] = reply[n]
             \/ reply'[n] = Silence
             \/ reply'[n].verdict = ACK_RETRY
             \/ RxData(n)
  <2>1. CASE RxBad(k)
    BY <2>1 DEF RxBad, AckFrame, TypeOK
  <2>2. CASE RxData(k) /\ k # n
    <3>1. UNCHANGED reply \/ \E f : reply' = [reply EXCEPT ![k] = f]
      BY <2>2 DEF RxData, Accept
    <3>2. QED
      BY <2>2, <3>1 DEF TypeOK
  <2>3. CASE SendAkn(k)
    BY <2>3 DEF SendAkn, TypeOK
  <2>4. CASE RxAck(k) \/ RxBroadcast(k)
    BY <2>4 DEF RxAck, RxBroadcast
  <2>5. QED
    BY <1>2, <2>1, <2>2, <2>3, <2>4 DEF RxTask
<1>3. ASSUME NEW k \in Node, \/ Enqueue(k) \/ TxTask(k) \/ ManageRecvQueue(k) \/ NetWriter(k)
      PROVE  UNCHANGED reply
  BY <1>3 DEF Enqueue, TxTask, TakePacket, Transmit, TransmitFails, Broadcast, OnAck,
              OnTimeout, ManageRecvQueue, NetWriter
<1>4. QED
  BY <1>1, <1>2, <1>3 DEF Next, Quiescent, vars

\* What a transmission puts into the radio of another board.
LEMMA OnAirReaches ==
  ASSUME NEW n \in Node, NEW k \in Node, NEW f, OnAir(k, f), radio'[n] # radio[n]
  PROVE  \/ radio'[n].type # "ack"
         \/ n # k /\ radio'[n] = f
<1>1. PICK heard \in [Reach[k] \ {k} -> Arrivals(f)] :
        radio' = [m \in Node |->
                    IF m = k THEN Silence
                    ELSE IF m \in Reach[k] /\ heard[m] # Silence THEN heard[m]
                    ELSE radio[m]]
  BY DEF OnAir
<1>2. CASE n = k
  BY <1>1, <1>2 DEF Silence
<1>3. CASE n # k
  <2>1. n \in Reach[k] /\ radio'[n] = heard[n] /\ heard[n] # Silence
    BY <1>1, <1>3
  <2>2. heard[n] \in Arrivals(f)
    BY <1>1, <1>3, <2>1
  <2>3. heard[n] = f \/ \E s \in BadSeq : heard[n] = BadFrame(s)
    BY <2>1, <2>2 DEF Arrivals
  <2>4. \A s : BadFrame(s).type # "ack"
    BY DEF BadFrame
  <2>5. QED
    BY <1>3, <2>1, <2>3, <2>4, Zenon
<1>4. QED
  BY <1>2, <1>3

\* An ACK in a radio was there before or is another board's pending reply.
LEMMA RadioSource ==
  ASSUME TypeOK, [Next]_vars, NEW n \in Node
  PROVE  \/ radio'[n] = radio[n]
         \/ radio'[n].type # "ack"
         \/ \E m \in Node \ {n} : radio'[n] = reply[m]
<1>1. ASSUME NEW k \in Node, TakeFrame(k)
      PROVE  radio'[n] = radio[n] \/ radio'[n].type # "ack"
  BY <1>1 DEF TakeFrame, TypeOK, Silence
<1>2. ASSUME NEW k \in Node, RxTask(k)
      PROVE  \/ radio'[n] = radio[n]
             \/ radio'[n].type # "ack"
             \/ \E m \in Node \ {n} : radio'[n] = reply[m]
  <2>1. CASE SendAkn(k)
    <3>1. UNCHANGED radio \/ OnAir(k, reply[k])
      BY <2>1 DEF SendAkn
    <3>2. QED
      BY <3>1, OnAirReaches
  <2>2. CASE RxBad(k) \/ RxAck(k) \/ RxData(k) \/ RxBroadcast(k)
    BY <1>1, <2>2 DEF RxBad, RxAck, RxData, RxBroadcast
  <2>3. QED
    BY <1>2, <2>1, <2>2 DEF RxTask
<1>3. ASSUME NEW k \in Node, Transmit(k) \/ Broadcast(k)
      PROVE  radio'[n] = radio[n] \/ radio'[n].type # "ack"
  <2>1. UNCHANGED radio \/ OnAir(k, DataFrame(Current(k)))
    BY <1>3 DEF Transmit, Broadcast
  <2>2. DataFrame(Current(k)).type # "ack"
    BY DEF DataFrame
  <2>3. QED
    BY <2>1, <2>2, OnAirReaches
<1>4. ASSUME NEW k \in Node, \/ Enqueue(k) \/ TakePacket(k) \/ TransmitFails(k) \/ OnAck(k)
                             \/ OnTimeout(k) \/ ManageRecvQueue(k) \/ NetWriter(k)
      PROVE  UNCHANGED radio
  BY <1>4 DEF Enqueue, TakePacket, TransmitFails, OnAck, OnTimeout, ManageRecvQueue, NetWriter
<1>5. CASE UNCHANGED vars
  BY <1>5 DEF vars
<1>6. QED
  BY <1>2, <1>3, <1>4, <1>5 DEF Next, TxTask, Quiescent

\* An ACK in ack_queue was there before or has just been read off the radio.
LEMMA AckQueueSource ==
  ASSUME TypeOK, [Next]_vars, NEW n \in Node, NEW i \in DOMAIN ackQueue'[n]
  PROVE  \/ \E j \in DOMAIN ackQueue[n] : ackQueue'[n][i] = ackQueue[n][j]
         \/ /\ radio[n].type = "ack"
            /\ ackQueue'[n][i] = [seq |-> radio[n].seq, verdict |-> radio[n].verdict]
<1>1. ackQueue[n] \in Seq(Verdict)
  BY DEF TypeOK
<1>2. CASE ackQueue'[n] = ackQueue[n]
  BY <1>2
<1>3. CASE RxAck(n) /\ ackQueue'[n] # ackQueue[n]
  <2> DEFINE v == [seq |-> radio[n].seq, verdict |-> radio[n].verdict]
  <2>1. radio[n].type = "ack" /\ ackQueue'[n] = Append(ackQueue[n], v)
    BY <1>3 DEF RxAck, CanRead, TypeOK
  <2>2. radio[n] \in Acks
    BY <2>1 DEF TypeOK, Frame, Acks, Silence
  <2>3. v \in Verdict
    BY <2>2 DEF Acks, Verdict
  <2>4. /\ DOMAIN ackQueue'[n] = 1..(Len(ackQueue[n]) + 1)
        /\ DOMAIN ackQueue[n] = 1..Len(ackQueue[n])
        /\ Len(ackQueue[n]) \in Nat
        /\ \A j \in 1..Len(ackQueue[n]) : ackQueue'[n][j] = ackQueue[n][j]
        /\ ackQueue'[n][Len(ackQueue[n]) + 1] = v
    BY <1>1, <2>1, <2>3, AppendProperties, LenProperties
  <2>5. QED
    BY <2>1, <2>4
<1>4. CASE ackQueue'[n] = <<>>
  BY <1>4, EmptySeq, LenProperties
<1>5. CASE ackQueue[n] # <<>> /\ ackQueue'[n] = Tail(ackQueue[n])
  <2>1. /\ Tail(ackQueue[n]) \in Seq(Verdict)
        /\ Len(Tail(ackQueue[n])) = Len(ackQueue[n]) - 1
        /\ \A j \in 1..Len(Tail(ackQueue[n])) : Tail(ackQueue[n])[j] = ackQueue[n][j + 1]
    BY <1>1, <1>5, HeadTailProperties
  <2>2. /\ DOMAIN ackQueue[n] = 1..Len(ackQueue[n]) /\ Len(ackQueue[n]) \in Nat
        /\ DOMAIN Tail(ackQueue[n]) = 1..Len(Tail(ackQueue[n]))
    BY <1>1, <2>1, LenProperties
  <2>3. i + 1 \in DOMAIN ackQueue[n] /\ ackQueue'[n][i] = ackQueue[n][i + 1]
    BY <1>5, <2>1, <2>2
  <2>4. QED
    BY <2>3
<1>6. \/ ackQueue'[n] = ackQueue[n]
      \/ RxAck(n)
      \/ ackQueue'[n] = <<>>
      \/ ackQueue[n] # <<>> /\ ackQueue'[n] = Tail(ackQueue[n])
  <2>1. ASSUME NEW k \in Node, RxAck(k), k # n PROVE ackQueue'[n] = ackQueue[n]
    BY <2>1 DEF RxAck, TypeOK
  <2>2. ASSUME NEW k \in Node, OnAck(k)
        PROVE  \/ ackQueue'[n] = ackQueue[n]
               \/ ackQueue[n] # <<>> /\ ackQueue'[n] = Tail(ackQueue[n])
    BY <2>2 DEF OnAck, TypeOK
  <2>3. ASSUME NEW k \in Node, TakePacket(k)
        PROVE  ackQueue'[n] = ackQueue[n] \/ ackQueue'[n] = <<>>
    BY <2>3 DEF TakePacket, TypeOK
  <2>4. ASSUME NEW k \in Node,
               \/ Enqueue(k) \/ Transmit(k) \/ TransmitFails(k) \/ Broadcast(k) \/ OnTimeout(k)
               \/ RxBad(k) \/ RxData(k) \/ RxBroadcast(k) \/ SendAkn(k)
               \/ ManageRecvQueue(k) \/ NetWriter(k)
        PROVE  UNCHANGED ackQueue
    BY <2>4 DEF Enqueue, Transmit, TransmitFails, Broadcast, OnTimeout, RxBad, RxData,
                RxBroadcast, SendAkn, ManageRecvQueue, NetWriter
  <2>idle. CASE vars' = vars
    BY <2>idle DEF vars
  <2> QED
    BY <2>idle, <2>4, <2>3, <2>2, <2>1 DEF Next, RxTask, TxTask, Quiescent
<1>7. QED
  BY <1>2, <1>3, <1>4, <1>5, <1>6

\* A positive ACK stays earned, wherever the step moves it.
LEMMA AcksStep ==
  ASSUME TypeOK, DedupTracksLatest, AcksAreEarned, [Next]_vars
  PROVE  AcksAreEarned'
<1> SUFFICES ASSUME NEW n \in Node
             PROVE  /\ reply'[n].type = "ack" /\ reply'[n].verdict = ACK_OK =>
                         AcceptedSeq(n, reply[n].seq)'
                    /\ radio'[n].type = "ack" /\ radio'[n].verdict = ACK_OK =>
                         \E m \in Node \ {n} : AcceptedSeq(m, radio[n].seq)'
                    /\ \A i \in DOMAIN ackQueue'[n] : ackQueue'[n][i].verdict = ACK_OK =>
                         \E m \in Node \ {n} : AcceptedSeq(m, ackQueue[n][i].seq)'
  BY DEF AcksAreEarned
<1>1. ASSUME NEW m \in Node, NEW q, AcceptedSeq(m, q)
      PROVE  \E k \in DOMAIN delivered'[m] : SeqOf(delivered'[m][k]) = q
  BY <1>1, AcceptedForEver DEF AcceptedSeq
<1>2. ASSUME reply'[n].type = "ack", reply'[n].verdict = ACK_OK
      PROVE  AcceptedSeq(n, reply[n].seq)'
  <2>1. CASE reply'[n] = reply[n]
    <3>1. AcceptedSeq(n, reply[n].seq)
      BY <1>2, <2>1 DEF AcksAreEarned
    <3>2. QED
      BY <1>1, <2>1, <3>1 DEF AcceptedSeq
  <2>2. CASE RxData(n) /\ reply'[n] # reply[n]
    BY <1>2, <2>2, OkReplyIsEarned
  <2>3. reply'[n] # Silence /\ reply'[n].verdict # ACK_RETRY
    BY <1>2 DEF Silence, ACK_OK, ACK_RETRY
  <2>4. QED
    BY <2>1, <2>2, <2>3, ReplySource
<1>3. ASSUME radio'[n].type = "ack", radio'[n].verdict = ACK_OK
      PROVE  \E m \in Node \ {n} : AcceptedSeq(m, radio[n].seq)'
  <2>1. CASE radio'[n] = radio[n]
    <3>1. PICK m \in Node \ {n} : AcceptedSeq(m, radio[n].seq)
      BY <1>3, <2>1 DEF AcksAreEarned
    <3>2. QED
      BY <1>1, <2>1, <3>1 DEF AcceptedSeq
  <2>2. ASSUME NEW m \in Node \ {n}, radio'[n] = reply[m]
        PROVE  AcceptedSeq(m, radio[n].seq)'
    <3>1. AcceptedSeq(m, reply[m].seq)
      BY <1>3, <2>2 DEF AcksAreEarned
    <3>2. QED
      BY <1>1, <2>2, <3>1 DEF AcceptedSeq
  <2>3. QED
    BY <1>3, <2>1, <2>2, RadioSource
<1>4. ASSUME NEW i \in DOMAIN ackQueue'[n], ackQueue'[n][i].verdict = ACK_OK
      PROVE  \E m \in Node \ {n} : AcceptedSeq(m, ackQueue[n][i].seq)'
  <2>1. PICK q : /\ ackQueue'[n][i].seq = q
                 /\ \E m \in Node \ {n} : AcceptedSeq(m, q)
    <3>1. CASE \E j \in DOMAIN ackQueue[n] : ackQueue'[n][i] = ackQueue[n][j]
      BY <1>4, <3>1 DEF AcksAreEarned
    <3>2. CASE /\ radio[n].type = "ack"
               /\ ackQueue'[n][i] = [seq |-> radio[n].seq, verdict |-> radio[n].verdict]
      BY <1>4, <3>2 DEF AcksAreEarned
    <3>3. QED
      BY <3>1, <3>2, AckQueueSource
  <2>2. QED
    BY <1>1, <2>1 DEF AcceptedSeq
<1>5. QED
  BY <1>2, <1>3, <1>4

LEMMA InitEarned == Init => AcksAreEarned /\ OkMeansSeqAccepted
<1> SUFFICES ASSUME Init, NEW n \in Node
             PROVE  /\ reply[n].type # "ack"
                    /\ radio[n].type # "ack"
                    /\ DOMAIN ackQueue[n] = {} /\ DOMAIN result[n] = {}
  BY DEF AcksAreEarned, OkMeansSeqAccepted
<1>1. DOMAIN <<>> = {}
  OBVIOUS
<1>2. QED
  BY <1>1 DEF Init, Silence

\* "ok" is recorded only when an earned ACK with the packet's own number is at
\* the head of ack_queue.
LEMMA OkStep ==
  ASSUME TypeOK, AcksAreEarned, OkMeansSeqAccepted, [Next]_vars
  PROVE  OkMeansSeqAccepted'
<1> SUFFICES ASSUME NEW n \in Node, NEW i \in DOMAIN result'[n], result'[n][i] = "ok"
             PROVE  \E m \in Node \ {n} :
                      \E k \in DOMAIN delivered'[m] :
                        SeqOf(delivered'[m][k]) = SeqOf([src |-> n, num |-> i])
  BY DEF OkMeansSeqAccepted, AcceptedSeq, SeqOf
<1>1. ASSUME NEW m \in Node, NEW q, AcceptedSeq(m, q)
      PROVE  \E k \in DOMAIN delivered'[m] : SeqOf(delivered'[m][k]) = q
  BY <1>1, AcceptedForEver DEF AcceptedSeq
<1>2. SUFFICES \E m \in Node \ {n} : AcceptedSeq(m, SeqOf([src |-> n, num |-> i]))
  BY <1>1
<1>3. CASE result'[n] = result[n]
  BY <1>3 DEF OkMeansSeqAccepted
<1>4. ASSUME NEW r, tx[n].at # "idle", Finish(n, r),
             r = "ok" => \E m \in Node \ {n} : AcceptedSeq(m, SeqOf(Current(n)))
      PROVE  \E m \in Node \ {n} : AcceptedSeq(m, SeqOf([src |-> n, num |-> i]))
  <2>1. result[n] \in Seq({"ok", "fail", "sent"}) /\ result'[n] = Append(result[n], r)
    BY <1>4 DEF Finish, TypeOK
  <2>2. CASE i \in DOMAIN result[n]
    <3>1. result'[n][i] = result[n][i]
      BY <2>1, <2>2, AppendProperties, LenProperties
    <3>2. QED
      BY <2>2, <3>1 DEF OkMeansSeqAccepted
  <2>3. CASE i = Len(result[n]) + 1
    <3>1. i = taken[n] /\ r = "ok"
      BY <1>4, <2>1, <2>3, CurrentIsPacket, AppendProperties
    <3>2. QED
      BY <1>4, <3>1 DEF Current
  <2>4. i \in DOMAIN result[n] \/ i = Len(result[n]) + 1
    BY <2>1, AppendProperties, LenProperties
  <2>5. QED
    BY <2>2, <2>3, <2>4
<1>5. CASE NextAttemptOrFail(n) /\ tx[n].at # "idle"
  BY <1>3, <1>4, <1>5 DEF NextAttemptOrFail
<1>6. CASE OnAck(n)
  <2> DEFINE ack == Head(ackQueue[n])
  <2>1. ackQueue[n] \in Seq(Verdict) /\ ackQueue[n] # <<>>
    BY <1>6 DEF OnAck, TypeOK
  <2>2. ack = ackQueue[n][1] /\ 1 \in DOMAIN ackQueue[n]
    BY <2>1, EmptySeq, LenProperties
  <2>3. CASE ack.seq = SeqOf(Current(n)) /\ ack.verdict = ACK_OK
    <3>1. \E m \in Node \ {n} : AcceptedSeq(m, SeqOf(Current(n)))
      BY <2>2, <2>3 DEF AcksAreEarned
    <3>2. Finish(n, "ok") /\ tx[n].at # "idle"
      BY <1>6, <2>3 DEF OnAck
    <3>3. QED
      BY <1>4, <3>1, <3>2
  <2>4. CASE ~(ack.seq = SeqOf(Current(n)) /\ ack.verdict = ACK_OK)
    BY <1>3, <1>5, <1>6, <2>4 DEF OnAck
  <2>5. QED
    BY <2>3, <2>4
<1>7. CASE Broadcast(n)
  BY <1>4, <1>7 DEF Broadcast
<1>8. CASE TransmitFails(n) \/ OnTimeout(n)
  BY <1>5, <1>8 DEF TransmitFails, OnTimeout
<1>9. \/ result'[n] = result[n]
      \/ OnAck(n) \/ Broadcast(n) \/ TransmitFails(n) \/ OnTimeout(n)
  <2>1. ASSUME NEW k \in Node, OnAck(k) \/ Broadcast(k) \/ TransmitFails(k) \/ OnTimeout(k),
               k # n
        PROVE  result'[n] = result[n]
    BY <2>1 DEF OnAck, Broadcast, TransmitFails, OnTimeout, NextAttemptOrFail, Finish, TypeOK
  <2>2. ASSUME NEW k \in Node, \/ Enqueue(k) \/ TakePacket(k) \/ Transmit(k) \/ RxTask(k)
                               \/ ManageRecvQueue(k) \/ NetWriter(k)
        PROVE  UNCHANGED result
    BY <2>2 DEF Enqueue, TakePacket, Transmit, RxTask, RxBad, RxAck, RxData, RxBroadcast,
                SendAkn, ManageRecvQueue, NetWriter, senderVars
  <2>3. CASE UNCHANGED vars
    BY <2>3 DEF vars
  <2>4. QED
    BY <2>1, <2>2, <2>3 DEF Next, TxTask, Quiescent
<1>10. QED
  BY <1>3, <1>6, <1>7, <1>8, <1>9

\* The invariant that makes the ACK protocol sound: types, an up-to-date
\* filter, earned ACKs, and results that rest on earned ACKs.
LinkInv == TypeOK /\ DedupTracksLatest /\ AcksAreEarned /\ OkMeansSeqAccepted

\* The ACK protocol's invariant holds for any boards and any radio: handle_rx_frame earns
\* every ACK it sends, and send_with_retry believes no other.
THEOREM LinkInvariant == Spec => []LinkInv
<1>1. Init => LinkInv
  BY InitTyped, InitUpToDate, InitEarned DEF LinkInv
<1>2. LinkInv /\ TypeOK' /\ [Next]_vars => LinkInv'
  BY DedupStep, AcksStep, OkStep DEF LinkInv
<1>3. QED
  BY <1>1, <1>2, TypeCorrect, PTL DEF Spec

\* Every positive ACK anywhere in the system was earned by an acceptance.
THEOREM AcksEarned == Spec => []AcksAreEarned
BY LinkInvariant, PTL DEF LinkInv

\* send_with_retry never reports success for a packet whose number no other
\* board accepted, whatever is lost, damaged, repeated or overheard.
THEOREM OkIsNeverUnfounded == Spec => []OkMeansSeqAccepted
BY LinkInvariant, PTL DEF LinkInv

-----------------------------------------------------------------------------
(* 3. The order in which a board queues what it hears.                     *)
(*                                                                         *)
(* A frame in a radio is the newest its board has heard of its sender, so  *)
(* numbers never go down.  That a packet is not queued twice within the    *)
(* window rests on the table: while there are no more sources than slots   *)
(* nothing is evicted, and each source's last packet is in it.             *)

(* Tables that forget nothing.                                             *)

Heard(log) == {KeyOf(log[i]) : i \in DOMAIN log}

NoneForgotten(d, log) ==
  Cardinality(Heard(log)) <= DEDUP_SLOTS => \A key \in Heard(log) : Known(d, key)

Spaced(log) ==
  \A i, j \in DOMAIN log : i < j /\ log[i].src = log[j].src =>
    \/ log[i].num < log[j].num
    \/ log[i].num = log[j].num /\ j - i >= DEDUP_WINDOW

LEMMA AppendIs ==
  ASSUME NEW log \in Seq(Packet), NEW p \in Packet
  PROVE  /\ Len(log) \in Nat /\ DOMAIN log = 1..Len(log)
         /\ DOMAIN Append(log, p) = 1..(Len(log) + 1)
         /\ Append(log, p) \in Seq(Packet)
         /\ \A i \in 1..Len(log) : Append(log, p)[i] = log[i]
         /\ Append(log, p)[Len(log) + 1] = p
  BY LenProperties, AppendProperties

LEMMA HeardGrows ==
  ASSUME NEW log \in Seq(Packet), NEW p \in Packet
  PROVE  Heard(Append(log, p)) = Heard(log) \cup {KeyOf(p)}
<1> DEFINE log2 == Append(log, p)
<1>1. /\ Len(log) \in Nat /\ DOMAIN log = 1..Len(log) /\ DOMAIN log2 = 1..(Len(log) + 1)
      /\ \A i \in 1..Len(log) : log2[i] = log[i]
      /\ log2[Len(log) + 1] = p
  BY AppendIs
<1> HIDE DEF log2
<1>2. \A key : key \in Heard(log2) <=> \E i \in 1..(Len(log) + 1) : key = KeyOf(log2[i])
  BY <1>1 DEF Heard
<1>3. \A key : key \in Heard(log) <=> \E i \in 1..Len(log) : key = KeyOf(log[i])
  BY <1>1 DEF Heard
<1>4. ASSUME NEW key PROVE key \in Heard(log2) <=> key \in Heard(log) \cup {KeyOf(p)}
  <2>1. ASSUME NEW i \in 1..(Len(log) + 1), key = KeyOf(log2[i])
        PROVE  key \in Heard(log) \cup {KeyOf(p)}
    <3>1. i \in 1..Len(log) \/ i = Len(log) + 1
      BY <1>1
    <3>2. QED
      BY <1>1, <1>3, <2>1, <3>1
  <2>2. ASSUME NEW i \in 1..Len(log), key = KeyOf(log[i])
        PROVE  key \in Heard(log2)
    <3>1. i \in 1..(Len(log) + 1) /\ log2[i] = log[i]
      BY <1>1
    <3>2. QED
      BY <1>2, <2>2, <3>1
  <2>3. Len(log) + 1 \in 1..(Len(log) + 1)
    BY <1>1
  <2>4. KeyOf(p) \in Heard(log2)
    BY <1>1, <1>2, <2>3
  <2>5. QED
    BY <1>2, <1>3, <2>1, <2>2, <2>4
<1>5. QED
  BY <1>4 DEF log2

LEMMA HeardIsFinite ==
  ASSUME NEW log \in Seq(Packet)
  PROVE  IsFiniteSet(Heard(log)) /\ Cardinality(Heard(log)) \in Nat
<1> DEFINE f == [i \in 1..Len(log) |-> KeyOf(log[i])]
<1>1. Len(log) \in Nat /\ DOMAIN log = 1..Len(log)
  BY LenProperties
<1>2. f \in Surjection(1..Len(log), Heard(log))
  BY <1>1 DEF Surjection, Heard
<1>3. IsFiniteSet(1..Len(log))
  BY <1>1, FS_Interval
<1>4. IsFiniteSet(Heard(log))
  BY <1>2, <1>3, FS_Surjection
<1>5. QED
  BY <1>4, FS_CardinalityType

\* A table is not full while fewer sources than it has slots were heard.
LEMMA RoomForNew ==
  ASSUME NEW d \in Table(Key, Seq8), NEW log \in Seq(Packet), UpToDate(d, log),
         Cardinality(Heard(log)) < DEDUP_SLOTS
  PROVE  ~Full(d)
<1> SUFFICES ASSUME Full(d) PROVE FALSE
  OBVIOUS
<1> DEFINE f == [s \in Slot |-> d.entries[s].key]
<1>1. ASSUME NEW s \in Slot PROVE d.entries[s].key \in Heard(log)
  <2>1. /\ d.entries[s].at + 1 \in DOMAIN log
        /\ KeyOf(log[d.entries[s].at + 1]) = d.entries[s].key
    BY DEF Full, UpToDate
  <2>2. QED
    BY <2>1 DEF Heard
<1>2. \A s, t \in Slot : d.entries[s].key = d.entries[t].key => s = t
  BY DEF Full, UpToDate
<1>3. f \in Injection(Slot, Heard(log))
  BY <1>1, <1>2 DEF Injection, IsInjective
<1>4. IsFiniteSet(Heard(log)) /\ Cardinality(Heard(log)) \in Nat
  BY HeardIsFinite
<1>5. Cardinality(Slot) <= Cardinality(Heard(log))
  BY <1>3, <1>4, FS_Injection
<1>6. Cardinality(Slot) = DEDUP_SLOTS
  BY DedupAssumption, FS_Interval DEF Slot
<1>7. QED
  BY <1>4, <1>5, <1>6, DedupAssumption

\* rx_commit_multi evicts nothing while there are no more sources than slots.
LEMMA CommitForgetsNone ==
  ASSUME NEW d \in Table(Key, Seq8), NEW log \in Seq(Packet), UpToDate(d, log),
         NoneForgotten(d, log), NEW p \in Packet
  PROVE  NoneForgotten(Commit(d, KeyOf(p), SeqOf(p)), Append(log, p))
<1> DEFINE key  == KeyOf(p)
           seq  == SeqOf(p)
           slot == SlotFor(d, key)
           new  == Commit(d, key, seq)
           log2 == Append(log, p)
<1>1. key \in Key /\ seq \in Seq8
  BY PacketTyped
<1>2. /\ slot \in Slot
      /\ \A i \in Slot : new.entries[i] =
           IF i = slot THEN [used |-> TRUE, key |-> key, seq |-> seq, at |-> d.accepted]
           ELSE d.entries[i]
  BY <1>1, CommitProperties
<1>3. Heard(log2) = Heard(log) \cup {key}
  BY HeardGrows
<1>4. /\ IsFiniteSet(Heard(log)) /\ Cardinality(Heard(log)) \in Nat
      /\ Cardinality(Heard(log2)) = IF key \in Heard(log) THEN Cardinality(Heard(log))
                                    ELSE Cardinality(Heard(log)) + 1
  BY <1>3, HeardIsFinite, FS_AddElement
<1>5. SUFFICES ASSUME Cardinality(Heard(log2)) <= DEDUP_SLOTS, NEW k \in Heard(log2)
               PROVE  Known(new, k)
  BY DEF NoneForgotten
<1>6. \A q \in Heard(log) : Known(d, q)
  BY <1>4, <1>5, DedupAssumption DEF NoneForgotten
<1>7. ASSUME NEW i \in Slot, i = slot, d.entries[i].used
      PROVE  d.entries[i].key = key
  <2>1. CASE Known(d, key)
    BY <1>7, <2>1, SlotForKnown DEF Holds
  <2>2. CASE ~Known(d, key)
    <3>1. key \notin Heard(log)
      BY <1>6, <2>2
    <3>2. Cardinality(Heard(log)) < DEDUP_SLOTS
      BY <1>4, <1>5, <3>1, DedupAssumption
    <3>3. ~Full(d)
      BY <3>2, RoomForNew
    <3>4. \E s \in Slot : ~d.entries[s].used /\ \A j \in 1..(s-1) : d.entries[j].used
      BY <3>3, FirstUnusedExists
    <3>5. ~d.entries[slot].used
      BY <2>2, <3>3, <3>4 DEF SlotFor
    <3>6. QED
      BY <1>7, <3>5
  <2>3. QED
    BY <2>1, <2>2
<1> HIDE DEF key, seq, slot, new, log2
<1>8. CASE k = key
  <2>1. Holds(new, slot, k)
    BY <1>2, <1>8 DEF Holds
  <2>2. QED
    BY <1>2, <2>1 DEF Known
<1>9. CASE k # key
  <2>1. k \in Heard(log)
    BY <1>3, <1>5, <1>9
  <2>2. PICK i \in Slot : Holds(d, i, k)
    BY <1>6, <2>1 DEF Known
  <2>3. i # slot
    BY <1>7, <1>9, <2>2 DEF Holds
  <2>4. Holds(new, i, k)
    BY <1>2, <2>2, <2>3 DEF Holds
  <2>5. QED
    BY <2>4 DEF Known
<1>10. QED
  BY <1>8, <1>9

\* A packet the filter lets through is a new one, or its first copy is a window away.
LEMMA AcceptedIsSpaced ==
  ASSUME NEW d \in Table(Key, Seq8), NEW log \in Seq(Packet), UpToDate(d, log),
         \A key \in Heard(log) : Known(d, key),
         Spaced(log), NEW p \in Packet,
         \A i \in DOMAIN log : log[i].src = p.src => log[i].num <= p.num,
         ~IsDuplicate(d, KeyOf(p), SeqOf(p))
  PROVE  Spaced(Append(log, p))
<1> DEFINE log2 == Append(log, p)
<1>1. /\ Len(log) \in Nat /\ DOMAIN log = 1..Len(log) /\ DOMAIN log2 = 1..(Len(log) + 1)
      /\ \A i \in 1..Len(log) : log2[i] = log[i] /\ log[i] \in Packet
      /\ log2[Len(log) + 1] = p
  BY AppendIs, ElementOfSeq
<1> HIDE DEF log2
<1>2. \A q \in Packet : q.num \in Nat /\ (q.src = p.src /\ q.num = p.num => q = p)
  BY DEF Packet
<1>3. ASSUME NEW i \in 1..Len(log), log[i] = p
      PROVE  Len(log) + 1 - i >= DEDUP_WINDOW
  <2>1. KeyOf(p) \in Heard(log)
    BY <1>1, <1>3 DEF Heard
  <2>2. PICK s \in Slot : Holds(d, s, KeyOf(p))
    BY <2>1 DEF Known
  <2> DEFINE e == d.entries[s]
             l == e.at + 1
  <2>3. e.used /\ e.key = KeyOf(p)
    BY <2>2 DEF Holds
  <2>4. /\ e.at \in Nat /\ l \in 1..Len(log) /\ KeyOf(log[l]) = KeyOf(p)
        /\ SeqOf(log[l]) = e.seq /\ d.accepted = Len(log)
        /\ \A j \in 1..Len(log) : j > l => KeyOf(log[j]) # KeyOf(p)
    BY <1>1, <2>3 DEF UpToDate, Table, Entry
  <2> HIDE DEF e, l
  <2>5. i <= l
    BY <1>3, <2>4
  <2>6. log[l] \in Packet /\ log[l].src = p.src
    BY <1>1, <2>4 DEF KeyOf
  <2>7. log[l].num <= p.num
    BY <1>1, <2>4, <2>6
  <2>8. log[l].num >= p.num
    <3>1. CASE i = l
      BY <1>2, <1>3, <2>6, <3>1
    <3>2. CASE i < l
      <4>1. log[i].src = log[l].src /\ i \in DOMAIN log /\ l \in DOMAIN log
        BY <1>1, <1>3, <2>4, <2>6
      <4>2. log[i].num < log[l].num \/ log[i].num = log[l].num
        BY <3>2, <4>1 DEF Spaced
      <4>3. log[l].num \in Nat /\ log[i].num = p.num /\ p.num \in Nat
        BY <1>2, <1>3, <2>6
      <4>4. QED
        BY <4>2, <4>3
    <3>3. QED
      BY <2>4, <2>5, <3>1, <3>2
  <2>9. log[l] = p
    BY <1>2, <2>6, <2>7, <2>8
  <2>10. e.seq = SeqOf(p)
    BY <2>4, <2>9
  <2>11. ~(d.accepted - e.at < DEDUP_WINDOW)
    BY <2>2, <2>10 DEF IsDuplicate, e
  <2>12. l = e.at + 1
    BY DEF l
  <2>13. QED
    BY <1>1, <2>4, <2>5, <2>11, <2>12, DedupAssumption
<1>4. ASSUME NEW i \in DOMAIN log2, NEW j \in DOMAIN log2, i < j, log2[i].src = log2[j].src
      PROVE  \/ log2[i].num < log2[j].num
             \/ log2[i].num = log2[j].num /\ j - i >= DEDUP_WINDOW
  <2>1. i \in 1..Len(log) /\ log2[i] = log[i] /\ log[i] \in Packet
    BY <1>1, <1>4
  <2>2. CASE j \in 1..Len(log)
    BY <1>1, <1>4, <2>1, <2>2 DEF Spaced
  <2>3. CASE j = Len(log) + 1
    <3>1. log2[j] = p /\ log[i].src = p.src /\ log[i].num <= p.num
      BY <1>1, <1>4, <2>1, <2>3
    <3>2. CASE log[i].num = p.num
      <4>1. log[i] = p
        BY <1>2, <2>1, <3>1, <3>2
      <4>2. QED
        BY <1>3, <2>1, <2>3, <3>1, <3>2, <4>1
    <3>3. CASE log[i].num # p.num
      BY <1>2, <2>1, <3>1, <3>3
    <3>4. QED
      BY <3>2, <3>3
  <2>4. QED
    BY <1>1, <2>2, <2>3
<1>5. QED
  BY <1>4 DEF Spaced, log2

-----------------------------------------------------------------------------
(* Frames overtake nothing.                                                *)

\* What board n has queued was begun by its sender, a frame in its radio is of a
\* packet no older than those queued from there, and the table has forgotten nobody
\* while there was room.
Orderly(n) ==
  /\ \A i \in DOMAIN delivered[n] : delivered[n][i].num <= taken[delivered[n][i].src]
  /\ radio[n].type = "data" =>
       /\ radio[n].pkt.num <= taken[radio[n].pkt.src]
       /\ \A i \in DOMAIN delivered[n] :
            delivered[n][i].src = radio[n].pkt.src => delivered[n][i].num <= radio[n].pkt.num
  /\ NoneForgotten(dedup[n], delivered[n])
  /\ Cardinality(Heard(delivered[n])) <= DEDUP_SLOTS => Spaced(delivered[n])

OrderInv == \A n \in Node : Orderly(n)

LEMMA OrderStarts == Init => OrderInv
<1> SUFFICES ASSUME Init, NEW n \in Node PROVE Orderly(n)
  BY DEF OrderInv
<1>1. delivered[n] = <<>> /\ radio[n] = Silence /\ DOMAIN <<>> = {}
  BY DEF Init
<1>2. Heard(delivered[n]) = {}
  BY <1>1 DEF Heard
<1>3. QED
  BY <1>1, <1>2 DEF Orderly, NoneForgotten, Spaced, Silence

\* taken only grows.
LEMMA TakenGrows ==
  ASSUME TypeOK, [Next]_vars, NEW s \in Node
  PROVE  taken[s] \in Nat /\ taken'[s] \in Nat /\ taken[s] <= taken'[s]
<1>1. taken \in [Node -> Nat]
  BY DEF TypeOK
<1>2. ASSUME NEW k \in Node, TakePacket(k)
      PROVE  taken' = [taken EXCEPT ![k] = @ + 1]
  BY <1>2 DEF TakePacket
<1>3. ASSUME NEW k \in Node, \/ Enqueue(k) \/ Transmit(k) \/ TransmitFails(k) \/ Broadcast(k)
                             \/ OnAck(k) \/ OnTimeout(k) \/ RxTask(k)
                             \/ ManageRecvQueue(k) \/ NetWriter(k)
      PROVE  taken' = taken
  BY <1>3 DEF Enqueue, Transmit, TransmitFails, Broadcast, OnAck, OnTimeout, RxTask, RxBad,
              RxAck, RxData, RxBroadcast, SendAkn, ManageRecvQueue, NetWriter, senderVars
<1>4. CASE UNCHANGED vars
  BY <1>1, <1>4 DEF vars
<1>5. (\E k \in Node : taken' = [taken EXCEPT ![k] = @ + 1]) \/ taken' = taken
  BY <1>2, <1>3, <1>4 DEF Next, TxTask, Quiescent, vars
<1>6. QED
  BY <1>1, <1>5

\* A data frame that a transmission leaves in a radio is the one transmitted.
LEMMA OnAirData ==
  ASSUME NEW n \in Node, NEW k \in Node, NEW f, OnAir(k, f),
         radio'[n] # radio[n], radio'[n].type = "data"
  PROVE  radio'[n] = f
<1>1. PICK heard \in [Reach[k] \ {k} -> Arrivals(f)] :
        radio' = [m \in Node |->
                    IF m = k THEN Silence
                    ELSE IF m \in Reach[k] /\ heard[m] # Silence THEN heard[m]
                    ELSE radio[m]]
  BY DEF OnAir
<1>2. n # k /\ n \in Reach[k] /\ radio'[n] = heard[n] /\ heard[n] # Silence
  BY <1>1 DEF Silence
<1>3. heard[n] = f \/ \E s \in BadSeq : heard[n] = BadFrame(s)
  BY <1>1, <1>2 DEF Arrivals
<1>4. \A s : BadFrame(s).type # "data"
  BY DEF BadFrame
<1>5. QED
  BY <1>2, <1>3, <1>4, Zenon

\* Where a data frame in a radio comes from: it was there, or its sender, which is at
\* this packet, has just transmitted it.
LEMMA DataSource ==
  ASSUME TypeOK, [Next]_vars, NEW n \in Node, radio'[n].type = "data"
  PROVE  \/ radio'[n] = radio[n]
         \/ /\ \E k \in Node : tx[k].at # "idle" /\ radio'[n] = DataFrame(Current(k))
            /\ UNCHANGED <<delivered, dedup, taken>>
<1>1. ASSUME NEW k \in Node, TakeFrame(k)
      PROVE  radio'[n] = radio[n]
  BY <1>1 DEF TakeFrame, TypeOK, Silence
<1>2. ASSUME NEW k \in Node, SendAkn(k)
      PROVE  radio'[n] = radio[n]
  <2>1. radio' = radio \/ OnAir(k, reply[k])
    BY <1>2 DEF SendAkn
  <2>2. reply[k].type # "data"
    <3>1. reply[k] \in Acks \/ reply[k] = Silence
      BY DEF TypeOK
    <3>2. (reply[k] \in Acks => reply[k].type = "ack") /\ Silence.type = "none"
      BY DEF Acks, Silence
    <3>3. QED
      BY <3>1, <3>2
  <2>3. QED
    BY <2>1, <2>2, OnAirData
<1>3. ASSUME NEW k \in Node, Transmit(k) \/ Broadcast(k)
      PROVE  \/ radio'[n] = radio[n]
             \/ /\ tx[k].at # "idle" /\ radio'[n] = DataFrame(Current(k))
                /\ UNCHANGED <<delivered, dedup, taken>>
  <2>1. radio' = radio \/ OnAir(k, DataFrame(Current(k)))
    BY <1>3 DEF Transmit, Broadcast
  <2>2. tx[k].at # "idle" /\ UNCHANGED <<delivered, dedup, taken>>
    BY <1>3 DEF Transmit, Broadcast, receiverVars
  <2>3. QED
    BY <2>1, <2>2, OnAirData
<1>4. ASSUME NEW k \in Node, \/ Enqueue(k) \/ TakePacket(k) \/ TransmitFails(k) \/ OnAck(k)
                             \/ OnTimeout(k) \/ ManageRecvQueue(k) \/ NetWriter(k)
      PROVE  radio' = radio
  BY <1>4 DEF Enqueue, TakePacket, TransmitFails, OnAck, OnTimeout, ManageRecvQueue, NetWriter
<1>5. ASSUME NEW k \in Node, RxTask(k)
      PROVE  radio'[n] = radio[n]
  BY <1>1, <1>2, <1>5 DEF RxTask, RxBad, RxAck, RxData, RxBroadcast
<1>6. CASE UNCHANGED vars
  BY <1>6 DEF vars
<1>7. QED
  BY <1>3, <1>4, <1>5, <1>6 DEF Next, TxTask, Quiescent

\* What is queued is the frame the board's radio held, and the filter let it through.
LEMMA AcceptSource ==
  ASSUME TypeOK, [Next]_vars, ~UNCHANGED <<dedup, delivered>>
  PROVE  \E k \in Node : /\ radio[k].type = "data" /\ radio[k].pkt \in Packet
                         /\ ~Ignores(k, radio[k].pkt)
                         /\ Committed(k, radio[k].pkt)
                         /\ ~IsDuplicate(dedup[k], KeyOf(radio[k].pkt), SeqOf(radio[k].pkt))
                         /\ radio' = [radio EXCEPT ![k] = Silence]
                         /\ UNCHANGED senderVars
<1>1. ASSUME NEW k \in Node, Enqueue(k) \/ TxTask(k)
      PROVE  UNCHANGED <<dedup, delivered>>
  BY <1>1 DEF Enqueue, TxTask, TakePacket, Transmit, TransmitFails, Broadcast, OnAck,
              OnTimeout, receiverVars
<1>2. ASSUME NEW k \in Node, \/ RxBad(k) \/ RxAck(k) \/ RxBroadcast(k) \/ SendAkn(k)
                             \/ ManageRecvQueue(k) \/ NetWriter(k)
      PROVE  UNCHANGED <<dedup, delivered>>
  BY <1>2 DEF RxBad, RxAck, RxBroadcast, SendAkn, ManageRecvQueue, NetWriter, receiverVars
<1>3. \E k \in Node : RxData(k)
  BY <1>1, <1>2 DEF Next, RxTask, Quiescent, vars
<1>4. PICK k \in Node : RxData(k)
  BY <1>3
<1>5. CanRead(k, "data") /\ radio[k].type = "data" /\ TakeFrame(k) /\ UNCHANGED senderVars
  BY <1>4 DEF RxData, CanRead
<1>6. radio[k].pkt \in Packet
  BY <1>5, DataIsPacket
<1>7. /\ ~Ignores(k, radio[k].pkt)
      /\ ~IsDuplicate(dedup[k], KeyOf(radio[k].pkt), SeqOf(radio[k].pkt))
      /\ Accept(k, radio[k].pkt)
  BY <1>4 DEF RxData, receiverVars
<1>8. Committed(k, radio[k].pkt)
  BY <1>7 DEF Accept, Committed, receiverVars
<1>9. QED
  BY <1>5, <1>6, <1>7, <1>8 DEF TakeFrame

\* Steps that queue nothing.
LEMMA OrderKept ==
  ASSUME TypeOK, TypeOK', [Next]_vars, NEW n \in Node, Orderly(n),
         UNCHANGED <<dedup, delivered>>
  PROVE  Orderly(n)'
<1>1. /\ delivered[n] \in Seq(Packet) /\ delivered'[n] = delivered[n] /\ dedup'[n] = dedup[n]
      /\ \A i \in DOMAIN delivered[n] :
           delivered[n][i].src \in Node /\ delivered[n][i].num \in Nat
  BY ElementOfSeq DEF TypeOK, Packet
<1>2. \A s \in Node : taken[s] \in Nat /\ taken'[s] \in Nat /\ taken[s] <= taken'[s]
  BY TakenGrows
<1>3. \A i \in DOMAIN delivered[n] : delivered[n][i].num <= taken'[delivered[n][i].src]
  BY <1>1, <1>2 DEF Orderly
<1>4. ASSUME radio'[n].type = "data"
      PROVE  /\ radio'[n].pkt.num <= taken'[radio'[n].pkt.src]
             /\ \A i \in DOMAIN delivered[n] : delivered[n][i].src = radio'[n].pkt.src
                  => delivered[n][i].num <= radio'[n].pkt.num
  <2>1. CASE radio'[n] = radio[n]
    <3>1. radio[n].pkt.src \in Node /\ radio[n].pkt.num \in Nat
      <4>1. radio[n] \in Frame \cup {Silence} /\ radio[n].type = "data"
        BY <1>4, <2>1 DEF TypeOK
      <4>2. radio[n] \in [type : {"data"}, pkt : Packet]
        BY <4>1 DEF Frame, Acks, Silence
      <4>3. radio[n].pkt \in Packet
        BY <4>2
      <4>4. QED
        BY <4>3 DEF Packet
    <3>2. QED
      BY <1>1, <1>2, <1>4, <2>1, <3>1 DEF Orderly
  <2>2. ASSUME NEW k \in Node, radio'[n] = DataFrame(Current(k)), taken' = taken
        PROVE  /\ radio'[n].pkt.num <= taken'[radio'[n].pkt.src]
               /\ \A i \in DOMAIN delivered[n] : delivered[n][i].src = radio'[n].pkt.src
                    => delivered[n][i].num <= radio'[n].pkt.num
    <3>1. radio'[n].pkt.src = k /\ radio'[n].pkt.num = taken[k]
      BY <2>2 DEF DataFrame, Current
    <3>2. QED
      BY <1>1, <1>2, <2>2, <3>1 DEF Orderly
  <2>3. QED
    BY <1>4, <2>1, <2>2, DataSource
<1>5. NoneForgotten(dedup'[n], delivered'[n])
      /\ (Cardinality(Heard(delivered'[n])) <= DEDUP_SLOTS => Spaced(delivered'[n]))
  BY <1>1 DEF Orderly
<1>6. QED
  BY <1>1, <1>3, <1>4, <1>5 DEF Orderly, NoneForgotten, Heard, Spaced, Known, Holds

\* The step that queues p, for the board that does.
LEMMA OrderExtended ==
  ASSUME TypeOK, DedupTracksLatest, NEW n \in Node, Orderly(n),
         radio[n].type = "data", NEW p \in Packet, p = radio[n].pkt, Committed(n, p),
         ~IsDuplicate(dedup[n], KeyOf(p), SeqOf(p)),
         radio' = [radio EXCEPT ![n] = Silence], taken' = taken
  PROVE  Orderly(n)'
<1> DEFINE log  == delivered[n]
           log2 == Append(log, p)
           new  == Commit(dedup[n], KeyOf(p), SeqOf(p))
<1>1. log \in Seq(Packet) /\ dedup[n] \in Table(Key, Seq8) /\ UpToDate(dedup[n], log)
  BY DEF TypeOK, DedupTracksLatest
<1>2. delivered'[n] = log2 /\ dedup'[n] = new /\ radio'[n] = Silence
  BY DEF Committed, TypeOK
<1>3. /\ Len(log) \in Nat /\ DOMAIN log = 1..Len(log) /\ DOMAIN log2 = 1..(Len(log) + 1)
      /\ \A i \in 1..Len(log) : log2[i] = log[i]
      /\ log2[Len(log) + 1] = p
  BY <1>1, AppendIs
<1>4. NoneForgotten(new, log2)
  BY <1>1, CommitForgetsNone DEF Orderly
<1>5. Cardinality(Heard(log2)) <= DEDUP_SLOTS => Spaced(log2)
  <2>1. SUFFICES ASSUME Cardinality(Heard(log2)) <= DEDUP_SLOTS PROVE Spaced(log2)
    OBVIOUS
  <2>2. Heard(log2) = Heard(log) \cup {KeyOf(p)}
    BY <1>1, HeardGrows
  <2>3. IsFiniteSet(Heard(log)) /\ Cardinality(Heard(log)) \in Nat
    BY <1>1, HeardIsFinite
  <2> HIDE DEF log, log2
  <2>4. Cardinality(Heard(log2)) = IF KeyOf(p) \in Heard(log) THEN Cardinality(Heard(log))
                                   ELSE Cardinality(Heard(log)) + 1
    BY <2>2, <2>3, FS_AddElement
  <2>5. Cardinality(Heard(log)) <= DEDUP_SLOTS
    BY <2>1, <2>3, <2>4, DedupAssumption
  <2> USE DEF log, log2
  <2>6. Spaced(log) /\ \A key \in Heard(log) : Known(dedup[n], key)
    BY <2>5 DEF Orderly, NoneForgotten
  <2>7. \A i \in DOMAIN log : log[i].src = p.src => log[i].num <= p.num
    BY DEF Orderly
  <2>8. QED
    BY <1>1, <2>6, <2>7, AcceptedIsSpaced
<1>6. \A i \in DOMAIN log2 : log2[i].num <= taken[log2[i].src]
  BY <1>3 DEF Orderly
<1> HIDE DEF log, log2, new
<1>7. QED
  BY <1>2, <1>4, <1>5, <1>6 DEF Orderly, NoneForgotten, Heard, Spaced, Known, Holds, Silence

LEMMA OrderStep ==
  ASSUME TypeOK, TypeOK', DedupTracksLatest, OrderInv, [Next]_vars
  PROVE  OrderInv'
<1> SUFFICES ASSUME NEW n \in Node PROVE Orderly(n)'
  BY DEF OrderInv
<1>1. Orderly(n)
  BY DEF OrderInv
<1>2. CASE UNCHANGED <<dedup, delivered>>
  BY <1>1, <1>2, OrderKept
<1>3. CASE ~UNCHANGED <<dedup, delivered>>
  <2>1. PICK k \in Node :
          /\ radio[k].type = "data" /\ radio[k].pkt \in Packet
          /\ Committed(k, radio[k].pkt)
          /\ ~IsDuplicate(dedup[k], KeyOf(radio[k].pkt), SeqOf(radio[k].pkt))
          /\ radio' = [radio EXCEPT ![k] = Silence] /\ taken' = taken
    BY <1>3, AcceptSource DEF senderVars
  <2>2. CASE n = k
    BY <1>1, <2>1, <2>2, OrderExtended
  <2>3. CASE n # k
    <3>1. dedup'[n] = dedup[n] /\ delivered'[n] = delivered[n] /\ radio'[n] = radio[n]
      BY <2>1, <2>3 DEF Committed, TypeOK
    <3>2. QED
      BY <1>1, <2>1, <3>1 DEF Orderly, NoneForgotten, Heard, Spaced, Known, Holds
  <2>4. QED
    BY <2>2, <2>3
<1>4. QED
  BY <1>2, <1>3

-----------------------------------------------------------------------------
(* The theorem.                                                            *)

\* What handle_rx_frame queues, what waits in the radios and what LoRa_sendRaw has begun
\* stay in order, for any boards and any losses.
THEOREM OrderInvariant == Spec => []OrderInv
<1>1. TypeOK /\ DedupTracksLatest /\ TypeOK' /\ OrderInv /\ [Next]_vars => OrderInv'
  BY OrderStep
<1>2. QED
  BY <1>1, OrderStarts, TypeCorrect, DedupCorrect, PTL DEF Spec

\* For any boards, workloads, losses, queue depths and tables: what a board queues from
\* a source never goes back, and while the sources fit the table a packet is queued
\* again only DEDUP_WINDOW packets later (rx_is_duplicate_multi, handle_rx_frame).
THEOREM OnceAndInOrder == Spec => []InOrderOncePerWindow
<1>1. OrderInv => InOrderOncePerWindow
  BY DEF OrderInv, Orderly, InOrderOncePerWindow, KeysHeard, Heard, Spaced
<1>2. QED
  BY <1>1, OrderInvariant, PTL

-----------------------------------------------------------------------------
(* 4. What the filter may mistake for a repeat.                            *)
(*                                                                         *)
(* A sequence number is one byte, so a packet sent SEQ_MOD packets after   *)
(* another looks like it.  That is the only mistake the filter can make.   *)

LEMMA Remainder ==
  ASSUME NEW m \in Nat \ {0}, NEW x \in Nat
  PROVE  x % m \in 0..m - 1 /\ x \div m \in Int /\ x = m * (x \div m) + (x % m)
<1>1. m \in Int /\ m > 0 /\ x \in Int
  OBVIOUS
<1>2. x % m \in 0..m - 1 /\ x \div m \in Int
  BY <1>1, SMTT(20)
<1>3. x = m * (x \div m) + (x % m)
  BY <1>1, SMTT(20)
<1>4. QED
  BY <1>2, <1>3

\* Numbers that leave the same remainder are equal, or at least m apart.
LEMMA SameRemainder ==
  ASSUME NEW m \in Nat \ {0}, NEW x \in Nat, NEW y \in Nat, x <= y, x % m = y % m
  PROVE  x = y \/ y - x >= m
<1>1. PICK q \in Int, r \in Int, c \in Int : x = m * q + c /\ y = m * r + c
  <2>1. x = m * (x \div m) + (x % m) /\ x \div m \in Int
    BY Remainder
  <2>2. y = m * (y \div m) + (y % m) /\ y \div m \in Int
    BY Remainder
  <2>3. x % m \in Int
    BY Remainder
  <2>4. y = m * (y \div m) + (x % m)
    BY <2>2
  <2>5. QED
    BY <2>1, <2>2, <2>3, <2>4, ZenonT(30)
<1>2. m \in Nat /\ m > 0
  OBVIOUS
<1>3. CASE q < r
  <2>1. m * r >= m * q + m
    BY <1>2, <1>3, SMTT(30)
  <2>2. m * q \in Int /\ m * r \in Int
    BY <1>2
  <2>3. QED
    BY <1>1, <1>2, <2>1, <2>2
<1>4. CASE q = r
  BY <1>1, <1>4
<1>5. CASE q > r
  <2>1. m * q >= m * r + m
    BY <1>2, <1>5, SMTT(30)
  <2>2. m * q \in Int /\ m * r \in Int
    BY <1>2
  <2>3. QED
    BY <1>1, <1>2, <2>1, <2>2
<1>6. QED
  BY <1>3, <1>4, <1>5

LEMMA SameNumber ==
  ASSUME NEW p \in Packet, NEW q \in Packet, q.src = p.src, q.num <= p.num,
         SeqOf(q) = SeqOf(p)
  PROVE  q = p \/ p.num - q.num >= SEQ_MOD
<1>1. PICK b \in Nat, i \in Nat, j \in Nat :
        b = SeqBase[p.src] /\ i = q.num /\ j = p.num /\ i > 0 /\ i <= j
  BY LinkAssumption DEF Packet
<1>2. SEQ_MOD \in Nat \ {0} /\ (b + i - 1) % SEQ_MOD = (b + j - 1) % SEQ_MOD
  BY <1>1, LinkAssumption DEF SeqOf
<1>3. PICK x \in Nat, y \in Nat : x = b + i - 1 /\ y = b + j - 1 /\ x <= y
  BY <1>1
<1>4. x = y \/ y - x >= SEQ_MOD
  BY <1>2, <1>3, SameRemainder
<1>5. i = j \/ j - i >= SEQ_MOD
  BY <1>1, <1>2, <1>3, <1>4
<1>6. q.num = p.num => q = p
  BY DEF Packet
<1>7. QED
  BY <1>1, <1>5, <1>6

\* For any boards, tables and windows: a frame that handle_rx_frame answers as a
\* duplicate was queued before, or one of the same source was whose number is SEQ_MOD
\* or more packets back (the one-byte counter of take_seq has gone round since).
MistakenOnlyAfterWrap ==
  \A n \in Node :
    /\ radio[n].type = "data"
    /\ ~Ignores(n, radio[n].pkt)
    /\ IsDuplicate(dedup[n], KeyOf(radio[n].pkt), SeqOf(radio[n].pkt))
    => \E k \in DOMAIN delivered[n] :
         \/ delivered[n][k] = radio[n].pkt
         \/ /\ delivered[n][k].src = radio[n].pkt.src
            /\ radio[n].pkt.num - delivered[n][k].num >= SEQ_MOD

LEMMA DuplicateIsSameNumber ==
  ASSUME TypeOK, DedupTracksLatest, OrderInv
  PROVE  MistakenOnlyAfterWrap
<1> SUFFICES ASSUME NEW n \in Node, radio[n].type = "data",
                    IsDuplicate(dedup[n], KeyOf(radio[n].pkt), SeqOf(radio[n].pkt))
             PROVE  \E k \in DOMAIN delivered[n] :
                      \/ delivered[n][k] = radio[n].pkt
                      \/ /\ delivered[n][k].src = radio[n].pkt.src
                         /\ radio[n].pkt.num - delivered[n][k].num >= SEQ_MOD
  BY DEF MistakenOnlyAfterWrap
<1>1. PICK p \in Packet : p = radio[n].pkt
  <2>1. radio[n] \in Frame \cup {Silence}
    BY DEF TypeOK
  <2>2. radio[n] \in [type : {"data"}, pkt : Packet]
    BY <2>1 DEF Frame, Acks, Silence
  <2>3. QED
    BY <2>2
<1>2. PICK s \in Slot : Holds(dedup[n], s, KeyOf(p)) /\ dedup[n].entries[s].seq = SeqOf(p)
  BY <1>1 DEF IsDuplicate
<1>3. PICK k : k = dedup[n].entries[s].at + 1
  OBVIOUS
<1>4. k \in DOMAIN delivered[n] /\ KeyOf(delivered[n][k]) = KeyOf(p)
      /\ SeqOf(delivered[n][k]) = SeqOf(p)
  BY <1>2, <1>3 DEF DedupTracksLatest, UpToDate, Holds
<1>5. delivered[n][k] \in Packet
  BY <1>4, ElementOfSeq, LenProperties DEF TypeOK
<1>6. delivered[n][k].src = p.src
  BY <1>4 DEF KeyOf
<1>7. delivered[n][k].num <= p.num
  BY <1>1, <1>4, <1>6 DEF OrderInv, Orderly
<1>8. delivered[n][k] = p \/ p.num - delivered[n][k].num >= SEQ_MOD
  BY <1>1, <1>4, <1>5, <1>6, <1>7, SameNumber
<1>9. QED
  BY <1>1, <1>4, <1>6, <1>8

\* rx_is_duplicate_multi never swallows a new packet but in that case.
THEOREM SwallowsOnlyAfterWrap == Spec => []MistakenOnlyAfterWrap
<1>1. TypeOK /\ DedupTracksLatest /\ OrderInv => MistakenOnlyAfterWrap
  BY DuplicateIsSameNumber
<1>2. QED
  BY <1>1, TypeCorrect, DedupCorrect, OrderInvariant, PTL

\* No board sends so many packets that its counter comes round.
NoWrap == \A n \in Node : Len(Workload[n]) <= SEQ_MOD

\* While no counter has gone round, the filter makes no mistake: a NACKed packet's retry
\* and a new packet are never answered as duplicates.
THEOREM FreshPasses ==
  ASSUME NoWrap
  PROVE  Spec => []FreshIsNotDuplicate
<1>1. TypeOK /\ MistakenOnlyAfterWrap => FreshIsNotDuplicate
  <2> SUFFICES ASSUME TypeOK, MistakenOnlyAfterWrap, NEW n \in Node, radio[n].type = "data",
                      ~Ignores(n, radio[n].pkt),
                      IsDuplicate(dedup[n], KeyOf(radio[n].pkt), SeqOf(radio[n].pkt))
               PROVE  \E k \in DOMAIN delivered[n] : delivered[n][k] = radio[n].pkt
    BY DEF FreshIsNotDuplicate
  <2>1. PICK k \in DOMAIN delivered[n] :
          \/ delivered[n][k] = radio[n].pkt
          \/ /\ delivered[n][k].src = radio[n].pkt.src
             /\ radio[n].pkt.num - delivered[n][k].num >= SEQ_MOD
    BY DEF MistakenOnlyAfterWrap
  <2>2. radio[n] \in [type : {"data"}, pkt : Packet]
    <3>1. radio[n] \in Frame \cup {Silence}
      BY DEF TypeOK
    <3>2. QED
      BY <3>1 DEF Frame, Acks, Silence
  <2>3. delivered[n][k] \in Packet /\ radio[n].pkt \in Packet
    BY <2>1, <2>2, ElementOfSeq, LenProperties DEF TypeOK
  <2>4. PICK p \in Packet, q \in Packet : p = radio[n].pkt /\ q = delivered[n][k]
    BY <2>3
  <2>5. p.num \in Nat /\ q.num \in Nat /\ q.num >= 1 /\ p.num <= SEQ_MOD /\ SEQ_MOD \in Nat
    <3>1. p.src \in Node /\ p.num <= Len(Workload[p.src]) /\ p.num \in Nat
          /\ q.num \in Nat \ {0}
      BY DEF Packet
    <3>2. Len(Workload[p.src]) <= SEQ_MOD /\ Len(Workload[p.src]) \in Nat
      BY <3>1, LinkAssumption, LenProperties DEF NoWrap
    <3>3. QED
      BY <3>1, <3>2, LinkAssumption
  <2>6. ~(p.num - q.num >= SEQ_MOD)
    BY <2>5
  <2>7. QED
    BY <2>1, <2>4, <2>6
<1>2. QED
  BY <1>1, TypeCorrect, SwallowsOnlyAfterWrap, PTL

-----------------------------------------------------------------------------
(* 5. Two boards keep the promise of MessageService.                       *)
(*                                                                         *)
(* With two boards everything a board queues comes from its peer, so the   *)
(* packet queued last is the one entry of the table that matters: it was   *)
(* written last and nothing has evicted it, whatever the table's size.     *)

Pair == \E a, b : a # b /\ Node = {a, b}

\* What board n has queued was addressed to it, each packet newer than the one before,
\* and the table still has the source of the last one.
FromPeer(n) ==
  /\ \A i \in DOMAIN delivered[n] : n \in Info(delivered[n][i]).to
  /\ \A i, j \in DOMAIN delivered[n] : i < j => delivered[n][i].num < delivered[n][j].num
  /\ delivered[n] # <<>> => Known(dedup[n], KeyOf(delivered[n][Len(delivered[n])]))

PairInv == \A n \in Node : FromPeer(n)

\* No packet is addressed to its own board.
LEMMA NotToItself ==
  ASSUME NEW p \in Packet, NEW n \in Info(p).to
  PROVE  n \in Node /\ p.src # n
<1>1. p.src \in Node /\ p.num \in Nat \ {0} /\ p.num <= Len(Workload[p.src])
  BY DEF Packet
<1>2. Workload[p.src] \in Seq(PacketSpec)
  BY <1>1, LinkAssumption
<1>3. p.num \in DOMAIN Workload[p.src]
  BY <1>1, <1>2, LenProperties
<1>4. Info(p).to \subseteq Node \ {p.src}
  BY <1>1, <1>3, LinkAssumption DEF Info
<1>5. QED
  BY <1>4

\* The filter stops a repeat of the packet queued last, if the table has its source.
LEMMA LastIsDuplicate ==
  ASSUME NEW log \in Seq(Packet), log # <<>>, NEW d \in Table(Key, Seq8), UpToDate(d, log),
         Known(d, KeyOf(log[Len(log)])), DEDUP_WINDOW >= 2
  PROVE  IsDuplicate(d, KeyOf(log[Len(log)]), SeqOf(log[Len(log)]))
<1>1. PICK len \in Nat : len = Len(log) /\ DOMAIN log = 1..len /\ len > 0
  BY LenProperties, EmptySeq
<1>2. PICK s \in Slot : Holds(d, s, KeyOf(log[len]))
  BY <1>1 DEF Known
<1>3. d.entries[s].used /\ d.entries[s].key = KeyOf(log[len])
  BY <1>2 DEF Holds
<1>4. PICK at \in Nat : at = d.entries[s].at
  BY DEF Table, Entry
<1>5. /\ at + 1 \in 1..len /\ SeqOf(log[at + 1]) = d.entries[s].seq
      /\ \A i \in 1..len : i > at + 1 => KeyOf(log[i]) # d.entries[s].key
  BY <1>1, <1>3, <1>4 DEF UpToDate
<1>6. at + 1 = len
  BY <1>1, <1>3, <1>5
<1>7. d.accepted = len
  BY <1>1 DEF UpToDate
<1>8. d.accepted - d.entries[s].at < DEDUP_WINDOW
  <2>1. d.accepted - d.entries[s].at = 1
    BY <1>1, <1>4, <1>6, <1>7
  <2>2. QED
    BY <2>1, DedupAssumption
<1>9. QED
  BY <1>1, <1>2, <1>5, <1>6, <1>8 DEF IsDuplicate

\* What the filter lets through is newer than everything queued before it.
LEMMA PeerIsNewer ==
  ASSUME TypeOK, DedupTracksLatest, OrderInv, Pair, DEDUP_WINDOW >= 2,
         NEW n \in Node, FromPeer(n), NEW p \in Packet,
         radio[n].type = "data", radio[n].pkt = p, n \in Info(p).to,
         ~IsDuplicate(dedup[n], KeyOf(p), SeqOf(p))
  PROVE  \A i \in DOMAIN delivered[n] :
           delivered[n][i].src = p.src /\ delivered[n][i].num < p.num
<1> DEFINE log == delivered[n]
<1>1. log \in Seq(Packet) /\ dedup[n] \in Table(Key, Seq8)
  BY DEF TypeOK
<1>2. PICK len \in Nat : len = Len(log) /\ DOMAIN log = 1..len
  BY <1>1, LenProperties
<1>3. ASSUME NEW i \in 1..len
      PROVE  log[i] \in Packet /\ log[i].num \in Nat /\ log[i].src = p.src
             /\ log[i].num <= p.num
  <2>1. log[i] \in Packet
    BY <1>1, <1>2, ElementOfSeq
  <2>2. log[i].src # n /\ p.src # n /\ log[i].src \in Node /\ p.src \in Node
    BY <1>2, <2>1, NotToItself, PacketTyped DEF FromPeer
  <2>3. log[i].src = p.src
    BY <2>2 DEF Pair
  <2>4. QED
    BY <1>2, <2>1, <2>3, PacketTyped DEF OrderInv, Orderly
<1>4. p.num \in Nat
  BY PacketTyped
<1>5. SUFFICES ASSUME NEW i \in 1..len PROVE log[i].num < p.num
  BY <1>2, <1>3
<1>6. len \in 1..len /\ log # <<>>
  BY <1>2, <1>5, EmptySeq
<1>7. log[len].num # p.num
  <2>1. SUFFICES ASSUME log[len].num = p.num PROVE FALSE
    OBVIOUS
  <2>2. log[len] = p
    BY <1>3, <1>6, <2>1 DEF Packet
  <2>3. IsDuplicate(dedup[n], KeyOf(log[len]), SeqOf(log[len]))
    BY <1>1, <1>2, <1>6, LastIsDuplicate DEF FromPeer, DedupTracksLatest
  <2>4. QED
    BY <2>2, <2>3
<1>8. log[i].num <= log[len].num
  <2>1. CASE i = len
    BY <1>3, <2>1
  <2>2. CASE i < len
    <3>1. log[i].num < log[len].num
      BY <1>2, <1>6, <2>2 DEF FromPeer
    <3>2. PICK x \in Nat, y \in Nat : x = log[i].num /\ y = log[len].num
      BY <1>3, <1>6
    <3>3. QED
      BY <3>1, <3>2
  <2>3. i = len \/ i < len
    BY <1>2
  <2>4. QED
    BY <2>1, <2>2, <2>3
<1>9. QED
  <2>1. PICK x \in Nat, y \in Nat, z \in Nat : x = log[i].num /\ y = log[len].num /\ z = p.num
    BY <1>3, <1>4, <1>6
  <2>2. x <= y /\ y <= z /\ y # z
    BY <1>3, <1>6, <1>7, <1>8, <2>1
  <2>3. QED
    BY <2>1, <2>2

LEMMA PairStarts == Init => PairInv
<1> SUFFICES ASSUME Init, NEW n \in Node PROVE FromPeer(n)
  BY DEF PairInv
<1>1. delivered[n] = <<>> /\ DOMAIN <<>> = {}
  BY DEF Init
<1>2. QED
  BY <1>1 DEF FromPeer

\* A board that queues a packet.
LEMMA PeerExtended ==
  ASSUME TypeOK, DedupTracksLatest, OrderInv, Pair, DEDUP_WINDOW >= 2,
         NEW n \in Node, FromPeer(n), NEW p \in Packet,
         radio[n].type = "data", radio[n].pkt = p, ~Ignores(n, p), Committed(n, p),
         ~IsDuplicate(dedup[n], KeyOf(p), SeqOf(p))
  PROVE  FromPeer(n)'
<1> DEFINE log == delivered[n]
<1>1. /\ log \in Seq(Packet) /\ delivered'[n] = Append(log, p)
      /\ dedup[n] \in Table(Key, Seq8)
      /\ dedup'[n] = Commit(dedup[n], KeyOf(p), SeqOf(p))
  BY DEF TypeOK, Committed
<1>2. PICK len \in Nat : len = Len(log) /\ DOMAIN log = 1..len
  BY <1>1, LenProperties
<1>3. /\ Len(delivered'[n]) = len + 1 /\ DOMAIN delivered'[n] = 1..(len + 1)
      /\ delivered'[n][len + 1] = p /\ delivered'[n] # <<>>
      /\ \A i \in 1..len : delivered'[n][i] = log[i]
  BY <1>1, <1>2, AppendProperties, LenProperties, EmptySeq
<1>4. n \in Info(p).to
  BY DEF Ignores
<1>5. \A i \in 1..len : log[i].num < p.num
  BY <1>2, <1>4, PeerIsNewer
<1>6. \A i \in 1..(len + 1) : n \in Info(delivered'[n][i]).to
  <2> TAKE i \in 1..(len + 1)
  <2>1. CASE i = len + 1
    BY <1>3, <1>4, <2>1
  <2>2. CASE i \in 1..len
    BY <1>2, <1>3, <2>2 DEF FromPeer
  <2>3. QED
    BY <1>2, <2>1, <2>2
<1>7. \A i, j \in 1..(len + 1) : i < j => delivered'[n][i].num < delivered'[n][j].num
  <2> TAKE i, j \in 1..(len + 1)
  <2> HAVE i < j
  <2>1. i \in 1..len
    BY <1>2
  <2>2. CASE j = len + 1
    BY <1>3, <1>5, <2>1, <2>2
  <2>3. CASE j \in 1..len
    BY <1>2, <1>3, <2>1, <2>3 DEF FromPeer
  <2>4. QED
    BY <1>2, <2>2, <2>3
<1>8. Known(dedup'[n], KeyOf(p))
  <2>1. SeqOf(p) \in Seq8 /\ KeyOf(p) \in Key
    BY PacketTyped
  <2>2. PICK s \in Slot : s = SlotFor(dedup[n], KeyOf(p))
    BY <1>1, <2>1, CommitProperties
  <2>3. Commit(dedup[n], KeyOf(p), SeqOf(p)).entries[s] =
          [used |-> TRUE, key |-> KeyOf(p), seq |-> SeqOf(p), at |-> dedup[n].accepted]
    BY <1>1, <2>1, <2>2, CommitProperties
  <2>4. QED
    BY <1>1, <2>3 DEF Known, Holds
<1>9. Known(dedup'[n], KeyOf(delivered'[n][Len(delivered'[n])]))
  BY <1>3, <1>8
<1>10. QED
  BY <1>3, <1>6, <1>7, <1>9 DEF FromPeer, Info, Known, Holds, KeyOf, Kind

LEMMA PairStep ==
  ASSUME TypeOK, DedupTracksLatest, OrderInv, Pair, DEDUP_WINDOW >= 2, PairInv, [Next]_vars
  PROVE  PairInv'
<1> SUFFICES ASSUME NEW n \in Node PROVE FromPeer(n)'
  BY DEF PairInv
<1>1. FromPeer(n)
  BY DEF PairInv
<1>2. CASE UNCHANGED <<dedup, delivered>>
  BY <1>1, <1>2 DEF FromPeer, Info, Known, Holds, KeyOf, Kind
<1>3. CASE ~UNCHANGED <<dedup, delivered>>
  <2>1. PICK k \in Node :
          /\ radio[k].type = "data" /\ radio[k].pkt \in Packet
          /\ ~Ignores(k, radio[k].pkt)
          /\ Committed(k, radio[k].pkt)
          /\ ~IsDuplicate(dedup[k], KeyOf(radio[k].pkt), SeqOf(radio[k].pkt))
    BY <1>3, AcceptSource
  <2>2. CASE n = k
    BY <1>1, <2>1, <2>2, PeerExtended
  <2>3. CASE n # k
    <3>1. dedup'[n] = dedup[n] /\ delivered'[n] = delivered[n]
      BY <2>1, <2>3 DEF Committed, TypeOK
    <3>2. QED
      BY <1>1, <3>1 DEF FromPeer, Info, Known, Holds, KeyOf, Kind
  <2>4. QED
    BY <2>2, <2>3
<1>4. QED
  BY <1>2, <1>3

\* Between any two boards, with a window of two packets or more, each packet is queued
\* at most once and never after a later one (rx_is_duplicate_multi), also when counters
\* go round and whatever the table's size.
THEOREM PairDeliversOnce ==
  ASSUME Pair, DEDUP_WINDOW >= 2
  PROVE  Spec => []PairInv
<1>1. TypeOK /\ DedupTracksLatest /\ OrderInv /\ PairInv /\ [Next]_vars => PairInv'
  BY PairStep
<1>2. QED
  BY <1>1, PairStarts, TypeCorrect, DedupCorrect, OrderInvariant, PTL DEF Spec

-----------------------------------------------------------------------------
(* Every step of the link is one of the service, or none.                  *)

\* What a packet in hand ends with: "ok" only if the peer has queued that very packet.
ReportOk(n) ==
  \E m \in Node : \E i \in DOMAIN delivered[m] :
    delivered[m][i] = [src |-> n, num |-> taken[n]]

\* Two boards, no counter round: a packet of this number from this board is this packet.
LEMMA AcceptedIsCurrent ==
  ASSUME TypeOK, OrderInv, PairInv, Pair, NoWrap, NEW n \in Node, NEW m \in Node \ {n},
         Current(n) \in Packet, AcceptedSeq(m, SeqOf(Current(n)))
  PROVE  ReportOk(n)
<1>1. PICK k \in DOMAIN delivered[m] : SeqOf(delivered[m][k]) = SeqOf(Current(n))
  BY DEF AcceptedSeq
<1>2. PICK p \in Packet, q \in Packet : p = Current(n) /\ q = delivered[m][k]
  <2>1. delivered[m] \in Seq(Packet)
    BY DEF TypeOK
  <2>2. delivered[m][k] \in Packet
    BY <1>1, <2>1, ElementOfSeq, LenProperties
  <2>3. QED
    BY <2>2
<1>3. p.src = n /\ p.num = taken[n]
  BY <1>2 DEF Current
<1>4. q.src = n
  <2>1. m \in Info(q).to
    BY <1>1, <1>2 DEF PairInv, FromPeer
  <2>2. q.src # m /\ q.src \in Node
    BY <2>1, NotToItself, PacketTyped
  <2>3. QED
    BY <2>2 DEF Pair
<1>5. q.num <= p.num
  BY <1>1, <1>2, <1>3, <1>4 DEF OrderInv, Orderly
<1>6. ~(p.num - q.num >= SEQ_MOD)
  <2>1. p.num <= Len(Workload[n]) /\ p.num \in Nat /\ q.num \in Nat \ {0}
    BY <1>3, PacketTyped DEF Packet
  <2>2. Len(Workload[n]) <= SEQ_MOD /\ Len(Workload[n]) \in Nat /\ SEQ_MOD \in Nat
    BY LinkAssumption, LenProperties DEF NoWrap
  <2>3. QED
    BY <2>1, <2>2
<1>7. q = p
  BY <1>1, <1>2, <1>3, <1>4, <1>5, <1>6, SameNumber
<1>8. QED
  BY <1>1, <1>2, <1>7 DEF ReportOk, Current

\* send_with_retry returning is a report.
LEMMA FinishReports ==
  ASSUME TypeOK, NEW n \in Node, tx[n].at # "idle", NEW r \in {"ok", "fail", "sent"},
         Finish(n, r), r = "ok" => ReportOk(n), UNCHANGED <<submitted, taken, delivered>>
  PROVE  Service!Next
<1>1. taken[n] \in Nat /\ Len(result[n]) \in Nat /\ Len(result[n]) + 1 = taken[n]
  BY CurrentIsPacket, LenProperties DEF TypeOK
<1>2. Len(result[n]) < taken[n]
  BY <1>1
<1>3. Service!Report(n, r)
  BY <1>2 DEF Service!Report, Finish, ReportOk
<1>4. QED
  BY <1>3 DEF Service!Next

LEMMA AttemptReports ==
  ASSUME TypeOK, NEW n \in Node, tx[n].at # "idle", NextAttemptOrFail(n),
         UNCHANGED <<submitted, taken, delivered>>
  PROVE  Service!Next \/ UNCHANGED Service!vars
<1>1. CASE Finish(n, "fail")
  BY <1>1, FinishReports
<1>2. CASE UNCHANGED result
  BY <1>2 DEF Service!vars
<1>3. QED
  BY <1>1, <1>2 DEF NextAttemptOrFail

LEMMA AckReports ==
  ASSUME LinkInv, OrderInv, PairInv, Pair, NoWrap, NEW n \in Node, OnAck(n)
  PROVE  Service!Next \/ UNCHANGED Service!vars
<1> DEFINE ack == Head(ackQueue[n])
<1>1. TypeOK /\ AcksAreEarned
  BY DEF LinkInv
<1>2. tx[n].at # "idle" /\ UNCHANGED <<submitted, taken, delivered>>
  BY DEF OnAck, receiverVars
<1>3. CASE ack.seq # SeqOf(Current(n))
  BY <1>2, <1>3 DEF OnAck, Service!vars
<1>4. CASE ack.seq = SeqOf(Current(n)) /\ ack.verdict = ACK_OK
  <2>1. ackQueue[n] \in Seq(Verdict) /\ ackQueue[n] # <<>>
    BY <1>1 DEF OnAck, TypeOK
  <2>2. ack = ackQueue[n][1] /\ 1 \in DOMAIN ackQueue[n]
    BY <2>1, EmptySeq, LenProperties
  <2>3. PICK m \in Node \ {n} : AcceptedSeq(m, SeqOf(Current(n)))
    BY <1>1, <1>4, <2>2 DEF AcksAreEarned
  <2>4. ReportOk(n)
    BY <1>1, <1>2, <2>3, CurrentIsPacket, AcceptedIsCurrent
  <2>5. Finish(n, "ok")
    BY <1>4 DEF OnAck
  <2>6. QED
    BY <1>1, <1>2, <2>4, <2>5, FinishReports
<1>5. CASE ack.seq = SeqOf(Current(n)) /\ ack.verdict # ACK_OK
  <2>1. NextAttemptOrFail(n)
    BY <1>5 DEF OnAck
  <2>2. QED
    BY <1>1, <1>2, <2>1, AttemptReports
<1>6. QED
  BY <1>3, <1>4, <1>5

\* Queueing a packet delivers it.
LEMMA AcceptDelivers ==
  ASSUME LinkInv, OrderInv, PairInv, Pair, DEDUP_WINDOW >= 2, [Next]_vars,
         ~UNCHANGED <<dedup, delivered>>
  PROVE  Service!Next
<1>1. TypeOK /\ DedupTracksLatest
  BY DEF LinkInv
<1>2. PICK m \in Node :
        /\ radio[m].type = "data" /\ radio[m].pkt \in Packet
        /\ ~Ignores(m, radio[m].pkt)
        /\ Committed(m, radio[m].pkt)
        /\ ~IsDuplicate(dedup[m], KeyOf(radio[m].pkt), SeqOf(radio[m].pkt))
        /\ UNCHANGED senderVars
  BY <1>1, AcceptSource
<1>3. PICK p \in Packet : p = radio[m].pkt
  BY <1>2
<1>4. m \in Info(p).to
  BY <1>2, <1>3 DEF Ignores
<1>5. p.num <= taken[p.src]
  BY <1>2, <1>3 DEF OrderInv, Orderly
<1>6. \A i \in DOMAIN delivered[m] :
        delivered[m][i].src = p.src => delivered[m][i].num < p.num
  BY <1>1, <1>2, <1>3, <1>4, PeerIsNewer DEF PairInv
<1>7. Service!Deliver(m, p)
  BY <1>2, <1>3, <1>4, <1>5, <1>6 DEF Service!Deliver, Info, Committed, senderVars
<1>8. p \in Service!Packet
  <2>1. p.src \in Node /\ p.num \in Nat \ {0} /\ p.num <= Len(Workload[p.src])
        /\ p = [src |-> p.src, num |-> p.num]
    BY DEF Packet
  <2>2. p.num \in DOMAIN Workload[p.src]
    BY <2>1, LinkAssumption, LenProperties
  <2>3. QED
    BY <2>1, <2>2 DEF Service!Packet
<1>9. QED
  BY <1>7, <1>8 DEF Service!Next

LEMMA ServiceStep ==
  ASSUME LinkInv, OrderInv, PairInv, Pair, NoWrap, DEDUP_WINDOW >= 2, [Next]_vars
  PROVE  [Service!Next]_Service!vars
<1>1. TypeOK
  BY DEF LinkInv
<1>2. CASE ~UNCHANGED <<dedup, delivered>>
  BY <1>2, AcceptDelivers
<1>3. ASSUME NEW n \in Node, Enqueue(n)
      PROVE  Service!Next
  BY <1>3 DEF Enqueue, receiverVars, Service!Next, Service!Submit
<1>4. ASSUME NEW n \in Node, TakePacket(n)
      PROVE  Service!Next
  <2>1. Len(result[n]) = taken[n] /\ taken[n] < submitted[n]
    BY <1>1, <1>4 DEF TakePacket, TypeOK
  <2>2. UNCHANGED <<submitted, delivered, result>>
    BY <1>4 DEF TakePacket, receiverVars
  <2>3. Service!Begin(n)
    BY <1>4, <2>1, <2>2 DEF TakePacket, Service!Begin
  <2>4. QED
    BY <2>3 DEF Service!Next
<1>5. ASSUME NEW n \in Node, TransmitFails(n) \/ OnTimeout(n)
      PROVE  [Service!Next]_Service!vars
  <2>1. tx[n].at # "idle" /\ NextAttemptOrFail(n) /\ UNCHANGED <<submitted, taken, delivered>>
    BY <1>5 DEF TransmitFails, OnTimeout, receiverVars
  <2>2. QED
    BY <1>1, <2>1, AttemptReports
<1>6. ASSUME NEW n \in Node, Broadcast(n)
      PROVE  Service!Next
  <2>1. tx[n].at # "idle" /\ Finish(n, "sent") /\ UNCHANGED <<submitted, taken, delivered>>
    BY <1>6 DEF Broadcast, receiverVars
  <2>2. QED
    BY <1>1, <2>1, FinishReports
<1>7. ASSUME NEW n \in Node, OnAck(n)
      PROVE  [Service!Next]_Service!vars
  BY <1>7, AckReports
<1>8. ASSUME NEW n \in Node, Transmit(n)
      PROVE  UNCHANGED Service!vars
  BY <1>8 DEF Transmit, receiverVars, Service!vars
<1>9. ASSUME NEW n \in Node, RxTask(n) \/ ManageRecvQueue(n) \/ NetWriter(n),
             UNCHANGED <<dedup, delivered>>
      PROVE  UNCHANGED Service!vars
  BY <1>9 DEF RxTask, RxBad, RxAck, RxData, RxBroadcast, SendAkn, ManageRecvQueue, NetWriter,
              senderVars, Service!vars
<1>10. CASE UNCHANGED vars
  BY <1>10 DEF vars, Service!vars
<1>11. QED
  BY <1>2, <1>3, <1>4, <1>5, <1>6, <1>7, <1>8, <1>9, <1>10 DEF Next, TxTask, Quiescent

-----------------------------------------------------------------------------
(* The theorem.                                                            *)

\* Between any two boards whose counters do not go round, with a window of two packets
\* or more, whatever the radio loses, damages or repeats and whatever is refused: every
\* packet is queued at most once and in order, and send_with_retry says "ok" only of a
\* packet the peer has queued.
THEOREM PairImplementsService ==
  ASSUME Pair, NoWrap, DEDUP_WINDOW >= 2
  PROVE  Spec => ImplementsService
<1>1. Init => Service!Init
  BY DEF Init, Service!Init
<1>2. LinkInv /\ OrderInv /\ PairInv /\ [Next]_vars => [Service!Next]_Service!vars
  BY ServiceStep
<1>3. Spec => []PairInv
  BY PairDeliversOnce
<1>4. QED
  BY <1>1, <1>2, <1>3, LinkInvariant, OrderInvariant, PTL DEF Spec, ImplementsService, Service!Spec
=============================================================================
