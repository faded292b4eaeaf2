--------------------------- MODULE Kermit_proofs ----------------------------
(***************************************************************************)
(* Proofs about Kermit: for files of any length, any numbering modulo four *)
(* or more, any number of tries and of frames in flight, the two ends stay *)
(* in step and the transfer implements FileTransfer.                       *)
(*                                                                         *)
(* The argument counts the packets the receiver has taken, k.  The sender  *)
(* is at packet k or k + 1.  Frames on their way to the receiver are these *)
(* two, the older before the newer; answers on their way back speak of     *)
(* packet k, or of k - 1 before k.  Two neighbours never have the same     *)
(* number, so each end knows which of the two it has in hand.              *)
(***************************************************************************)
EXTENDS Kermit, TLAPS

-----------------------------------------------------------------------------
(* Numbers modulo SEQ_MOD.                                                 *)

LEMMA ModIsRest ==
  ASSUME NEW M \in Nat \ {0}, NEW n \in Nat
  PROVE  n % M \in 0..M-1 /\ n \div M \in Int /\ n = M * (n \div M) + (n % M)
<1>1. M \in Int /\ M > 0 /\ n \in Int
  OBVIOUS
<1>2. n % M \in 0..M-1 /\ n \div M \in Int
  BY <1>1, SMTT(20)
<1>3. n = M * (n \div M) + (n % M)
  BY <1>1, SMTT(20)
<1>4. QED
  BY <1>2, <1>3

LEMMA RestIsUnique ==
  ASSUME NEW M \in Nat \ {0}, NEW q \in Int, NEW p \in Int,
         NEW r \in 0..M-1, NEW s \in 0..M-1, M * q + r = M * p + s
  PROVE  r = s
<1>1. CASE q = p
  BY <1>1
<1>2. CASE q < p
  <2>1. M * p >= M * q + M
    BY <1>2, SMTT(30)
  <2>2. QED
    BY <2>1
<1>3. CASE q > p
  <2>1. M * q >= M * p + M
    BY <1>3, SMTT(30)
  <2>2. QED
    BY <2>1
<1>4. QED
  BY <1>1, <1>2, <1>3

\* The number after n: one more, or zero again.
LEMMA NextNumber ==
  ASSUME NEW M \in Nat \ {0}, NEW n \in Nat
  PROVE  (n + 1) % M = IF n % M = M - 1 THEN 0 ELSE (n % M) + 1
<1>1. n % M \in 0..M-1 /\ n \div M \in Int /\ n = M * (n \div M) + (n % M)
  BY ModIsRest
<1>2. /\ (n + 1) % M \in 0..M-1 /\ (n + 1) \div M \in Int
      /\ n + 1 = M * ((n + 1) \div M) + ((n + 1) % M)
  BY ModIsRest
<1>3. CASE n % M = M - 1
  <2>1. M * (n \div M) + M = M * (n \div M + 1)
    BY <1>1
  <2>2. M * ((n + 1) \div M) + ((n + 1) % M) = M * (n \div M + 1) + 0
    BY <1>1, <1>2, <1>3, <2>1, SMTT(30)
  <2>3. n \div M + 1 \in Int /\ 0 \in 0..M-1
    BY <1>1
  <2>4. (n + 1) % M = 0
    BY <1>2, <2>2, <2>3, RestIsUnique
  <2>5. QED
    BY <1>3, <2>4
<1>4. CASE n % M # M - 1
  <2>1. M * ((n + 1) \div M) + ((n + 1) % M) = M * (n \div M) + ((n % M) + 1)
    BY <1>1, <1>2
  <2>2. (n % M) + 1 \in 0..M-1
    BY <1>1, <1>4
  <2>3. (n + 1) % M = (n % M) + 1
    BY <1>1, <1>2, <2>1, <2>2, RestIsUnique
  <2>4. QED
    BY <1>4, <2>3
<1>5. QED
  BY <1>3, <1>4

\* What the two ends rely on when they compare numbers.
LEMMA Numbers ==
  ASSUME NEW n \in Nat
  PROVE  /\ n % SEQ_MOD \in 0..SEQ_MOD-1
         /\ (n % SEQ_MOD) % SEQ_MOD = n % SEQ_MOD
         /\ ((n % SEQ_MOD) + 1) % SEQ_MOD = (n + 1) % SEQ_MOD
         /\ (((n + 1) % SEQ_MOD) + SEQ_MOD - 1) % SEQ_MOD = n % SEQ_MOD
         /\ (n + 1) % SEQ_MOD # n % SEQ_MOD
<1> DEFINE M == SEQ_MOD
           r == n % M
<1>1. M \in Nat \ {0} /\ M >= 4
  BY KermitAssumption DEF KermitAssumption
<1>2. r \in 0..M-1
  BY <1>1, ModIsRest
<1>3. \A i \in 0..M-1 : i % M = i
  BY <1>1
<1>4. (n + 1) % M = IF r = M - 1 THEN 0 ELSE r + 1
  BY <1>1, NextNumber
<1>5. (r + 1) % M = IF r = M - 1 THEN 0 ELSE r + 1
  <2>1. r % M = r
    BY <1>2, <1>3
  <2>2. (r + 1) % M = IF r % M = M - 1 THEN 0 ELSE (r % M) + 1
    <3>1. r \in Nat
      BY <1>1, <1>2
    <3>2. QED
      BY <1>1, <3>1, NextNumber
  <2>3. QED
    BY <2>1, <2>2
<1>6. (((n + 1) % M) + M - 1) % M = r
  <2>1. CASE r = M - 1
    <3>1. ((n + 1) % M) + M - 1 = M - 1
      BY <1>1, <1>4, <2>1
    <3>2. QED
      BY <1>1, <1>3, <2>1, <3>1
  <2>2. CASE r # M - 1
    <3>1. ((n + 1) % M) + M - 1 = M + r
      BY <1>1, <1>2, <1>4, <2>2
    <3>2. M + r \in Nat
      BY <1>1, <1>2
    <3>3. /\ (M + r) % M \in 0..M-1 /\ (M + r) \div M \in Int
          /\ M + r = M * ((M + r) \div M) + ((M + r) % M)
      BY <1>1, <3>2, ModIsRest
    <3>4. M * ((M + r) \div M) + ((M + r) % M) = M * 1 + r
      BY <1>1, <1>2, <3>3
    <3>5. (M + r) % M = r
      BY <1>1, <1>2, <3>3, <3>4, RestIsUnique
    <3>6. QED
      BY <3>1, <3>5
  <2>3. QED
    BY <2>1, <2>2
<1>7. (n + 1) % M # r
  BY <1>1, <1>2, <1>4
<1>8. QED
  BY <1>2, <1>3, <1>4, <1>5, <1>6, <1>7

-----------------------------------------------------------------------------
(* What is on the way, in which order.                                     *)

All(q, A) == \A i \in DOMAIN q : q[i] \in A

\* Frames of A or B, and behind one that is not of A only frames of B.
InOrder(q, A, B) ==
  /\ All(q, A \cup B)
  /\ \A i, j \in DOMAIN q : i < j /\ q[i] \notin A => q[j] \in B

\* What is left of a channel when a frame is taken or lost, or its end cut off.
PartOf(r, q) ==
  \/ r = q
  \/ q # <<>> /\ r = Tail(q)
  \/ \E n \in 0..Len(q) : r = SubSeq(q, 1, n)

LEMMA PartIsShifted ==
  ASSUME NEW P, NEW q \in Seq(P), NEW r, PartOf(r, q)
  PROVE  /\ r \in Seq(P) /\ Len(r) <= Len(q)
         /\ \E d \in {0, 1} : /\ Len(r) + d <= Len(q)
                              /\ \A i \in 1..Len(r) : r[i] = q[i + d]
<1>1. CASE r = q
  BY <1>1
<1>2. CASE q # <<>> /\ r = Tail(q)
  <2>1. r \in Seq(P) /\ Len(r) + 1 = Len(q) /\ \A i \in 1..Len(r) : r[i] = q[i + 1]
    BY <1>2
  <2>2. QED
    BY <2>1
<1>3. CASE \E n \in 0..Len(q) : r = SubSeq(q, 1, n)
  <2>1. PICK n \in 0..Len(q) : r = SubSeq(q, 1, n)
    BY <1>3
  <2>2. r \in Seq(P) /\ Len(r) = n /\ \A i \in 1..Len(r) : r[i] = q[i]
    BY <2>1
  <2>3. QED
    BY <2>1, <2>2
<1>4. QED
  BY <1>1, <1>2, <1>3 DEF PartOf

LEMMA PartKeeps ==
  ASSUME NEW P, NEW q \in Seq(P), NEW r, PartOf(r, q), NEW A, NEW B
  PROVE  /\ All(q, A) => All(r, A)
         /\ InOrder(q, A, B) => InOrder(r, A, B)
<1>1. PICK d \in {0, 1} : /\ Len(r) + d <= Len(q)
                          /\ \A i \in 1..Len(r) : r[i] = q[i + d]
  BY PartIsShifted
<1>2. r \in Seq(P) /\ Len(r) \in Nat /\ Len(q) \in Nat
      /\ DOMAIN r = 1..Len(r) /\ DOMAIN q = 1..Len(q)
  BY PartIsShifted
<1>3. \A i \in DOMAIN r : i + d \in DOMAIN q /\ r[i] = q[i + d]
  <2>1. ASSUME NEW i \in 1..Len(r)
        PROVE  i + d \in 1..Len(q)
    BY <1>1, <1>2
  <2>2. QED
    BY <1>1, <1>2, <2>1
<1>4. \A C : All(q, C) => All(r, C)
  BY <1>3 DEF All
<1>5. ASSUME InOrder(q, A, B), NEW i \in DOMAIN r, NEW j \in DOMAIN r, i < j, r[i] \notin A
      PROVE  r[j] \in B
  <2>1. i + d < j + d
    BY <1>2, <1>5
  <2>2. QED
    BY <1>3, <1>5, <2>1 DEF InOrder
<1>6. QED
  BY <1>4, <1>5 DEF InOrder

LEMMA AppendKeeps ==
  ASSUME NEW P, NEW q \in Seq(P), NEW p \in P, NEW A, NEW B
  PROVE  /\ All(q, A) /\ p \in A => All(Append(q, p), A)
         /\ InOrder(q, A, B) /\ p \in B => InOrder(Append(q, p), A, B)
<1>1. /\ Len(q) \in Nat /\ DOMAIN q = 1..Len(q) /\ DOMAIN Append(q, p) = 1..Len(q) + 1
      /\ \A i \in DOMAIN q : Append(q, p)[i] = q[i]
      /\ Append(q, p)[Len(q) + 1] = p
  OBVIOUS
<1>2. \A C : All(q, C) /\ p \in C => All(Append(q, p), C)
  BY <1>1 DEF All
<1>3. ASSUME InOrder(q, A, B), p \in B,
             NEW i \in DOMAIN Append(q, p), NEW j \in DOMAIN Append(q, p),
             i < j, Append(q, p)[i] \notin A
      PROVE  Append(q, p)[j] \in B
  <2>1. i \in DOMAIN q
    BY <1>1, <1>3
  <2>2. CASE j \in DOMAIN q
    BY <1>1, <1>3, <2>1, <2>2 DEF InOrder
  <2>3. CASE j \notin DOMAIN q
    BY <1>1, <1>3, <2>3
  <2>4. QED
    BY <2>2, <2>3
<1>4. QED
  BY <1>2, <1>3 DEF InOrder

LEMMA AllIsInOrder ==
  ASSUME NEW q, NEW A, NEW B, All(q, A)
  PROVE  InOrder(q, A, B) /\ InOrder(q, B, A)
  BY DEF All, InOrder

\* Once a frame that is not of A has been taken, all the others are of B.
LEMMA BehindNew ==
  ASSUME NEW P, NEW q \in Seq(P), q # <<>>, NEW A, NEW B,
         InOrder(q, A, B), Head(q) \notin A
  PROVE  All(Tail(q), B)
<1>1. /\ Len(q) \in Nat /\ Len(q) >= 1 /\ DOMAIN q = 1..Len(q) /\ Head(q) = q[1]
      /\ Tail(q) \in Seq(P) /\ DOMAIN Tail(q) = 1..Len(q) - 1
      /\ \A i \in DOMAIN Tail(q) : Tail(q)[i] = q[i + 1]
  OBVIOUS
<1>2. ASSUME NEW i \in DOMAIN Tail(q)
      PROVE  Tail(q)[i] \in B
  <2>1. 1 \in DOMAIN q /\ i + 1 \in DOMAIN q /\ 1 < i + 1
    BY <1>1
  <2>2. QED
    BY <1>1, <2>1 DEF InOrder
<1>3. QED
  BY <1>2 DEF All

\* The head of a channel is of one of the kinds it may hold.
LEMMA HeadOf ==
  ASSUME NEW P, NEW q \in Seq(P), q # <<>>, NEW A, NEW B
  PROVE  /\ Head(q) \in P
         /\ All(q, A) => Head(q) \in A
         /\ InOrder(q, A, B) => Head(q) \in A \cup B
<1>1. 1 \in DOMAIN q /\ Head(q) = q[1] /\ q[1] \in P
  OBVIOUS
<1>2. QED
  BY <1>1 DEF All, InOrder

-----------------------------------------------------------------------------
(* The invariant.                                                          *)

\* Frames to the receiver: packet i of the transfer, damaged or not, or a failure.
ToR(i) ==
  {p \in Packets :
     \/ p.type = "E"
     \/ i \in 1..Last /\ p.type = TypeAt(i) /\ p.seq = SeqAt(i) /\ p.body = BodyAt(i)}

\* Answers of a receiver that has taken k packets: the ACK of the k-th, a NAK that
\* asks for the one after it, or a failure.
ToS(k) ==
  {p \in Packets :
     \/ p.type = "E"
     \/ p.type = "Y" /\ k >= 1 /\ p.seq = (k - 1) % SEQ_MOD
     \/ p.type = "N" /\ p.seq = k % SEQ_MOD}

\* The receiver after k packets.
Taken(k) ==
  /\ neg = TRUE <=> k >= 1
  /\ expected = (IF k = Last THEN k - 1 ELSE k) % SEQ_MOD
  /\ lastAck = NoPacket <=> k = 0
  /\ k # 0 => lastAck \in ToS(k)
  /\ size = IF k >= 3 THEN Pieces ELSE -1
  /\ Len(chunks) = IF k <= 3 THEN 0 ELSE IF k <= Pieces + 3 THEN k - 3 ELSE Pieces
  /\ gotEof = TRUE <=> k >= Last - 1
  /\ received = "ok" <=> k = Last
  /\ received = "none" <=> recv \in {"off", "wait"}
  /\ recv = "linger" => k = Last

\* The sender is at packet k until it hears of it, and then at the next.
InFlight(k) ==
  /\ pos \in {k, k + 1}
  /\ pos = k => All(toR, ToR(k)) /\ InOrder(toS, ToS(k - 1), ToS(k))
  /\ pos = k + 1 => InOrder(toR, ToR(k), ToR(k + 1)) /\ All(toS, ToS(k))

KInv == TypeOK /\ \E k \in 0..Last : Taken(k) /\ InFlight(k)

LEMMA Constant ==
  /\ Pieces \in Nat /\ Last \in Nat /\ Last = Pieces + 5
  /\ SEQ_MOD \in Nat /\ SEQ_MOD >= 4
  /\ MAX_RETRIES \in Nat /\ MAX_RETRIES >= 1 /\ Frames \in Nat /\ Frames >= 1
  /\ MaxLost \in Nat
  BY KermitAssumption DEF KermitAssumption, Last

LEMMA PacketIs ==
  ASSUME NEW t \in {"S", "F", "A", "D", "Z", "B", "E", "Y", "N"}, NEW n \in Nat,
         NEW c \in {0, 1, 3}, NEW b \in 0..Pieces
  PROVE  /\ Packet(t, n, c, b) \in Packets
         /\ Packet(t, n, c, b).type = t
         /\ Packet(t, n, c, b).seq = n % SEQ_MOD
         /\ Packet(t, n, c, b).body = b
         /\ Packet(t, n, c, b) # NoPacket
<1>1. n % SEQ_MOD \in 0..SEQ_MOD - 1
  BY Numbers
<1>2. NoPacket.type = "none"
  BY DEF NoPacket
<1>3. QED
  BY <1>1, <1>2 DEF Packet, Packets

LEMMA TypesAndBodies ==
  ASSUME NEW i \in 1..Last
  PROVE  /\ TypeAt(i) \in {"S", "F", "A", "D", "Z", "B"} /\ BodyAt(i) \in 0..Pieces
         /\ TypeAt(i) = "S" <=> i = 1
         /\ TypeAt(i) = "F" <=> i = 2
         /\ TypeAt(i) = "A" <=> i = 3
         /\ TypeAt(i) = "D" <=> i \in 4..Pieces + 3
         /\ TypeAt(i) = "Z" <=> i = Last - 1
         /\ TypeAt(i) = "B" <=> i = Last
         /\ i = 3 => BodyAt(i) = Pieces
         /\ i \in 4..Pieces + 3 => BodyAt(i) = i - 3
  BY Constant DEF TypeAt, BodyAt

LEMMA CurrentIs ==
  ASSUME NEW i \in 1..Last
  PROVE  Current(i) \in Packets /\ Current(i) \in ToR(i)
<1>1. i \in Nat /\ i - 1 \in Nat
  BY Constant
<1>2. TypeAt(i) \in {"S", "F", "A", "D", "Z", "B"} /\ BodyAt(i) \in 0..Pieces
  BY TypesAndBodies
<1>3. (IF i = 1 THEN 1 ELSE 3) \in {0, 1, 3}
  OBVIOUS
<1>4. /\ Current(i) \in Packets /\ Current(i).type = TypeAt(i)
      /\ Current(i).seq = (i - 1) % SEQ_MOD /\ Current(i).body = BodyAt(i)
  BY <1>1, <1>2, <1>3, PacketIs DEF Current
<1>5. QED
  BY <1>4 DEF ToR, SeqAt

LEMMA FailureIs ==
  ASSUME NEW n \in Nat, NEW c \in {0, 1, 3}, NEW i
  PROVE  LET e == Packet("E", n, c, 0) IN e \in Packets /\ e \in ToR(i) /\ e \in ToS(i)
<1>1. 0 \in 0..Pieces
  BY Constant
<1>2. QED
  BY <1>1, PacketIs DEF ToR, ToS

LEMMA NakIs ==
  ASSUME TypeOK, NEW k \in 0..Last, k # Last, Taken(k)
  PROVE  Nak \in Packets /\ Nak \in ToS(k)
<1>1. k \in Nat /\ expected = k % SEQ_MOD /\ expected \in Nat
  BY Constant, Numbers DEF Taken
<1>2. expected % SEQ_MOD = k % SEQ_MOD
  BY <1>1, Numbers
<1>3. RCheck \in {0, 1, 3} /\ 0 \in 0..Pieces
  BY Constant DEF RCheck
<1>4. QED
  BY <1>1, <1>2, <1>3, PacketIs DEF Nak, ToS

LEMMA OutIs ==
  ASSUME NEW q \in Seq(Packets), Len(q) <= Frames, NEW p \in Packets
  PROVE  /\ Out(q, p) \in Seq(Packets) /\ Len(Out(q, p)) <= Frames
         /\ Out(q, p) \in {q, Append(q, p)}
<1>1. Len(q) \in Nat /\ Append(q, p) \in Seq(Packets) /\ Len(Append(q, p)) = Len(q) + 1
  OBVIOUS
<1>2. QED
  BY <1>1, Constant DEF Out

LEMMA OutKeeps ==
  ASSUME NEW q \in Seq(Packets), Len(q) <= Frames, NEW p \in Packets, NEW A, NEW B
  PROVE  /\ All(q, A) /\ p \in A => All(Out(q, p), A)
         /\ InOrder(q, A, B) /\ p \in B => InOrder(Out(q, p), A, B)
<1>1. Out(q, p) = q \/ Out(q, p) = Append(q, p)
  BY OutIs
<1>2. QED
  BY <1>1, AppendKeeps

\* A channel after a step that adds p to it or takes something out.
Moves(r, q, A) == PartOf(r, q) \/ \E p \in A \cap Packets : r = Out(q, p)

LEMMA MovesAre ==
  ASSUME NEW q \in Seq(Packets), Len(q) <= Frames, NEW r, NEW S, Moves(r, q, S)
  PROVE  r \in Seq(Packets) /\ Len(r) <= Frames
<1>1. CASE PartOf(r, q)
  BY <1>1, PartIsShifted, Constant
<1>2. CASE \E p \in S \cap Packets : r = Out(q, p)
  BY <1>2, OutIs
<1>3. QED
  BY <1>1, <1>2 DEF Moves

LEMMA MovesKeep ==
  ASSUME NEW q \in Seq(Packets), Len(q) <= Frames, NEW r, NEW A, NEW B
  PROVE  /\ Moves(r, q, A) /\ All(q, A) => All(r, A)
         /\ Moves(r, q, B) /\ InOrder(q, A, B) => InOrder(r, A, B)
<1>1. PartOf(r, q) => (All(q, A) => All(r, A)) /\ (InOrder(q, A, B) => InOrder(r, A, B))
  BY PartKeeps
<1>2. ASSUME NEW p \in A \cap Packets, r = Out(q, p), All(q, A)
      PROVE  All(r, A)
  BY <1>2, OutKeeps
<1>3. ASSUME NEW p \in B \cap Packets, r = Out(q, p), InOrder(q, A, B)
      PROVE  InOrder(r, A, B)
  BY <1>3, OutKeeps
<1>4. QED
  BY <1>1, <1>2, <1>3 DEF Moves

\* The sender repeats its packet, the receiver its answer, frames are taken or lost:
\* nothing in flight gets out of order.
LEMMA FlightKept ==
  ASSUME TypeOK, NEW k \in 0..Last, InFlight(k), pos' = pos,
         Moves(toR', toR, ToR(pos)), Moves(toS', toS, ToS(k))
  PROVE  InFlight(k)' /\ toR' \in Seq(Packets) /\ Len(toR') <= Frames
                      /\ toS' \in Seq(Packets) /\ Len(toS') <= Frames
<1>1. toR \in Seq(Packets) /\ Len(toR) <= Frames /\ toS \in Seq(Packets) /\ Len(toS) <= Frames
  BY DEF TypeOK
<1>2. toR' \in Seq(Packets) /\ Len(toR') <= Frames /\ toS' \in Seq(Packets) /\ Len(toS') <= Frames
  BY <1>1, MovesAre
<1>3. CASE pos = k
  <2>1. All(toR', ToR(k)) /\ InOrder(toS', ToS(k - 1), ToS(k))
    BY <1>1, <1>3, MovesKeep DEF InFlight
  <2>2. pos' = k /\ k # k + 1
    BY <1>3, Constant
  <2>3. QED
    BY <1>2, <2>1, <2>2 DEF InFlight, ToR, ToS, All, InOrder
<1>4. CASE pos = k + 1
  <2>1. InOrder(toR', ToR(k), ToR(k + 1)) /\ All(toS', ToS(k))
    BY <1>1, <1>4, MovesKeep DEF InFlight
  <2>2. pos' = k + 1 /\ k # k + 1
    BY <1>4, Constant
  <2>3. QED
    BY <1>2, <2>1, <2>2 DEF InFlight, ToR, ToS, All, InOrder
<1>5. QED
  BY <1>3, <1>4 DEF InFlight

-----------------------------------------------------------------------------
(* The steps that leave the receiver's count alone.                        *)

LEMMA KStarts == Init => KInv
<1> SUFFICES ASSUME Init PROVE KInv
  OBVIOUS
<1> USE DEF Init
<1>1. 1 \in 1..Last /\ 0 \in 0..Last /\ 0 % SEQ_MOD = 0
  BY Constant
<1>2. Current(1) \in Packets /\ Current(1) \in ToR(1)
  BY <1>1, CurrentIs
<1>3. TypeOK
  <2>1. toR \in Seq(Packets) /\ Len(toR) <= Frames /\ toS \in Seq(Packets) /\ Len(toS) <= Frames
    BY <1>2, Constant
  <2>2. chunks \in Seq(1..Pieces) /\ size \in -1..Pieces /\ bridge \in [Side -> BOOLEAN]
    BY Constant
  <2>3. /\ pos \in 1..Last /\ stries \in 1..MAX_RETRIES /\ sent \in {"none", "ok", "fail"}
        /\ recv \in {"off", "wait", "linger", "closed"}
        /\ expected \in 0..SEQ_MOD - 1
    BY <1>1, Constant
  <2>4. /\ lastAck \in Packets \cup {NoPacket}
        /\ rtries \in 0..MAX_RETRIES /\ lost \in 0..MaxLost
        /\ received \in {"none", "ok", "fail"}
    BY Constant
  <2>5. neg \in BOOLEAN /\ gotEof \in BOOLEAN
    OBVIOUS
  <2>6. QED
    BY <2>4, <2>5, <2>1, <2>2, <2>3 DEF TypeOK
<1>4. Taken(0)
  BY <1>1, Constant DEF Taken
<1>5. InFlight(0)
  <2>1. All(toR, ToR(1)) /\ All(toS, ToS(0))
    BY <1>2 DEF All
  <2>2. InOrder(toR, ToR(0), ToR(1))
    BY <1>2 DEF All, InOrder
  <2>3. QED
    BY <2>1, <2>2 DEF InFlight
<1>6. QED
  BY <1>1, <1>3, <1>4, <1>5 DEF KInv

\* Taken speaks of the receiver only.
LEMMA TakenKept ==
  ASSUME NEW k, Taken(k), UNCHANGED receiver
  PROVE  Taken(k)'
  BY DEF Taken, receiver, ToS

\* SendAgain: the current packet or a failure.
LEMMA AgainMoves ==
  ASSUME TypeOK, NEW k \in 0..Last, InFlight(k), SendAgain
  PROVE  /\ Moves(toR', toR, ToR(pos)) /\ pos' = pos
         /\ stries' \in 1..MAX_RETRIES /\ sent' \in {"none", "ok", "fail"}
         /\ sent' \in {sent, "fail"}
<1>1. pos \in 1..Last /\ pos - 1 \in Nat /\ Check \in {0, 1, 3}
  BY Constant DEF TypeOK, Check
<1>2. Current(pos) \in ToR(pos) \cap Packets
  BY <1>1, CurrentIs
<1>3. Packet("E", pos - 1, Check, 0) \in ToR(pos) \cap Packets
  BY <1>1, FailureIs
<1>4. CASE stries < MAX_RETRIES
  BY <1>2, <1>4, Constant DEF SendAgain, Moves, TypeOK
<1>5. CASE ~(stries < MAX_RETRIES)
  BY <1>3, <1>5, Constant DEF SendAgain, SenderEnds, Moves, TypeOK
<1>6. QED
  BY <1>4, <1>5

\* An answer about the packet before the current one does not acknowledge it.
LEMMA OldIsNoAck ==
  ASSUME pos \in 1..Last, NEW p \in ToS(pos - 1), p.type # "E"
  PROVE  ~Acknowledges(p)
<1>1. pos \in Nat /\ pos - 1 \in Nat /\ (pos + 1) - 1 = pos
  BY Constant
<1>2. CASE p.type = "Y"
  <2>1. pos - 2 \in Nat /\ p.seq = (pos - 2) % SEQ_MOD
    BY <1>1, <1>2 DEF ToS
  <2>2. (pos - 2 + 1) % SEQ_MOD # (pos - 2) % SEQ_MOD
    BY <2>1, Numbers
  <2>3. pos - 2 + 1 = pos - 1
    BY <1>1
  <2>4. QED
    BY <1>2, <2>1, <2>2, <2>3 DEF Acknowledges, SeqAt
<1>3. CASE p.type = "N"
  <2>1. p.seq = (pos - 1) % SEQ_MOD
    BY <1>3 DEF ToS
  <2>2. (pos - 1 + 1) % SEQ_MOD # (pos - 1) % SEQ_MOD
    BY <1>1, Numbers
  <2>3. pos - 1 + 1 = pos
    BY <1>1
  <2>4. QED
    BY <1>1, <1>3, <2>1, <2>2, <2>3 DEF Acknowledges, SeqAt
<1>4. QED
  BY <1>2, <1>3 DEF ToS

\* So what acknowledges the current packet proves that the receiver has taken it.
LEMMA AckedIsTaken ==
  ASSUME TypeOK, NEW k \in 0..Last, InFlight(k),
         toS # <<>>, Head(toS).type # "E", Acknowledges(Head(toS))
  PROVE  pos = k /\ All(Tail(toS), ToS(k))
<1>1. pos \in 1..Last /\ toS \in Seq(Packets)
  BY DEF TypeOK
<1>2. Head(toS) \notin ToS(pos - 1)
  BY <1>1, OldIsNoAck
<1>3. pos = k
  <2>1. CASE pos = k + 1
    <3>1. Head(toS) \in ToS(k)
      BY <1>1, <2>1, HeadOf DEF InFlight
    <3>2. pos - 1 = k
      BY <2>1, Constant
    <3>3. QED
      BY <1>2, <3>1, <3>2
  <2>2. QED
    BY <2>1 DEF InFlight
<1>4. InOrder(toS, ToS(k - 1), ToS(k)) /\ Head(toS) \notin ToS(k - 1)
  BY <1>2, <1>3 DEF InFlight
<1>5. QED
  BY <1>1, <1>3, <1>4, BehindNew

LEMMA AdvanceKeeps ==
  ASSUME TypeOK, NEW k \in 0..Last, pos = k, All(toR, ToR(k)), Advance,
         toS # <<>>, toS' = Tail(toS), All(Tail(toS), ToS(k))
  PROVE  /\ InFlight(k)'
         /\ pos' \in 1..Last /\ stries' \in 1..MAX_RETRIES /\ sent' \in {"none", "ok", "fail"}
         /\ toR' \in Seq(Packets) /\ Len(toR') <= Frames
         /\ toS' \in Seq(Packets) /\ Len(toS') <= Frames
<1>1. pos \in 1..Last /\ pos \in Nat /\ k # k + 1
      /\ toR \in Seq(Packets) /\ Len(toR) <= Frames /\ toS \in Seq(Packets) /\ Len(toS) <= Frames
  BY Constant DEF TypeOK
<1>2. toS' \in Seq(Packets) /\ Len(toS') <= Frames
  BY <1>1, Constant
<1>3. All(toS', ToS(k)) /\ InOrder(toS', ToS(k - 1), ToS(k))
  <2>1. InOrder(Tail(toS), ToS(k - 1), ToS(k))
    BY AllIsInOrder
  <2>2. QED
    BY <2>1
<1>4. CASE pos = Last
  <2>1. pos' = k /\ toR' = toR /\ stries' = stries /\ sent' = "ok"
    BY <1>4 DEF Advance, SenderEnds
  <2>2. InFlight(k)'
    BY <1>1, <1>3, <2>1 DEF InFlight, ToR, ToS, All, InOrder
  <2>3. QED
    BY <1>1, <1>2, <2>1, <2>2 DEF TypeOK
<1>5. CASE pos # Last
  <2>1. pos' = k + 1 /\ toR' = Out(toR, Current(k + 1)) /\ stries' = 1 /\ sent' = sent
    BY <1>5 DEF Advance
  <2>2. k + 1 \in 1..Last
    BY <1>1, <1>5, Constant
  <2>3. Current(k + 1) \in Packets /\ Current(k + 1) \in ToR(k + 1)
    BY <2>2, CurrentIs
  <2>4. InOrder(toR, ToR(k), ToR(k + 1))
    BY AllIsInOrder
  <2>5. /\ InOrder(toR', ToR(k), ToR(k + 1))
        /\ toR' \in Seq(Packets) /\ Len(toR') <= Frames
    BY <1>1, <2>1, <2>3, <2>4, OutKeeps, OutIs
  <2>6. InFlight(k)'
    BY <1>1, <1>3, <2>1, <2>5 DEF InFlight, ToR, ToS, All, InOrder
  <2>7. QED
    BY <1>2, <2>1, <2>2, <2>5, <2>6, Constant DEF TypeOK
<1>6. QED
  BY <1>4, <1>5

LEMMA SenderKeeps ==
  ASSUME KInv, SenderTakes \/ SenderTimeout \/ SenderCancels
  PROVE  KInv'
<1>1. PICK k \in 0..Last : Taken(k) /\ InFlight(k)
  BY DEF KInv
<1>2. TypeOK /\ pos \in 1..Last /\ pos - 1 \in Nat /\ Check \in {0, 1, 3}
      /\ UNCHANGED receiver /\ bridge' = bridge /\ lost' = lost
  BY Constant DEF KInv, TypeOK, Check, SenderTakes, SenderTimeout, SenderCancels
<1>3. Taken(k)'
  BY <1>1, <1>2, TakenKept
<1>4. SUFFICES /\ InFlight(k)'
               /\ pos' \in 1..Last /\ stries' \in 1..MAX_RETRIES /\ sent' \in {"none", "ok", "fail"}
               /\ toR' \in Seq(Packets) /\ Len(toR') <= Frames
               /\ toS' \in Seq(Packets) /\ Len(toS') <= Frames
  BY <1>2, <1>3, Constant DEF KInv, TypeOK, receiver, Packets
<1>5. PartOf(toS, toS) /\ PartOf(toR, toR) /\ (toS # <<>> => PartOf(Tail(toS), toS))
  BY DEF PartOf
<1>6. stries \in 1..MAX_RETRIES /\ sent \in {"none", "ok", "fail"}
  BY <1>2 DEF TypeOK
<1>7. CASE SenderTimeout
  <2>1. Moves(toR', toR, ToR(pos)) /\ pos' = pos
        /\ stries' \in 1..MAX_RETRIES /\ sent' \in {"none", "ok", "fail"}
    BY <1>1, <1>2, <1>7, AgainMoves DEF SenderTimeout
  <2>2. Moves(toS', toS, ToS(k))
    BY <1>5, <1>7 DEF SenderTimeout, Moves
  <2>3. QED
    BY <1>1, <1>2, <2>1, <2>2, FlightKept
<1>8. CASE SenderCancels
  <2>1. Packet("E", pos - 1, Check, 0) \in ToR(pos) \cap Packets
    BY <1>2, FailureIs
  <2>2. Moves(toR', toR, ToR(pos)) /\ pos' = pos /\ stries' = stries /\ sent' = "fail"
    BY <1>8, <2>1 DEF SenderCancels, SenderEnds, Moves
  <2>3. Moves(toS', toS, ToS(k))
    BY <1>5, <1>8 DEF SenderCancels, Moves
  <2>4. QED
    BY <1>1, <1>2, <1>6, <2>2, <2>3, FlightKept
<1>9. CASE SenderTakes
  <2> DEFINE p == Head(toS)
             ignored == p.check # Check /\ ~(p.type = "E" /\ p.check = 1)
  <2>1. toS # <<>> /\ toS' = Tail(toS) /\ Moves(toS', toS, ToS(k))
    BY <1>5, <1>9 DEF SenderTakes, Moves
  <2>2. CASE ignored \/ p.type = "E"
    <3>1. pos' = pos /\ stries' = stries /\ sent' \in {sent, "fail"} /\ toR' = toR
      BY <1>9, <2>2 DEF SenderTakes, SenderEnds, sender
    <3>2. Moves(toR', toR, ToR(pos))
      BY <1>5, <3>1 DEF Moves
    <3>3. QED
      BY <1>1, <1>2, <1>6, <2>1, <3>1, <3>2, FlightKept
  <2>3. CASE ~ignored /\ p.type # "E" /\ Acknowledges(p)
    <3>1. Advance
      BY <1>9, <2>3 DEF SenderTakes
    <3>2. pos = k /\ All(Tail(toS), ToS(k))
      BY <1>1, <1>2, <2>1, <2>3, AckedIsTaken
    <3>3. All(toR, ToR(k))
      BY <1>1, <3>2 DEF InFlight
    <3>4. QED
      BY <1>2, <2>1, <3>1, <3>2, <3>3, AdvanceKeeps
  <2>4. CASE ~ignored /\ p.type # "E" /\ ~Acknowledges(p)
    <3>1. CASE SendAgain
      <4>1. Moves(toR', toR, ToR(pos)) /\ pos' = pos
            /\ stries' \in 1..MAX_RETRIES /\ sent' \in {"none", "ok", "fail"}
        BY <1>1, <1>2, <3>1, AgainMoves
      <4>2. QED
        BY <1>1, <1>2, <2>1, <4>1, FlightKept
    <3>2. CASE ~SendAgain
      <4>1. pos' = pos /\ stries' = stries /\ sent' = sent /\ toR' = toR
        BY <1>9, <2>4, <3>2 DEF SenderTakes, sender
      <4>2. Moves(toR', toR, ToR(pos))
        BY <1>5, <4>1 DEF Moves
      <4>3. QED
        BY <1>1, <1>2, <1>6, <2>1, <4>1, <4>2, FlightKept
    <3>3. QED
      BY <3>1, <3>2
  <2>5. QED
    BY <2>2, <2>3, <2>4
<1>10. QED
  BY <1>7, <1>8, <1>9

-----------------------------------------------------------------------------
(* The receiver.                                                           *)

\* The receiver's part of TypeOK.
ReceiverOK ==
  /\ recv \in {"off", "wait", "linger", "closed"}
  /\ neg \in BOOLEAN /\ gotEof \in BOOLEAN
  /\ expected \in 0..SEQ_MOD - 1
  /\ lastAck \in Packets \cup {NoPacket}
  /\ rtries \in 0..MAX_RETRIES
  /\ chunks \in Seq(1..Pieces)
  /\ size \in -1..Pieces
  /\ received \in {"none", "ok", "fail"}

LEMMA FailureKeeps ==
  ASSUME ReceiverOK, NEW k \in 0..Last, k # Last, Taken(k), ReceiverFails
  PROVE  Taken(k)' /\ ReceiverOK'
<1>1. Taken(k)'
  BY DEF Taken, ReceiverFails, ToS
<1>2. ReceiverOK'
  BY DEF ReceiverOK, ReceiverFails
<1>3. QED
  BY <1>1, <1>2

\* What the receiver says of its own accord, and how often, changes no count.
LEMMA AnswersAre ==
  ASSUME TypeOK, NEW k \in 0..Last, Taken(k), recv \in {"off", "wait"}
  PROVE  /\ k # Last
         /\ Nak \in ToS(k) \cap Packets
         /\ lastAck # NoPacket => lastAck \in ToS(k) \cap Packets
         /\ Packet("E", expected, RCheck, 0) \in ToS(k) \cap Packets
<1>1. k # Last
  BY DEF Taken
<1>2. Nak \in ToS(k) \cap Packets
  BY <1>1, NakIs
<1>3. lastAck # NoPacket => lastAck \in ToS(k) \cap Packets
  BY DEF Taken, TypeOK
<1>4. expected \in Nat /\ RCheck \in {0, 1, 3}
  BY Constant DEF TypeOK, RCheck
<1>5. QED
  BY <1>1, <1>2, <1>3, <1>4, FailureIs

\* A packet that is no repeat and has the number expected is the next one, and the
\* sender is at it.
LEMMA ExpectedIsNext ==
  ASSUME TypeOK, NEW k \in 0..Last, Taken(k), InFlight(k), recv = "wait",
         toR # <<>>, Head(toR).type # "E", ~IsRepeat(Head(toR)), Head(toR).seq = expected
  PROVE  /\ pos = k + 1 /\ k + 1 \in 1..Last
         /\ Head(toR).type = TypeAt(k + 1) /\ Head(toR).body = BodyAt(k + 1)
         /\ Head(toR) \in Packets /\ Head(toR).seq = k % SEQ_MOD
         /\ All(Tail(toR), ToR(k + 1))
<1> DEFINE p == Head(toR)
<1>1. toR \in Seq(Packets) /\ k \in Nat /\ k # Last /\ expected = k % SEQ_MOD
  BY AnswersAre, Constant DEF TypeOK, Taken
<1>2. p \notin ToR(k)
  <2>1. SUFFICES ASSUME p \in ToR(k) PROVE FALSE
    OBVIOUS
  <2>2. k \in 1..Last /\ p.seq = SeqAt(k)
    BY <2>1 DEF ToR
  <2>3. k - 1 \in Nat /\ (k - 1) + 1 = k
    BY <2>2, Constant
  <2>4. ((k % SEQ_MOD) + SEQ_MOD - 1) % SEQ_MOD = (k - 1) % SEQ_MOD
    <3>1. (((k - 1 + 1) % SEQ_MOD) + SEQ_MOD - 1) % SEQ_MOD = (k - 1) % SEQ_MOD
      BY <2>3, Numbers
    <3>2. QED
      BY <2>3, <3>1
  <2>5. p.seq = Previous
    BY <1>1, <2>2, <2>4 DEF Previous, SeqAt
  <2>6. lastAck # NoPacket
    BY <2>2 DEF Taken
  <2>7. QED
    BY <2>5, <2>6 DEF IsRepeat
<1>3. pos = k + 1
  <2>1. pos # k
    BY <1>1, <1>2, HeadOf DEF InFlight
  <2>2. QED
    BY <2>1 DEF InFlight
<1>4. InOrder(toR, ToR(k), ToR(k + 1))
  BY <1>3 DEF InFlight
<1>5. p \in ToR(k + 1) /\ p \in Packets
  BY <1>1, <1>2, <1>4, HeadOf
<1>6. All(Tail(toR), ToR(k + 1))
  BY <1>1, <1>2, <1>4, BehindNew
<1>7. k + 1 \in 1..Last /\ p.type = TypeAt(k + 1) /\ p.body = BodyAt(k + 1)
  BY <1>5 DEF ToR
<1>8. QED
  BY <1>1, <1>3, <1>5, <1>6, <1>7

\* Taking it makes one more packet taken, whatever its type.
LEMMA TakingCounts ==
  ASSUME ReceiverOK, NEW k \in 0..Last, Taken(k), recv = "wait", k + 1 \in 1..Last,
         NEW p \in Packets, p.type = TypeAt(k + 1), p.body = BodyAt(k + 1),
         p.seq = k % SEQ_MOD, TakeExpected(p)
  PROVE  /\ Taken(k + 1)' /\ ReceiverOK'
         /\ lastAck' \in ToS(k + 1) \cap Packets /\ toS' = Out(toS, lastAck')
<1> DEFINE a == Packet("Y", p.seq, IF p.type = "S" THEN 1 ELSE RCheck, 0)
<1>1. k \in Nat /\ k # Last /\ (k + 1) - 1 = k /\ Last = Pieces + 5 /\ Pieces \in Nat
  BY Constant
<1>2. /\ k % SEQ_MOD \in 0..SEQ_MOD - 1 /\ (k % SEQ_MOD) % SEQ_MOD = k % SEQ_MOD
      /\ ((k % SEQ_MOD) + 1) % SEQ_MOD = (k + 1) % SEQ_MOD
      /\ (k + 1) % SEQ_MOD \in 0..SEQ_MOD - 1
  BY <1>1, Numbers
<1>3. expected = k % SEQ_MOD
  BY <1>1 DEF Taken
<1>4. a \in Packets /\ a.type = "Y" /\ a.seq = k % SEQ_MOD /\ a # NoPacket
  <2>1. p.seq \in Nat /\ 0 \in 0..Pieces /\ (IF p.type = "S" THEN 1 ELSE RCheck) \in {0, 1, 3}
    BY <1>1, <1>2, Constant DEF RCheck
  <2>2. QED
    BY <1>2, <2>1, PacketIs
<1>5. a \in ToS(k + 1) \cap Packets
  BY <1>1, <1>4 DEF ToS
<1>6. SendAck(p) => lastAck' = a /\ toS' = Out(toS, a)
  BY DEF SendAck
<1>7. Expect(p) => /\ expected' = (k + 1) % SEQ_MOD /\ rtries' = 0
                   /\ lastAck' = a /\ toS' = Out(toS, a)
  BY <1>2, <1>3, <1>6 DEF Expect
<1>8. lastAck' = a /\ toS' = Out(toS, a) =>
        /\ lastAck' \in ToS(k + 1) \cap Packets /\ toS' = Out(toS, lastAck')
        /\ lastAck' # NoPacket
  BY <1>4, <1>5
<1>9. received = "none" /\ rtries \in 0..MAX_RETRIES /\ 0 \in 0..MAX_RETRIES
  BY Constant DEF Taken, ReceiverOK
<1> USE TypesAndBodies, Constant
<1>10. CASE TakeInit(p)
  <2>1. k = 0
    BY <1>1, <1>10 DEF TakeInit
  <2>2. ReceiverOK'
    BY <1>2, <1>4, <1>7, <1>9, <1>10 DEF ReceiverOK, TakeInit
  <2>3. Taken(k + 1)'
    BY <1>1, <1>7, <1>8, <1>9, <1>10, <2>1 DEF Taken, TakeInit, ToS
  <2>4. QED
    BY <1>7, <1>8, <1>10, <2>2, <2>3 DEF TakeInit
<1>11. CASE TakeName(p)
  <2>1. k = 1 /\ neg = TRUE
    BY <1>1, <1>11 DEF TakeName, Taken
  <2>2. Expect(p)
    BY <1>11, <2>1 DEF TakeName
  <2>3. ReceiverOK'
    BY <1>2, <1>4, <1>7, <1>9, <1>11, <2>2 DEF ReceiverOK, TakeName
  <2>4. Taken(k + 1)'
    BY <1>1, <1>7, <1>8, <1>9, <1>11, <2>1, <2>2 DEF Taken, TakeName, ToS
  <2>5. QED
    BY <1>7, <1>8, <2>2, <2>3, <2>4
<1>12. CASE TakeAttributes(p)
  <2>1. k = 2 /\ p.body = Pieces
    BY <1>1, <1>12 DEF TakeAttributes
  <2>2. ReceiverOK'
    BY <1>2, <1>4, <1>7, <1>9, <1>12, <2>1 DEF ReceiverOK, TakeAttributes
  <2>3. Taken(k + 1)'
    BY <1>1, <1>7, <1>8, <1>9, <1>12, <2>1 DEF Taken, TakeAttributes, ToS
  <2>4. QED
    BY <1>7, <1>8, <1>12, <2>2, <2>3 DEF TakeAttributes
<1>13. CASE TakeData(p)
  <2>1. k \in 3..Pieces + 2 /\ p.body = k - 2 /\ Len(chunks) = k - 3
    BY <1>1, <1>13 DEF TakeData, Taken
  <2>2. chunks' = Append(chunks, p.body) /\ chunks \in Seq(1..Pieces) /\ p.body \in 1..Pieces
    BY <1>1, <1>13, <2>1 DEF TakeData, ReceiverOK
  <2>3. chunks' \in Seq(1..Pieces) /\ Len(chunks') = k - 2
    BY <1>1, <2>1, <2>2
  <2>4. ReceiverOK'
    BY <1>2, <1>4, <1>7, <1>9, <1>13, <2>3 DEF ReceiverOK, TakeData
  <2>5. Taken(k + 1)'
    BY <1>1, <1>7, <1>8, <1>9, <1>13, <2>1, <2>3 DEF Taken, TakeData, ToS
  <2>6. QED
    BY <1>7, <1>8, <1>13, <2>4, <2>5 DEF TakeData
<1>14. CASE TakeEof(p)
  <2>1. k = Pieces + 3
    BY <1>1, <1>14 DEF TakeEof
  <2>2. ReceiverOK'
    BY <1>2, <1>4, <1>7, <1>9, <1>14 DEF ReceiverOK, TakeEof
  <2>3. Taken(k + 1)'
    BY <1>1, <1>7, <1>8, <1>9, <1>14, <2>1 DEF Taken, TakeEof, ToS
  <2>4. QED
    BY <1>7, <1>8, <1>14, <2>2, <2>3 DEF TakeEof
<1>15. CASE TakeBreak(p)
  <2>1. k = Last - 1
    BY <1>1, <1>15 DEF TakeBreak
  <2>2. gotEof = TRUE /\ size = Pieces /\ Len(chunks) = Pieces
    BY <1>1, <2>1 DEF Taken
  <2>3. recv' = "linger" /\ received' = "ok" /\ lastAck' = a /\ toS' = Out(toS, a) /\ rtries' = 0
        /\ UNCHANGED <<neg, expected, chunks, size, gotEof>>
    BY <1>6, <1>15, <2>2 DEF TakeBreak
  <2>4. ReceiverOK'
    BY <1>4, <1>9, <2>3 DEF ReceiverOK
  <2>5. Taken(k + 1)'
    BY <1>1, <1>3, <1>8, <2>1, <2>2, <2>3 DEF Taken, ToS
  <2>6. QED
    BY <1>8, <2>3, <2>4, <2>5
<1>16. QED
  BY <1>10, <1>11, <1>12, <1>13, <1>14, <1>15 DEF TakeExpected

LEMMA ReceiverKeeps ==
  ASSUME KInv,
         ReceiverStarts \/ ReceiverTakes \/ ReceiverTimeout \/ ReceiverCancels
           \/ Lingers \/ LingerEnds
  PROVE  KInv'
<1>1. PICK k \in 0..Last : Taken(k) /\ InFlight(k)
  BY DEF KInv
<1>2. TypeOK /\ ReceiverOK /\ UNCHANGED <<sender, bridge, lost>>
  BY DEF KInv, TypeOK, ReceiverOK, ReceiverStarts, ReceiverTakes, ReceiverTimeout,
         ReceiverCancels, Lingers, LingerEnds
<1>3. /\ pos' = pos /\ k \in Nat /\ k # k + 1
      /\ toR \in Seq(Packets) /\ Len(toR) <= Frames /\ toS \in Seq(Packets) /\ Len(toS) <= Frames
      /\ expected \in Nat /\ RCheck \in {0, 1, 3}
  BY <1>2, Constant DEF sender, TypeOK, RCheck
<1>4. ASSUME NEW n \in 0..Last, Taken(n)', InFlight(n)', ReceiverOK',
             toR' \in Seq(Packets), Len(toR') <= Frames, toS' \in Seq(Packets), Len(toS') <= Frames
      PROVE  KInv'
  BY <1>2, <1>4 DEF KInv, TypeOK, ReceiverOK, sender, Packets
<1>5. ASSUME Taken(k)', ReceiverOK', Moves(toR', toR, ToR(pos)), Moves(toS', toS, ToS(k))
      PROVE  KInv'
  BY <1>1, <1>2, <1>3, <1>4, <1>5, FlightKept
<1>6. PartOf(toS, toS) /\ PartOf(toR, toR) /\ (toR # <<>> => PartOf(Tail(toR), toR))
  BY DEF PartOf
<1>7. UNCHANGED receiver => Taken(k)' /\ ReceiverOK'
  BY <1>1, <1>2, TakenKept DEF ReceiverOK, receiver, Packets
<1>8. recv \in {"off", "wait"} =>
        /\ k # Last /\ Nak \in ToS(k) \cap Packets
        /\ lastAck # NoPacket => lastAck \in ToS(k) \cap Packets
        /\ Packet("E", expected, RCheck, 0) \in ToS(k) \cap Packets
  BY <1>1, <1>2, AnswersAre
<1>9. recv \in {"off", "wait"} /\ ReceiverFails => Taken(k)' /\ ReceiverOK'
  BY <1>1, <1>2, <1>8, FailureKeeps
<1>10. CASE ReceiverStarts
  <2>1. Taken(k)' /\ ReceiverOK'
    BY <1>1, <1>2, <1>10 DEF ReceiverStarts, Taken, ReceiverOK, ToS
  <2>2. Moves(toR', toR, ToR(pos)) /\ Moves(toS', toS, ToS(k))
    BY <1>6, <1>8, <1>10 DEF ReceiverStarts, Moves
  <2>3. QED
    BY <1>5, <2>1, <2>2
<1>11. CASE ReceiverTimeout
  <2>1. Moves(toR', toR, ToR(pos)) /\ Moves(toS', toS, ToS(k))
    BY <1>6, <1>8, <1>11 DEF ReceiverTimeout, Moves
  <2>2. CASE rtries < MAX_RETRIES
    <3>1. rtries' = rtries + 1
          /\ UNCHANGED <<recv, neg, expected, lastAck, chunks, size, gotEof, received>>
      BY <1>11, <2>2 DEF ReceiverTimeout
    <3>2. Taken(k)'
      BY <1>1, <3>1 DEF Taken, ToS
    <3>3. ReceiverOK'
      BY <1>2, <2>2, <3>1, Constant DEF ReceiverOK, Packets
    <3>4. QED
      BY <1>5, <2>1, <3>2, <3>3
  <2>3. CASE ~(rtries < MAX_RETRIES)
    BY <1>5, <1>9, <1>11, <2>1, <2>3 DEF ReceiverTimeout
  <2>4. QED
    BY <2>2, <2>3
<1>12. CASE ReceiverCancels
  <2>1. Moves(toR', toR, ToR(pos)) /\ Moves(toS', toS, ToS(k))
    BY <1>6, <1>8, <1>12 DEF ReceiverCancels, Moves
  <2>2. QED
    BY <1>5, <1>9, <1>12, <2>1 DEF ReceiverCancels
<1>13. CASE Lingers
  <2>1. k = Last /\ k # 0
    BY <1>1, <1>13, Constant DEF Lingers, Taken
  <2>2. lastAck \in ToS(k) \cap Packets
    BY <1>1, <2>1 DEF Taken, ToS
  <2>3. Moves(toR', toR, ToR(pos)) /\ Moves(toS', toS, ToS(k))
    BY <1>6, <1>13, <2>2 DEF Lingers, Moves
  <2>4. QED
    BY <1>5, <1>7, <1>13, <2>3 DEF Lingers
<1>14. CASE LingerEnds
  <2>1. Taken(k)' /\ ReceiverOK'
    BY <1>1, <1>2, <1>14 DEF LingerEnds, Taken, ReceiverOK, ToS, Packets
  <2>2. Moves(toR', toR, ToR(pos)) /\ Moves(toS', toS, ToS(k))
    BY <1>6, <1>14 DEF LingerEnds, Moves
  <2>3. QED
    BY <1>5, <2>1, <2>2
<1>15. CASE ReceiverTakes
  <2> DEFINE p == Head(toR)
             valid == p.check = (IF p.type = "S" THEN 1 ELSE RCheck) \/ (p.type = "E" /\ p.check = 1)
  <2>1. recv = "wait" /\ toR # <<>> /\ toR' = Tail(toR) /\ Moves(toR', toR, ToR(pos))
    BY <1>6, <1>15 DEF ReceiverTakes, Moves
  <2>2. CASE UNCHANGED receiver /\ toS' = Out(toS, Nak)
    <3>1. Moves(toS', toS, ToS(k))
      BY <1>8, <2>1, <2>2 DEF Moves
    <3>2. QED
      BY <1>5, <1>7, <2>1, <2>2, <3>1
  <2>3. CASE UNCHANGED receiver /\ toS' = Out(toS, lastAck) /\ IsRepeat(p)
    <3>1. Moves(toS', toS, ToS(k))
      BY <1>8, <2>1, <2>3 DEF Moves, IsRepeat
    <3>2. QED
      BY <1>5, <1>7, <2>1, <2>3, <3>1
  <2>4. CASE ReceiverFails /\ UNCHANGED toS
    <3>1. Moves(toS', toS, ToS(k))
      BY <1>6, <2>4 DEF Moves
    <3>2. QED
      BY <1>5, <1>9, <2>1, <2>4, <3>1
  <2>5. CASE p.type # "E" /\ ~IsRepeat(p) /\ p.seq = expected /\ TakeExpected(p)
    <3>1. /\ pos = k + 1 /\ k + 1 \in 1..Last
          /\ p.type = TypeAt(k + 1) /\ p.body = BodyAt(k + 1)
          /\ p \in Packets /\ p.seq = k % SEQ_MOD /\ All(Tail(toR), ToR(k + 1))
      BY <1>1, <1>2, <2>1, <2>5, ExpectedIsNext
    <3>2. /\ Taken(k + 1)' /\ ReceiverOK'
          /\ lastAck' \in ToS(k + 1) \cap Packets /\ toS' = Out(toS, lastAck')
      BY <1>1, <1>2, <2>1, <2>5, <3>1, TakingCounts
    <3>3. InOrder(toS, ToS(k), ToS(k + 1))
      BY <1>1, <3>1, AllIsInOrder DEF InFlight
    <3>4. /\ InOrder(toS', ToS(k), ToS(k + 1))
          /\ toS' \in Seq(Packets) /\ Len(toS') <= Frames
      BY <1>3, <3>2, <3>3, OutKeeps, OutIs
    <3>5. toR' \in Seq(Packets) /\ Len(toR') <= Frames
      BY <1>3, <2>1, Constant
    <3>6. pos' = k + 1 /\ k + 1 # (k + 1) + 1 /\ (k + 1) - 1 = k /\ All(toR', ToR(k + 1))
      BY <1>3, <2>1, <3>1
    <3>7. InFlight(k + 1)'
      BY <3>4, <3>6 DEF InFlight, ToR, ToS, All, InOrder
    <3>8. k + 1 \in 0..Last
      BY <1>3, <3>1
    <3>9. QED
      BY <1>4, <3>2, <3>4, <3>5, <3>7, <3>8
  <2>6. QED
    BY <1>15, <2>2, <2>3, <2>4, <2>5 DEF ReceiverTakes
<1>16. QED
  BY <1>10, <1>11, <1>12, <1>13, <1>14, <1>15

-----------------------------------------------------------------------------
(* The page and the line.                                                  *)

LEMMA BridgeAndLossesKeep ==
  ASSUME KInv, NobodyListens \/ LoseFrame \/ \E s \in Side : BridgeOff(s)
  PROVE  KInv'
<1>1. PICK k \in 0..Last : Taken(k) /\ InFlight(k)
  BY DEF KInv
<1>2. TypeOK /\ UNCHANGED <<sender, receiver>> /\ pos' = pos
  BY DEF KInv, NobodyListens, LoseFrame, BridgeOff, sender
<1>3. PartOf(toR', toR) /\ PartOf(toS', toS)
  <2>1. PartOf(toR, toR) /\ PartOf(toS, toS)
    BY DEF PartOf
  <2>2. CASE NobodyListens \/ LoseFrame
    BY <2>1, <2>2 DEF NobodyListens, LoseFrame, PartOf
  <2>3. ASSUME NEW s \in Side, BridgeOff(s)
        PROVE  PartOf(toR', toR) /\ PartOf(toS', toS)
    <3>1. 0 \in 0..Len(toS) /\ SubSeq(toS, 1, 0) = <<>> /\ 0 \in 0..Len(toR) /\ SubSeq(toR, 1, 0) = <<>>
      BY <1>2 DEF TypeOK
    <3>2. PartOf(<<>>, toS) /\ PartOf(<<>>, toR)
      BY <3>1 DEF PartOf
    <3>3. QED
      BY <2>3, <3>2 DEF BridgeOff, PartOf
  <2>4. QED
    BY <2>2, <2>3
<1>4. Taken(k)'
  BY <1>1, <1>2, TakenKept
<1>5. InFlight(k)' /\ toR' \in Seq(Packets) /\ Len(toR') <= Frames
                   /\ toS' \in Seq(Packets) /\ Len(toS') <= Frames
  BY <1>1, <1>2, <1>3, FlightKept DEF Moves
<1>6. bridge' \in [Side -> BOOLEAN] /\ lost' \in 0..MaxLost
  <2>1. bridge \in [Side -> BOOLEAN] /\ lost \in 0..MaxLost
    BY <1>2 DEF TypeOK
  <2>2. CASE NobodyListens \/ LoseFrame
    <3>1. bridge' = bridge
      BY <2>2 DEF NobodyListens, LoseFrame
    <3>2. lost' = lost \/ (lost < MaxLost /\ lost' = lost + 1)
      BY <2>2 DEF NobodyListens, LoseFrame
    <3>3. lost' \in 0..MaxLost
      BY <2>1, <3>2, Constant
    <3>4. QED
      BY <2>1, <3>1, <3>3
  <2>3. ASSUME NEW s \in Side, BridgeOff(s)
        PROVE  bridge' \in [Side -> BOOLEAN] /\ lost' \in 0..MaxLost
    <3>1. bridge' = [bridge EXCEPT ![s] = FALSE]
      BY <2>3 DEF BridgeOff
    <3>2. lost' = lost
      BY <2>3 DEF BridgeOff
    <3>3. QED
      BY <2>1, <3>1, <3>2
  <2>4. QED
    BY <2>2, <2>3
<1>7. QED
  BY <1>2, <1>4, <1>5, <1>6 DEF KInv, TypeOK, sender, receiver, Packets

\* A damaged frame is still of the packet it was.
LEMMA DamageKeeps == ASSUME KInv, DamageFrame PROVE KInv'
<1>1. PICK k \in 0..Last : Taken(k) /\ InFlight(k)
  BY DEF KInv
<1>2. TypeOK /\ UNCHANGED <<sender, receiver, toS, bridge>> /\ pos' = pos
      /\ k \in Nat /\ k # k + 1 /\ lost' \in 0..MaxLost
  BY Constant DEF KInv, TypeOK, DamageFrame, sender
<1> DEFINE h == [Head(toR) EXCEPT !.check = 0]
<1>3. toR \in Seq(Packets) /\ toR # <<>> /\ Len(toR) <= Frames /\ Head(toR) \in Packets
      /\ toR' = <<h>> \o Tail(toR)
  BY <1>2 DEF TypeOK, DamageFrame
<1>4. h \in Packets /\ h.type = Head(toR).type /\ h.seq = Head(toR).seq /\ h.body = Head(toR).body
  BY <1>3 DEF Packets
<1>5. /\ toR' \in Seq(Packets) /\ Len(toR') = Len(toR) /\ toR'[1] = h /\ toR[1] = Head(toR)
      /\ DOMAIN toR' = DOMAIN toR /\ \A i \in DOMAIN toR : i # 1 => toR'[i] = toR[i]
  BY <1>3, <1>4
<1>6. \A n \in Nat, i \in DOMAIN toR : toR'[i] \in ToR(n) <=> toR[i] \in ToR(n)
  BY <1>3, <1>4, <1>5 DEF ToR
<1>7. InFlight(k)'
  <2>1. k + 1 \in Nat
    BY <1>2
  <2>2. All(toR, ToR(k)) => All(toR, ToR(k))'
    BY <1>2, <1>5, <1>6 DEF All, ToR
  <2>3. InOrder(toR, ToR(k), ToR(k + 1)) => InOrder(toR, ToR(k), ToR(k + 1))'
    BY <1>2, <1>5, <1>6, <2>1 DEF InOrder, All, ToR
  <2>4. QED
    BY <1>1, <1>2, <2>2, <2>3 DEF InFlight, All, InOrder, ToS
<1>8. Taken(k)'
  BY <1>1, <1>2, TakenKept
<1>9. TypeOK'
  <2>1. toR' \in Seq(Packets) /\ Len(toR') <= Frames
    BY <1>3, <1>5
  <2> HIDE DEF h
  <2>2. QED
    BY <1>2, <2>1 DEF TypeOK, sender, receiver
<1>10. QED
  BY <1>7, <1>8, <1>9 DEF KInv

-----------------------------------------------------------------------------
(* The theorems.                                                           *)

\* In every state the receiver has taken some number of packets k, the sender is
\* at packet k or k + 1, and what is in flight belongs to these two, whatever the
\* link loses or damages (send, onAck and onPacket of kermit.js).
THEOREM KermitInvariant == Spec => []KInv
<1>1. Init => KInv
  BY KStarts
<1>2. KInv /\ [Next]_vars => KInv'
  <2>1. ASSUME KInv, UNCHANGED vars PROVE KInv'
    <3>1. PICK k \in 0..Last : Taken(k) /\ InFlight(k)
      BY <2>1 DEF KInv
    <3>2. Taken(k)'
      BY <2>1, <3>1, TakenKept DEF vars
    <3>3. InFlight(k)'
      BY <2>1, <3>1 DEF vars, sender, InFlight, All, InOrder, ToR, ToS
    <3>4. TypeOK'
      BY <2>1 DEF KInv, TypeOK, vars, sender, receiver, Packets
    <3>5. QED
      BY <3>2, <3>3, <3>4 DEF KInv
  <2>2. ASSUME KInv, Next PROVE KInv'
    BY <2>2, SenderKeeps, ReceiverKeeps, BridgeAndLossesKeep, DamageKeeps
    DEF Next, SenderRuns, ReceiverRuns, Cancels, Line
  <2>3. QED
    BY <2>1, <2>2
<1>3. QED
  BY <1>1, <1>2, PTL DEF Spec

\* Every variable keeps its type; in particular a channel never holds more frames
\* than it may and neither end tries more than MAX_RETRIES times (kermit.js).
THEOREM TypeCorrect == Spec => []TypeOK
<1>1. KInv => TypeOK
  BY DEF KInv
<1>2. QED
  BY <1>1, KermitInvariant, PTL

\* What InStep counts from the receiver's fields is the number of packets taken.
LEMMA AcceptedIs ==
  ASSUME TypeOK, NEW k \in 0..Last, Taken(k)
  PROVE  Accepted = k
<1>1. k \in Nat /\ Last = Pieces + 5 /\ Pieces \in Nat /\ SEQ_MOD \in Nat /\ SEQ_MOD >= 4
  BY Constant
<1>2. k \in {1, 2} => expected = k
  BY <1>1 DEF Taken
<1>3. CASE k = 0
  BY <1>3 DEF Taken, Accepted
<1>4. CASE k \in {1, 2}
  <2>1. neg = TRUE
    BY <1>4 DEF Taken
  <2>2. ~(gotEof = TRUE) /\ size = -1
    BY <1>1, <1>4 DEF Taken
  <2>3. QED
    BY <1>2, <1>4, <2>1, <2>2 DEF Accepted
<1>5. CASE k >= 3 /\ k < Last - 1
  <2>1. neg = TRUE
    BY <1>1, <1>5 DEF Taken
  <2>2. ~(gotEof = TRUE) /\ size # -1 /\ Len(chunks) = k - 3
    BY <1>1, <1>5 DEF Taken
  <2>3. 3 + Len(chunks) = k
    BY <1>1, <2>2
  <2>4. QED
    BY <2>1, <2>2, <2>3 DEF Accepted
<1>6. CASE k >= Last - 1
  <2>1. neg = TRUE /\ gotEof = TRUE
    BY <1>1, <1>6 DEF Taken
  <2>2. (IF received = "ok" THEN Last ELSE Last - 1) = k
    BY <1>1, <1>6 DEF Taken
  <2>3. QED
    BY <2>1, <2>2 DEF Accepted
<1>7. QED
  BY <1>1, <1>3, <1>4, <1>5, <1>6

\* The receiver has taken every packet before the sender's current one, and
\* possibly that one (onAck and onPacket of kermit.js, lines 392 and 520-528).
THEOREM StaysInStep == Spec => []InStep
<1>1. KInv => InStep
  <2>1. SUFFICES ASSUME KInv PROVE InStep
    OBVIOUS
  <2>2. PICK k \in 0..Last : Taken(k) /\ InFlight(k)
    BY <2>1 DEF KInv
  <2>3. Accepted = k
    BY <2>1, <2>2, AcceptedIs DEF KInv
  <2>4. pos \in {k, k + 1} /\ k \in Nat
    BY <2>2, Constant DEF InFlight
  <2>5. k \in {pos - 1, pos}
    BY <2>4
  <2>6. QED
    BY <2>3, <2>5 DEF InStep
<1>2. QED
  BY <1>1, KermitInvariant, PTL

-----------------------------------------------------------------------------
(* The transfer.                                                           *)

\* The sender reports success only when the receiver has.
LEMMA SenderStepMaps ==
  ASSUME KInv, SenderTakes \/ SenderTimeout \/ SenderCancels
  PROVE  [Transfer!Next]_Transfer!ftVars
<1>1. PICK k \in 0..Last : Taken(k) /\ InFlight(k)
  BY DEF KInv
<1>2. TypeOK /\ sent = "none" /\ UNCHANGED <<chunks, received>>
  BY DEF KInv, SenderTakes, SenderTimeout, SenderCancels, receiver
<1>3. sent' = sent \/ sent' = "fail" => [Transfer!Next]_Transfer!ftVars
  BY <1>2 DEF Transfer!Next, Transfer!SenderFails, Transfer!ftVars
<1>4. SendAgain => sent' = sent \/ sent' = "fail"
  BY DEF SendAgain, SenderEnds
<1>5. CASE SenderTimeout \/ SenderCancels
  BY <1>3, <1>4, <1>5 DEF SenderTimeout, SenderCancels, SenderEnds
<1>6. CASE SenderTakes
  <2>1. CASE Head(toS).type # "E" /\ Acknowledges(Head(toS)) /\ Advance
    <3>1. pos = k
      BY <1>1, <1>2, <1>6, <2>1, AckedIsTaken DEF SenderTakes
    <3>2. CASE pos = Last
      <4>1. received = "ok" /\ sent' = "ok"
        BY <1>1, <2>1, <3>1, <3>2 DEF Taken, Advance, SenderEnds
      <4>2. QED
        BY <1>2, <4>1 DEF Transfer!Next, Transfer!SenderSucceeds
    <3>3. CASE pos # Last
      BY <1>3, <2>1, <3>3 DEF Advance
    <3>4. QED
      BY <3>2, <3>3
  <2>2. CASE ~(Head(toS).type # "E" /\ Acknowledges(Head(toS)) /\ Advance)
    <3>1. sent' = sent \/ sent' = "fail"
      BY <1>4, <1>6, <2>2 DEF SenderTakes, SenderEnds, sender
    <3>2. QED
      BY <1>3, <3>1
  <2>3. QED
    BY <2>1, <2>2
<1>7. QED
  BY <1>5, <1>6

\* The receiver stores the next piece, or reports once.
LEMMA ReceiverStepMaps ==
  ASSUME KInv,
         ReceiverStarts \/ ReceiverTakes \/ ReceiverTimeout \/ ReceiverCancels
           \/ Lingers \/ LingerEnds
  PROVE  [Transfer!Next]_Transfer!ftVars
<1>1. PICK k \in 0..Last : Taken(k) /\ InFlight(k)
  BY DEF KInv
<1>2. TypeOK /\ sent' = sent
  BY DEF KInv, sender, ReceiverStarts, ReceiverTakes, ReceiverTimeout, ReceiverCancels,
         Lingers, LingerEnds
<1>3. recv = "wait" => received = "none"
  BY <1>1 DEF Taken
<1>4. UNCHANGED <<chunks, received>> => [Transfer!Next]_Transfer!ftVars
  BY <1>2 DEF Transfer!ftVars
<1>5. recv = "wait" /\ ReceiverFails => [Transfer!Next]_Transfer!ftVars
  BY <1>2, <1>3 DEF ReceiverFails, Transfer!Next, Transfer!ReceiverFails
<1>6. CASE ReceiverStarts \/ ReceiverTimeout \/ ReceiverCancels \/ Lingers \/ LingerEnds
  BY <1>4, <1>5, <1>6
  DEF ReceiverStarts, ReceiverTimeout, ReceiverCancels, Lingers, LingerEnds, receiver
<1>7. CASE ReceiverTakes
  <2> DEFINE p == Head(toR)
  <2>1. recv = "wait" /\ toR # <<>>
    BY <1>7 DEF ReceiverTakes
  <2>2. CASE p.type # "E" /\ ~IsRepeat(p) /\ p.seq = expected /\ TakeExpected(p)
    <3>1. k + 1 \in 1..Last /\ p.type = TypeAt(k + 1) /\ p.body = BodyAt(k + 1)
      BY <1>1, <1>2, <2>1, <2>2, ExpectedIsNext
    <3>2. k \in Nat /\ Pieces \in Nat /\ Last = Pieces + 5
      BY Constant
    <3>3. CASE TakeData(p)
      <4>1. k \in 3..Pieces + 2
        BY <3>1, <3>2, <3>3, TypesAndBodies DEF TakeData
      <4>2. p.body = (k + 1) - 3
        BY <3>1, <3>2, <4>1, TypesAndBodies
      <4>3. Len(chunks) = k - 3
        BY <1>1, <3>2, <4>1 DEF Taken
      <4>4. Len(chunks) < Pieces /\ p.body = Len(chunks) + 1
        BY <3>2, <4>1, <4>2, <4>3
      <4>5. chunks' = Append(chunks, Len(chunks) + 1) /\ received' = received
        BY <3>3, <4>4 DEF TakeData
      <4>6. QED
        BY <1>2, <1>3, <2>1, <4>4, <4>5 DEF Transfer!Next, Transfer!Store
    <3>4. CASE TakeBreak(p)
      <4>1. k = Last - 1
        BY <3>1, <3>2, <3>4, TypesAndBodies DEF TakeBreak
      <4>2. gotEof = TRUE /\ size = Pieces /\ Len(chunks) = Pieces
        BY <1>1, <3>2, <4>1 DEF Taken
      <4>3. received' = "ok" /\ chunks' = chunks
        BY <3>4, <4>2 DEF TakeBreak
      <4>4. QED
        BY <1>2, <1>3, <2>1, <4>2, <4>3 DEF Transfer!Next, Transfer!ReceiverSucceeds
    <3>5. CASE TakeInit(p) \/ TakeName(p) \/ TakeAttributes(p) \/ TakeEof(p)
      BY <1>4, <3>5 DEF TakeInit, TakeName, TakeAttributes, TakeEof
    <3>6. QED
      BY <2>2, <3>3, <3>4, <3>5 DEF TakeExpected
  <2>3. CASE UNCHANGED receiver
    BY <1>4, <2>3 DEF receiver
  <2>4. CASE ReceiverFails
    BY <1>5, <2>1, <2>4
  <2>5. QED
    BY <1>7, <2>2, <2>3, <2>4 DEF ReceiverTakes
<1>8. QED
  BY <1>6, <1>7

\* The transfer keeps its promise whatever the link loses or damages: pieces are
\* stored in order and once, the receiver reports success only with the whole file
\* and the sender only after it (KermitSender and KermitReceiver of kermit.js).
THEOREM TransferImplemented == Spec => ImplementsTransfer
<1>1. Init => Transfer!Init
  BY DEF Init, Transfer!Init
<1>2. KInv /\ [Next]_vars => [Transfer!Next]_Transfer!ftVars
  <2>1. UNCHANGED vars => [Transfer!Next]_Transfer!ftVars
    BY DEF vars, sender, receiver, Transfer!ftVars
  <2>2. Line => [Transfer!Next]_Transfer!ftVars
    BY DEF Line, NobodyListens, LoseFrame, DamageFrame, BridgeOff, sender, receiver, Transfer!ftVars
  <2>3. QED
    BY <2>1, <2>2, SenderStepMaps, ReceiverStepMaps DEF Next, SenderRuns, ReceiverRuns, Cancels
<1>3. QED
  BY <1>1, <1>2, KermitInvariant, PTL DEF Spec, ImplementsTransfer, Transfer!Spec
=============================================================================
