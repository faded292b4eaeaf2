--------------------------- MODULE MessageService ---------------------------
(***************************************************************************)
(* What two boards promise their users, whatever the radio does.           *)
(*                                                                         *)
(* Every board hands packets to its LoRa stack in order.  Each packet is   *)
(* delivered to the peer at most once and never after a later packet of    *)
(* the same board, and the sender is told how each one ended, in order.    *)
(* "ok" is only ever said of a packet the peer did accept; "fail" promises *)
(* nothing (the packet may have been delivered, only its ACK lost);        *)
(* "sent" is the answer for a packet nobody acknowledges.                  *)
(***************************************************************************)
EXTENDS Naturals, Sequences

CONSTANTS
  Node,      \* the boards
  Workload   \* for each board, the packets it will send, in order: records
             \* whose field "to" is the set of boards that may accept it

VARIABLES
  submitted,   \* packets each board has queued for transmission
  taken,       \* packets each board has begun to send
  delivered,   \* packets each board has accepted, in order
  result       \* how each board's packets ended, in order

vars == <<submitted, taken, delivered, result>>

Init ==
  /\ submitted = [n \in Node |-> 0]
  /\ taken     = [n \in Node |-> 0]
  /\ delivered = [n \in Node |-> <<>>]
  /\ result    = [n \in Node |-> <<>>]

Submit(n) ==
  /\ submitted[n] < Len(Workload[n])
  /\ submitted' = [submitted EXCEPT ![n] = @ + 1]
  /\ UNCHANGED <<taken, delivered, result>>

\* A board begins a packet once the one before it has ended.
Begin(n) ==
  /\ taken[n] < submitted[n]
  /\ Len(result[n]) = taken[n]
  /\ taken' = [taken EXCEPT ![n] = @ + 1]
  /\ UNCHANGED <<submitted, delivered, result>>

\* Board m accepts a packet its sender has begun, once and in order.
Deliver(m, p) ==
  /\ m \in Workload[p.src][p.num].to
  /\ p.num <= taken[p.src]
  /\ \A i \in DOMAIN delivered[m] :
       delivered[m][i].src = p.src => delivered[m][i].num < p.num
  /\ delivered' = [delivered EXCEPT ![m] = Append(@, p)]
  /\ UNCHANGED <<submitted, taken, result>>

Report(n, r) ==
  /\ Len(result[n]) < taken[n]
  /\ r = "ok" => \E m \in Node : \E i \in DOMAIN delivered[m] :
                   delivered[m][i] = [src |-> n, num |-> taken[n]]
  /\ result' = [result EXCEPT ![n] = Append(@, r)]
  /\ UNCHANGED <<submitted, taken, delivered>>

Packet == UNION {{[src |-> n, num |-> i] : i \in DOMAIN Workload[n]} : n \in Node}

Next ==
  \/ \E n \in Node : Submit(n) \/ Begin(n)
  \/ \E m \in Node, p \in Packet : Deliver(m, p)
  \/ \E n \in Node, r \in {"ok", "fail", "sent"} : Report(n, r)

Spec == Init /\ [][Next]_vars
=============================================================================
