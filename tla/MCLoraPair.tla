----------------------------- MODULE MCLoraPair -----------------------------
(* Two boards in range of each other, both sending. *)
EXTENDS LoraLink

CONSTANTS a, b

MCNode == {a, b}
Chat(n) == [kind |-> "MSG", to |-> MCNode \ {n}]
Net(m) == [kind |-> "NET", to |-> {m}]
NetAll(n) == [kind |-> "BCAST", to |-> MCNode \ {n}]
MCWorkload == [n \in MCNode |-> IF n = a THEN <<Chat(a), Net(b)>> ELSE <<Chat(b)>>]
MCSeqBase == [n \in MCNode |-> 0]
\* SEQ_MOD packets after its first chat message, a sends the next one; the
\* packets between are network broadcasts, which b never puts in its table.
WrapWorkload == [n \in MCNode |-> IF n = a THEN <<Chat(a), NetAll(a), NetAll(a), NetAll(a), Chat(a)>>
                                  ELSE <<>>]
MCReach == [n \in MCNode |-> MCNode]
=============================================================================
