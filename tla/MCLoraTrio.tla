----------------------------- MODULE MCLoraTrio -----------------------------
(* Three boards; two send, and the third hears more sources than it has slots. *)
EXTENDS LoraLink

CONSTANTS a, b, c

MCNode == {a, b, c}
Chat(n) == [kind |-> "MSG", to |-> MCNode \ {n}]
Net(m) == [kind |-> "NET", to |-> {m}]
NetAll(n) == [kind |-> "BCAST", to |-> MCNode \ {n}]
\* c commits the chat messages of a and of b and the network packet of b: three sources.
MCWorkload == [n \in MCNode |-> CASE n = a -> <<NetAll(a), Chat(a)>>
                                  [] n = b -> <<Chat(b), Net(c)>>
                                  [] n = c -> <<>>]
MCNetOn == {c}
MCSeqBase == [n \in MCNode |-> 0]
\* a and b are out of each other's range: both hear c only.
MCReach == [n \in MCNode |-> IF n = c THEN {a, b} ELSE {c}]
=============================================================================
