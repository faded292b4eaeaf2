------------------------------ MODULE RxDedup ------------------------------
(***************************************************************************)
(* The receiver's duplicate filter, RxDedupMulti of src/src/lora/          *)
(* lora_proto.h: a small table with the last accepted sequence number of   *)
(* each source.  A source is a key (a hash of the sender's MAC for a chat  *)
(* message, of its node id for a network packet).  An entry ages: it only  *)
(* marks a frame as a duplicate while fewer than DEDUP_WINDOW packets, of  *)
(* any source, have been accepted since it was written.                    *)
(*                                                                         *)
(* The table is a value, not a variable: the modules that receive frames   *)
(* keep one per board.                                                     *)
(***************************************************************************)
EXTENDS Naturals

CONSTANTS
  DEDUP_SLOTS,   \* entries of the table (4 in the source)
  DEDUP_WINDOW   \* accepted packets an entry stays valid for (16)

ASSUME DedupAssumption ==
  /\ DEDUP_SLOTS \in Nat \ {0}
  /\ DEDUP_WINDOW \in Nat \ {0}

Slot == 1..DEDUP_SLOTS

Entry(Keys, Seqs) == [used : BOOLEAN, key : Keys \cup {<<>>}, seq : Seqs, at : Nat]
Table(Keys, Seqs) == [entries  : [Slot -> Entry(Keys, Seqs)],
                      lru      : Slot,
                      accepted : Nat]

\* RxDedupEntry with its default member values; key 0 is what no hash yields.
UnusedEntry == [used |-> FALSE, key |-> <<>>, seq |-> 0, at |-> 0]

\* RxDedupMulti as the RX task starts with it.
EmptyDedup == [entries  |-> [i \in Slot |-> UnusedEntry],
               lru      |-> 1,
               accepted |-> 0]

Holds(d, i, key) == d.entries[i].used /\ d.entries[i].key = key

\* Mutant: the window is one packet short.
ShortWindow(d, key, seq) ==
  \E i \in Slot : /\ Holds(d, i, key)
                  /\ d.entries[i].seq = seq
                  /\ d.accepted - d.entries[i].at < DEDUP_WINDOW - 1

\* rx_is_duplicate_multi: the frame repeats the last accepted packet of its
\* source, and that acceptance is recent.  Changes nothing.
IsDuplicate(d, key, seq) ==
  \E i \in Slot : /\ Holds(d, i, key)
                  /\ d.entries[i].seq = seq
                  /\ d.accepted - d.entries[i].at < DEDUP_WINDOW

Known(d, key) == \E i \in Slot : Holds(d, i, key)
Full(d) == \A i \in Slot : d.entries[i].used

\* rx_dedup_find: the source's slot, else the first unused one, else the one
\* the round-robin pointer names.
SlotFor(d, key) ==
  IF Known(d, key) THEN CHOOSE i \in Slot : Holds(d, i, key)
  ELSE IF Full(d)  THEN d.lru
  ELSE CHOOSE i \in Slot : /\ ~d.entries[i].used
                           /\ \A j \in 1..(i-1) : d.entries[j].used

\* Mutant: an evicted entry keeps the key of its old source.
CommitKeepsKey(d, key, seq) ==
  LET slot    == SlotFor(d, key)
      evicted == ~Known(d, key) /\ Full(d)
  IN  [entries  |-> [d.entries EXCEPT ![slot] =
                       [used |-> TRUE, key |-> IF evicted THEN @.key ELSE key,
                        seq |-> seq, at |-> d.accepted]],
       lru      |-> IF evicted THEN (d.lru % DEDUP_SLOTS) + 1 ELSE d.lru,
       accepted |-> d.accepted + 1]

\* rx_commit_multi: record the packet that was just queued.  The pointer moves
\* only when an entry is evicted.
Commit(d, key, seq) ==
  LET slot    == SlotFor(d, key)
      evicted == ~Known(d, key) /\ Full(d)
  IN  [entries  |-> [d.entries EXCEPT ![slot] =
                       [used |-> TRUE, key |-> key, seq |-> seq, at |-> d.accepted]],
       lru      |-> IF evicted THEN (d.lru % DEDUP_SLOTS) + 1 ELSE d.lru,
       accepted |-> d.accepted + 1]
=============================================================================
