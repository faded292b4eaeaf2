---------------------------- MODULE FileTransfer ----------------------------
(***************************************************************************)
(* What a file transfer promises, whatever the link does.                  *)
(*                                                                         *)
(* The receiver stores the file's pieces in order, each once.  It reports  *)
(* success only with the whole file, and the sender only after it.  Either *)
(* may fail, the sender even when the receiver has the file: the last      *)
(* acknowledgement cannot itself be acknowledged.                          *)
(***************************************************************************)
EXTENDS Naturals, Sequences

CONSTANT Pieces   \* the pieces the file is sent in

VARIABLES stored, sent, received   \* pieces stored; the two reports

ftVars == <<stored, sent, received>>

Init == stored = <<>> /\ sent = "none" /\ received = "none"

Store ==
  /\ received = "none"
  /\ Len(stored) < Pieces
  /\ stored' = Append(stored, Len(stored) + 1)
  /\ UNCHANGED <<sent, received>>

ReceiverSucceeds ==
  /\ received = "none"
  /\ Len(stored) = Pieces
  /\ received' = "ok"
  /\ UNCHANGED <<stored, sent>>

ReceiverFails ==
  /\ received = "none"
  /\ received' = "fail"
  /\ UNCHANGED <<stored, sent>>

SenderSucceeds ==
  /\ sent = "none"
  /\ received = "ok"
  /\ sent' = "ok"
  /\ UNCHANGED <<stored, received>>

SenderFails ==
  /\ sent = "none"
  /\ sent' = "fail"
  /\ UNCHANGED <<stored, received>>

Next == Store \/ ReceiverSucceeds \/ ReceiverFails \/ SenderSucceeds \/ SenderFails

Spec == Init /\ [][Next]_ftVars
=============================================================================
