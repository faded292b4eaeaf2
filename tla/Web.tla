-------------------------------- MODULE Web ---------------------------------
(***************************************************************************)
(* The web server's login and streams together: one AsyncTCP task runs     *)
(* both the login handlers and the stream callbacks, a stream opens only   *)
(* past StreamGate, and a restart ends everything at once.                 *)
(***************************************************************************)
EXTENDS Login, Sockets

vars == <<loginVars, socketVars>>

Init == LoginInit /\ SocketsInit

\* StreamGate: gate_check claims handshakes that must be refused; a handshake it lets
\* fall through is not asked again.
Handshake ==
  /\ async = Idle /\ LetsIn
  /\ EventsOpen \/ \E c \in Clients : Connect(c)
  /\ UNCHANGED loginVars

AsyncTcp ==
  \/ LoginHandlers /\ UNCHANGED socketVars
  \/ async = Idle /\ SocketCallback /\ UNCHANGED loginVars
  \/ Handshake

Reboot ==
  /\ Restart
  /\ client' = [c \in Clients |-> Gone] /\ events' = FALSE
  /\ rx' = <<>> /\ worker' = <<>> /\ out' = <<>> /\ sending' = "none"
  /\ post' = [t \in Replier \cup EventTask |-> "idle"]
  /\ blocks' = 0 /\ frames' = frames

Next ==
  \/ AsyncTcp \/ Reboot
  \/ FactoryReset /\ UNCHANGED socketVars
  \/ SocketTask /\ UNCHANGED loginVars

Spec == Init /\ [][Next]_vars
=============================================================================
